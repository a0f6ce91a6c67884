------------------------------ MODULE TradeSlot ------------------------------
(***************************************************************************)
(* What the portfolio-wide single-trade slot promises (the module header   *)
(* of engine/src/quantedge/execution/single_trade_lock.py): a setup may    *)
(* have something live on the exchange only while it holds the slot, and   *)
(* the slot is given back only when nothing of the holder is live any      *)
(* more.  How the lifecycle manager comes to know that is left to          *)
(* TradeLifecycle, which implements this module.                           *)
(***************************************************************************)
CONSTANTS Setups,   \* strategy setup ids
          NoOne     \* the slot is free

VARIABLES holder,   \* the setup holding the slot
          live      \* setups with a live entry order or a position

slotVars == <<holder, live>>

SlotInit == holder = NoOne /\ live = {}

Claim(s) ==
    /\ holder = NoOne
    /\ holder' = s
    /\ UNCHANGED live

\* The exchange accepts an order of the holder.
GoLive(s) ==
    /\ holder = s
    /\ live' = live \cup {s}
    /\ UNCHANGED holder

\* The order is dead and the position, if any, is flat.
Die(s) ==
    /\ live' = live \ {s}
    /\ UNCHANGED holder

Free ==
    /\ live = {}
    /\ holder' = NoOne
    /\ UNCHANGED live

SlotNext == Free \/ \E s \in Setups : Claim(s) \/ GoLive(s) \/ Die(s)

SlotSpec == SlotInit /\ [][SlotNext]_slotVars

\* The consequence for the portfolio: never two trades on the exchange.
OneTrade == \A r, s \in live : r = s

=============================================================================
