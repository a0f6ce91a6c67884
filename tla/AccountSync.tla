---------------------------- MODULE AccountSync ----------------------------
(***************************************************************************)
(* The engine's local picture of an account, LocalStateStore, and what     *)
(* LiveAccountSyncService (synchronizer.py) makes of it when it compares   *)
(* it with Delta Exchange over REST.                                       *)
(*                                                                         *)
(* Every REST read is one step: the exchange moves between two reads of    *)
(* one pass, so what a pass compares was never true at one moment.  The    *)
(* trades of one symbol follow one another, each with one entry order:     *)
(* entries rest OPEN, protective stops rest PENDING and close the position *)
(* when they trigger.                                                      *)
(***************************************************************************)
EXTENDS Naturals, FiniteSets

CONSTANTS
    Entries,     \* ids of the entry orders, one for each trade
    Stops,       \* ids of the protective stop orders
    Qty,         \* contracts of an entry
    RestFails    \* may a REST read fail?

\* The single-trade lock is free.
Free == "free"

ASSUME AccountAssumption ==
    /\ Qty \in Nat \ {0}
    /\ RestFails \in BOOLEAN
    /\ Entries \cap Stops = {}
    /\ Free \notin Entries

VARIABLES
    xo,      \* exchange: the orders
    xp,      \* exchange: the size of the position
    so,      \* LocalStateStore.orders
    sp,      \* LocalStateStore.positions: size, 0 when there is no record
    lock     \* the account's single-trade lock: the trade that holds it, or Free

accountVars == <<xo, xp, so, sp, lock>>

-----------------------------------------------------------------------------
(* Types *)

OrderIds == Entries \cup Stops
Sizes == 0..Qty
Finished == {"FILLED", "CANCELLED"}
Live == {"OPEN", "PENDING", "PARTIALLY_FILLED"}
Statuses == {"none"} \cup Finished \cup Live
Order == [status: Statuses, filled: Sizes]
NoOrder == [status |-> "none", filled |-> 0]

AccountTypeOK ==
    /\ xo \in [OrderIds -> Order]
    /\ xp \in Sizes
    /\ so \in [OrderIds -> Order]
    /\ sp \in Sizes
    /\ lock \in Entries \cup {Free}

AccountInit ==
    /\ xo = [o \in OrderIds |-> NoOrder]
    /\ xp = 0
    /\ so = [o \in OrderIds |-> NoOrder]
    /\ sp = 0
    /\ lock = Free

-----------------------------------------------------------------------------
(* The exchange: what it may do next, and the private frames it announces  *)
(* that with, in the order of their channels' publication.                 *)

OrderFrame(o, ord) ==
    [ch |-> "orders", id |-> o, status |-> ord.status, n |-> ord.filled,
     deletes |-> ord.status \in Finished]
TradeFrame(o, ord) ==
    [ch |-> "user_trades", id |-> o, status |-> "none", n |-> ord.filled,
     deletes |-> FALSE]
\* A deleted position is announced with its last known size.
PositionFrame(old, new) ==
    [ch |-> "positions", id |-> "position", status |-> "none",
     n |-> IF new = 0 THEN old ELSE new, deletes |-> new = 0]

\* Order o becomes ord and the position pos; the channels chs announce it.
Move(o, ord, pos, chs) ==
    [xo |-> [xo EXCEPT ![o] = ord], xp |-> pos,
     frames |-> [c \in chs |->
                    IF c = "orders" THEN OrderFrame(o, ord)
                    ELSE IF c = "user_trades" THEN TradeFrame(o, ord)
                    ELSE PositionFrame(xp, pos)]]

Placed ==
    {Move(o, [status |-> "OPEN", filled |-> 0], xp, {"orders"}) :
        o \in {e \in Entries : lock = e /\ xo[e].status = "none"}}
    \cup
    {Move(o, [status |-> "PENDING", filled |-> 0], xp, {"orders"}) :
        o \in {s \in Stops : xp > 0 /\ xo[s].status = "none"}}

Channels == {"orders", "user_trades", "positions"}

Executed ==
    {Move(p[1],
          [status |-> IF p[2] = Qty THEN "FILLED" ELSE "PARTIALLY_FILLED",
           filled |-> p[2]],
          xp + (p[2] - xo[p[1]].filled), Channels) :
        p \in {q \in Entries \X (1..Qty) :
                  xo[q[1]].status \in Live /\ q[2] > xo[q[1]].filled}}
    \cup
    {Move(o, [status |-> "FILLED", filled |-> xp], 0, Channels) :
        o \in {s \in Stops : xo[s].status = "PENDING" /\ xp > 0}}

Ended ==
    {Move(o, [xo[o] EXCEPT !.status = "CANCELLED"], xp, {"orders"}) :
        o \in {e \in OrderIds : xo[e].status \in Live}}
    \cup
    {[xo |-> xo, xp |-> 0, frames |-> [c \in {"positions"} |-> PositionFrame(p, 0)]] :
        p \in {xp} \ {0}}

Moves == Placed \cup Executed \cup Ended

\* MUTANT of ListedStates
StopsOnly == {"PENDING"}

\* What GET /v2/orders reports: orders that are open or pending.
ListedStates == Live
OpenOrders ==
    [o \in OrderIds |-> IF xo[o].status \in ListedStates THEN xo[o] ELSE NoOrder]

-----------------------------------------------------------------------------
(* LiveAccountSyncService._do_sync, once the answers are there *)

\* The exchange's positions replace the local ones; one it does not report is closed.
ReconciledPosition(pos) == pos

\* An order held OPEN that the exchange does not list has left the book.
VanishedFromBook(o, listed) ==
    /\ so[o].status \in {"OPEN", "PARTIALLY_FILLED"}
    /\ listed[o].status = "none"

\* How it left is inferred from the fills known locally.
InferredEnd(o) ==
    [so[o] EXCEPT !.status = IF so[o].filled >= Qty THEN "FILLED" ELSE "CANCELLED"]

ReconciledOrders(listed) ==
    [o \in OrderIds |->
        IF listed[o].status # "none" THEN listed[o]
        ELSE IF VanishedFromBook(o, listed) THEN InferredEnd(o)
        ELSE so[o]]

-----------------------------------------------------------------------------
(* The single-trade lock, as the lifecycle manager uses it *)

\* A setup is admitted; its entry is submitted afterwards.
Admit ==
    /\ lock = Free
    /\ \E e \in Entries : xo[e].status = "none" /\ lock' = e
    /\ UNCHANGED <<xo, xp, so, sp>>

\* The trade is confirmed closed.
Finish ==
    /\ lock \in Entries
    /\ xp = 0
    /\ xo[lock].status \in Finished
    /\ \A o \in OrderIds : xo[o].status \notin Live
    /\ lock' = Free
    /\ UNCHANGED <<xo, xp, so, sp>>

-----------------------------------------------------------------------------
(* Properties *)

\* Inference from absence (synchronizer.py, "no longer open on exchange") never
\* finishes an order that is still live: whatever frames were lost, replayed or
\* late, an order the store holds as FILLED or CANCELLED has ended on Delta.
FinishedOrdersHaveEnded ==
    \A o \in OrderIds : so[o].status \in Finished => xo[o].status \in Finished

=============================================================================
