------------------------------ MODULE OBBracket -----------------------------
(***************************************************************************)
(* The bracket of a Manual SMC order block: the prices its geometry gives, *)
(* the leverage its stop allows, and the legs as they are put on the       *)
(* exchange's price grid.                                                  *)
(*                                                                         *)
(* Prices are counted in 4000ths, in which the entry (a quarter into the   *)
(* block) and the take profit (0.6 per cent away from it) are whole        *)
(* numbers.  The code computes the raw prices in floating point and the    *)
(* legs in exact decimals.                                                 *)
(***************************************************************************)
EXTENDS Integers

Directions == {"LONG", "SHORT"}
Roles      == {"ENTRY", "STOP_LOSS", "TAKE_PROFIT"}
RiskBudget == 35           \* max_sl_account_risk_pct
Cap        == 100          \* applied_leverage_cap
Grain      == 4000

\* An order block with the tick size of its pair.
Zones == {z \in [direction: Directions, top: Nat, bottom: Nat, tick: Nat \ {0}] :
              0 < z.bottom /\ z.bottom < z.top}

\* _make_manual_ob: entry a quarter in from the near edge, stop at the far edge.
Raw(z) ==
    LET near == IF z.direction = "SHORT" THEN z.bottom ELSE z.top
        far  == IF z.direction = "SHORT" THEN z.top ELSE z.bottom
        quarters == 3 * near + far
    IN  [ENTRY |-> 1000 * quarters,
         STOP_LOSS |-> Grain * far,
         TAKE_PROFIT |-> quarters * (IF z.direction = "SHORT" THEN 994 ELSE 1006)]

Distance(p, q) == IF p >= q THEN p - q ELSE q - p

\* The leverage at which the stop costs the risk budget, capped, and rounded down
\* for the decision (compute_leverage, represent_leverage).
CalculatedLeverage(z) ==
    LET allowed == (RiskBudget * Raw(z).ENTRY)
                       \div (100 * Distance(Raw(z).ENTRY, Raw(z).STOP_LOSS))
    IN  IF allowed > Cap THEN Cap ELSE allowed

\* quantize_price.
Quantize(price, tick, rounding) ==
    LET units == price \div tick
    IN  tick * (IF price % tick # 0 /\ rounding = "UP" THEN units + 1 ELSE units)

\* Mutant: every leg rounds away from the entry.
OutwardRounding(role, direction) ==
    IF (direction = "LONG") <=> (role = "STOP_LOSS") THEN "DOWN" ELSE "UP"

\* conservative_rounding: the entry away from profit, the exits toward the entry.
Rounding(role, direction) ==
    IF (direction = "LONG") <=> (role = "STOP_LOSS") THEN "UP" ELSE "DOWN"

\* quantize_bracket.
Legs(z) == [r \in Roles |->
               Quantize(Raw(z)[r], Grain * z.tick, Rounding(r, z.direction))]
Ordered(z) ==
    LET leg == Legs(z)
    IN  IF z.direction = "LONG"
        THEN leg.TAKE_PROFIT > leg.ENTRY /\ leg.ENTRY > leg.STOP_LOSS
        ELSE leg.TAKE_PROFIT < leg.ENTRY /\ leg.ENTRY < leg.STOP_LOSS

\* It can be sent: no leg rounds to nothing, the legs keep their order, and the
\* leverage is a whole number of at least one.
Sendable(z) == /\ \A r \in Roles : Legs(z)[r] > 0
               /\ Ordered(z)
               /\ CalculatedLeverage(z) >= 1

\* At its leverage, the bracket that is sent loses no more than the risk budget
\* when its stop is hit.
WithinBudget(z) ==
    CalculatedLeverage(z) * 100 * Distance(Legs(z).ENTRY, Legs(z).STOP_LOSS)
        <= RiskBudget * Legs(z).ENTRY
=============================================================================
