---------------------------- MODULE MCOrderPaths ----------------------------
(* Three calls: two of one setup, two under one client order id.            *)
EXTENDS OrderPaths

CONSTANTS t1, t2, t3, s1, s2, i1, i2

MCSetupOf(t) == IF t = t3 THEN s2 ELSE s1
MCIdOf(t) == IF t = t2 THEN i2 ELSE i1

Order(side, entry, stop, target, size, leverage) ==
    [type |-> "LIMIT", symbol |-> "listed", side |-> side, entry |-> entry,
     stop |-> stop, target |-> target, size |-> size, leverage |-> leverage,
     reduceOnly |-> FALSE]

\* One sound order of each side and, for every check, one that fails it; a sound
\* stop and two reduce-only ones, of which one lacks its level.
MCRequests ==
    LET long == Order("LONG", 20, 18, 23, 2, 10)
    IN  {long, Order("SHORT", 20, 22, 17, 1, 10),
         [long EXCEPT !.size = 0], [long EXCEPT !.size = 9],
         [long EXCEPT !.size = 4, !.leverage = 1],
         [long EXCEPT !.leverage = 0], [long EXCEPT !.leverage = 101],
         [long EXCEPT !.stop = 0], [long EXCEPT !.stop = 21],
         [long EXCEPT !.target = 22], [long EXCEPT !.entry = 0],
         [long EXCEPT !.symbol = "unlisted"], Order("NEITHER", 20, 22, 17, 1, 10),
         [long EXCEPT !.type = "STOP_LIMIT"], [long EXCEPT !.type = "OTHER"],
         [long EXCEPT !.type = "STOP_MARKET", !.reduceOnly = TRUE, !.entry = 0],
         [long EXCEPT !.type = "STOP_MARKET", !.reduceOnly = TRUE, !.stop = 0]}

\* An account on which the session path has met a known hole is not followed on.
Followed == path = "service" \/ holes = {}

\* The allocation is the most contracts the used balance carries at the mark.
ASSUME \A balance \in 0..12, mark \in 0..4, leverage \in {0, 1, 3, 100, 101},
         buffer \in {0, 50, 98, 100}, unit \in 1..2 :
    LET q == Allocation(balance, mark, leverage, buffer, unit)
        fits(n) == 100 * n * mark * unit <= balance * buffer * leverage
    IN  IF mark = 0 \/ leverage \in {0, 101} \/ buffer = 0 THEN q = 0
        ELSE fits(q) /\ ~fits(q + 1)

=============================================================================
