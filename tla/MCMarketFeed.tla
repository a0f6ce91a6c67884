---------------------------- MODULE MCMarketFeed ----------------------------
(* Price paths that break structure and come back through the blocks.      *)
EXTENDS MarketFeed

Candle(low, high, close) ==
    [low |-> low, high |-> high, close |-> close, wild |-> FALSE, valid |-> TRUE,
     inYear |-> TRUE]

A == Candle(2, 4, 3)
B == Candle(5, 8, 7)
C == Candle(3, 6, 4)
D == Candle(6, 10, 9)
E == Candle(1, 5, 1)
F == Candle(8, 13, 12)
Bad == [A EXCEPT !.valid = FALSE]
NewYear == [B EXCEPT !.inYear = FALSE]

\* The correction of a candle that closed through a block need not close through it.
MCCorrections == {[C EXCEPT !.wild = TRUE]}

\* Two long histories, one with more faults and one with more hours to come, a short
\* one whose blocks form live, and an empty file with an unreadable candle and the turn
\* of the year to come.
MCMarkets ==
    {[onFile |-> 4, faults |-> 2, tape |-> <<A, B, D, C, F, E>>],
     [onFile |-> 4, faults |-> 1, tape |-> <<A, B, D, C, C, F, E>>],
     [onFile |-> 2, faults |-> 1, tape |-> <<A, B, A, D, C, E>>],
     [onFile |-> 0, faults |-> 2, tape |-> <<A, Bad, B, NewYear>>]}

\* Every mix of two files is looked at, and none is followed.
Followed == ~holes.mixed

=============================================================================
