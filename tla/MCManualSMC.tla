---------------------------- MODULE MCManualSMC -----------------------------
EXTENDS ManualSMC, TLC

CONSTANTS btc, eth, s1, l1, s2

MCAssetOf == (s1 :> btc) @@ (l1 :> btc) @@ (s2 :> eth)

\* Blocks at 1000; the grid of the second pair is too coarse for its bracket.
ZoneOf(direction, top, bottom, tick) ==
    [direction |-> direction, top |-> top, bottom |-> bottom, tick |-> tick]
MCZone == (s1 :> ZoneOf("SHORT", 1003, 999, 2))
       @@ (l1 :> ZoneOf("LONG", 1001, 997, 2))
       @@ (s2 :> ZoneOf("SHORT", 1003, 999, 4))
=============================================================================
