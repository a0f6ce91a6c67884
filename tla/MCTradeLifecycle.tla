-------------------------- MODULE MCTradeLifecycle --------------------------
(***************************************************************************)
(* Instances of TradeLifecycle for TLC: which coroutine calls what.        *)
(***************************************************************************)
EXTENDS TradeLifecycle, TLC

CONSTANTS runtime, private, operator

\* The strategy runtime admits and expires entries; the private stream
\* delivers events.
TradingDuties == (runtime :> {"execute", "expire"}) @@ (private :> {"stream"})

\* One coroutine that does everything but reconcile: no two calls overlap.
BracketDuties ==
    runtime :> {"execute", "stream", "integrity", "expire", "kill", "operator"}

\* No private event ever arrives: reconciliation alone finds the fills.
RecoveryDuties == runtime :> {"execute", "expire", "reconcile"}

\* An operator's kill switch against submissions, events and reconciliations in flight.
HaltDuties == (runtime :> {"execute", "expire", "operator"}) @@ (private :> {"stream", "reconcile"})
              @@ (operator :> {"kill"})
KillDuties == (runtime :> {"execute"}) @@ (operator :> {"kill"})

\* A trade that is entered, protected and closed by the exchange.
ExitDuties == (runtime :> {"execute"}) @@ (private :> {"stream"})

SetupSymmetry == Permutations(Setups)

=============================================================================
