-------------------------- MODULE MCTradeRecovery ---------------------------
(***************************************************************************)
(* Instances of TradeRecovery for TLC: the strategy runtime, and run() of  *)
(* the private stream, which handles events and reconciles.                *)
(***************************************************************************)
EXTENDS TradeRecovery, TLC

CONSTANTS runtime, private

RecoveryDuties == (runtime :> {"execute", "expire"})
               @@ (private :> {"stream", "reconcile"})

=============================================================================
