---------------------------- MODULE MCDurableSaga ----------------------------
(* Instances of DurableSaga for TLC: two requests, one of them too large to  *)
(* be granted once the other holds its stock.                                *)
EXTENDS DurableSaga, TLC

CONSTANTS small, large

MCRequests == {small, large}
MCQuantity == (small :> 1) @@ (large :> 2)
MCCents    == (small :> 3) @@ (large :> 5)

SagaSymmetry == Permutations(Sagas) \cup Permutations(Drivers)
=============================================================================
