------------------------- MODULE MCInferenceService -------------------------
(* Small instances of InferenceService. *)
EXTENDS InferenceService, TLC
CONSTANTS n1, u1, r1, r2, d1

\* two requests of one user, who can run into debt with the first, and a deposit
UserOfRequest == (r1 :> u1) @@ (r2 :> u1)
CostOfRequest == (r1 :> 3) @@ (r2 :> 1)
DepositOfUser == (d1 :> u1)
AmountOf == (d1 :> 2)
EstimatesOf == {1, -9}
=============================================================================
