------------------------------ MODULE MCRunBudget ------------------------------
(* Two model calls, one without a bound on its output.                        *)
EXTENDS RunBudget, TLC

CONSTANTS bounded, unbounded

MCWish == bounded :> 1 @@ unbounded :> 0
=============================================================================
