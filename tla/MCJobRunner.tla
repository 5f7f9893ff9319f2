------------------------------ MODULE MCJobRunner ------------------------------
(* Instances of JobRunner for TLC. *)
EXTENDS JobRunner

CONSTANTS r1, r2, c1, c2, w1, w2, accrual

OneJob == [r \in Run |-> accrual]
=============================================================================
