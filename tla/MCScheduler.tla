----------------------------- MODULE MCScheduler -----------------------------
(* Instances of Scheduler for TLC. *)
EXTENDS Scheduler, TLC

CONSTANTS accrual, expiry, k1, c1, c2

Op(kind, j, k, d, active) == [kind |-> kind, job |-> j, key |-> k, period |-> d, active |-> active]

(* Two creates with one key, or one of them against a retry, a cancel or a changed schedule. *)
Create == Op("create", accrual, k1, 0, TRUE)
Requests == c1 :> {Create} @@
            c2 :> {Create, Op("retry", accrual, NoKey, 0, TRUE),
                   Op("cancel", accrual, NoKey, 0, TRUE), Op("update", accrual, NoKey, 2, TRUE),
                   Op("update", accrual, NoKey, 0, FALSE)}
=============================================================================
