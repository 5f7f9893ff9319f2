------------------------------- MODULE MCLeaveTx -------------------------------
(* Instances of LeaveTx for TLC: see the .cfg files that name this module. *)
EXTENDS LeaveTx, TLC

CONSTANTS e1, e2, u1, u2, hr, annual, sick, r1, r2, r3, k1, c1, c2, c3

(* e2 supervises e1; hr has no employee profile. *)
LinkedUsers == u1 :> e1 @@ u2 :> e2 @@ hr :> NoEmployee
ReportsTo(x) == [supervisor |-> x, active |-> TRUE]
Supervised == e1 :> ReportsTo(e2) @@ e2 :> ReportsTo(NoEmployee)
Jobs == {ReportsTo(e2), ReportsTo(NoEmployee)}

Levels(n) == [active |-> TRUE, levels |-> n, notice |-> 0, backdated |-> FALSE, maxDays |-> 0]
Types == {Levels(1), Levels(2)}

(* Two days a year: enough for two requests of a day, or one and a correction. *)
TwoDays == [days |-> 2, cap |-> 0, expiry |-> 0]
Policies == {TwoDays}
Corrections == {-1}

Ask(kind, u, r, e, t, s, f, k) ==
  [kind |-> kind, user |-> u, request |-> r, employee |-> e, type |-> t, start |-> s, end |-> f,
   key |-> k, delta |-> -1, policy |-> TwoDays]
Submission(r, t, s, f, k) == Ask("submit", u1, r, e1, t, s, f, k)
Decision(kind, u, r) == Ask(kind, u, r, e1, annual, 1, 1, NoKey)
Correction == Ask("adjust", hr, r1, e1, annual, 1, 1, NoKey)

MixedTypes == annual :> Levels(2) @@ sick :> Levels(1)

(* The same days or the same key asked for twice, with and without a balance, and one *)
(* request approved, rejected and cancelled by several people beside a correction.    *)
Calls == {Submission(r1, annual, 2, 2, k1), Submission(r2, annual, 2, 2, NoKey),
          Submission(r2, sick, 2, 2, k1), Submission(r3, sick, 2, 3, NoKey), Correction,
          Decision("approve", hr, r1), Decision("reject", u2, r1), Decision("cancel", u1, r1)}
=============================================================================
