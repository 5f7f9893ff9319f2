---------------------------- MODULE MCLeaveLedger ----------------------------
(* Instances of LeaveLedger for TLC: see the .cfg files that name this module. *)
EXTENDS LeaveReads, TLC

CONSTANTS e1, e2, e3, u1, u2, hr, annual, sick, r1, r2, k1

(* e3, the HR administrator, supervises e1, and e2 supervises e3. *)
LinkedUsers == u1 :> e1 @@ u2 :> e2 @@ hr :> e3
LinkedUsersOne == u1 :> e1 @@ hr :> NoEmployee
ReportsTo(x) == [supervisor |-> x, active |-> TRUE]
Supervised == e1 :> ReportsTo(e3) @@ e2 :> ReportsTo(NoEmployee) @@ e3 :> ReportsTo(e2)
Jobs == {ReportsTo(e2), ReportsTo(NoEmployee), [supervisor |-> NoEmployee, active |-> FALSE]}
Unsupervised == e1 :> ReportsTo(NoEmployee)
JobsOne == {ReportsTo(NoEmployee), [supervisor |-> NoEmployee, active |-> FALSE]}
OneReorganisation == {[employee |-> e1, from |-> 1, to |-> LastDay, job |-> ReportsTo(e2)],
                      [employee |-> e1, from |-> 2, to |-> LastDay,
                       job |-> [supervisor |-> NoEmployee, active |-> FALSE]]}

Type(active, levels, notice, backdated, maxDays) ==
  [active |-> active, levels |-> levels, notice |-> notice, backdated |-> backdated, maxDays |-> maxDays]
OneLevel == Type(TRUE, 1, 0, FALSE, 0)
TwoLevels == Type(TRUE, 2, 0, FALSE, 0)
Restricted == Type(TRUE, 1, 1, FALSE, 1)

TwoLevelTypes == [t \in LeaveType |-> TwoLevels]
OneLevelTypes == [t \in LeaveType |-> OneLevel]

SymmetricRequests == Permutations({r1, r2})

(* approvals: two levels become one, with notice and at most one day, under pending requests *)
LevelChanges == {Restricted}

Fixed == {[days |-> 3, cap |-> 0, expiry |-> 0]}
(* carry-over: two days a year, at most two carried over, expiring on the second day *)
Capped == {[days |-> 2, cap |-> 2, expiry |-> 1], [days |-> 1, cap |-> 0, expiry |-> 0]}
=============================================================================
