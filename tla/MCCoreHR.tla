------------------------------ MODULE MCCoreHR ------------------------------
(* Instances of CoreHR for TLC. *)
EXTENDS CoreReads, TLC

CONSTANTS head, sales, west, new, ann, ben, cy, kh, ks, kw, kn, na, nb, nc, m1, c1, c2

(* sales and west below head; ann works in sales for ben.  new and cy do not exist yet. *)
U(known, code, parent) == [known |-> known, code |-> code, parent |-> parent, active |-> known]
Tree == head :> U(TRUE, kh, NoUnit) @@ sales :> U(TRUE, ks, head) @@ west :> U(TRUE, kw, head)
        @@ new :> U(FALSE, kn, NoUnit)
E(known, number) == [known |-> known, number |-> number, email |-> NoEmail, hired |-> 1]
People == ann :> E(TRUE, na) @@ ben :> E(TRUE, nb) @@ cy :> E(FALSE, nc)
Hired(x) == {[effdt |-> 1, effseq |-> 0, action |-> "hire", unit |-> sales, supervisor |-> x,
              status |-> "active"]}
Histories == ann :> Hired(ben) @@ ben :> Hired(NoEmployee) @@ cy :> {}

Blank == [kind |-> "update_unit", unit |-> NoUnit, moves |-> FALSE, parent |-> NoUnit, active |-> "keep",
          code |-> kh, employee |-> ann, number |-> na, email |-> NoEmail, effdt |-> 1,
          action |-> "hire", keeps |-> TRUE, supervisor |-> NoEmployee]
MoveUnit(u, p) == [Blank EXCEPT !.unit = u, !.moves = TRUE, !.parent = p]
Switch(u, a) == [Blank EXCEPT !.unit = u, !.active = a]
AddUnit(k, p) == [Blank EXCEPT !.kind = "create_unit", !.code = k, !.parent = p]
Hire(n, m, d, u, x) == [Blank EXCEPT !.kind = "create_employee", !.number = n, !.email = m,
                                     !.effdt = d, !.unit = u, !.supervisor = x]
Mail(e, m) == [Blank EXCEPT !.kind = "update_employee", !.employee = e, !.email = m]
Change(e, d, a, u) == [Blank EXCEPT !.kind = "add_job", !.employee = e, !.effdt = d, !.action = a, !.unit = u]
Report(e, d, x) == [Change(e, d, "data_change", NoUnit) EXCEPT !.keeps = FALSE, !.supervisor = x]

UnitCalls == {MoveUnit(sales, west), MoveUnit(west, sales), MoveUnit(head, west), MoveUnit(sales, NoUnit),
              Switch(west, "off"), Switch(sales, "off"), Switch(west, "on"), AddUnit(kn, west)}
PeopleCalls == {Hire(nc, m1, 2, west, ann), Mail(ann, m1), Mail(ben, m1),
                Change(ann, 2, "termination", NoUnit), Change(ann, 2, "rehire", west),
                Change(ann, 1, "transfer", west), Report(ben, 2, ann), Report(ann, 3, NoEmployee)}
Operations == UnitCalls \cup PeopleCalls
=============================================================================
