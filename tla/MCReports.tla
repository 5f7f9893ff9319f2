------------------------------ MODULE MCReports ------------------------------
(* Instances of Reports for TLC. *)
EXTENDS Reports, TLC

CONSTANTS t1, t2, t3, t4, k1, c1, c2, grade, days, start, dropped

Types == grade :> "text" @@ days :> "number" @@ start :> "date" @@ dropped :> "text"

List(cols) == [columns |-> cols, aggregates |-> {}, filters |-> {}, sort |-> {}]
Total == [func |-> "sum", column |-> days]
ByGrade == [columns |-> {grade}, aggregates |-> {Total}, filters |-> {}, sort |-> {Total}]
AllYears == [List({days}) EXCEPT !.filters = {[column |-> start, op |-> "gte", valid |-> TRUE]}]
Wrong == [List({days}) EXCEPT !.aggregates = {[func |-> "sum", column |-> grade]}]
Unknown == List({dropped})
Queries == {ByGrade, AllYears, Wrong, Unknown}

Save(n, q, k) == [kind |-> "create", id |-> t1, name |-> n, query |-> q, key |-> k]
Edit(t, n, q) == [kind |-> "update", id |-> t, name |-> n, query |-> q, key |-> NoKey]
Drop(t) == [kind |-> "delete", id |-> t, name |-> 0, query |-> NoQuery, key |-> NoKey]
Operations == {Save(2, AllYears, k1), Save(3, ByGrade, k1), Save(2, Unknown, NoKey),
               Edit(t1, 2, NoQuery), Edit(t1, 4, NoQuery), Edit(t2, 2, NoQuery), Edit(t2, 1, NoQuery),
               Edit(t1, 0, AllYears), Edit(t1, 0, Wrong), Drop(t1), Drop(t2)}

(* Two templates are there, and two may be added. *)
Stored(n, q) == [known |-> TRUE, name |-> n, query |-> q, key |-> NoKey]
Templates == t1 :> Stored(1, ByGrade) @@ t2 :> Stored(3, AllYears) @@ t3 :> NoTemplate @@ t4 :> NoTemplate
==============================================================================
