----------------------------- MODULE CoreHRProofs -----------------------------
(***************************************************************************)
(* Theorems of CoreHR and CoreReads, for any number of units, employees,   *)
(* dates and calls: the history of an employee keeps its form, and its     *)
(* past, whatever calls run at the same time; what bends the tree of units *)
(* is an overlap of calls; and two ways to read who works where agree.     *)
(***************************************************************************)
EXTENDS CoreReads, FiniteSetTheorems, WellFoundedInduction, TLAPS

(* Rows of a history.                                                       *)

(* The greatest number of a set is its Max. *)
LEMMA MaxIs ==
  ASSUME NEW S \in SUBSET Int, NEW m \in S, \A x \in S : m >= x
  PROVE  Max(S) = m
<1>1. \E y \in S : \A x \in S : y >= x
  OBVIOUS
<1>2. Max(S) \in S /\ \A x \in S : Max(S) >= x
  BY <1>1 DEF Max
<1>3. Max(S) \in Int /\ m \in Int /\ Max(S) >= m /\ m >= Max(S)
  BY <1>2
<1>4. QED
  BY <1>3

(* Later is an order of rows by date and number. *)
LEMMA LaterOrder ==
  ASSUME NEW r \in JobRow, NEW s \in JobRow
  PROVE  /\ r.effdt \in Nat /\ r.effseq \in Nat /\ s.effdt \in Nat /\ s.effseq \in Nat
         /\ ~(Later(r, s) /\ Later(s, r)) /\ ~Later(r, r)
BY CoreAssumption DEF JobRow, Day, Later

(* The last row is the one in force once its date is reached. *)
LEMMA LatestIs ==
  ASSUME NEW H \in SUBSET JobRow, NEW r \in H, \A s \in H \ {r} : Later(r, s)
  PROVE  Latest(H) = r
<1>1. \A s \in H : ~Later(s, r)
  BY LaterOrder
<1>2. \E x \in H : \A s \in H : ~Later(s, x)
  BY <1>1
<1>3. Latest(H) \in H /\ \A s \in H : ~Later(s, Latest(H))
  BY <1>2 DEF Latest
<1>4. QED
  BY <1>3

(* A row after the last one, which follows it by the rules, keeps the order. *)
LEMMA AppendKeepsOrder ==
  ASSUME NEW H \in SUBSET JobRow, NEW e, NEW hired, InOrder(H, e, hired), Lined(H),
         NEW last \in H, \A s \in H \ {last} : Later(last, s),
         NEW n \in JobRow, n.effdt >= last.effdt,
         n.effseq = IF n.effdt = last.effdt THEN last.effseq + 1 ELSE 0,
         n.action # "hire", (n.action = "rehire") <=> (last.status = "terminated"),
         n.supervisor # e
  PROVE  InOrder(H \cup {n}, e, hired) /\ Lined(H \cup {n})
<1>1. \A s \in H : Later(n, s)
  <2>1. /\ last.effdt \in Nat /\ last.effseq \in Nat /\ n.effdt \in Nat
        /\ Later(n, last)
    BY LaterOrder DEF Later
  <2>2. ASSUME NEW s \in H, s # last PROVE Later(n, s)
    <3>1. Later(last, s) /\ s.effdt \in Nat /\ s.effseq \in Nat /\ n.effseq \in Nat
      BY <2>2, LaterOrder
    <3>2. QED
      BY <2>1, <3>1 DEF Later
  <2>3. QED
    BY <2>1, <2>2
<1>2. \A s \in H : ~Later(s, n)
  BY <1>1, LaterOrder
<1>3. ~Later(n, n) /\ n \notin H
  BY <1>1, LaterOrder
<1>4. HireFirst(H \cup {n}, hired)
  BY <1>1 DEF InOrder, HireFirst
<1>5. StepByStep(H \cup {n})
  <2>1. ASSUME NEW r \in H \cup {n}, NEW s \in H \cup {n}, Follows(s, r, H \cup {n})
        PROVE  /\ (s.action = "rehire") <=> (r.status = "terminated")
               /\ s.effseq = IF s.effdt = r.effdt THEN r.effseq + 1 ELSE 0
    <3>1. r # n
      BY <1>2, <1>3, <2>1 DEF Follows
    <3>2. CASE s = n
      <4>1. r = last
        BY <1>1, <2>1, <3>1, <3>2 DEF Follows
      <4>2. QED
        BY <3>2, <4>1
    <3>3. CASE s # n
      <4>1. Follows(s, r, H)
        BY <2>1, <3>1, <3>3 DEF Follows
      <4>2. QED
        BY <2>1, <3>1, <3>3, <4>1 DEF InOrder, StepByStep
    <3>4. QED
      BY <3>2, <3>3
  <2>2. QED
    BY <2>1 DEF StepByStep
<1>6. \A r \in H \cup {n} : r.supervisor # e
  BY DEF InOrder
<1>7. Lined(H \cup {n})
  BY <1>1 DEF Lined
<1>8. QED
  BY <1>4, <1>5, <1>6, <1>7 DEF InOrder

(* The row add_job makes of what it has checked follows the last row by the rules. *)
LEMMA NewJobFollows ==
  ASSUME TypeOK, NEW o \in Ask, Exists(o.employee), Fits(o),
         NEW last \in history[o.employee],
         \A s \in history[o.employee] \ {last} : Later(last, s)
  PROVE  /\ NewJob(o) \in JobRow /\ NewJob(o).effdt >= last.effdt
         /\ NewJob(o).effseq = IF NewJob(o).effdt = last.effdt THEN last.effseq + 1 ELSE 0
         /\ NewJob(o).action # "hire"
         /\ (NewJob(o).action = "rehire") <=> (last.status = "terminated")
         /\ NewJob(o).supervisor # o.employee
         /\ LatestEffdt(o.employee) = last.effdt
<1> DEFINE H == history[o.employee]
<1>1. H \in SUBSET JobRow /\ last \in JobRow /\ o.effdt \in Nat
  BY CoreAssumption DEF TypeOK, Exists, Ask, Day
<1>2. \A s \in H : s.effdt \in Nat /\ s.effseq \in Nat /\ s.effdt <= last.effdt
  <2>1. \A s \in H : s.effdt \in Nat /\ s.effseq \in Nat
    BY <1>1, LaterOrder
  <2>2. QED
    BY <2>1 DEF Later
<1>3. LatestEffdt(o.employee) = last.effdt
  <2>1. {r.effdt : r \in H} \in SUBSET Int /\ last.effdt \in {r.effdt : r \in H}
    BY <1>2
  <2>2. \A x \in {r.effdt : r \in H} : last.effdt >= x
    BY <1>2
  <2>3. Max({r.effdt : r \in H}) = last.effdt
    BY <2>1, <2>2, MaxIs
  <2>4. QED
    BY <2>3 DEF LatestEffdt
<1>4. o.effdt >= last.effdt /\ o.action # "hire"
  BY <1>3 DEF Fits, DateAllowed
<1>5. RowsUpTo(o.employee, o.effdt) = H
  BY <1>1, <1>2, <1>4 DEF RowsUpTo
<1>6. JobAsOf(o.employee, o.effdt) = last
  BY <1>1, <1>5, LatestIs DEF JobAsOf
<1>7. NextSeq(o.employee, o.effdt) = IF o.effdt = last.effdt THEN last.effseq + 1 ELSE 0
  <2> DEFINE seqs == {r.effseq : r \in {x \in H : x.effdt = o.effdt}}
  <2>1. CASE o.effdt = last.effdt
    <3>1. seqs \in SUBSET Int /\ last.effseq \in seqs
      BY <1>2, <2>1
    <3>2. \A x \in seqs : last.effseq >= x
      <4>1. ASSUME NEW r \in H, r.effdt = o.effdt PROVE last.effseq >= r.effseq
        <5>1. CASE r = last
          BY <1>2, <5>1
        <5>2. CASE r # last
          BY <1>2, <2>1, <4>1, <5>2 DEF Later
        <5>3. QED
          BY <5>1, <5>2
      <4>2. QED
        BY <4>1
    <3>3. Max(seqs) = last.effseq
      BY <3>1, <3>2, MaxIs
    <3>4. QED
      BY <2>1, <3>1, <3>3 DEF NextSeq
  <2>2. CASE o.effdt # last.effdt
    <3>1. seqs = {}
      BY <1>1, <1>2, <1>4, <2>2
    <3>2. QED
      BY <2>2, <3>1 DEF NextSeq
  <2>3. QED
    BY <2>1, <2>2
<1>8. /\ NewJob(o).effdt = o.effdt /\ NewJob(o).effseq = NextSeq(o.employee, o.effdt)
      /\ NewJob(o).action = o.action
  BY DEF NewJob
<1>9. (o.action = "rehire") <=> (last.status = "terminated")
  BY <1>6 DEF Fits, TransitionAllowed
<1>10. NewJob(o).supervisor # o.employee
  BY DEF Fits
<1>11. NewJob(o) \in JobRow
  <2>1. NextSeq(o.employee, o.effdt) \in Nat
    BY <1>2, <1>7
  <2>2. StatusFor(o.action) \in EmploymentStatus
    BY DEF StatusFor, EmploymentStatus
  <2>3. (IF o.unit = NoUnit THEN last.unit ELSE o.unit) \in Unit
    BY <1>1 DEF Ask, JobRow
  <2>4. (IF o.keeps THEN last.supervisor ELSE o.supervisor) \in Employee \cup {NoEmployee}
    BY <1>1 DEF Ask, JobRow
  <2>5. o.effdt \in Day /\ o.action \in JobAction
    BY DEF Ask
  <2>6. QED
    BY <1>6, <2>1, <2>2, <2>3, <2>4, <2>5 DEF NewJob, JobRow
<1>12. QED
  BY <1>3, <1>4, <1>7, <1>8, <1>9, <1>10, <1>11
-----------------------------------------------------------------------------
(* Types                                                                    *)

(* No call is a call. *)
LEMMA NoCallType == NoCall \in CallRow /\ Unseen \in UnitRow
<1>1. PICK k \in Code : TRUE
  BY StartAssumption
<1>2. [known |-> FALSE, code |-> k, parent |-> NoUnit, active |-> FALSE] \in UnitRow
  BY DEF UnitRow
<1>3. Unseen \in UnitRow
  BY <1>2 DEF Unseen
<1>4. (CHOOSE o \in Operation : TRUE) \in Operation
  BY StartAssumption
<1>5. QED
  BY <1>3, <1>4 DEF NoCall, CallRow

(* The operation of a call, and the rows of calls after a step of one. *)
LEMMA CallTypes ==
  ASSUME TypeOK, NEW c \in Caller
  PROVE  /\ call[c] \in CallRow /\ Op(c) \in Ask /\ Op(c) \in Operation
         /\ Op(c).kind = "update_unit" => Op(c).unit \in Unit
         /\ \A pc \in {"ready", "loaded", "parent", "placed", "checked", "locked"} :
              Goes(c, pc) => call' \in [Caller -> CallRow]
         /\ Ends(c) => call' \in [Caller -> CallRow]
<1>1. call \in [Caller -> CallRow] /\ call[c] \in CallRow
  BY DEF TypeOK
<1>2. Op(c) \in Operation
  BY <1>1 DEF Op, CallRow
<1>3. Op(c) \in Ask /\ (Op(c).kind = "update_unit" => Op(c).unit \in Unit)
  BY <1>2, CoreAssumption, StartAssumption
<1>4. ASSUME NEW pc \in {"ready", "loaded", "parent", "placed", "checked", "locked"}, Goes(c, pc)
      PROVE  call' \in [Caller -> CallRow]
  <2>1. [call[c] EXCEPT !.pc = pc] \in CallRow
    BY <1>1 DEF CallRow
  <2>2. QED
    BY <1>1, <1>4, <2>1 DEF Goes
<1>5. Ends(c) => call' \in [Caller -> CallRow]
  BY <1>1, NoCallType DEF Ends
<1>6. QED
  BY <1>1, <1>2, <1>3, <1>4, <1>5

(* A commit that writes units leaves every other call's own part as it is. *)
LEMMA EndsTypes ==
  ASSUME TypeOK, NEW c \in Caller, NEW u \in Unit, EndsWritingUnits(c, u)
  PROVE  call' \in [Caller -> CallRow] /\ overlapped' \subseteq Unit
<1>1. \A d \in Caller : call[d] \in CallRow /\ (call[d].pc # "ready") \in BOOLEAN
  BY DEF TypeOK
<1>2. \A d \in Caller : [call[d] EXCEPT !.between = call[d].pc # "ready"] \in CallRow
  BY <1>1 DEF CallRow
<1>3. QED
  BY <1>2, NoCallType DEF TypeOK, EndsWritingUnits

(* A call begins. *)
LEMMA BeginTypes ==
  ASSUME TypeOK, NEW c \in Caller, BeginAny(c)
  PROVE  TypeOK'
<1>1. PICK o \in Operation, seen \in UnitRow,
           pc \in {"ready", "loaded", "parent", "placed", "checked", "locked"} : Begin(c, o, pc, seen)
  <2>1. \A o \in Operation : BeginUpdateUnit(c, o) => unit[o.unit] \in UnitRow
    BY StartAssumption DEF TypeOK, BeginUpdateUnit
  <2>2. QED
    BY <2>1, NoCallType DEF BeginAny, BeginCreateUnit, BeginUpdateUnit, BeginCreateEmployee,
      BeginUpdateEmployee, BeginAddJob
<1>2. [pc |-> pc, op |-> o, seen |-> seen, between |-> FALSE] \in CallRow
  BY DEF CallRow
<1>3. calls' \in 0..MaxCalls
  BY <1>1, CoreAssumption DEF TypeOK, Begin
<1>4. QED
  BY <1>1, <1>2, <1>3 DEF TypeOK, Begin, SameData

(* The calls on units. *)
LEMMA UnitTypes ==
  ASSUME TypeOK, NEW c \in Caller, EnsureActiveParent(c) \/ CommitCreateUnit(c) \/ CheckAncestors(c)
                                   \/ CheckChildren(c) \/ CommitUpdateUnit(c)
  PROVE  TypeOK'
<1>1. CASE EnsureActiveParent(c) \/ CheckAncestors(c) \/ CheckChildren(c)
  <2>1. call' \in [Caller -> CallRow]
    BY <1>1, CallTypes DEF EnsureActiveParent, CheckAncestors, CheckChildren
  <2>2. QED
    BY <1>1, <2>1 DEF TypeOK, EnsureActiveParent, CheckAncestors, CheckChildren, SameData
<1>2. CASE CommitCreateUnit(c)
  <2>1. CASE Ends(c) /\ SameData
    BY <1>2, <2>1, CallTypes DEF TypeOK, CommitCreateUnit, SameData
  <2>2. CASE \E u \in Unit :
               /\ unit' = [unit EXCEPT ![u] = [known |-> TRUE, code |-> Op(c).code,
                                               parent |-> Op(c).parent, active |-> TRUE]]
               /\ EndsWritingUnits(c, u) /\ UNCHANGED <<employee, history, reactivated>>
    <3>1. [known |-> TRUE, code |-> Op(c).code, parent |-> Op(c).parent, active |-> TRUE] \in UnitRow
      BY CallTypes DEF Ask, UnitRow
    <3>2. QED
      BY <1>2, <2>2, <3>1, EndsTypes DEF TypeOK, CommitCreateUnit
  <2>3. QED
    BY <1>2, <2>1, <2>2 DEF CommitCreateUnit
<1>3. CASE CommitUpdateUnit(c)
  <2> DEFINE u == Op(c).unit
             row == Written(Op(c), call[c].seen, unit[u])
  <2>1. u \in Unit /\ unit[u] \in UnitRow /\ call[c].seen \in UnitRow /\ Op(c) \in Ask
    BY <1>3, CallTypes DEF TypeOK, CommitUpdateUnit, CallRow
  <2>2. row \in UnitRow
    <3> DEFINE p == IF Op(c).moves THEN Op(c).parent ELSE call[c].seen.parent
               a == IF Op(c).active = "keep" THEN call[c].seen.active ELSE Op(c).active = "on"
    <3>1. p \in Unit \cup {NoUnit}
      BY <2>1 DEF Ask, UnitRow
    <3>2. a \in BOOLEAN
      BY <2>1 DEF UnitRow
    <3> HIDE DEF p, a
    <3>3. [unit[u] EXCEPT !.parent = IF p # call[c].seen.parent THEN p ELSE @,
                          !.active = IF a # call[c].seen.active THEN a ELSE @] \in UnitRow
      BY <2>1, <3>1, <3>2 DEF UnitRow
    <3>4. QED
      BY <3>3 DEF Written, p, a
  <2>3. unit' \in [Unit -> UnitRow] /\ reactivated' \subseteq Unit
    BY <1>3, <2>1, <2>2 DEF TypeOK, CommitUpdateUnit
  <2>4. call' \in [Caller -> CallRow] /\ overlapped' \subseteq Unit
    BY <1>3, <2>1, CallTypes, EndsTypes DEF TypeOK, CommitUpdateUnit
  <2>5. QED
    BY <1>3, <2>3, <2>4 DEF TypeOK, CommitUpdateUnit
<1>4. QED
  BY <1>1, <1>2, <1>3

(* The calls on employees that add no row. *)
LEMMA EmployeeTypes ==
  ASSUME TypeOK, NEW c \in Caller,
         CheckEmployeeJob(c) \/ CommitUpdateEmployee(c) \/ CheckJob(c) \/ BreakDeadlock(c)
  PROVE  TypeOK'
<1>1. call' \in [Caller -> CallRow]
  BY CallTypes DEF CheckEmployeeJob, CommitUpdateEmployee, CheckJob, BreakDeadlock
<1>2. CASE CommitUpdateEmployee(c)
  <2>1. Op(c).employee \in Employee /\ Op(c).email \in Email \cup {NoEmail}
    BY CallTypes DEF Ask
  <2>2. employee' \in [Employee -> EmployeeRow]
    BY <1>2, <2>1 DEF TypeOK, CommitUpdateEmployee, EmployeeRow
  <2>3. QED
    BY <1>1, <1>2, <2>2 DEF TypeOK, CommitUpdateEmployee
<1>3. CASE CheckEmployeeJob(c) \/ CheckJob(c) \/ BreakDeadlock(c)
  BY <1>1, <1>3 DEF TypeOK, CheckEmployeeJob, CheckJob, BreakDeadlock, SameData
<1>4. QED
  BY <1>2, <1>3
-----------------------------------------------------------------------------
(* Steps                                                                    *)

(* What add_job has checked depends on the history and the hire date only. *)
LEMMA FitsStays ==
  ASSUME NEW o, Fits(o), history'[o.employee] = history[o.employee],
         employee'[o.employee].hired = employee[o.employee].hired
  PROVE  Fits(o)'
<1>1. LatestEffdt(o.employee)' = LatestEffdt(o.employee)
  BY DEF LatestEffdt
<1>2. RowsUpTo(o.employee, o.effdt)' = RowsUpTo(o.employee, o.effdt)
  BY DEF RowsUpTo
<1>3. JobAsOf(o.employee, o.effdt)' = JobAsOf(o.employee, o.effdt)
  BY <1>2 DEF JobAsOf
<1>4. NewJob(o)'.supervisor = NewJob(o).supervisor
  BY <1>3 DEF NewJob
<1>5. QED
  BY <1>1, <1>2, <1>3, <1>4 DEF Fits, DateAllowed, HasJobAsOf, TransitionAllowed

(* A call goes on, and no row of a history or hire date changes: what it remembers *)
(* is so, and nobody else holds the employee it holds.                             *)
LEMMA CallMoves ==
  ASSUME HistInv, TypeOK', NEW c \in Caller, history' = history,
         \A e \in Employee : /\ employee'[e].known = employee[e].known
                             /\ employee'[e].hired = employee[e].hired,
         \A d \in Caller : d # c => call'[d].pc = call[d].pc /\ call'[d].op = call[d].op,
         Remembered(c)',
         Holds(c)' => \A d \in Caller : (d # c /\ Holds(d)) => Op(d).employee # call'[c].op.employee
  PROVE  HistInv'
<1>1. \A e : Exists(e)' <=> Exists(e)
  BY DEF Exists
<1>2. ASSUME NEW d \in Caller, d # c
      PROVE  Remembered(d)' /\ (Holds(d)' <=> Holds(d)) /\ Op(d)' = Op(d)
  <2>1. call'[d].pc = call[d].pc /\ Op(d)' = Op(d) /\ Op(d) \in Ask
    BY <1>2, CallTypes DEF Op, HistInv, HistoryInOrder
  <2>2. Remembered(d)
    BY DEF HistInv
  <2>3. Holds(d)' <=> Holds(d)
    BY <2>1 DEF Holds
  <2>4. Fits(Op(d)) => Fits(Op(d))'
    <3>1. Op(d).employee \in Employee
      BY <2>1 DEF Ask
    <3>2. /\ history'[Op(d).employee] = history[Op(d).employee]
          /\ employee'[Op(d).employee].hired = employee[Op(d).employee].hired
      BY <3>1
    <3>3. ASSUME NEW o, o = Op(d), Fits(o) PROVE Fits(o)'
      BY <3>2, <3>3, FitsStays
    <3>4. QED
      BY <2>1, <3>3
  <2>5. QED
    BY <1>1, <2>1, <2>2, <2>3, <2>4 DEF Remembered
<1>3. LocksApart'
  BY <1>2 DEF HistInv, LocksApart, Op
<1>4. HistoryInOrder' /\ \A e \in Employee : employee'[e].known => Lined(history'[e])
  BY DEF HistInv, HistoryInOrder
<1>5. QED
  BY <1>2, <1>3, <1>4 DEF HistInv

(* A call that ends holds and remembers nothing. *)
LEMMA CallEnds ==
  ASSUME HistInv, TypeOK', NEW c \in Caller, history' = history, call'[c] = NoCall,
         \A e \in Employee : /\ employee'[e].known = employee[e].known
                             /\ employee'[e].hired = employee[e].hired,
         \A d \in Caller : d # c => call'[d].pc = call[d].pc /\ call'[d].op = call[d].op
  PROVE  HistInv'
<1>1. ~Holds(c)' /\ Remembered(c)'
  BY DEF Holds, Remembered, NoCall
<1>2. QED
  BY <1>1, CallMoves

(* A call begins with nothing, or with the lock of an employee nobody holds. *)
LEMMA BeginKeeps ==
  ASSUME HistInv, TypeOK', NEW c \in Caller, BeginAny(c)
  PROVE  HistInv'
<1>1. PICK o \in Operation : \/ BeginCreateUnit(c, o) \/ BeginUpdateUnit(c, o) \/ BeginCreateEmployee(c, o)
                             \/ BeginUpdateEmployee(c, o) \/ BeginAddJob(c, o)
  BY DEF BeginAny
<1>2. PICK seen, pc : /\ Begin(c, o, pc, seen)
                      /\ pc = "locked" => BeginAddJob(c, o)
                      /\ pc = "checked" => o.kind \in {"create_unit", "update_employee"}
  BY <1>1 DEF BeginCreateUnit, BeginUpdateUnit, BeginCreateEmployee, BeginUpdateEmployee, BeginAddJob
<1>3. /\ call'[c].pc = pc /\ call'[c].op = o /\ employee' = employee /\ history' = history
      /\ \A d \in Caller : d # c => call'[d] = call[d]
  BY <1>2 DEF Begin, SameData, HistInv, HistoryInOrder, TypeOK
<1>4. CASE pc = "locked"
  <2>1. o.kind = "add_job" /\ Exists(o.employee) /\ Held(o.employee) = {}
    BY <1>2, <1>4 DEF BeginAddJob, LockFree
  <2>2. Remembered(c)'
    BY <1>3, <1>4, <2>1 DEF Remembered, Op, Exists
  <2>3. \A d \in Caller : (d # c /\ Holds(d)) => Op(d).employee # call'[c].op.employee
    BY <1>3, <2>1 DEF Held, Holds
  <2>4. QED
    BY <1>3, <2>2, <2>3, CallMoves
<1>5. CASE pc # "locked"
  <2>1. Remembered(c)' /\ ~Holds(c)'
    BY <1>2, <1>3, <1>5 DEF Remembered, Holds, Op
  <2>2. QED
    BY <1>3, <2>1, CallMoves
<1>6. QED
  BY <1>4, <1>5

(* Steps that leave the histories: a call goes on without a lock of an employee, ends, *)
(* or goes on with the one it has.                                                     *)
LEMMA StepKeeps ==
  ASSUME HistInv, TypeOK', NEW c \in Caller,
         \/ EnsureActiveParent(c) \/ CommitCreateUnit(c) \/ CheckAncestors(c) \/ CheckChildren(c)
         \/ CommitUpdateUnit(c) \/ CheckEmployeeJob(c) \/ CommitUpdateEmployee(c) \/ CheckJob(c)
         \/ BreakDeadlock(c)
  PROVE  HistInv'
<1>1. call \in [Caller -> CallRow] /\ employee \in [Employee -> EmployeeRow] /\ TypeOK
  BY DEF HistInv, HistoryInOrder, TypeOK
<1>2. history' = history
  BY DEF EnsureActiveParent, CommitCreateUnit, CheckAncestors, CheckChildren, CommitUpdateUnit,
     CheckEmployeeJob, CommitUpdateEmployee, CheckJob, BreakDeadlock, SameData
<1>3. \A e \in Employee : employee'[e].known = employee[e].known /\ employee'[e].hired = employee[e].hired
  <2>1. CASE CommitUpdateEmployee(c)
    BY <1>1, <2>1 DEF CommitUpdateEmployee, EmployeeRow
  <2>2. CASE employee' = employee
    BY <2>2
  <2>3. QED
    BY <2>1, <2>2 DEF EnsureActiveParent, CommitCreateUnit, CheckAncestors, CheckChildren,
      CommitUpdateUnit, CheckEmployeeJob, CheckJob, BreakDeadlock, SameData
<1>4. CASE Ends(c)
  <2>1. call'[c] = NoCall /\ \A d \in Caller : d # c => call'[d] = call[d]
    BY <1>1, <1>4 DEF Ends
  <2>2. QED
    BY <1>2, <1>3, <2>1, CallEnds
<1>5. CASE \E u \in Unit : EndsWritingUnits(c, u)
  <2>1. /\ call'[c] = NoCall
        /\ \A d \in Caller : d # c => call'[d] = [call[d] EXCEPT !.between = call[d].pc # "ready"]
    BY <1>5 DEF EndsWritingUnits
  <2>2. \A d \in Caller : call[d] \in CallRow
    BY <1>1
  <2>3. \A d \in Caller : d # c => call'[d].pc = call[d].pc /\ call'[d].op = call[d].op
    <3>1. ASSUME NEW row \in CallRow, NEW b
          PROVE  [row EXCEPT !.between = b].pc = row.pc /\ [row EXCEPT !.between = b].op = row.op
      BY DEF CallRow
    <3>2. ASSUME NEW d \in Caller, d # c
          PROVE  call'[d].pc = call[d].pc /\ call'[d].op = call[d].op
      <4>1. call'[d] = [call[d] EXCEPT !.between = call[d].pc # "ready"]
        BY <2>1, <3>2
      <4>2. [call[d] EXCEPT !.between = call[d].pc # "ready"].pc = call[d].pc
        BY <2>2, <3>1
      <4>3. [call[d] EXCEPT !.between = call[d].pc # "ready"].op = call[d].op
        BY <2>2, <3>1
      <4>4. QED
        BY ONLY <4>1, <4>2, <4>3
    <3>3. QED
      BY <3>2
  <2>4. QED
    BY <1>2, <1>3, <2>1, <2>3, CallEnds
<1>6. ASSUME NEW pc, Goes(c, pc), employee' = employee, unit' = unit,
             \/ pc \in {"parent", "placed"}
             \/ pc = "checked" /\ Op(c).kind \in {"create_unit", "update_unit"}
             \/ CheckEmployeeJob(c) \/ CheckJob(c)
      PROVE  HistInv'
  <2>1. /\ call'[c].pc = pc /\ call'[c].op = Op(c) /\ Op(c) \in Ask
        /\ \A d \in Caller : d # c => call'[d] = call[d]
    BY <1>1, <1>6, CallTypes DEF Goes, Op, CallRow
  <2>2. CASE CheckJob(c) /\ JobAllowed(Op(c)) /\ pc = "checked"
    <3>1. Op(c).kind = "add_job" /\ Exists(Op(c).employee) /\ Holds(c)
      BY <2>2 DEF HistInv, Remembered, CheckJob, Holds
    <3>2. Fits(Op(c))
      BY <2>2 DEF JobAllowed, Fits
    <3>3. Fits(Op(c))'
      <4>1. ASSUME NEW o, o = Op(c), Fits(o) PROVE Fits(o)'
        BY <1>2, <1>6, <4>1, FitsStays
      <4>2. QED
        BY <2>1, <3>2, <4>1 DEF Op
    <3>4. Exists(Op(c).employee)'
      BY <1>6, <2>1, <3>1 DEF Exists, Op
    <3>5. Remembered(c)'
      BY <2>1, <2>2, <3>1, <3>3, <3>4 DEF Remembered, Op
    <3>6. \A d \in Caller : (d # c /\ Holds(d)) => Op(d).employee # call'[c].op.employee
      BY <2>1, <3>1 DEF HistInv, LocksApart
    <3>7. QED
      BY <1>2, <1>3, <2>1, <3>5, <3>6, CallMoves
  <2>3. CASE CheckEmployeeJob(c) /\ pc = "checked" /\ ActiveUnit(Op(c).unit)
             /\ (Op(c).supervisor = NoEmployee \/ Exists(Op(c).supervisor))
    <3>1. Op(c).kind = "create_employee" /\ Op(c).unit \in Unit
      BY <2>3 DEF CheckEmployeeJob, ActiveUnit
    <3>2. Remembered(c)' /\ ~Holds(c)'
      BY <1>6, <2>1, <2>3, <3>1 DEF Remembered, Holds, Op, Exists
    <3>3. QED
      BY <1>2, <1>3, <2>1, <3>2, CallMoves
  <2>4. CASE \/ pc \in {"parent", "placed"}
             \/ pc = "checked" /\ Op(c).kind \in {"create_unit", "update_unit"}
    <3>1. Remembered(c)' /\ ~Holds(c)'
      BY <2>1, <2>4 DEF Remembered, Holds, Op
    <3>2. QED
      BY <1>2, <1>3, <2>1, <3>1, CallMoves
  <2>5. CASE Ends(c)
    BY <1>4, <2>5
  <2>6. QED
    <3>1. (CheckJob(c) \/ CheckEmployeeJob(c)) => Ends(c) \/ Goes(c, "checked")
      BY DEF CheckJob, CheckEmployeeJob
    <3>2. Goes(c, "checked") => pc = "checked"
      BY <1>1, <2>1 DEF Goes, CallRow
    <3>3. CheckJob(c) => Ends(c) \/ JobAllowed(Op(c))
      BY DEF CheckJob
    <3>4. CheckEmployeeJob(c) => \/ Ends(c)
                                \/ /\ ActiveUnit(Op(c).unit)
                                   /\ Op(c).supervisor = NoEmployee \/ Exists(Op(c).supervisor)
      BY DEF CheckEmployeeJob
    <3>5. QED
      BY <1>6, <2>2, <2>3, <2>4, <2>5, <3>1, <3>2, <3>3, <3>4
<1>7. CASE EnsureActiveParent(c) \/ CheckAncestors(c) \/ CheckChildren(c)
  BY <1>4, <1>6, <1>7 DEF EnsureActiveParent, CheckAncestors, CheckChildren, SameData
<1>8. CASE CheckEmployeeJob(c) \/ CheckJob(c)
  BY <1>4, <1>6, <1>8 DEF CheckEmployeeJob, CheckJob, SameData
<1>9. CASE CommitCreateUnit(c)
  BY <1>4, <1>5, <1>9 DEF CommitCreateUnit
<1>10. CASE CommitUpdateUnit(c)
  <2>1. Op(c).unit \in Unit
    BY <1>1, <1>10, CallTypes DEF CommitUpdateUnit
  <2>2. QED
    BY <1>4, <1>5, <1>10, <2>1 DEF CommitUpdateUnit
<1>11. CASE CommitUpdateEmployee(c) \/ BreakDeadlock(c)
  BY <1>4, <1>11 DEF CommitUpdateEmployee, BreakDeadlock
<1>12. QED
  BY <1>7, <1>8, <1>9, <1>10, <1>11

(* create_employee: a new employee has the row of the hire. *)
LEMMA HireKeeps ==
  ASSUME HistInv, NEW c \in Caller, CommitCreateEmployee(c)
  PROVE  HistInv'
<1> DEFINE o == Op(c)
<1>1. TypeOK /\ call \in [Caller -> CallRow] /\ o \in Ask /\ call' \in [Caller -> CallRow]
  BY CallTypes DEF HistInv, HistoryInOrder, TypeOK, CommitCreateEmployee
<1>2. call'[c] = NoCall /\ (\A d \in Caller : d # c => call'[d] = call[d])
  BY <1>1 DEF CommitCreateEmployee, Ends
<1>3. CASE SameData
  <2>1. TypeOK'
    BY <1>1, <1>3 DEF TypeOK, SameData, CommitCreateEmployee
  <2>2. QED
    BY <1>2, <1>3, <2>1, CallEnds DEF SameData
<1>4. CASE ~SameData
  <2>1. PICK e \in Employee :
          /\ ~employee[e].known
          /\ employee' = [employee EXCEPT ![e] = [known |-> TRUE, number |-> o.number,
                                                  email |-> o.email, hired |-> o.effdt]]
          /\ history' = [history EXCEPT ![e] = {HireRow(o)}]
          /\ UNCHANGED <<unit, overlapped, reactivated, calls>>
    BY <1>4 DEF CommitCreateEmployee
  <2>2. o.unit \in Unit /\ (o.supervisor = NoEmployee \/ Exists(o.supervisor))
    BY DEF CommitCreateEmployee, HistInv, Remembered
  <2>3. HireRow(o) \in JobRow
    BY <1>1, <2>2 DEF Ask, HireRow, JobRow, JobAction, EmploymentStatus
  <2>4. [known |-> TRUE, number |-> o.number, email |-> o.email, hired |-> o.effdt] \in EmployeeRow
    BY <1>1 DEF Ask, EmployeeRow
  <2>5. TypeOK'
    BY <1>1, <2>1, <2>3, <2>4 DEF TypeOK
  <2>6. /\ history'[e] = {HireRow(o)} /\ employee'[e].known /\ employee'[e].hired = o.effdt
        /\ \A x \in Employee : x # e => history'[x] = history[x] /\ employee'[x] = employee[x]
    BY <1>1, <2>1 DEF TypeOK
  <2>7. InOrder(history'[e], e, employee'[e].hired) /\ Lined(history'[e])
    <3>1. HireRow(o).supervisor # e
      BY <2>1, <2>2, CoreAssumption DEF HireRow, Exists
    <3>2. ~Later(HireRow(o), HireRow(o))
      BY <2>3, LaterOrder
    <3>3. HireRow(o).action = "hire" /\ HireRow(o).effdt = o.effdt /\ HireRow(o).effseq = 0
      BY DEF HireRow
    <3>4. QED
      BY <2>6, <3>1, <3>2, <3>3 DEF InOrder, HireFirst, StepByStep, Follows, Lined
  <2>8. HistoryInOrder' /\ \A x \in Employee : employee'[x].known => Lined(history'[x])
    BY <2>5, <2>6, <2>7 DEF HistInv, HistoryInOrder
  <2>9. ASSUME NEW d \in Caller PROVE Remembered(d)' /\ (Holds(d)' => d # c /\ Holds(d))
    <3>1. CASE d = c
      BY <1>2, <3>1 DEF Remembered, Holds, NoCall
    <3>2. CASE d # c
      <4>1. call'[d] = call[d] /\ Op(d)' = Op(d) /\ Remembered(d) /\ Op(d) \in Ask
        BY <1>1, <1>2, <3>2, CallTypes DEF Op, HistInv
      <4>2. \A x : Exists(x) => Exists(x)'
        BY <2>6 DEF Exists
      <4>3. Holds(d)' <=> Holds(d)
        BY <4>1 DEF Holds
      <4>4. (Holds(d) /\ Fits(Op(d))) => Fits(Op(d))'
        <5>1. CASE Holds(d)
          <6>1. Op(d).employee \in Employee /\ Op(d).employee # e
            BY <2>1, <4>1, <5>1 DEF Remembered, Exists
          <6>2. ASSUME NEW q, q = Op(d), Fits(q) PROVE Fits(q)'
            BY <2>6, <6>1, <6>2, FitsStays
          <6>3. QED
            BY <4>1, <6>2
        <5>2. QED
          BY <5>1
      <4>5. QED
        BY <3>2, <4>1, <4>2, <4>3, <4>4 DEF Remembered, Holds
    <3>3. QED
      BY <3>1, <3>2
  <2>10. LocksApart'
    BY <1>2, <2>9 DEF HistInv, LocksApart, Op
  <2>11. QED
    BY <2>8, <2>9, <2>10 DEF HistInv
<1>5. QED
  BY <1>3, <1>4

(* add_job: the row follows the last one of the employee it has locked. *)
LEMMA CommitJobKeeps ==
  ASSUME HistInv, NEW c \in Caller, CommitJob(c)
  PROVE  HistInv'
<1> DEFINE o == Op(c)
           e == o.employee
<1>1. TypeOK /\ call \in [Caller -> CallRow] /\ o \in Ask /\ call' \in [Caller -> CallRow]
  BY CallTypes DEF HistInv, HistoryInOrder, TypeOK, CommitJob
<1>2. call'[c] = NoCall /\ (\A d \in Caller : d # c => call'[d] = call[d])
  BY <1>1 DEF CommitJob, Ends
<1>3. Holds(c) /\ Fits(o) /\ Exists(e) /\ e \in Employee /\ employee[e].known
  BY DEF CommitJob, HistInv, Remembered, Holds, Exists
<1>4. PICK last \in history[e] : \A s \in history[e] \ {last} : Later(last, s)
  BY <1>3 DEF HistInv, Lined
<1>5. /\ NewJob(o) \in JobRow /\ NewJob(o).effdt >= last.effdt
      /\ NewJob(o).effseq = IF NewJob(o).effdt = last.effdt THEN last.effseq + 1 ELSE 0
      /\ NewJob(o).action # "hire"
      /\ (NewJob(o).action = "rehire") <=> (last.status = "terminated")
      /\ NewJob(o).supervisor # e
  BY <1>1, <1>3, <1>4, NewJobFollows
<1>6. /\ history'[e] = history[e] \cup {NewJob(o)} /\ employee' = employee
      /\ \A x \in Employee : x # e => history'[x] = history[x]
  BY <1>1, <1>3 DEF TypeOK, CommitJob
<1>7. TypeOK'
  BY <1>1, <1>3, <1>5 DEF TypeOK, CommitJob
<1>8. InOrder(history'[e], e, employee'[e].hired) /\ Lined(history'[e])
  <2>1. history[e] \in SUBSET JobRow /\ InOrder(history[e], e, employee[e].hired) /\ Lined(history[e])
    BY <1>1, <1>3 DEF TypeOK, HistInv, HistoryInOrder
  <2>2. InOrder(history[e] \cup {NewJob(o)}, e, employee[e].hired) /\ Lined(history[e] \cup {NewJob(o)})
    BY <1>4, <1>5, <2>1, AppendKeepsOrder
  <2>3. QED
    BY <1>6, <2>2
<1>9. HistoryInOrder' /\ \A x \in Employee : employee'[x].known => Lined(history'[x])
  BY <1>6, <1>7, <1>8 DEF HistInv, HistoryInOrder
<1>10. ASSUME NEW d \in Caller PROVE Remembered(d)' /\ (Holds(d)' => d # c /\ Holds(d))
  <2>1. CASE d = c
    BY <1>2, <2>1 DEF Remembered, Holds, NoCall
  <2>2. CASE d # c
    <3>1. call'[d] = call[d] /\ Op(d)' = Op(d) /\ Remembered(d) /\ Op(d) \in Ask
      BY <1>1, <1>2, <2>2, CallTypes DEF Op, HistInv
    <3>2. \A x : Exists(x)' <=> Exists(x)
      BY <1>6 DEF Exists
    <3>3. Holds(d)' <=> Holds(d)
      BY <3>1 DEF Holds
    <3>4. (Holds(d) /\ Fits(Op(d))) => Fits(Op(d))'
      <4>1. CASE Holds(d)
        <5>1. Op(d).employee \in Employee /\ Op(d).employee # e
          BY <1>3, <2>2, <3>1, <4>1 DEF HistInv, LocksApart, Remembered, Exists
        <5>2. ASSUME NEW q, q = Op(d), Fits(q) PROVE Fits(q)'
          BY <1>6, <5>1, <5>2, FitsStays
        <5>3. QED
          BY <3>1, <5>2
      <4>2. QED
        BY <4>1
    <3>5. QED
      BY <2>2, <3>1, <3>2, <3>3, <3>4 DEF Remembered, Holds
  <2>3. QED
    BY <2>1, <2>2
<1>11. LocksApart'
  BY <1>2, <1>10 DEF HistInv, LocksApart, Op
<1>12. QED
  BY <1>9, <1>10, <1>11 DEF HistInv
-----------------------------------------------------------------------------
(* The invariant                                                            *)

(* The rows the calls start from. *)
LEMMA HistInvInit == Init => HistInv
<1> SUFFICES ASSUME Init PROVE HistInv
  OBVIOUS
<1>1. TypeOK
  BY CoreAssumption, StartAssumption, NoCallType DEF Init, TypeOK
<1>2. HistoryInOrder /\ \A e \in Employee : employee[e].known => Lined(history[e])
  BY <1>1, StartAssumption DEF Init, HistoryInOrder
<1>3. \A c \in Caller : ~Holds(c) /\ Remembered(c)
  BY DEF Init, NoCall, Holds, Remembered
<1>4. QED
  BY <1>2, <1>3 DEF HistInv, LocksApart

(* One case per action. *)
LEMMA HistInvNext == HistInv /\ [Next]_vars => HistInv'
<1> SUFFICES ASSUME HistInv, [Next]_vars PROVE HistInv'
  OBVIOUS
<1>1. TypeOK
  BY DEF HistInv, HistoryInOrder
<1>2. ASSUME NEW c \in Caller, BeginAny(c) PROVE HistInv'
  BY <1>1, <1>2, BeginTypes, BeginKeeps
<1>3. ASSUME NEW c \in Caller, Step(c) PROVE HistInv'
  <2>1. CASE CommitCreateEmployee(c)
    BY <2>1, HireKeeps
  <2>2. CASE CommitJob(c)
    BY <2>2, CommitJobKeeps
  <2>3. CASE \/ EnsureActiveParent(c) \/ CommitCreateUnit(c) \/ CheckAncestors(c) \/ CheckChildren(c)
             \/ CommitUpdateUnit(c) \/ CheckEmployeeJob(c) \/ CommitUpdateEmployee(c) \/ CheckJob(c)
             \/ BreakDeadlock(c)
    BY <1>1, <2>3, UnitTypes, EmployeeTypes, StepKeeps
  <2>4. QED
    BY <1>3, <2>1, <2>2, <2>3 DEF Step
<1>4. CASE UNCHANGED vars
  <2>1. HistoryInOrder' /\ \A e \in Employee : employee'[e].known => Lined(history'[e])
    BY <1>1, <1>4 DEF HistInv, HistoryInOrder, TypeOK, vars
  <2>2. ASSUME NEW c \in Caller PROVE Remembered(c)' /\ (Holds(c)' <=> Holds(c)) /\ Op(c)' = Op(c)
    <3>1. Remembered(c) /\ call' = call /\ employee' = employee /\ history' = history
      BY <1>4 DEF HistInv, vars
    <3>2. \A x : Exists(x)' <=> Exists(x)
      BY <3>1 DEF Exists
    <3>3. Op(c)' = Op(c) /\ (Holds(c)' <=> Holds(c))
      BY <3>1 DEF Op, Holds
    <3>4. Fits(Op(c)) => Fits(Op(c))'
      <4>1. ASSUME NEW q, q = Op(c), Fits(q) PROVE Fits(q)'
        BY <3>1, <4>1, FitsStays
      <4>2. QED
        BY <3>3, <4>1
    <3>5. QED
      BY <3>1, <3>2, <3>3, <3>4 DEF Remembered
  <2>3. LocksApart'
    BY <2>2 DEF HistInv, LocksApart
  <2>4. QED
    BY <2>1, <2>2, <2>3 DEF HistInv
<1>5. QED
  BY <1>2, <1>3, <1>4 DEF Next

(* services/employees.py: what add_job has checked under its lock is still so when it *)
(* commits, and the rows of an employee are in a line.                                *)
THEOREM HistoryInvariant == Spec => []HistInv
<1>1. Init => HistInv
  BY HistInvInit
<1>2. HistInv /\ [Next]_vars => HistInv'
  BY HistInvNext
<1>3. QED
  BY <1>1, <1>2, PTL DEF Spec

(* A history begins with the hire, a rehire follows exactly a termination, rows of one *)
(* date are numbered without gap or clash, and nobody is their own supervisor.         *)
THEOREM HistoryStaysInOrder == Spec => []HistoryInOrder
<1>1. HistInv => HistoryInOrder
  BY DEF HistInv
<1>2. QED
  BY <1>1, HistoryInvariant, PTL

(* What a step leaves of the days before the latest row. *)
PastAsBefore ==
  \A e \in Employee : employee[e].known =>
    \A d \in Day : d < LatestEffdt(e) => HasJobAsOf(e, d) = HasJobAsOf(e, d)'
                                         /\ (HasJobAsOf(e, d) => JobAsOf(e, d)' = JobAsOf(e, d))

(* A step that adds a row adds it after the latest one, so no earlier day sees it. *)
LEMMA StepKeepsPast == HistInv /\ [Next]_vars => PastAsBefore
<1> SUFFICES ASSUME HistInv, [Next]_vars, NEW e \in Employee, employee[e].known,
                    NEW d \in Day, d < LatestEffdt(e)
             PROVE  RowsUpTo(e, d)' = RowsUpTo(e, d)
  BY DEF PastAsBefore, HasJobAsOf, JobAsOf
<1>1. TypeOK
  BY DEF HistInv, HistoryInOrder
<1>2. CASE history'[e] = history[e]
  BY <1>2 DEF RowsUpTo
<1>3. ASSUME NEW c \in Caller, CommitJob(c), history'[e] # history[e]
      PROVE  RowsUpTo(e, d)' = RowsUpTo(e, d)
  <2>1. e = Op(c).employee /\ history'[e] = history[e] \cup {NewJob(Op(c))}
    BY <1>1, <1>3 DEF TypeOK, CommitJob
  <2>2. Op(c) \in Ask /\ Fits(Op(c)) /\ Exists(Op(c).employee)
    BY <1>1, <1>3, CallTypes DEF CommitJob, HistInv, Remembered, Holds
  <2>3. PICK last \in history[e] : \A s \in history[e] \ {last} : Later(last, s)
    BY DEF HistInv, Lined
  <2>4. NewJob(Op(c)) \in JobRow /\ NewJob(Op(c)).effdt >= last.effdt /\ LatestEffdt(e) = last.effdt
    BY <1>1, <2>1, <2>2, <2>3, NewJobFollows
  <2>5. last.effdt \in Nat /\ NewJob(Op(c)).effdt \in Nat /\ d \in Nat
    BY <1>1, <2>4, CoreAssumption DEF TypeOK, JobRow, Day
  <2>6. ~(NewJob(Op(c)).effdt <= d)
    BY <2>4, <2>5
  <2>7. QED
    BY <2>1, <2>6 DEF RowsUpTo
<1>4. ASSUME NEW c \in Caller, CommitCreateEmployee(c) PROVE history'[e] = history[e]
  BY <1>1, <1>4 DEF CommitCreateEmployee, SameData, TypeOK
<1>5. ASSUME NEW c \in Caller, BeginAny(c) \/ Step(c), ~CommitJob(c), ~CommitCreateEmployee(c)
      PROVE  history' = history
  BY <1>5 DEF BeginAny, BeginCreateUnit, BeginUpdateUnit, BeginCreateEmployee, BeginUpdateEmployee,
    BeginAddJob, Begin, Step, EnsureActiveParent, CommitCreateUnit, CheckAncestors, CheckChildren,
    CommitUpdateUnit, CheckEmployeeJob, CommitUpdateEmployee, CheckJob, BreakDeadlock, SameData
<1>6. QED
  BY <1>2, <1>3, <1>4, <1>5 DEF Next, vars

(* What was in force on a day before the latest row stays so for ever. *)
THEOREM PastNeverChanges == Spec => PastStays
<1>1. HistInv /\ [Next]_vars => [PastAsBefore]_vars
  BY StepKeepsPast
<1>2. Spec => [][PastAsBefore]_vars
  BY <1>1, HistoryInvariant, PTL DEF Spec
<1>3. QED
  BY <1>2 DEF PastStays, PastAsBefore
-----------------------------------------------------------------------------
(* The tree of units                                                        *)

(* No unit is written: what the call that goes on has checked is so. *)
LEMMA UnitsStay ==
  ASSUME TypeOK, TreeInv, NEW c \in Caller, UNCHANGED <<unit, overlapped, reactivated>>,
         \A d \in Caller : d # c => call'[d] = call[d],
         UnitSeen(c)'
  PROVE  TreeInv'
<1>1. InactiveAboveActive'
  BY DEF TreeInv, InactiveAboveActive
<1>2. ASSUME NEW d \in Caller, d # c PROVE UnitSeen(d)'
  <2>1. UnitSeen(d) /\ call'[d] = call[d]
    BY <1>2 DEF TreeInv
  <2>2. (\A x : ActiveUnit(x)' <=> ActiveUnit(x)) /\ (\A x : HasActiveChild(x)' <=> HasActiveChild(x))
    BY DEF ActiveUnit, HasActiveChild
  <2>3. QED
    BY <2>1, <2>2 DEF UnitSeen, Op
<1>3. QED
  BY <1>1, <1>2 DEF TreeInv

(* A unit is written: every other call under way is told so. *)
LEMMA UnitsWritten ==
  ASSUME TypeOK, NEW c \in Caller, NEW u \in Unit, EndsWritingUnits(c, u)
  PROVE  \A d \in Caller : UnitSeen(d)'
<1>1. ASSUME NEW d \in Caller, d # c PROVE UnitSeen(d)'
  <2>1. call'[d] = [call[d] EXCEPT !.between = call[d].pc # "ready"] /\ call[d] \in CallRow
    BY <1>1 DEF EndsWritingUnits, TypeOK
  <2>2. ASSUME NEW b \in BOOLEAN
        PROVE  [call[d] EXCEPT !.between = b].between = b /\ [call[d] EXCEPT !.between = b].pc = call[d].pc
    BY <2>1 DEF CallRow
  <2>3. CASE call[d].pc = "ready"
    <3>1. call'[d].pc = "ready"
      BY <2>1, <2>2, <2>3
    <3>2. QED
      BY <3>1 DEF UnitSeen
  <2>4. CASE call[d].pc # "ready"
    <3>1. (call[d].pc # "ready") = TRUE
      BY <2>4
    <3>2. call'[d] = [call[d] EXCEPT !.between = TRUE]
      BY <2>1, <3>1
    <3>3. call'[d].between
      BY <2>2, <3>2
    <3>4. QED
      BY <3>3 DEF UnitSeen
  <2>5. QED
    BY <2>3, <2>4
<1>2. UnitSeen(c)'
  <2>1. call'[c].pc = "ready"
    BY DEF EndsWritingUnits, NoCall
  <2>2. QED
    BY <2>1 DEF UnitSeen
<1>3. QED
  BY <1>1, <1>2

(* Every step but the commits on units. *)
LEMMA OthersKeepTree ==
  ASSUME HistInv, TreeInv, NEW c \in Caller,
         \/ BeginAny(c) \/ EnsureActiveParent(c) \/ CheckAncestors(c) \/ CheckChildren(c)
         \/ CheckEmployeeJob(c) \/ CommitCreateEmployee(c) \/ CommitUpdateEmployee(c)
         \/ CheckJob(c) \/ CommitJob(c) \/ BreakDeadlock(c)
         \/ CommitCreateUnit(c) /\ Ends(c) /\ SameData
  PROVE  TreeInv'
<1>1. TypeOK /\ call \in [Caller -> CallRow] /\ UnitSeen(c)
  BY DEF HistInv, HistoryInOrder, TypeOK, TreeInv
<1>2. UNCHANGED <<unit, overlapped, reactivated>>
  BY DEF BeginAny, BeginCreateUnit, BeginUpdateUnit, BeginCreateEmployee, BeginUpdateEmployee,
    BeginAddJob, Begin, EnsureActiveParent, CheckAncestors, CheckChildren, CheckEmployeeJob,
    CommitCreateEmployee, CommitUpdateEmployee, CheckJob, CommitJob, BreakDeadlock, SameData
<1>3. (\A x : ActiveUnit(x)' <=> ActiveUnit(x)) /\ (\A x : HasActiveChild(x)' <=> HasActiveChild(x))
  BY <1>2 DEF ActiveUnit, HasActiveChild
<1>4. CASE Ends(c)
  <2>1. call'[c].pc = "ready" /\ \A d \in Caller : d # c => call'[d] = call[d]
    BY <1>1, <1>4 DEF Ends, NoCall
  <2>2. UnitSeen(c)'
    BY <2>1 DEF UnitSeen
  <2>3. QED
    BY <1>1, <1>2, <2>1, <2>2, UnitsStay
<1>5. CASE BeginAny(c)
  <2>1. PICK o, pc, seen : /\ Begin(c, o, pc, seen)
                           /\ o.kind = "update_unit" => /\ seen = unit[o.unit] /\ pc \in {"loaded", "placed"}
                                                        /\ (o.moves /\ o.parent # NoUnit) => pc = "loaded"
                           /\ (o.kind = "create_unit" /\ o.parent # NoUnit) => pc = "loaded"
    BY <1>5 DEF BeginAny, BeginCreateUnit, BeginUpdateUnit, BeginCreateEmployee, BeginUpdateEmployee,
      BeginAddJob
  <2>2. /\ call'[c].pc = pc /\ call'[c].op = o /\ call'[c].seen = seen
        /\ \A d \in Caller : d # c => call'[d] = call[d]
    BY <1>1, <2>1 DEF Begin
  <2>3. UnitSeen(c)'
    BY <1>2, <2>1, <2>2 DEF UnitSeen, Op
  <2>4. QED
    BY <1>1, <1>2, <2>2, <2>3, UnitsStay
<1>6. ASSUME NEW pc, Goes(c, pc),
             /\ pc # "ready" /\ call[c].pc # "ready"
             /\ \/ Op(c).kind \notin {"create_unit", "update_unit"}
                \/ Op(c).kind = "create_unit" /\ (Op(c).parent # NoUnit => ActiveUnit(Op(c).parent))
                \/ /\ Op(c).kind = "update_unit"
                   /\ call[c].pc \in {"parent", "placed"} \/ ActiveUnit(Op(c).parent)
                   /\ (pc = "checked" /\ Op(c).active = "off") => ~HasActiveChild(Op(c).unit)
      PROVE  TreeInv'
  <2>1. /\ call'[c].pc = pc /\ call'[c].op = Op(c) /\ call'[c].seen = call[c].seen
        /\ call'[c].between = call[c].between
        /\ \A d \in Caller : d # c => call'[d] = call[d]
    BY <1>1, <1>6 DEF Goes, Op, CallRow
  <2>2. UnitSeen(c)'
    BY <1>1, <1>2, <1>3, <1>6, <2>1 DEF UnitSeen, Op
  <2>3. QED
    BY <1>1, <1>2, <2>1, <2>2, UnitsStay
<1>7. CASE EnsureActiveParent(c) /\ ~Ends(c)
  <2>1. /\ call[c].pc = "loaded" /\ ActiveUnit(Op(c).parent)
        /\ Goes(c, IF Op(c).kind = "create_unit" THEN "checked" ELSE "parent")
    BY <1>7 DEF EnsureActiveParent
  <2>2. QED
    BY <1>6, <2>1
<1>8. CASE (CheckAncestors(c) \/ CheckChildren(c)) /\ ~Ends(c)
  <2>1. CASE CheckAncestors(c)
    <3>1. call[c].pc = "parent" /\ Goes(c, "placed")
      BY <1>8, <2>1 DEF CheckAncestors
    <3>2. CASE Op(c).kind = "create_unit"
      <4>1. /\ call'[c].pc = "placed" /\ call'[c].op = Op(c)
            /\ \A d \in Caller : d # c => call'[d] = call[d]
        BY <1>1, <3>1 DEF Goes, Op, CallRow
      <4>2. UnitSeen(c)'
        BY <3>2, <4>1 DEF UnitSeen, Op
      <4>3. QED
        BY <1>1, <1>2, <4>1, <4>2, UnitsStay
    <3>3. CASE Op(c).kind # "create_unit"
      BY <1>6, <3>1, <3>3
    <3>4. QED
      BY <3>2, <3>3
  <2>2. CASE CheckChildren(c)
    <3>1. /\ call[c].pc = "placed" /\ Goes(c, "checked") /\ Op(c).kind = "update_unit"
          /\ Op(c).active = "off" => ~HasActiveChild(Op(c).unit)
      BY <1>8, <2>2 DEF CheckChildren
    <3>2. QED
      BY <1>6, <3>1
  <2>3. QED
    BY <1>8, <2>1, <2>2
<1>9. CASE (CheckEmployeeJob(c) \/ CheckJob(c)) /\ ~Ends(c)
  <2>1. /\ Goes(c, "checked") /\ call[c].pc \in {"placed", "locked"}
        /\ Op(c).kind \in {"create_employee", "add_job"}
    BY <1>9 DEF CheckEmployeeJob, CheckJob, HistInv, Remembered
  <2>2. QED
    BY <1>6, <2>1
<1>10. QED
  BY <1>4, <1>5, <1>7, <1>8, <1>9 DEF CommitCreateEmployee, CommitUpdateEmployee, CommitJob, BreakDeadlock

(* create_org_unit: below a parent that is active, or was when it was looked at and *)
(* another call has written units since.                                            *)
LEMMA CreateUnitKeepsTree ==
  ASSUME TypeOK, TreeInv, NEW c \in Caller, CommitCreateUnit(c), ~SameData
  PROVE  TreeInv'
<1>1. PICK u \in Unit :
        /\ ~unit[u].known /\ reactivated' = reactivated /\ EndsWritingUnits(c, u)
        /\ unit' = [unit EXCEPT ![u] = [known |-> TRUE, code |-> Op(c).code,
                                        parent |-> Op(c).parent, active |-> TRUE]]
  BY DEF CommitCreateUnit
<1>2. /\ unit'[u].parent = Op(c).parent /\ unit'[u].active
      /\ \A x \in Unit : x # u => unit'[x] = unit[x]
      /\ \A x \in Unit : unit[x].parent \in Unit \cup {NoUnit}
      /\ Op(c).parent \in Unit \cup {NoUnit}
  BY <1>1, CallTypes DEF TypeOK, UnitRow, Ask
<1>3. overlapped \subseteq overlapped' /\ (call[c].between => u \in overlapped')
  BY <1>1 DEF EndsWritingUnits
<1>4. (~call[c].between /\ Op(c).parent # NoUnit) => ActiveUnit(Op(c).parent)
  BY DEF TreeInv, UnitSeen, CommitCreateUnit
<1>5. ASSUME NEW x \in Unit, unit'[x].known, unit'[x].active, unit'[x].parent # NoUnit,
             ~unit'[unit'[x].parent].active
      PROVE  x \in reactivated' \/ {x, unit'[x].parent} \cap overlapped' # {}
  <2>1. CASE x = u
    <3>1. CASE call[c].between
      BY <1>3, <2>1, <3>1
    <3>2. CASE ~call[c].between
      <4>1. ActiveUnit(Op(c).parent)
        BY <1>2, <1>4, <1>5, <2>1, <3>2
      <4>2. Op(c).parent \in Unit /\ Op(c).parent # u /\ unit[Op(c).parent].active
        BY <1>1, <4>1 DEF ActiveUnit
      <4>3. QED
        BY <1>2, <1>5, <2>1, <4>2
    <3>3. QED
      BY <3>1, <3>2
  <2>2. CASE x # u
    <3>1. unit'[x].parent # u
      BY <1>2, <1>5
    <3>2. unit[x].known /\ unit[x].active /\ unit[x].parent # NoUnit /\ ~unit[unit[x].parent].active
      BY <1>2, <1>5, <2>2, <3>1
    <3>3. x \in reactivated \/ {x, unit[x].parent} \cap overlapped # {}
      BY <3>2 DEF TreeInv, InactiveAboveActive
    <3>4. QED
      BY <1>1, <1>2, <1>3, <2>2, <3>3
  <2>3. QED
    BY <2>1, <2>2
<1>6. InactiveAboveActive'
  BY <1>5 DEF InactiveAboveActive
<1>7. QED
  BY <1>1, <1>6, UnitsWritten DEF TreeInv

(* update_org_unit: moved below an active unit, switched off above no active one, switched *)
(* on where it stands; or one of these checks is out of date and the two have overlapped.  *)
LEMMA UpdateUnitKeepsTree ==
  ASSUME TypeOK, TreeInv, NEW c \in Caller, CommitUpdateUnit(c)
  PROVE  TreeInv'
<1> DEFINE o == Op(c)
           u == o.unit
           seen == call[c].seen
           row == Written(o, seen, unit[u])
           parent == IF o.moves THEN o.parent ELSE seen.parent
           active == IF o.active = "keep" THEN seen.active ELSE o.active = "on"
<1>1. /\ u \in Unit /\ o \in Ask /\ unit \in [Unit -> UnitRow] /\ unit[u] \in UnitRow
      /\ seen \in UnitRow /\ call \in [Caller -> CallRow]
  BY CallTypes DEF TypeOK, CommitUpdateUnit, CallRow
<1>2. /\ row.known = unit[u].known
      /\ row.parent = IF parent # seen.parent THEN parent ELSE unit[u].parent
      /\ row.active = IF active # seen.active THEN active ELSE unit[u].active
  <2> HIDE DEF parent, active
  <2>1. row = [unit[u] EXCEPT !.parent = IF parent # seen.parent THEN parent ELSE @,
                              !.active = IF active # seen.active THEN active ELSE @]
    BY DEF Written, parent, active
  <2>2. QED
    BY <1>1, <2>1 DEF UnitRow
<1>3. /\ unit' = [unit EXCEPT ![u] = row] /\ call[c].pc = "checked" /\ o.kind = "update_unit"
      /\ reactivated' = IF /\ row.active /\ ~unit[u].active /\ row.parent # NoUnit
                           /\ ~unit[row.parent].active
                        THEN reactivated \cup {u} ELSE reactivated
      /\ IF row = unit[u] THEN Ends(c) /\ overlapped' = overlapped ELSE EndsWritingUnits(c, u)
  BY DEF CommitUpdateUnit
<1> HIDE DEF row
<1>4. CASE row = unit[u]
  <2>1. UNCHANGED <<unit, overlapped, reactivated>>
    BY <1>1, <1>3, <1>4
  <2>2. call'[c].pc = "ready" /\ \A d \in Caller : d # c => call'[d] = call[d]
    BY <1>1, <1>3, <1>4 DEF Ends, NoCall
  <2>3. UnitSeen(c)'
    BY <2>2 DEF UnitSeen
  <2>4. QED
    BY <2>1, <2>2, <2>3, UnitsStay
<1>5. CASE row # unit[u]
  <2>1. /\ EndsWritingUnits(c, u) /\ overlapped \subseteq overlapped' /\ reactivated \subseteq reactivated'
        /\ call[c].between => u \in overlapped'
    BY <1>3, <1>5 DEF EndsWritingUnits
  <2>2. unit'[u] = row /\ \A x \in Unit : x # u => unit'[x] = unit[x]
    BY <1>1, <1>3
  <2>3. ~call[c].between =>
          /\ seen = unit[u]
          /\ (o.moves /\ o.parent # NoUnit) => ActiveUnit(o.parent)
          /\ o.active = "off" => ~HasActiveChild(u)
    BY <1>3 DEF TreeInv, UnitSeen
  <2>4. \A x \in Unit : (/\ unit[x].known /\ unit[x].active /\ unit[x].parent # NoUnit
                        /\ ~unit[unit[x].parent].active) =>
                         x \in reactivated' \/ {x, unit[x].parent} \cap overlapped' # {}
    BY <2>1 DEF TreeInv, InactiveAboveActive
  <2>5. ASSUME NEW x \in Unit, unit'[x].known, unit'[x].active, unit'[x].parent # NoUnit,
               ~unit'[unit'[x].parent].active
        PROVE  x \in reactivated' \/ {x, unit'[x].parent} \cap overlapped' # {}
    <3>1. CASE call[c].between /\ (x = u \/ unit'[x].parent = u)
      BY <2>1, <3>1
    <3>2. CASE x # u /\ unit'[x].parent # u
      <4>1. unit'[x] = unit[x] /\ unit[x].parent \in Unit
        BY <1>1, <2>2, <2>5, <3>2 DEF UnitRow
      <4>2. QED
        BY <2>2, <2>4, <2>5, <3>2, <4>1
    <3>3. CASE ~call[c].between /\ x = u
      <4>1. row.known /\ row.active /\ row.parent # NoUnit /\ ~unit'[row.parent].active
        BY <2>2, <2>5, <3>3
      <4>2. row.parent # u /\ row.parent \in Unit
        BY <1>1, <1>2, <2>2, <4>1 DEF UnitRow, Ask
      <4>3. ~unit[row.parent].active
        BY <2>2, <4>1, <4>2
      <4>4. CASE ~unit[u].active
        BY <1>3, <3>3, <4>1, <4>3, <4>4
      <4>5. CASE unit[u].active /\ row.parent = unit[u].parent
        BY <1>2, <2>2, <2>4, <3>3, <4>1, <4>3, <4>5
      <4>6. CASE unit[u].active /\ row.parent # unit[u].parent
        <5>1. o.moves /\ row.parent = o.parent
          BY <1>2, <2>3, <3>3, <4>6
        <5>2. o.parent # NoUnit /\ ~unit[o.parent].active
          BY <4>1, <4>3, <5>1
        <5>3. ActiveUnit(o.parent)
          BY <2>3, <3>3, <5>1, <5>2
        <5>4. QED
          BY <5>2, <5>3 DEF ActiveUnit
      <4>7. QED
        BY <4>4, <4>5, <4>6
    <3>4. CASE ~call[c].between /\ x # u /\ unit'[x].parent = u
      <4>1. unit[x].known /\ unit[x].active /\ unit[x].parent = u /\ u # NoUnit /\ ~row.active
        BY <2>2, <2>5, <3>4
      <4>2. CASE unit[u].active
        <5>1. o.active = "off"
          BY <1>1, <1>2, <2>3, <3>4, <4>1, <4>2 DEF Ask
        <5>2. QED
          BY <2>3, <3>4, <4>1, <5>1 DEF HasActiveChild
      <4>3. CASE ~unit[u].active
        BY <2>2, <2>4, <3>4, <4>1, <4>3
      <4>4. QED
        BY <4>2, <4>3
    <3>5. QED
      BY <3>1, <3>2, <3>3, <3>4
  <2>6. InactiveAboveActive'
    BY <2>5 DEF InactiveAboveActive
  <2>7. QED
    BY <1>1, <2>1, <2>6, UnitsWritten DEF TreeInv
<1>6. QED
  BY <1>4, <1>5

(* A create that changes nothing has been refused. *)
LEMMA CreateUnitEnds ==
  ASSUME TypeOK, NEW c \in Caller, CommitCreateUnit(c), SameData
  PROVE  Ends(c)
<1>1. unit \in [Unit -> UnitRow] /\ unit' = unit
  BY DEF SameData, TypeOK
<1>2. ASSUME NEW u \in Unit, ~unit[u].known, NEW row, row.known, unit' = [unit EXCEPT ![u] = row]
      PROVE  FALSE
  BY <1>1, <1>2
<1>3. [known |-> TRUE, code |-> Op(c).code, parent |-> Op(c).parent, active |-> TRUE].known
  OBVIOUS
<1>4. QED
  BY <1>2, <1>3 DEF CommitCreateUnit

(* As long as no other call has written units, what a call on units has checked is so. *)
THEOREM TreeInvariant == Spec => []TreeInv
<1>1. Init => TreeInv
  <2>1. SUFFICES ASSUME Init PROVE TreeInv
    OBVIOUS
  <2>2. \A c \in Caller : call[c].pc = "ready"
    BY <2>1 DEF Init, NoCall
  <2>3. QED
    BY <2>1, <2>2, StartAssumption DEF Init, TreeInv, InactiveAboveActive, UnitSeen
<1>2. HistInv /\ TreeInv /\ [Next]_vars => TreeInv'
  <2>1. SUFFICES ASSUME HistInv, TreeInv, [Next]_vars PROVE TreeInv'
    OBVIOUS
  <2>2. TypeOK
    BY <2>1 DEF HistInv, HistoryInOrder
  <2>3. ASSUME NEW c \in Caller, BeginAny(c) \/ Step(c) PROVE TreeInv'
    <3>1. CASE CommitCreateUnit(c)
      <4>1. CASE SameData
        BY <2>1, <2>2, <3>1, <4>1, CreateUnitEnds, OthersKeepTree
      <4>2. QED
        BY <2>1, <2>2, <3>1, <4>1, CreateUnitKeepsTree
    <3>2. CASE CommitUpdateUnit(c)
      BY <2>1, <2>2, <3>2, UpdateUnitKeepsTree
    <3>3. CASE ~CommitCreateUnit(c) /\ ~CommitUpdateUnit(c)
      BY <2>1, <2>3, <3>3, OthersKeepTree DEF Step
    <3>4. QED
      BY <3>1, <3>2, <3>3
  <2>4. CASE UNCHANGED vars
    <3>1. UNCHANGED <<unit, overlapped, reactivated, call>>
      BY <2>4 DEF vars
    <3>2. InactiveAboveActive'
      BY <2>1, <3>1 DEF TreeInv, InactiveAboveActive
    <3>3. (\A x : ActiveUnit(x)' <=> ActiveUnit(x)) /\ (\A x : HasActiveChild(x)' <=> HasActiveChild(x))
      BY <3>1 DEF ActiveUnit, HasActiveChild
    <3>4. \A c \in Caller : UnitSeen(c)'
      BY <2>1, <3>1, <3>3 DEF TreeInv, UnitSeen, Op
    <3>5. QED
      BY <3>2, <3>4 DEF TreeInv
  <2>5. QED
    BY <2>1, <2>3, <2>4 DEF Next
<1>3. QED
  BY <1>1, <1>2, HistoryInvariant, PTL DEF Spec

(* services/org_units.py: an active unit below an inactive one was switched on there, or *)
(* one of the two was written by a call that overlapped another's write.                 *)
THEOREM InactiveOnlyByOverlap == Spec => []InactiveAboveActive
<1>1. TreeInv => InactiveAboveActive
  BY DEF TreeInv
<1>2. QED
  BY <1>1, TreeInvariant, PTL
-----------------------------------------------------------------------------
(* Cycles of units                                                          *)

(* In a finite set where everybody is above somebody, each is above exactly one: so who is *)
(* outside a part that is closed upward is not directly below that part.                   *)
LEMMA LoopIsARing ==
  ASSUME NEW S, IsFiniteSet(S), NEW f, S \subseteq {f[x] : x \in S},
         NEW B \in SUBSET S, \A x \in B : f[x] \in B, NEW u \in S \ B
  PROVE  f[u] \in S \ B
<1> DEFINE T == {f[x] : x \in S}
           g == [x \in S |-> f[x]]
           h == [x \in B |-> f[x]]
<1>1. g \in Surjection(S, T)
  BY DEF Surjection
<1>2. IsFiniteSet(T) /\ Cardinality(T) <= Cardinality(S)
      /\ (Cardinality(T) = Cardinality(S) <=> g \in Injection(S, T))
  BY <1>1, FS_Surjection
<1>3. S \in SUBSET T
  OBVIOUS
<1>4. Cardinality(S) <= Cardinality(T) /\ (Cardinality(T) = Cardinality(S) => T = S)
  BY <1>2, <1>3, FS_Subset
<1>5. Cardinality(S) \in Nat /\ Cardinality(T) \in Nat
  BY <1>2, FS_CardinalityType
<1>6. Cardinality(T) = Cardinality(S)
  BY <1>2, <1>4, <1>5
<1>7. T = S /\ g \in Injection(S, T)
  BY <1>2, <1>4, <1>6
<1>8. \A x, y \in S : f[x] = f[y] => x = y
  BY <1>7 DEF Injection, IsInjective
<1>9. h \in Injection(B, B)
  BY <1>8 DEF Injection, IsInjective
<1>10. IsFiniteSet(B)
  BY FS_Subset
<1>11. h \in Surjection(B, B)
  BY <1>9, <1>10, FS_Injection
<1>12. f[u] \notin B
  <2>1. SUFFICES ASSUME f[u] \in B PROVE FALSE
    OBVIOUS
  <2>2. PICK b \in B : h[b] = f[u]
    BY <1>11, <2>1 DEF Surjection
  <2>3. QED
    BY <1>8, <2>2
<1>13. f[u] \in S
  BY <1>7
<1>14. QED
  BY <1>12, <1>13

(* What is above a unit includes it and is closed upward. *)
LEMMA AncestorsClosed ==
  ASSUME TypeOK, NEW p \in Unit
  PROVE  /\ Ancestors(p) \subseteq Unit /\ p \in Ancestors(p)
         /\ \A x \in Ancestors(p) : unit[x].parent # NoUnit => unit[x].parent \in Ancestors(p)
<1>1. ASSUME NEW x \in Ancestors(p), unit[x].parent # NoUnit
      PROVE  unit[x].parent \in Ancestors(p)
  <2>1. x \in Unit /\ Up(x) = {unit[x].parent} /\ unit[x].parent \in Unit
    BY <1>1, CoreAssumption DEF Ancestors, Up, TypeOK, UnitRow
  <2>2. ASSUME NEW S \in SUBSET Unit, p \in S, ClosedUpward(S)
        PROVE  unit[x].parent \in S
    <3>1. x \in S
      BY <2>2 DEF Ancestors
    <3>2. QED
      BY <2>1, <2>2, <3>1 DEF ClosedUpward
  <2>3. QED
    BY <2>1, <2>2 DEF Ancestors
<1>2. QED
  BY <1>1 DEF Ancestors

(* A loop, in terms of the parents f. *)
LEMMA LoopMeans ==
  ASSUME NEW f, NEW S \in SUBSET Unit,
         S = UNION {IF u = NoUnit THEN {} ELSE {f[u]} \ {NoUnit} : u \in S}
  PROVE  /\ \A u \in S : f[u] # NoUnit => f[u] \in S
         /\ S \subseteq {f[u] : u \in S}
<1>1. NoUnit \notin S
  BY CoreAssumption
<1>2. \A u \in S : (IF u = NoUnit THEN {} ELSE {f[u]} \ {NoUnit}) = {f[u]} \ {NoUnit}
  BY <1>1
<1>3. S = UNION {{f[u]} \ {NoUnit} : u \in S}
  BY <1>2
<1>4. QED
  BY <1>1, <1>3

(* A unit below which it is not put by its own ancestors' line closes no loop. *)
LEMMA NoLoopThrough ==
  ASSUME TypeOK, TypeOK', NEW u \in Unit, \A x \in Unit \ {u} : unit'[x] = unit[x],
         \/ unit'[u].parent = NoUnit
         \/ unit'[u].parent \in Unit /\ u \notin Ancestors(unit'[u].parent),
         NEW S \in SUBSET Unit, Loop(S)', u \in S
  PROVE  FALSE
<1> DEFINE f == [x \in Unit |-> unit'[x].parent]
           p == unit'[u].parent
           B == S \cap Ancestors(p)
<1>1. \A x \in S : x \in Unit /\ f[x] = unit'[x].parent
  OBVIOUS
<1>2. S = UNION {IF x = NoUnit THEN {} ELSE {f[x]} \ {NoUnit} : x \in S}
  BY <1>1 DEF Loop, Up
<1> HIDE DEF f
<1>3. IsFiniteSet(S) /\ S \subseteq {f[x] : x \in S}
  BY <1>2, StartAssumption, FS_Subset, LoopMeans
<1>4. \A x \in S : f[x] \in S
  <2>1. ASSUME NEW x \in S PROVE f[x] \in S
    <3>1. {} \in SUBSET S /\ (\A y \in {} : f[y] \in {}) /\ x \in S \ {}
      OBVIOUS
    <3>2. QED
      BY <1>3, <3>1, LoopIsARing
  <2>2. QED
    BY <2>1
<1>5. p \in Unit /\ u \notin Ancestors(p) /\ p \in S /\ f[u] = p
  BY <1>1, <1>4, CoreAssumption
<1>6. p \in Ancestors(p) /\ \A x \in Ancestors(p) :
                              unit[x].parent # NoUnit => unit[x].parent \in Ancestors(p)
  BY <1>5, AncestorsClosed
<1>7. \A x \in B : f[x] \in B
  <2>1. ASSUME NEW x \in B PROVE f[x] \in B
    <3>1. x # u /\ x \in Unit /\ f[x] = unit[x].parent /\ f[x] \in S
      BY <1>1, <1>4, <1>5
    <3>2. f[x] # NoUnit
      BY <3>1, CoreAssumption
    <3>3. QED
      BY <1>6, <3>1, <3>2
  <2>2. QED
    BY <2>1
<1>8. u \in S \ B /\ B \in SUBSET S
  BY <1>5
<1>9. f[u] \notin B
  <2> HIDE DEF B
  <2>1. QED
    BY <1>3, <1>7, <1>8, LoopIsARing
<1>10. QED
  BY <1>5, <1>6, <1>9

(* No unit is written: the parents stay, and so does what a call not under way here needs. *)
LEMMA ParentsStay ==
  ASSUME CycleInv, NEW c \in Caller, UNCHANGED <<unit, overlapped>>,
         \A d \in Caller : d # c => call'[d] = call[d],
         PlacedRight(c)'
  PROVE  CycleInv'
<1>1. CyclesComeFromOverlap' /\ ParentsKnown'
  BY DEF CycleInv, CyclesComeFromOverlap, ParentsKnown, Loop, Up
<1>2. ASSUME NEW d \in Caller, d # c PROVE PlacedRight(d)'
  <2>1. PlacedRight(d) /\ call'[d] = call[d]
    BY <1>2 DEF CycleInv
  <2>2. \A x : Ancestors(x)' = Ancestors(x)
    BY DEF Ancestors, ClosedUpward, Up
  <2>3. QED
    BY <2>1, <2>2 DEF PlacedRight, Op
<1>3. QED
  BY <1>1, <1>2 DEF CycleInv

(* Every step but the commits on units. *)
LEMMA OthersKeepParents ==
  ASSUME HistInv, CycleInv, NEW c \in Caller,
         \/ BeginAny(c) \/ EnsureActiveParent(c) \/ CheckAncestors(c) \/ CheckChildren(c)
         \/ CheckEmployeeJob(c) \/ CommitCreateEmployee(c) \/ CommitUpdateEmployee(c)
         \/ CheckJob(c) \/ CommitJob(c) \/ BreakDeadlock(c)
         \/ CommitCreateUnit(c) /\ Ends(c) /\ SameData
  PROVE  CycleInv'
<1>1. TypeOK /\ call \in [Caller -> CallRow] /\ PlacedRight(c)
  BY DEF HistInv, HistoryInOrder, TypeOK, CycleInv
<1>2. UNCHANGED <<unit, overlapped>>
  BY DEF BeginAny, BeginCreateUnit, BeginUpdateUnit, BeginCreateEmployee, BeginUpdateEmployee,
    BeginAddJob, Begin, EnsureActiveParent, CheckAncestors, CheckChildren, CheckEmployeeJob,
    CommitCreateEmployee, CommitUpdateEmployee, CheckJob, CommitJob, BreakDeadlock, SameData
<1>3. \A x : Ancestors(x)' = Ancestors(x)
  BY <1>2 DEF Ancestors, ClosedUpward, Up
<1>4. CASE Ends(c)
  <2>1. call'[c].pc = "ready" /\ \A d \in Caller : d # c => call'[d] = call[d]
    BY <1>1, <1>4 DEF Ends, NoCall
  <2>2. PlacedRight(c)'
    BY <2>1 DEF PlacedRight
  <2>3. QED
    BY <1>2, <2>1, <2>2, ParentsStay
<1>5. CASE BeginAny(c)
  <2>1. PICK o, pc, seen : /\ Begin(c, o, pc, seen)
                           /\ (o.kind = "update_unit" /\ o.moves /\ o.parent # NoUnit) => pc = "loaded"
                           /\ o.kind = "update_unit" => pc \in {"loaded", "placed"}
                           /\ (o.kind = "create_unit" /\ o.parent # NoUnit) => pc = "loaded"
    BY <1>5 DEF BeginAny, BeginCreateUnit, BeginUpdateUnit, BeginCreateEmployee, BeginUpdateEmployee,
      BeginAddJob
  <2>2. /\ call'[c].pc = pc /\ call'[c].op = o
        /\ \A d \in Caller : d # c => call'[d] = call[d]
    BY <1>1, <2>1 DEF Begin
  <2>3. PlacedRight(c)'
    BY <1>2, <2>1, <2>2 DEF PlacedRight, Op
  <2>4. QED
    BY <1>2, <2>2, <2>3, ParentsStay
<1>6. ASSUME NEW pc, Goes(c, pc),
             \/ Op(c).kind \notin {"create_unit", "update_unit"}
             \/ /\ call[c].pc = "loaded" /\ pc \in {"parent", "checked"} /\ ActiveUnit(Op(c).parent)
                /\ pc = "checked" => Op(c).kind = "create_unit"
             \/ call[c].pc = "parent" /\ pc = "placed" /\ Op(c).unit \notin Ancestors(Op(c).parent)
             \/ call[c].pc = "placed" /\ pc = "checked" /\ Op(c).kind = "update_unit"
      PROVE  CycleInv'
  <2>1. /\ call'[c].pc = pc /\ call'[c].op = Op(c) /\ call'[c].between = call[c].between
        /\ \A d \in Caller : d # c => call'[d] = call[d]
    BY <1>1, <1>6 DEF Goes, Op, CallRow
  <2>2. PlacedRight(c)'
    BY <1>1, <1>2, <1>3, <1>6, <2>1 DEF PlacedRight, Op, ActiveUnit
  <2>3. QED
    BY <1>2, <2>1, <2>2, ParentsStay
<1>7. CASE EnsureActiveParent(c) /\ ~Ends(c)
  <2>1. /\ call[c].pc = "loaded" /\ ActiveUnit(Op(c).parent)
        /\ Goes(c, IF Op(c).kind = "create_unit" THEN "checked" ELSE "parent")
    BY <1>7 DEF EnsureActiveParent
  <2>2. QED
    BY <1>6, <2>1
<1>8. CASE (CheckAncestors(c) \/ CheckChildren(c)) /\ ~Ends(c)
  BY <1>6, <1>8 DEF CheckAncestors, CheckChildren
<1>9. CASE (CheckEmployeeJob(c) \/ CheckJob(c)) /\ ~Ends(c)
  <2>1. Goes(c, "checked") /\ Op(c).kind \in {"create_employee", "add_job"}
    BY <1>9 DEF CheckEmployeeJob, CheckJob, HistInv, Remembered
  <2>2. QED
    BY <1>6, <2>1
<1>10. QED
  BY <1>4, <1>5, <1>7, <1>8, <1>9 DEF CommitCreateEmployee, CommitUpdateEmployee, CommitJob, BreakDeadlock

(* A unit u is written, below a unit there is or below none, and so that it closes no loop *)
(* unless another call had come in between.                                                 *)
LEMMA ParentsWritten ==
  ASSUME TypeOK, TypeOK', CycleInv, NEW c \in Caller, NEW u \in Unit, EndsWritingUnits(c, u),
         \A x \in Unit \ {u} : unit'[x] = unit[x], unit[u].known => unit'[u].known,
         unit'[u].parent # NoUnit => unit[unit'[u].parent].known,
         \/ call[c].between
         \/ unit'[u].parent = unit[u].parent
         \/ unit'[u].parent = NoUnit
         \/ u \notin Ancestors(unit'[u].parent)
         \/ ~unit[u].known
  PROVE  CycleInv'
<1>1. /\ unit \in [Unit -> UnitRow] /\ unit' \in [Unit -> UnitRow] /\ call \in [Caller -> CallRow]
      /\ \A x \in Unit : unit[x].known => unit'[x].known
      /\ \A x \in Unit : unit[x].parent \in Unit \cup {NoUnit} /\ unit'[x].parent \in Unit \cup {NoUnit}
  BY DEF TypeOK, UnitRow
<1>2. ParentsKnown'
  BY <1>1 DEF CycleInv, ParentsKnown
<1>3. ASSUME NEW d \in Caller PROVE PlacedRight(d)'
  <2>1. CASE d = c
    <3>1. call'[c].pc = "ready"
      BY DEF EndsWritingUnits, NoCall
    <3>2. QED
      BY <2>1, <3>1 DEF PlacedRight
  <2>2. CASE d # c
    <3>1. /\ call'[d] = [call[d] EXCEPT !.between = call[d].pc # "ready"] /\ call[d] \in CallRow
          /\ (call[d].pc # "ready") \in BOOLEAN
      BY <1>1, <2>2 DEF EndsWritingUnits
    <3>2. /\ call'[d].pc = call[d].pc /\ call'[d].op = call[d].op
          /\ call[d].pc # "ready" => call'[d].between
      BY <3>1 DEF CallRow
    <3>3. PlacedRight(d) /\ Op(d).parent \in Unit \cup {NoUnit}
      BY CallTypes DEF CycleInv, Ask
    <3>4. QED
      BY <1>1, <3>2, <3>3 DEF PlacedRight, Op
  <2>3. QED
    BY <2>1, <2>2
<1>4. ASSUME NEW S \in SUBSET Unit, Loop(S)', S \cap overlapped' = {}
      PROVE  FALSE
  <2>1. overlapped' = IF call[c].between THEN overlapped \cup {u} ELSE overlapped
    BY DEF EndsWritingUnits
  <2>2. ASSUME \A x \in S : unit'[x].parent = unit[x].parent
        PROVE  FALSE
    <3>1. \A x \in S : Up(x)' = Up(x)
      BY <2>2 DEF Up
    <3>2. Loop(S)
      BY <1>4, <3>1 DEF Loop
    <3>3. S \cap overlapped # {}
      BY <3>2 DEF CycleInv, CyclesComeFromOverlap
    <3>4. QED
      BY <1>4, <2>1, <3>3
  <2>3. u \in S /\ unit'[u].parent # unit[u].parent /\ ~call[c].between
    BY <1>4, <2>1, <2>2
  <2>4. unit'[u].parent \in Unit /\ u \in Ancestors(unit'[u].parent)
    <3>1. unit'[u].parent \in Unit \cup {NoUnit}
      BY <1>1
    <3>2. CASE unit'[u].parent = NoUnit \/ (unit'[u].parent \in Unit /\ u \notin Ancestors(unit'[u].parent))
      <4>1. S \in SUBSET Unit /\ Loop(S)' /\ u \in S
        BY <1>4, <2>3
      <4>2. FALSE
        BY <3>2, <4>1, NoLoopThrough
      <4>3. QED
        BY <4>2
    <3>3. QED
      BY <3>1, <3>2
  <2>5. ~unit[u].known
    BY <2>3, <2>4, CoreAssumption
  <2>6. PICK x \in S : unit'[x].parent = u
    <3>1. S = UNION {Up(x)' : x \in S}
      BY <1>4 DEF Loop
    <3>2. PICK x \in S : u \in Up(x)'
      BY <2>3, <3>1
    <3>3. QED
      BY <3>2 DEF Up
  <2>7. u # NoUnit
    BY CoreAssumption
  <2>8. CASE x = u
    BY <2>5, <2>6, <2>7, <2>8
  <2>9. CASE x # u
    <3>1. unit[x].parent = u /\ x \in Unit
      BY <2>6, <2>9
    <3>2. QED
      BY <2>5, <2>7, <3>1 DEF CycleInv, ParentsKnown
  <2>10. QED
    BY <2>8, <2>9
<1>5. QED
  BY <1>2, <1>3, <1>4 DEF CycleInv, CyclesComeFromOverlap

(* create_org_unit: nobody is below a unit that is not there yet. *)
LEMMA CreateUnitKeepsParents ==
  ASSUME TypeOK, TypeOK', CycleInv, NEW c \in Caller, CommitCreateUnit(c), ~SameData
  PROVE  CycleInv'
<1>1. PICK u \in Unit :
        /\ ~unit[u].known /\ EndsWritingUnits(c, u)
        /\ unit' = [unit EXCEPT ![u] = [known |-> TRUE, code |-> Op(c).code,
                                        parent |-> Op(c).parent, active |-> TRUE]]
  BY DEF CommitCreateUnit
<1>2. /\ unit'[u].parent = Op(c).parent /\ unit'[u].known
      /\ \A x \in Unit \ {u} : unit'[x] = unit[x]
  BY <1>1 DEF TypeOK
<1>3. Op(c).parent # NoUnit => unit[Op(c).parent].known
  BY DEF CycleInv, PlacedRight, CommitCreateUnit
<1>4. QED
  BY <1>1, <1>2, <1>3, ParentsWritten

(* update_org_unit: below a unit that it is not above, if no other call has written units *)
(* since it looked.                                                                        *)
LEMMA UpdateUnitKeepsParents ==
  ASSUME TypeOK, TypeOK', TreeInv, CycleInv, NEW c \in Caller, CommitUpdateUnit(c)
  PROVE  CycleInv'
<1> DEFINE o == Op(c)
           u == o.unit
           seen == call[c].seen
           row == Written(o, seen, unit[u])
           parent == IF o.moves THEN o.parent ELSE seen.parent
<1>1. /\ u \in Unit /\ unit \in [Unit -> UnitRow] /\ unit[u] \in UnitRow
      /\ call \in [Caller -> CallRow]
  BY CallTypes DEF TypeOK, CommitUpdateUnit
<1>2. /\ row.known = unit[u].known
      /\ row.parent = IF parent # seen.parent THEN parent ELSE unit[u].parent
  <2> HIDE DEF parent
  <2>1. PICK active : row = [unit[u] EXCEPT !.parent = IF parent # seen.parent THEN parent ELSE @,
                                            !.active = active]
    BY DEF Written, parent
  <2>2. QED
    BY <1>1, <2>1 DEF UnitRow
<1>3. /\ unit' = [unit EXCEPT ![u] = row] /\ call[c].pc = "checked" /\ o.kind = "update_unit"
      /\ IF row = unit[u] THEN Ends(c) /\ overlapped' = overlapped ELSE EndsWritingUnits(c, u)
  BY DEF CommitUpdateUnit
<1> HIDE DEF row
<1>4. CASE row = unit[u]
  <2>1. UNCHANGED <<unit, overlapped>>
    BY <1>1, <1>3, <1>4
  <2>2. call'[c].pc = "ready" /\ \A d \in Caller : d # c => call'[d] = call[d]
    BY <1>1, <1>3, <1>4 DEF Ends, NoCall
  <2>3. PlacedRight(c)'
    BY <2>2 DEF PlacedRight
  <2>4. QED
    BY <2>1, <2>2, <2>3, ParentsStay
<1>5. CASE row # unit[u]
  <2>1. unit'[u] = row /\ \A x \in Unit \ {u} : unit'[x] = unit[x]
    BY <1>1, <1>3
  <2>2. ~call[c].between => seen = unit[u]
    BY <1>3 DEF TreeInv, UnitSeen
  <2>3. (o.moves /\ o.parent # NoUnit) =>
          unit[o.parent].known /\ (call[c].between \/ u \notin Ancestors(o.parent))
    BY <1>3 DEF CycleInv, PlacedRight
  <2>4. row.parent = unit[u].parent \/ (o.moves /\ row.parent = o.parent)
    BY <1>2
  <2>5. row.parent # NoUnit => unit[row.parent].known
    BY <1>1, <2>3, <2>4 DEF CycleInv, ParentsKnown
  <2>6. \/ call[c].between \/ row.parent = unit[u].parent \/ row.parent = NoUnit
        \/ u \notin Ancestors(row.parent)
    BY <2>3, <2>4
  <2>7. QED
    BY <1>1, <1>2, <1>3, <1>5, <2>1, <2>5, <2>6, ParentsWritten
<1>6. QED
  BY <1>4, <1>5

(* services/org_units.py: a cycle of units has a unit whose write overlapped another. *)
THEOREM CyclesByOverlap == Spec => []CyclesComeFromOverlap
<1>1. Init => CycleInv
  <2>1. SUFFICES ASSUME Init PROVE CycleInv
    OBVIOUS
  <2>2. \A c \in Caller : call[c].pc = "ready"
    BY <2>1 DEF Init, NoCall
  <2>3. ASSUME NEW S \in SUBSET Unit, Loop(S) PROVE FALSE
    <3>1. PICK x \in S : \A u \in S : unit[u].parent # x
      BY <2>1, <2>3, StartAssumption DEF Loop, Init
    <3>2. QED
      BY <2>3, <3>1 DEF Loop, Up
  <2>4. ParentsKnown
    BY <2>1, StartAssumption DEF Init, ParentsKnown
  <2>5. QED
    BY <2>2, <2>3, <2>4 DEF CycleInv, CyclesComeFromOverlap, PlacedRight
<1>2. HistInv /\ HistInv' /\ TreeInv /\ CycleInv /\ [Next]_vars => CycleInv'
  <2>1. SUFFICES ASSUME HistInv, HistInv', TreeInv, CycleInv, [Next]_vars PROVE CycleInv'
    OBVIOUS
  <2>2. TypeOK /\ TypeOK'
    BY <2>1 DEF HistInv, HistoryInOrder
  <2>3. ASSUME NEW c \in Caller, BeginAny(c) \/ Step(c) PROVE CycleInv'
    <3>1. CASE CommitCreateUnit(c)
      <4>1. CASE SameData
        BY <2>1, <2>2, <3>1, <4>1, CreateUnitEnds, OthersKeepParents
      <4>2. QED
        BY <2>1, <2>2, <3>1, <4>1, CreateUnitKeepsParents
    <3>2. CASE CommitUpdateUnit(c)
      BY <2>1, <2>2, <3>2, UpdateUnitKeepsParents
    <3>3. CASE ~CommitCreateUnit(c) /\ ~CommitUpdateUnit(c)
      BY <2>1, <2>3, <3>3, OthersKeepParents DEF Step
    <3>4. QED
      BY <3>1, <3>2, <3>3
  <2>4. CASE UNCHANGED vars
    <3>1. UNCHANGED <<unit, overlapped, call>>
      BY <2>4 DEF vars
    <3>2. CyclesComeFromOverlap' /\ ParentsKnown'
      BY <2>1, <3>1 DEF CycleInv, CyclesComeFromOverlap, ParentsKnown, Loop, Up
    <3>3. \A x : Ancestors(x)' = Ancestors(x)
      BY <3>1 DEF Ancestors, ClosedUpward, Up
    <3>4. \A c \in Caller : PlacedRight(c)'
      BY <2>1, <3>1, <3>3 DEF CycleInv, PlacedRight, Op
    <3>5. QED
      BY <3>2, <3>4 DEF CycleInv
  <2>5. QED
    BY <2>1, <2>3, <2>4 DEF Next
<1>3. CycleInv => CyclesComeFromOverlap
  BY DEF CycleInv
<1>4. QED
  BY <1>1, <1>2, <1>3, HistoryInvariant, TreeInvariant, PTL DEF Spec

-----------------------------------------------------------------------------
(* The reads over the history.                                              *)

(* Among finitely many rows there is one that none comes after. *)
LEMMA SomeRowIsLast ==
  ASSUME NEW R \in SUBSET JobRow, IsFiniteSet(R), R # {}
  PROVE  \E r \in R : \A s \in R : ~Later(s, r)
<1> DEFINE After(r) == {s \in R : Later(s, r)}
           Afters == {After(r) : r \in R}
<1>1. Afters \subseteq FiniteSubsetsOf(R) /\ Afters # {}
  <2>1. \A r \in R : After(r) \subseteq R /\ IsFiniteSet(After(r))
    BY FS_Subset
  <2>2. QED
    BY <2>1 DEF FiniteSubsetsOf
<1> HIDE DEF Afters
<1>2. PICK A \in Afters : \A B \in Afters : <<B, A>> \notin StrictSubsetOrdering(R)
  BY <1>1, FS_StrictSubsetOrderingWellFounded, WFMin
<1>3. PICK r \in R : A = After(r)
  BY <1>2 DEF Afters
<1>4. ASSUME NEW s \in R, Later(s, r) PROVE FALSE
  <2>1. After(s) \subseteq After(r)
    <3>1. ASSUME NEW t \in R, Later(t, s) PROVE Later(t, r)
      <4>1. r \in JobRow /\ s \in JobRow /\ t \in JobRow
        OBVIOUS
      <4>2. /\ r.effdt \in Nat /\ s.effdt \in Nat /\ t.effdt \in Nat
            /\ r.effseq \in Nat /\ s.effseq \in Nat /\ t.effseq \in Nat
        BY <4>1, LaterOrder
      <4>3. QED
        BY <1>4, <3>1, <4>2 DEF Later
    <3>2. QED
      BY <3>1
  <2>2. s \in After(r) /\ s \notin After(s)
    BY <1>4, LaterOrder
  <2>3. <<After(s), After(r)>> \in StrictSubsetOrdering(R)
    BY <2>1, <2>2 DEF StrictSubsetOrdering
  <2>4. After(s) \in Afters
    BY DEF Afters
  <2>5. QED
    BY <1>2, <1>3, <2>3, <2>4
<1>5. QED
  BY <1>4

FiniteHistories == \A e \in Employee : IsFiniteSet(history[e])

(* A call adds one row to a history or begins one with one row. *)
LEMMA HistoriesStayFinite ==
  ASSUME TypeOK, FiniteHistories, [Next]_vars
  PROVE  FiniteHistories'
<1>1. history \in [Employee -> SUBSET JobRow]
  BY DEF TypeOK
<1>2. CASE history' = history
  BY <1>2 DEF FiniteHistories
<1>3. ASSUME NEW e, NEW n, history' = [history EXCEPT ![e] = @ \cup {n}] PROVE FiniteHistories'
  BY <1>1, <1>3, FS_AddElement DEF FiniteHistories
<1>4. ASSUME NEW e, NEW n, history' = [history EXCEPT ![e] = {n}] PROVE FiniteHistories'
  BY <1>1, <1>4, FS_Singleton DEF FiniteHistories
<1>5. ASSUME NEW c \in Caller, BeginAny(c) \/ Step(c) PROVE FiniteHistories'
  <2>1. CASE CommitJob(c)
    BY <1>3, <2>1 DEF CommitJob
  <2>2. CASE CommitCreateEmployee(c)
    BY <1>2, <1>4, <2>2 DEF CommitCreateEmployee, SameData
  <2>3. CASE BeginAny(c)
    BY <1>2, <2>3 DEF BeginAny, BeginCreateUnit, BeginUpdateUnit, BeginCreateEmployee,
      BeginUpdateEmployee, BeginAddJob, Begin, SameData
  <2>4. CASE EnsureActiveParent(c) \/ CommitCreateUnit(c) \/ CheckAncestors(c) \/ CheckChildren(c)
             \/ CommitUpdateUnit(c)
    BY <1>2, <2>4 DEF EnsureActiveParent, CommitCreateUnit, CheckAncestors, CheckChildren,
      CommitUpdateUnit, SameData
  <2>5. CASE CheckEmployeeJob(c) \/ CommitUpdateEmployee(c) \/ CheckJob(c) \/ BreakDeadlock(c)
    BY <1>2, <2>5 DEF CheckEmployeeJob, CommitUpdateEmployee, CheckJob, BreakDeadlock, SameData
  <2>6. QED
    BY <1>5, <2>1, <2>2, <2>3, <2>4, <2>5 DEF Step
<1>6. CASE UNCHANGED vars
  BY <1>2, <1>6 DEF vars
<1>7. QED
  BY <1>5, <1>6 DEF Next

(* What a read shows of an employee whom it does not call pre_hire is a row of the history. *)
LEMMA ReadIsARow ==
  ASSUME TypeOK, FiniteHistories, NEW e \in KnownEmployee, NEW d \in Day,
         Read(e, d).status # "pre_hire"
  PROVE  \E r \in history[e] : r.supervisor = Read(e, d).supervisor /\ r.unit = Read(e, d).unit
<1> DEFINE past == {r \in history[e] : r.effdt <= d}
           last == CHOOSE r \in past : \A s \in past : ~Later(s, r)
<1>1. past # {}
  BY DEF Read, NoJob
<1>2. past \in SUBSET JobRow /\ past \subseteq history[e] /\ IsFiniteSet(past)
  <2>1. history[e] \in SUBSET JobRow /\ IsFiniteSet(history[e])
    BY DEF KnownEmployee, TypeOK, FiniteHistories
  <2>2. QED
    BY <2>1, FS_Subset
<1>3. Read(e, d) = [status |-> last.status, unit |-> last.unit, supervisor |-> last.supervisor]
  BY <1>1 DEF Read
<1> HIDE DEF past
<1>4. \E r \in past : \A s \in past : ~Later(s, r)
  BY <1>1, <1>2, SomeRowIsLast
<1>5. last \in history[e]
  BY <1>2, <1>4
<1> HIDE DEF last
<1>6. QED
  BY <1>3, <1>5

(* services/employees.py: the shortcut over the index of the history finds who the plain list *)
(* finds, on every day.                                                                       *)
THEOREM ShortcutFindsAll == Spec => []ShortcutLosesNobody
<1>1. Init => FiniteHistories
  BY StartAssumption DEF Init, FiniteHistories
<1>2. HistInv => TypeOK
  BY DEF HistInv, HistoryInOrder
<1>3. HistInv /\ FiniteHistories /\ [Next]_vars => FiniteHistories'
  BY <1>2, HistoriesStayFinite
<1>4. HistInv /\ FiniteHistories => ShortcutLosesNobody
  <2>1. SUFFICES ASSUME HistInv, FiniteHistories, NEW d \in Day
        PROVE  /\ \A x \in KnownEmployee \cup {NoEmployee}, u \in Unit \cup {NoUnit} :
                    AsOfQuery(Reads(d), x, u) = Listed(Reads(d), "active", x, u)
               /\ \A x \in KnownEmployee : AsOfQuery(Reads(d), x, NoUnit) \subseteq ManagerViews(Reads(d), x)
    BY DEF ShortcutLosesNobody
  <2> DEFINE all == Reads(d)
  <2>2. DOMAIN all = KnownEmployee /\ \A e \in KnownEmployee : all[e] = Read(e, d)
    BY DEF Reads
  <2>3. NoEmployee \notin KnownEmployee
    BY CoreAssumption DEF KnownEmployee
  <2>4. ASSUME NEW e \in KnownEmployee, all[e].status = "active"
        PROVE  \E r \in history[e] : r.supervisor = all[e].supervisor /\ r.unit = all[e].unit
    BY <1>2, <2>1, <2>2, <2>4, ReadIsARow
  <2> HIDE DEF all
  <2>5. ASSUME NEW x, NEW u PROVE AsOfQuery(all, x, u) = Listed(all, "active", x, u)
    <3> DEFINE Wanted(e) == (x # NoEmployee => all[e].supervisor = x) /\ (u # NoUnit => all[e].unit = u)
    <3>1. ASSUME NEW e \in KnownEmployee, all[e].status = "active", Wanted(e) PROVE e \in Candidates(x, u)
      <4>1. PICK r \in history[e] : r.supervisor = all[e].supervisor /\ r.unit = all[e].unit
        BY <2>4, <3>1
      <4>2. AskedFor(r, x, u)
        BY <3>1, <4>1 DEF AskedFor
      <4>3. QED
        BY <4>2 DEF Candidates
    <3>2. AsOfQuery(all, x, u) = {e \in KnownEmployee : all[e].status = "active" /\ Wanted(e)}
      BY <3>1 DEF AsOfQuery
    <3>3. Listed(all, "active", x, u) = {e \in KnownEmployee : all[e].status = "active" /\ Wanted(e)}
      BY <2>2 DEF Listed
    <3>4. QED
      BY <3>2, <3>3
  <2>6. ASSUME NEW x \in KnownEmployee PROVE AsOfQuery(all, x, NoUnit) \subseteq ManagerViews(all, x)
    BY <2>2, <2>3, <2>6 DEF AsOfQuery, ManagerViews
  <2>7. QED
    BY <2>5, <2>6 DEF all
<1>5. QED
  BY <1>1, <1>3, <1>4, HistoryInvariant, PTL DEF Spec
=============================================================================
