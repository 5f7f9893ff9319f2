------------------------------- MODULE CoreHR -------------------------------
(***************************************************************************)
(* Core HR: the tree of organisation units (services/org_units.py) and the *)
(* employees with their effective-dated job history                        *)
(* (services/employees.py), under concurrent calls.                        *)
(*                                                                         *)
(* A call is one transaction.  Only add_job locks what it reads (the row   *)
(* of the employee); every other call reads, checks and writes without a   *)
(* lock, so that what it has read may be changed before its commit.  Each  *)
(* check is a step of its own; the write and the commit are one, which     *)
(* waits for the lock the write needs.                                     *)
(*                                                                         *)
(* Names, titles, grades, managers and employment types are left out: no   *)
(* rule reads them.  A value "keep" or None means a field not given.       *)
(***************************************************************************)
EXTENDS Integers, FiniteSets, FiniteSetsExt

CONSTANTS Unit, NoUnit, Employee, NoEmployee,
          Code,          \* codes of units
          Number,        \* employee numbers
          Email, NoEmail,
          LastDay,       \* effective dates are 1..LastDay
          Caller,
          Operation,     \* the calls the callers may make
          InitialUnit, InitialEmployee, InitialHistory,
          MaxCalls       \* bound on the calls made

VARIABLES unit,          \* org_unit
          employee,      \* employee
          history,       \* employee_job: each employee's rows
          call,          \* what each caller is doing
          calls,         \* calls begun
          overlapped,    \* units written while another call's write of units came in between
          reactivated    \* units switched on below an inactive parent

vars == <<unit, employee, history, call, calls, overlapped, reactivated>>

Day == 1..LastDay
JobAction == {"hire", "rehire", "transfer", "promotion", "data_change", "termination"}
EmploymentStatus == {"active", "terminated"}

UnitRow == [known : BOOLEAN, code : Code, parent : Unit \cup {NoUnit}, active : BOOLEAN]
EmployeeRow == [known : BOOLEAN, number : Number, email : Email \cup {NoEmail}, hired : Day]
JobRow == [effdt : Day, effseq : Nat, action : JobAction, unit : Unit,
           supervisor : Employee \cup {NoEmployee}, status : EmploymentStatus]

(* What the calls ask for.  Each kind reads its own fields. *)
Ask == [kind : {"create_unit", "update_unit", "create_employee", "update_employee", "add_job"},
        unit : Unit \cup {NoUnit}, moves : BOOLEAN, parent : Unit \cup {NoUnit},
        active : {"keep", "on", "off"}, code : Code, employee : Employee, number : Number,
        email : Email \cup {NoEmail}, effdt : Day, action : JobAction,
        keeps : BOOLEAN, supervisor : Employee \cup {NoEmployee}]

CallRow == [pc : {"ready", "loaded", "parent", "placed", "checked", "locked"}, op : Operation,
            seen : UnitRow,        \* the unit as the call loaded it
            between : BOOLEAN]     \* has another call written units since this one began

TypeOK ==
  /\ unit \in [Unit -> UnitRow] /\ employee \in [Employee -> EmployeeRow]
  /\ history \in [Employee -> SUBSET JobRow] /\ call \in [Caller -> CallRow]
  /\ calls \in 0..MaxCalls /\ overlapped \subseteq Unit /\ reactivated \subseteq Unit

ASSUME CoreAssumption ==
  /\ LastDay \in Nat /\ MaxCalls \in Nat /\ Operation \subseteq Ask
  /\ NoUnit \notin Unit /\ NoEmployee \notin Employee /\ NoEmail \notin Email

-----------------------------------------------------------------------------
(* Reads.                                                                   *)

Up(u) == IF u = NoUnit THEN {} ELSE {unit[u].parent} \ {NoUnit}

\* mutant: only the unit itself
AncestorsItself(u) == {u}

(* _ancestors: the unit and all above it, the least set that holds the unit and what is *)
(* above each member.  UNION, not UNION ALL, ends the recursion even in a cycle.         *)
ClosedUpward(S) == \A x \in S : Up(x) \subseteq S
Ancestors(u) == {x \in Unit : \A S \in SUBSET Unit : (u \in S /\ ClosedUpward(S)) => x \in S}

ActiveUnit(u) == u \in Unit /\ unit[u].known /\ unit[u].active
\* mutant: a unit is switched off above active ones
HasActiveChildIgnored(u) == FALSE
HasActiveChild(u) == \E x \in Unit : unit[x].known /\ unit[x].parent = u /\ unit[x].active
CodeTaken(k) == \E u \in Unit : unit[u].known /\ unit[u].code = k
NumberTaken(n) == \E e \in Employee : employee[e].known /\ employee[e].number = n
EmailTaken(m, e) == m # NoEmail /\ \E x \in Employee \ {e} : employee[x].known /\ employee[x].email = m
Exists(e) == e \in Employee /\ employee[e].known

(* The order of the history, and the row in force on a day: job_as_of. *)
Later(r, s) == r.effdt > s.effdt \/ (r.effdt = s.effdt /\ r.effseq > s.effseq)
RowsUpTo(e, d) == {r \in history[e] : r.effdt <= d}
Latest(R) == CHOOSE r \in R : \A s \in R : ~Later(s, r)
JobAsOf(e, d) == Latest(RowsUpTo(e, d))
HasJobAsOf(e, d) == RowsUpTo(e, d) # {}
LatestEffdt(e) == Max({r.effdt : r \in history[e]})
NextSeq(e, d) == LET seqs == {r.effseq : r \in {x \in history[e] : x.effdt = d}} IN
                 IF seqs = {} THEN 0 ELSE Max(seqs) + 1

-----------------------------------------------------------------------------
Unseen == CHOOSE row \in UnitRow : ~row.known
NoCall == [pc |-> "ready", op |-> CHOOSE o \in Operation : TRUE, seen |-> Unseen, between |-> FALSE]

Init ==
  /\ unit = InitialUnit /\ employee = InitialEmployee /\ history = InitialHistory
  /\ call = [c \in Caller |-> NoCall] /\ calls = 0 /\ overlapped = {} /\ reactivated = {}

Op(c) == call[c].op
Goes(c, pc) == call' = [call EXCEPT ![c].pc = pc]
Ends(c) == call' = [call EXCEPT ![c] = NoCall]
SameData == UNCHANGED <<unit, employee, history, overlapped, reactivated>>

(* A commit that writes unit u: every other call under way has it come in between. *)
EndsWritingUnits(c, u) ==
  /\ call' = [d \in Caller |-> IF d = c THEN NoCall
                               ELSE [call[d] EXCEPT !.between = call[d].pc # "ready"]]
  /\ overlapped' = IF call[c].between THEN overlapped \cup {u} ELSE overlapped

Begin(c, o, pc, seen) ==
  /\ call[c].pc = "ready" /\ calls < MaxCalls
  /\ calls' = calls + 1
  /\ call' = [call EXCEPT ![c] = [pc |-> pc, op |-> o, seen |-> seen, between |-> FALSE]]
  /\ SameData

-----------------------------------------------------------------------------
(* services/org_units.py                                                    *)

(* create_org_unit: the code is free, the parent active; then the insert, which *)
(* the unique index on the code may still refuse (an unhandled IntegrityError). *)
BeginCreateUnit(c, o) ==
  /\ o.kind = "create_unit" /\ ~CodeTaken(o.code)
  /\ Begin(c, o, IF o.parent = NoUnit THEN "checked" ELSE "loaded", Unseen)

EnsureActiveParent(c) ==
  /\ call[c].pc = "loaded"
  /\ IF ActiveUnit(Op(c).parent)
     THEN Goes(c, IF Op(c).kind = "create_unit" THEN "checked" ELSE "parent") ELSE Ends(c)
  /\ UNCHANGED calls /\ SameData

CommitCreateUnit(c) ==
  /\ call[c].pc = "checked" /\ Op(c).kind = "create_unit"
  /\ IF CodeTaken(Op(c).code) THEN Ends(c) /\ SameData
     ELSE \E u \in Unit :
            /\ ~unit[u].known
            /\ unit' = [unit EXCEPT ![u] = [known |-> TRUE, code |-> Op(c).code,
                                            parent |-> Op(c).parent, active |-> TRUE]]
            /\ EndsWritingUnits(c, u) /\ UNCHANGED <<employee, history, reactivated>>
  /\ UNCHANGED calls

(* update_org_unit: the unit is loaded without a lock. *)
BeginUpdateUnit(c, o) ==
  /\ o.kind = "update_unit" /\ unit[o.unit].known
  /\ Begin(c, o, IF o.moves /\ o.parent # NoUnit THEN "loaded" ELSE "placed", unit[o.unit])

(* check_org_parent: the unit is neither its new parent nor above it. *)
CheckAncestors(c) ==
  /\ call[c].pc = "parent"
  /\ IF Op(c).unit \in Ancestors(Op(c).parent) THEN Ends(c) ELSE Goes(c, "placed")
  /\ UNCHANGED calls /\ SameData

CheckChildren(c) ==
  /\ call[c].pc = "placed" /\ Op(c).kind = "update_unit"
  /\ IF Op(c).active = "off" /\ HasActiveChild(Op(c).unit) THEN Ends(c) ELSE Goes(c, "checked")
  /\ UNCHANGED calls /\ SameData

(* The flush writes the fields that differ from what was loaded, and only those. *)
Written(o, seen, now) ==
  LET parent == IF o.moves THEN o.parent ELSE seen.parent
      active == IF o.active = "keep" THEN seen.active ELSE o.active = "on"
  IN [now EXCEPT !.parent = IF parent # seen.parent THEN parent ELSE @,
                 !.active = IF active # seen.active THEN active ELSE @]

CommitUpdateUnit(c) ==
  LET u == Op(c).unit
      row == Written(Op(c), call[c].seen, unit[u])
  IN
  /\ call[c].pc = "checked" /\ Op(c).kind = "update_unit"
  /\ unit' = [unit EXCEPT ![u] = row]
  /\ reactivated' = IF /\ row.active /\ ~unit[u].active /\ row.parent # NoUnit
                       /\ ~unit[row.parent].active
                    THEN reactivated \cup {u} ELSE reactivated
  /\ IF row = unit[u] THEN Ends(c) /\ overlapped' = overlapped ELSE EndsWritingUnits(c, u)
  /\ UNCHANGED <<employee, history, calls>>

-----------------------------------------------------------------------------
(* services/employees.py                                                    *)

(* The employees add_job has locked FOR UPDATE.  The foreign key of a new job row   *)
(* takes FOR KEY SHARE on its supervisor, and the update of an employee a row lock: *)
(* both wait for it.                                                                *)
Held(e) == {c \in Caller : call[c].pc \in {"locked", "checked"} /\ Op(c).kind = "add_job"
                           /\ Op(c).employee = e}

(* create_employee: number and email free; unit active, supervisor known; insert. *)
BeginCreateEmployee(c, o) ==
  /\ o.kind = "create_employee" /\ ~NumberTaken(o.number) /\ ~EmailTaken(o.email, NoEmployee)
  /\ Begin(c, o, "placed", Unseen)

CheckEmployeeJob(c) ==
  /\ call[c].pc = "placed" /\ Op(c).kind = "create_employee"
  /\ IF ActiveUnit(Op(c).unit) /\ (Op(c).supervisor = NoEmployee \/ Exists(Op(c).supervisor))
     THEN Goes(c, "checked") ELSE Ends(c)
  /\ UNCHANGED calls /\ SameData

HireRow(o) == [effdt |-> o.effdt, effseq |-> 0, action |-> "hire", unit |-> o.unit,
               supervisor |-> o.supervisor, status |-> "active"]

CommitCreateEmployee(c) ==
  LET o == Op(c) IN
  /\ call[c].pc = "checked" /\ o.kind = "create_employee"
  /\ IF NumberTaken(o.number) \/ EmailTaken(o.email, NoEmployee) THEN Ends(c) /\ SameData
     ELSE /\ o.supervisor # NoEmployee => Held(o.supervisor) = {}
          /\ \E e \in Employee :
               /\ ~employee[e].known
               /\ employee' = [employee EXCEPT ![e] = [known |-> TRUE, number |-> o.number,
                                                       email |-> o.email, hired |-> o.effdt]]
               /\ history' = [history EXCEPT ![e] = {HireRow(o)}]
          /\ Ends(c) /\ UNCHANGED <<unit, overlapped, reactivated>>
  /\ UNCHANGED calls

(* update_employee: without a lock; the email's index may refuse the update. *)
BeginUpdateEmployee(c, o) ==
  /\ o.kind = "update_employee" /\ Exists(o.employee) /\ ~EmailTaken(o.email, o.employee)
  /\ Begin(c, o, "checked", Unseen)

CommitUpdateEmployee(c) ==
  LET o == Op(c) IN
  /\ call[c].pc = "checked" /\ o.kind = "update_employee" /\ Held(o.employee) = {}
  /\ Ends(c)
  /\ employee' = IF EmailTaken(o.email, o.employee) THEN employee
                 ELSE [employee EXCEPT ![o.employee].email = o.email]
  /\ UNCHANGED <<unit, history, calls, overlapped, reactivated>>

\* mutant: the employee is read without FOR UPDATE
LockIgnored(e) == TRUE
LockFree(e) == Held(e) = {}

(* add_job locks the employee, then reads the history. *)
BeginAddJob(c, o) ==
  /\ o.kind = "add_job" /\ Exists(o.employee) /\ LockFree(o.employee)
  /\ Begin(c, o, "locked", Unseen)

(* rules/core_hr.py *)
\* mutant: a row may come before the latest one
DateAllowedBackdated(o) == o.action # "hire" /\ o.effdt >= employee[o.employee].hired
DateAllowed(o) == /\ o.action # "hire" /\ o.effdt >= employee[o.employee].hired
                  /\ o.effdt >= LatestEffdt(o.employee)
TransitionAllowed(o) ==
  (o.action = "rehire") <=> (JobAsOf(o.employee, o.effdt).status = "terminated")
StatusFor(action) == IF action = "termination" THEN "terminated" ELSE "active"

(* The new row: what is not given is taken from the row in force. *)
NewJob(o) ==
  LET previous == JobAsOf(o.employee, o.effdt) IN
  [effdt |-> o.effdt, effseq |-> NextSeq(o.employee, o.effdt), action |-> o.action,
   unit |-> IF o.unit = NoUnit THEN previous.unit ELSE o.unit,
   supervisor |-> IF o.keeps THEN previous.supervisor ELSE o.supervisor,
   status |-> StatusFor(o.action)]

JobAllowed(o) ==
  /\ DateAllowed(o) /\ HasJobAsOf(o.employee, o.effdt) /\ TransitionAllowed(o)
  /\ o.unit # NoUnit => ActiveUnit(o.unit)
  /\ NewJob(o).supervisor # o.employee
  /\ NewJob(o).supervisor # NoEmployee => Exists(NewJob(o).supervisor)

CheckJob(c) ==
  /\ call[c].pc = "locked"
  /\ IF JobAllowed(Op(c)) THEN Goes(c, "checked") ELSE Ends(c)
  /\ UNCHANGED calls /\ SameData

SupervisorHeld(c) == NewJob(Op(c)).supervisor # NoEmployee
                     /\ Held(NewJob(Op(c)).supervisor) \ {c} # {}
CommitJob(c) ==
  LET e == Op(c).employee IN
  /\ call[c].pc = "checked" /\ Op(c).kind = "add_job" /\ ~SupervisorHeld(c)
  /\ history' = [history EXCEPT ![e] = @ \cup {NewJob(Op(c))}]
  /\ Ends(c) /\ UNCHANGED <<unit, employee, calls, overlapped, reactivated>>

(* Calls that wait for each other's employees in a ring: PostgreSQL aborts one. *)
WaitFor(c) == {d \in Caller \ {c} : /\ call[c].pc = "checked" /\ Op(c).kind = "add_job"
                                    /\ NewJob(Op(c)).supervisor # NoEmployee
                                    /\ d \in Held(NewJob(Op(c)).supervisor)}
Ring(S) == S = UNION {WaitFor(d) : d \in S} /\ \A d \in S : WaitFor(d) # {}
Deadlocked(c) == \E S \in SUBSET Caller : c \in S /\ Ring(S)
BreakDeadlock(c) ==
  /\ Deadlocked(c)
  /\ Ends(c) /\ UNCHANGED calls /\ SameData

-----------------------------------------------------------------------------
Step(c) ==
  \/ EnsureActiveParent(c) \/ CommitCreateUnit(c) \/ CheckAncestors(c) \/ CheckChildren(c)
  \/ CommitUpdateUnit(c) \/ CheckEmployeeJob(c) \/ CommitCreateEmployee(c)
  \/ CommitUpdateEmployee(c) \/ CheckJob(c) \/ CommitJob(c) \/ BreakDeadlock(c)

BeginAny(c) ==
  \E o \in Operation : \/ BeginCreateUnit(c, o) \/ BeginUpdateUnit(c, o) \/ BeginCreateEmployee(c, o)
                       \/ BeginUpdateEmployee(c, o) \/ BeginAddJob(c, o)

Next == \E c \in Caller : BeginAny(c) \/ Step(c)
Spec == Init /\ [][Next]_vars

-----------------------------------------------------------------------------
(* A cycle of units always contains one whose write overlapped another: calls that *)
(* run one after the other keep the tree a tree (test_org_units.py expects         *)
(* org_unit_cycle), two that overlap need not.                                     *)
Loop(S) == S # {} /\ S = UNION {Up(u) : u \in S}
CyclesComeFromOverlap == \A S \in SUBSET Unit : Loop(S) => S \cap overlapped # {}

(* An active unit below an inactive one was switched on there, or one of the two was *)
(* written while another call wrote: no other sequence of calls leaves active units  *)
(* below an inactive one, which create, move and switch-off all check.               *)
InactiveAboveActive ==
  \A u \in Unit : (/\ unit[u].known /\ unit[u].active /\ unit[u].parent # NoUnit
                   /\ ~unit[unit[u].parent].active) =>
    u \in reactivated \/ {u, unit[u].parent} \cap overlapped # {}

(* The state keeps its type, and the history of an employee its form: it begins with the hire *)
(* on the hire date, a rehire follows exactly a termination, and the rows of one date are      *)
(* numbered without gap or clash.                                                              *)
Follows(s, r, H) == Later(s, r) /\ ~\E x \in H : Later(s, x) /\ Later(x, r)
HireFirst(H, hired) ==
  \E r \in H : /\ r.action = "hire" /\ r.effdt = hired /\ r.effseq = 0
               /\ \A s \in H \ {r} : Later(s, r) /\ s.action # "hire"
StepByStep(H) ==
  \A r, s \in H : Follows(s, r, H) =>
    /\ (s.action = "rehire") <=> (r.status = "terminated")
    /\ s.effseq = IF s.effdt = r.effdt THEN r.effseq + 1 ELSE 0
InOrder(H, e, hired) == HireFirst(H, hired) /\ StepByStep(H) /\ \A r \in H : r.supervisor # e

HistoryInOrder ==
  /\ TypeOK
  /\ \A e \in Employee : employee[e].known => InOrder(history[e], e, employee[e].hired)

(* Of two rows one is the later, and one row is the last. *)
Lined(H) == /\ \A r, s \in H : r = s \/ Later(r, s) \/ Later(s, r)
            /\ \E r \in H : \A s \in H \ {r} : Later(r, s)

(* The calls start from finitely many rows in such an order, and from a tree of finitely  *)
(* many units without an active unit below an inactive one; update_org_unit names a unit. *)
ASSUME StartAssumption ==
  /\ Operation # {} /\ Code # {} /\ IsFiniteSet(Unit)
  /\ \A e \in Employee : IsFiniteSet(InitialHistory[e])
  /\ \A o \in Operation : o.kind = "update_unit" => o.unit \in Unit
  /\ InitialUnit \in [Unit -> UnitRow] /\ InitialEmployee \in [Employee -> EmployeeRow]
  /\ InitialHistory \in [Employee -> SUBSET JobRow]
  /\ \A e \in Employee : InitialEmployee[e].known =>
       Lined(InitialHistory[e]) /\ InOrder(InitialHistory[e], e, InitialEmployee[e].hired)
  /\ \A u \in Unit : (/\ InitialUnit[u].known /\ InitialUnit[u].active
                      /\ InitialUnit[u].parent # NoUnit) => InitialUnit[InitialUnit[u].parent].active
  /\ \A u \in Unit : InitialUnit[u].parent # NoUnit => InitialUnit[InitialUnit[u].parent].known
  /\ \A S \in SUBSET Unit \ {{}} : \E x \in S : \A u \in S : InitialUnit[u].parent # x

(* What add_job has checked under its lock is still so when it commits, and no two calls *)
(* hold one employee; create_employee still has its unit and its supervisor.             *)
Holds(c) == call[c].pc \in {"locked", "checked"} /\ Op(c).kind = "add_job"
Fits(o) == /\ DateAllowed(o) /\ HasJobAsOf(o.employee, o.effdt) /\ TransitionAllowed(o)
           /\ NewJob(o).supervisor # o.employee
Remembered(c) ==
  /\ call[c].pc = "locked" => Op(c).kind = "add_job"
  /\ Holds(c) => Exists(Op(c).employee)
  /\ (call[c].pc = "checked" /\ Op(c).kind = "add_job") => Fits(Op(c))
  /\ (call[c].pc = "checked" /\ Op(c).kind = "create_employee") =>
       Op(c).unit \in Unit /\ (Op(c).supervisor = NoEmployee \/ Exists(Op(c).supervisor))
LocksApart == \A c, d \in Caller :
  (Holds(c) /\ Holds(d) /\ Op(c).employee = Op(d).employee) => c = d

HistInv == /\ HistoryInOrder /\ LocksApart /\ \A c \in Caller : Remembered(c)
           /\ \A e \in Employee : employee[e].known => Lined(history[e])

(* As long as no other call has written units, what a call on units has checked is so. *)
UnitSeen(c) ==
  LET o == Op(c)
      pc == call[c].pc
  IN
  ~call[c].between =>
    /\ (pc # "ready" /\ o.kind = "update_unit") => call[c].seen = unit[o.unit]
    /\ (/\ pc \in {"parent", "placed", "checked"} /\ o.kind = "update_unit"
        /\ o.moves /\ o.parent # NoUnit) => ActiveUnit(o.parent)
    /\ (pc = "checked" /\ o.kind = "create_unit" /\ o.parent # NoUnit) => ActiveUnit(o.parent)
    /\ (pc = "checked" /\ o.kind = "update_unit" /\ o.active = "off") => ~HasActiveChild(o.unit)

TreeInv == InactiveAboveActive /\ \A c \in Caller : UnitSeen(c)

(* A parent is a unit there is, also one a call is about to write; and as long as no other *)
(* call has written units, the unit a call moves is not above its new parent.              *)
ParentsKnown == \A u \in Unit : unit[u].parent # NoUnit => unit[unit[u].parent].known
PlacedRight(c) ==
  LET o == Op(c)
      pc == call[c].pc
      moving == o.kind = "update_unit" /\ o.moves /\ pc \in {"placed", "checked"}
      looked == o.kind = "update_unit" /\ o.moves /\ pc = "parent"
      adding == o.kind = "create_unit" /\ pc = "checked"
  IN
  o.parent # NoUnit => /\ (moving \/ looked \/ adding) => unit[o.parent].known
                       /\ (moving /\ ~call[c].between) => o.unit \notin Ancestors(o.parent)

CycleInv == CyclesComeFromOverlap /\ ParentsKnown /\ \A c \in Caller : PlacedRight(c)

(* What was in force on a day before the latest row stays so for ever: leave, accrual and *)
(* reports that looked a past day up would find the same again.                           *)
PastStays ==
  [][\A e \in Employee : employee[e].known =>
       \A d \in Day : d < LatestEffdt(e) => HasJobAsOf(e, d) = HasJobAsOf(e, d)'
                                            /\ (HasJobAsOf(e, d) => JobAsOf(e, d)' = JobAsOf(e, d))]_vars
=============================================================================
