----------------------------- MODULE LeaveReads -----------------------------
(***************************************************************************)
(* What the leave screens show of the state of LeaveLedger: the lists, the *)
(* detail and the team calendar of services/leave_requests.py, and its     *)
(* warning about colleagues on leave.                                      *)
(* They change nothing; what could be wrong is that they and the handlers  *)
(* do not agree.                                                           *)
(*                                                                         *)
(* A page of a list is left out: see Reports for the walk over pages.      *)
(***************************************************************************)
EXTENDS LeaveLedger

StoredRequest == {r \in Request : status[r] # "none"}

(* _request_select: one line of a list. *)
Shown(r) == [id |-> r, employee |-> row[r].employee, type |-> row[r].type, start |-> row[r].start,
             end |-> row[r].end, days |-> Days(r), status |-> status[r],
             levels |-> row[r].levels, current |-> level[r]]

(* _can_view: HR, the requester, and the approver of any level. *)
CanView(u, r) ==
  \/ u \in HrAdmin
  \/ EmployeeOf[u] = row[r].employee
  \/ EmployeeOf[u] # NoEmployee /\ \E l \in Level : approval[r][l].approver = EmployeeOf[u]

(* _detail, for who may see it: the line and the level rows in order. *)
Detail(r) == [line |-> Shown(r), approvals |-> [l \in 1..row[r].levels |-> approval[r][l]]]
GetRequest(u) == {Detail(r) : r \in {q \in StoredRequest : CanView(u, q)}}

-----------------------------------------------------------------------------
(* list_requests                                                            *)

(* Mutation: the join forgets current_level, so any pending level counts. *)
AwaitsAnyLevel(r, who) == status[r] = "pending" /\ \E l \in Level :
                            approval[r][l].status = "pending" /\ approval[r][l].approver = who
(* The level under decision is pending and names this approver. *)
Awaits(r, who) == /\ status[r] = "pending"
                  /\ approval[r][level[r]].status = "pending"
                  /\ approval[r][level[r]].approver = who

(* scope approvals: what waits for the viewer, and for HR what has no approver. *)
Queue(u) ==
  {Shown(r) : r \in {q \in StoredRequest : \/ EmployeeOf[u] # NoEmployee /\ Awaits(q, EmployeeOf[u])
                                           \/ u \in HrAdmin /\ Awaits(q, NoEmployee)}}

(* scope mine and scope all, for the year of the start date. *)
Mine(u, y) ==
  {Shown(r) : r \in {q \in StoredRequest : EmployeeOf[u] = row[q].employee /\ YearOf(row[q].start) = y}}
All(y) == {Shown(r) : r \in {q \in StoredRequest : YearOf(row[q].start) = y}}

-----------------------------------------------------------------------------
(* The team calendar and the warning of validate and submit                 *)

(* employees_as_of_query with a supervisor: the active employees below him on day d. *)
Team(x, d) == {e \in Employee : job[e][d].active /\ job[e][d].supervisor = x}

(* The rows the bounded overlap condition finds. *)
(* Mutation: leave that began before the range is not found. *)
FoundFromStart(s, f) == {r \in Request : status[r] \in Active /\ row[r].start \in s..f}
Found(s, f) == {r \in Request : /\ status[r] \in Active /\ row[r].start <= f /\ row[r].end >= s
                                /\ row[r].start > s - MaxSpan}

(* team_calendar: HR sees everybody, a supervisor who reports to him today. *)
Calendar(u, s, f) ==
  {Shown(r) : r \in {q \in Found(s, f) : u \in HrAdmin \/ row[q].employee \in Team(EmployeeOf[u], today)}}

(* _team_overlap: colleagues below the same supervisor on the first day of the leave. *)
ColleaguesOnLeave(e, s, f) ==
  LET x == job[e][s].supervisor
  IN IF x = NoEmployee THEN {} ELSE {row[r].employee : r \in Found(s, f)} \cap (Team(x, s) \ {e})

-----------------------------------------------------------------------------
(* Properties *)

(* Who finds a request in the queue finds its level open there and may decide it, unless it is  *)
(* his own (HR's own request whose level has no approver); nobody but HR decides what is not in *)
(* his queue; and what any list shows him of his own, of the queue or, as HR, of all he may open. *)
QueueDecidable ==
  \A u \in User :
    LET details == GetRequest(u)
        opened == {d.line : d \in details}
    IN /\ Queue(u) \subseteq opened
       /\ \A d \in details : d.line \in Queue(u) =>
            /\ d.approvals[d.line.current].status = "pending"
            /\ MayDecide(u, d.line.id) \/ d.line.employee = EmployeeOf[u]
       /\ \A r \in Request : (MayDecide(u, r) /\ u \notin HrAdmin) => Shown(r) \in Queue(u)
       /\ \A y \in Year : Mine(u, y) \subseteq opened /\ (u \in HrAdmin => All(y) \subseteq opened)

(* The warning a requester gets and the calendar his supervisor sees tell of the same colleagues *)
(* when the leave starts today, although one looks at the team by the start of the leave and the *)
(* other by today; and the calendar misses nobody of the team whose leave meets the range.       *)
CalendarTellsWarning ==
  \A u \in User \ HrAdmin, s, f \in Day :
    LET seen == {line.employee : line \in Calendar(u, s, f)}
        absent == {e \in Employee : Excluded(e, s, f)}
    IN CheckRange(s, f) /\ EmployeeOf[u] # NoEmployee =>
         /\ seen = absent \cap Team(EmployeeOf[u], today)
         /\ s = today => \A e \in Team(EmployeeOf[u], today) : ColleaguesOnLeave(e, s, f) = seen \ {e}
=============================================================================
