------------------------------ MODULE CoreReads ------------------------------
(***************************************************************************)
(* What the lists and reports show of the state of CoreHR: the as-of reads *)
(* of services/employees.py, which leave, accrual and the team calendar    *)
(* use too, and the view v_employee of the reports.  They change nothing;  *)
(* what could be wrong is that two of them do not agree.                   *)
(***************************************************************************)
EXTENDS CoreHR

KnownEmployee == {e \in Employee : employee[e].known}

NoJob == [status |-> "pre_hire", unit |-> NoUnit, supervisor |-> NoEmployee]

(* _current_job_select: the row in force on day d; _to_read calls an employee without *)
(* one pre_hire.                                                                      *)
Read(e, d) ==
  LET past == {r \in history[e] : r.effdt <= d}
      last == CHOOSE r \in past : \A s \in past : ~Later(s, r)
  IN IF past = {} THEN NoJob ELSE [status |-> last.status, unit |-> last.unit, supervisor |-> last.supervisor]
Reads(d) == [e \in KnownEmployee |-> Read(e, d)]

(* list_employees over the rows "all" of a day, with its filters; "none" is no filter. *)
Listed(all, status, x, u) ==
  {e \in DOMAIN all : /\ status \in {"all", all[e].status}
                      /\ x \in {NoEmployee, all[e].supervisor}
                      /\ u \in {NoUnit, all[e].unit}}

AskedFor(r, x, u) == (x # NoEmployee => r.supervisor = x) /\ (u # NoUnit => r.unit = u)

\* mutant: candidates are looked for in the rows with the latest date only
CandidatesLatest(x, u) == {e \in KnownEmployee : \E r \in history[e] : r.effdt = LatestEffdt(e) /\ AskedFor(r, x, u)}
(* employees_as_of_query: who ever had, in one row, what each filter given asks for, found by an index, *)
Candidates(x, u) == {e \in KnownEmployee : \E r \in history[e] : AskedFor(r, x, u)}
(* when there is a filter; and of those the active ones whose row in force has it. *)
AsOfQuery(all, x, u) ==
  {e \in KnownEmployee : /\ x # NoEmployee \/ u # NoUnit => e \in Candidates(x, u)
                         /\ all[e].status = "active"
                         /\ x # NoEmployee => all[e].supervisor = x
                         /\ u # NoUnit => all[e].unit = u}

(* _can_view of get_employee, for a viewer with the MANAGER role. *)
ManagerViews(all, x) == {e \in DOMAIN all : e = x \/ all[e].supervisor = x}

-----------------------------------------------------------------------------
(* The shortcut of employees_as_of_query over the index of the history loses nobody: with either  *)
(* filter, both or none it finds who the plain list finds, on every day, so that a team calendar, *)
(* a warning, an accrual and a list are about the same people; and a manager may open everybody   *)
(* it finds below him.                                                                            *)
ShortcutLosesNobody ==
  \A d \in Day : \A all \in {Reads(d)} :
    /\ \A x \in KnownEmployee \cup {NoEmployee}, u \in Unit \cup {NoUnit} :
         AsOfQuery(all, x, u) = Listed(all, "active", x, u)
    /\ \A x \in KnownEmployee : AsOfQuery(all, x, NoUnit) \subseteq ManagerViews(all, x)
=============================================================================
