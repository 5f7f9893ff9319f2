-------------------------------- MODULE LeaveTx --------------------------------
(***************************************************************************)
(* The calls of leave management as concurrent transactions, statement by  *)
(* statement, at PostgreSQL's READ COMMITTED: what submit, decide, cancel  *)
(* and adjust_balance read before they hold a lock, which row locks and    *)
(* index checks they wait for, and what they write when they commit.  The  *)
(* variables of LeaveLedger are the committed rows; a call that does not   *)
(* commit leaves no trace in them.                                         *)
(*                                                                         *)
(* Each Call runs once.  The calendar, the leave types, the jobs and the   *)
(* day do not change while the calls run.                                  *)
(***************************************************************************)
EXTENDS LeaveLedger

CONSTANTS
  Call,        \* API calls, one transaction each
  Operation,   \* what a call may ask for
  NoBalance    \* no balance row is locked

Kind == {"submit", "approve", "reject", "cancel", "adjust"}
AnyOperation == [kind: Kind, user: User, request: Request, employee: Employee, type: LeaveType,
                 start: Day, end: Day, key: Key \cup {NoKey}, delta: Delta, policy: Policy]

ASSUME OperationAssumption ==
  /\ Operation \subseteq AnyOperation
  /\ \A o \in Operation : /\ o.kind = "submit" => o.employee = EmployeeOf[o.user]
                          /\ o.kind = "adjust" => o.type \in BalanceType
  /\ NoBalance \notin Balance

VARIABLES
  op,     \* the operation of each call
  pc,     \* the statement a call has reached
  seen    \* the balance row a call holds locked, as it read it

txVars == <<vars, op, pc, seen>>

(* The statements.  submit: keyed, evaluated, checked, inserted; approve: loaded, *)
(* written, updated; reject: loaded, updated; cancel: loaded, balanced.           *)
Running == {"keyed", "evaluated", "checked", "inserted", "loaded", "written", "updated", "balanced", "ready"}
Ended == {"stored", "returned", "refused", "conflict", "aborted", "deadlocked"}

-----------------------------------------------------------------------------
(* What a call holds, and what it waits for *)

Submits(c) == op[c].kind = "submit"
Decides(c) == op[c].kind \in {"approve", "reject", "cancel"}

(* A submit's row is in the table, not committed; its dates are checked after that. *)
InFlight(c) == Submits(c) /\ pc[c] \in {"inserted", "ready"}

(* _load(lock=True): the request row of a decision, FOR UPDATE. *)
HoldsRequest(c) == Decides(c) /\ pc[c] \in Running

(* The request row has been rewritten in the table, not committed. *)
Rewrites(c) == Decides(c) /\ pc[c] \in {"written", "updated", "ready"}

(* get_balance(lock=True): the balance row, FOR UPDATE or just inserted. *)
HoldsBalance(c) == seen[c] # NoBalance

Bucket(c) == IF Decides(c) THEN AccountOf(op[c].request)
                           ELSE <<op[c].employee, op[c].type, YearOf(op[c].start)>>
UsesBucket(c) == Bucket(c)[2] \in BalanceType

(* get_balance: what a call reads of its balance. *)
Current(c) == IF Decides(c) THEN balance[Bucket(c)] ELSE GetBalance(Bucket(c), op[c].policy)

(* Mutations: cancel loads the request, and get_balance its row, without FOR UPDATE. *)
WantsRequestToDecide(c) == op[c].kind \in {"approve", "reject"} /\ pc[c] = "idle"
WantsNothing(c) == FALSE

WantsRequest(c) == Decides(c) /\ pc[c] = "idle"

WantsBalance(c) ==
  /\ UsesBucket(c)
  /\ \/ op[c].kind = "submit" /\ pc[c] = "evaluated"
     \/ op[c].kind \in {"approve", "reject"} /\ pc[c] = "updated"
     \/ op[c].kind = "cancel" /\ pc[c] = "loaded"
     \/ op[c].kind = "adjust" /\ pc[c] = "idle"

(* Mutation: no exclusion constraint, only the query of _evaluate. *)
ChecksNothing(c) == FALSE

(* The exclusion constraint, for a new row or a row written as approved. *)
ChecksDates(c) == (Submits(c) /\ pc[c] = "inserted") \/ pc[c] = "written"

(* The row a call checks, as employee, start and end. *)
Checked(c) == IF Submits(c) THEN op[c] ELSE row[op[c].request]

DatesMeet(a, b) == a.employee = b.employee /\ RangesMeet(a.start, a.end, b.start, b.end)

SameKey(a, b) == a.key # NoKey /\ a.key = b.key /\ a.employee = b.employee

(* The calls c waits for before its next statement: a row lock, or an index entry *)
(* of a transaction that has not ended.                                           *)
WaitsFor(c) ==
  {d \in Call \ {c} :
     \/ WantsRequest(c) /\ HoldsRequest(d) /\ op[d].request = op[c].request
     \/ WantsBalance(c) /\ HoldsBalance(d) /\ Bucket(d) = Bucket(c)
     \/ /\ Submits(c) /\ pc[c] = "checked"
        /\ \/ InFlight(d) /\ SameKey(op[c], op[d])
           \/ Rewrites(d) /\ SameKey(op[c], row[op[d].request])
     \/ /\ ChecksDates(c)
        /\ \/ InFlight(d) /\ DatesMeet(Checked(c), op[d])
           \/ /\ Rewrites(d) /\ status[op[d].request] \in Active
              /\ DatesMeet(Checked(c), row[op[d].request])}

-----------------------------------------------------------------------------
(* Statements.  A call that fails or answers lets go of its locks and its rows. *)

(* Mutation: a call that answers with an error keeps its transaction open. *)
EndHolding(c, outcome) ==
  /\ pc' = [pc EXCEPT ![c] = outcome]
  /\ UNCHANGED <<vars, op, seen>>

Goto(c, statement) ==
  /\ pc' = [pc EXCEPT ![c] = statement]
  /\ UNCHANGED <<vars, op, seen>>

End(c, outcome) ==
  /\ pc' = [pc EXCEPT ![c] = outcome]
  /\ seen' = [seen EXCEPT ![c] = NoBalance]
  /\ UNCHANGED <<vars, op>>

Lock(c, b, statement) ==
  /\ pc' = [pc EXCEPT ![c] = statement]
  /\ seen' = [seen EXCEPT ![c] = b]
  /\ UNCHANGED <<vars, op>>

(* submit: the stored request of a known idempotency key is returned. *)
FindKey(c) ==
  /\ Submits(c) /\ pc[c] = "idle"
  /\ IF KeyTaken(op[c].employee, op[c].key) THEN End(c, "returned") ELSE Goto(c, "keyed")

(* _evaluate up to the overlap query, on what is committed. *)
Evaluate(c) ==
  /\ Submits(c) /\ pc[c] = "keyed"
  /\ IF Admissible(op[c].employee, op[c].type, op[c].start, op[c].end)
       THEN Goto(c, IF UsesBucket(c) THEN "evaluated" ELSE "checked")
       ELSE End(c, "refused")

(* _evaluate, the balance: locked, then checked. *)
CheckBalance(c) ==
  /\ Submits(c) /\ pc[c] = "evaluated"
  /\ LET o == op[c] IN
     IF BalanceCovers(o.employee, o.type, o.start, o.end, o.policy)
       THEN Lock(c, Current(c), "checked")
       ELSE End(c, "refused")

(* The first flush of submit: the row, then the unique index on the key. *)
Insert(c) ==
  /\ Submits(c) /\ pc[c] = "checked"
  /\ IF KeyTaken(op[c].employee, op[c].key) THEN End(c, "conflict") ELSE Goto(c, "inserted")

(* ... and last the exclusion constraint, once nobody's row is in doubt. *)
CheckDates(c) ==
  /\ Submits(c) /\ pc[c] = "inserted"
  /\ IF Excluded(op[c].employee, op[c].start, op[c].end) THEN End(c, "conflict") ELSE Goto(c, "ready")

(* decide and cancel: the request is locked, then the caller's right is checked. *)
Allowed(c) ==
  LET o == op[c] IN
  IF o.kind = "cancel" THEN status[o.request] # "none" /\ MayCancel(o.user, o.request)
                       ELSE MayDecide(o.user, o.request)

Load(c) ==
  /\ Decides(c) /\ pc[c] = "idle"
  /\ IF Allowed(c) THEN Goto(c, "loaded") ELSE End(c, "refused")

(* An approval that leaves the request pending at the next level. *)
LevelOnly(c) == op[c].kind = "approve" /\ level[op[c].request] < row[op[c].request].levels

(* decide: the queries of _release_balance flush the new status first (autoflush); an *)
(* approval below the last level has no more to do.                                   *)
Write(c) ==
  /\ op[c].kind \in {"approve", "reject"} /\ pc[c] = "loaded"
  /\ Goto(c, IF op[c].kind = "reject" THEN "updated"
             ELSE IF LevelOnly(c) THEN "ready" ELSE "written")

(* The row written as approved enters the exclusion constraint's index again. *)
CheckWritten(c) == op[c].kind = "approve" /\ pc[c] = "written" /\ Goto(c, "updated")

(* _release_balance: after the update in decide, before it in cancel. *)
LockReleased(c) ==
  LET next == IF op[c].kind = "cancel" THEN "balanced" ELSE "ready" IN
  /\ \/ op[c].kind \in {"approve", "reject"} /\ pc[c] = "updated"
     \/ op[c].kind = "cancel" /\ pc[c] = "loaded"
  /\ IF UsesBucket(c) THEN Lock(c, Current(c), next) ELSE Goto(c, next)

WriteCancel(c) == op[c].kind = "cancel" /\ pc[c] = "balanced" /\ Goto(c, "ready")

(* adjust_balance: the row is locked, the result must not be negative. *)
Adjust(c) ==
  /\ op[c].kind = "adjust" /\ pc[c] = "idle"
  /\ IF MayAdjust(Current(c), op[c].delta) THEN Lock(c, Current(c), "ready") ELSE End(c, "refused")

(* The commit writes what the call has computed from the rows it read. *)
Stored(c) ==
  LET o == op[c] IN
  CASE o.kind = "submit"  -> StoreRequest(o.request, o.employee, o.type, o.start, o.end, o.key, seen[c])
    [] o.kind = "approve" -> IF LevelOnly(c)
                               THEN StoreLevelApproval(o.user, o.request)
                               ELSE StoreApproval(o.user, o.request, seen[c])
    [] o.kind = "reject"  -> StoreRejection(o.user, o.request, seen[c])
    [] o.kind = "cancel"  -> StoreCancel(o.request, seen[c])
    [] o.kind = "adjust"  -> StoreBalance(Bucket(c), [seen[c] EXCEPT !.adjusted = @ + o.delta])

Commit(c) ==
  /\ pc[c] = "ready"
  /\ Stored(c)
  /\ pc' = [pc EXCEPT ![c] = "stored"]
  /\ seen' = [seen EXCEPT ![c] = NoBalance]
  /\ UNCHANGED op

Statement(c) ==
  /\ WaitsFor(c) = {}
  /\ \/ FindKey(c) \/ Evaluate(c) \/ CheckBalance(c) \/ Insert(c) \/ CheckDates(c)
     \/ Load(c) \/ Write(c) \/ CheckWritten(c) \/ LockReleased(c) \/ WriteCancel(c)
     \/ Adjust(c) \/ Commit(c)

(* The exclusion check may meet a settled row before one it would wait for. *)
MeetSettled(c) ==
  /\ Submits(c) /\ pc[c] = "inserted" /\ WaitsFor(c) # {}
  /\ \E r \in Request : /\ status[r] \in Active /\ DatesMeet(op[c], row[r])
                        /\ \A d \in Call : Rewrites(d) => op[d].request # r
  /\ End(c, "conflict")

(* The client or the server goes away: the transaction is rolled back. *)
Abort(c) == pc[c] \in Running /\ End(c, "aborted")

(* PostgreSQL aborts one transaction of a cycle of waits. *)
WaitCycle(S) == S # {} /\ \A c \in S : WaitsFor(c) \cap S # {}
BreakDeadlock(c) ==
  /\ \E S \in SUBSET Call : /\ c \in S /\ WaitCycle(S)
                            /\ \A T \in SUBSET S : WaitCycle(T) => T = S
  /\ End(c, "deadlocked")

AllEnded == (\A c \in Call : pc[c] \in Ended) /\ UNCHANGED txVars

-----------------------------------------------------------------------------

(* Distinct submits create distinct requests. *)
TxInit ==
  /\ Init
  /\ op \in [Call -> Operation]
  /\ \A c, d \in Call : (c # d /\ Submits(c) /\ Submits(d)) => op[c].request # op[d].request
  /\ pc = [c \in Call |-> "idle"]
  /\ seen = [c \in Call |-> NoBalance]

TxNext ==
  \/ \E c \in Call : Statement(c) \/ MeetSettled(c) \/ Abort(c) \/ BreakDeadlock(c)
  \/ AllEnded

TxSpec == TxInit /\ [][TxNext]_txVars

(* A call that waits for nobody goes on, and a deadlock is broken. *)
Fairness == \A c \in Call : WF_txVars(Statement(c)) /\ WF_txVars(BreakDeadlock(c))
FairTxSpec == TxSpec /\ Fairness

-----------------------------------------------------------------------------
(* Properties *)

(* ADR 008: the calls together do what they would do one after the other, each in one *)
(* step at its commit: no lost update of a balance, no overlap, no decision twice.    *)
ImplementsLedger == Spec

(* The inductive invariant: a locked row has one holder, and what was read under the *)
(* lock is still so.                                                                 *)
TxTypeOK ==
  /\ op \in [Call -> Operation]
  /\ pc \in [Call -> {"idle"} \cup Running \cup Ended]
  /\ seen \in [Call -> Balance \cup {NoBalance}]

LocksExclude(c, d) ==
  /\ (HoldsRequest(c) /\ HoldsRequest(d)) => op[c].request # op[d].request
  /\ (HoldsBalance(c) /\ HoldsBalance(d)) => Bucket(c) # Bucket(d)

SeenIsCurrent(c) ==
  HoldsBalance(c) =>
    /\ UsesBucket(c) /\ pc[c] \in {"checked", "inserted", "balanced", "ready"}
    /\ seen[c] = Current(c)

(* ... what a submit o has checked stays true until it commits, *)
SubmitStages(c, o) ==
  /\ pc[c] # "stored" => status[o.request] = "none"
  /\ pc[c] = "evaluated" => o.type \in BalanceType
  /\ pc[c] \in {"evaluated", "checked", "inserted", "ready"} => HardRules(o.employee, o.type, o.start, o.end)
  /\ pc[c] \in {"checked", "inserted", "ready"} =>
       /\ o.type \in BalanceType => HoldsBalance(c)
       /\ BalanceCovers(o.employee, o.type, o.start, o.end, o.policy)
  /\ pc[c] \in {"inserted", "ready"} => ~KeyTaken(o.employee, o.key)
  /\ pc[c] = "ready" => ~Excluded(o.employee, o.start, o.end)

SubmitsApart(c, d) ==
  (Submits(c) /\ Submits(d)) =>
    /\ op[c].request # op[d].request
    /\ (InFlight(c) /\ InFlight(d)) => ~SameKey(op[c], op[d])
    /\ (pc[c] = "ready" /\ pc[d] = "ready") => ~DatesMeet(op[c], op[d])

(* ... and so does what a decision or a correction has checked. *)
DecisionStages(c) ==
  /\ HoldsRequest(c) => Allowed(c)
  /\ (op[c].kind = "approve" /\ pc[c] \in {"written", "updated"}) => ~LevelOnly(c)
  /\ (Decides(c) /\ pc[c] \in {"balanced", "ready"} /\ UsesBucket(c) /\ ~LevelOnly(c)) => HoldsBalance(c)
  /\ (op[c].kind = "adjust" /\ pc[c] = "ready") => HoldsBalance(c) /\ MayAdjust(seen[c], op[c].delta)

TxInv ==
  /\ TxTypeOK
  /\ \A c \in Call : SeenIsCurrent(c) /\ DecisionStages(c)
  /\ \A c \in Call, o \in Operation : (op[c] = o /\ o.kind = "submit") => SubmitStages(c, o)
  /\ \A c, d \in Call : c # d => LocksExclude(c, d) /\ SubmitsApart(c, d)

(* No call waits for ever: every one is answered or rolled back. *)
CallsEnd == \A c \in Call : <>(pc[c] \in Ended)

=============================================================================
