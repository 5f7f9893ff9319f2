------------------------------- MODULE JobRunner -------------------------------
(***************************************************************************)
(* Batch job runs of one tenant: the run and chunk rows in PostgreSQL, the *)
(* task queue of the broker, the workers that execute chunks, the HR calls *)
(* that create, cancel and retry runs, and the scheduler that resends lost *)
(* tasks.  A step is one transaction, or one part of a transaction that    *)
(* holds a row lock another transaction may wait for: executing a chunk,   *)
(* recording a failure, cancelling a run.                                  *)
(*                                                                         *)
(* Sources: jobs/runner.py, services/jobs.py, jobs/scheduler.py, api/jobs.py *)
(* and models/jobs.py of the backend, worker/tasks.py of the worker.       *)
(***************************************************************************)
EXTENDS Integers, FiniteSets

CONSTANTS
  Run, JobOf,        \* runs, and the job each is a run of
  DryRun,            \* the runs whose changes are rolled back to a savepoint
  Chunk, NoChunk,    \* chunk numbers; NoChunk marks the start_run task of a run
  Worker, NoTask,
  MaxAttempts,       \* JobDefinition.max_attempts
  FaultInWindow,     \* whether a worker may fail between a chunk's end and finalize
  MaxFaults,         \* bound: faults of workers and broker
  MaxCalls,          \* bound: cancel and retry calls
  MaxCopies          \* bound: copies of one task in the broker

Task == Run \X (Chunk \cup {NoChunk})
Busy == {"executing", "record", "recording", "finalize"}

ASSUME JobAssumption ==
  /\ NoChunk \notin Chunk /\ NoTask \notin Task
  /\ IsFiniteSet(Chunk)
  /\ DryRun \subseteq Run /\ FaultInWindow \in BOOLEAN
  /\ MaxAttempts \in Nat \ {0} /\ MaxCopies \in Nat \ {0}
  /\ MaxFaults \in Nat /\ MaxCalls \in Nat

VARIABLES
  run,          \* job_run: status, chunks_done, chunks_failed
  chunk,        \* job_run_chunk: status, attempts ("none" before the plan)
  effects,      \* how often the changes of a chunk have been committed
  cancelling,   \* runs whose row a cancel_run transaction has locked
  queue,        \* copies of each task in the broker
  pc, task,     \* what each worker does, and for which task
  again,        \* the worker's task will be retried (ChunkOutcome.retry_in)
  faults, calls

vars == <<run, chunk, effects, cancelling, queue, pc, task, again, faults, calls>>
rows == <<run, chunk, effects>>
workers == <<pc, task, again>>

-----------------------------------------------------------------------------
(* Rows, tasks and locks *)

RunStatus == {"none", "queued", "running", "success", "partial", "failed", "cancelled"}
ActiveStatus == {"queued", "running"}
RetryableStatus == {"failed", "partial"}
ChunkStatus == {"none", "pending", "success", "failed", "cancelled"}

RunRow == [status: RunStatus, done: Nat, failed: Nat]
ChunkRow == [status: ChunkStatus, attempts: 0..MaxAttempts]

StartOf(r) == <<r, NoChunk>>
ChunksOf(r, status) == {c \in Chunk : chunk[r][c].status = status}
TasksOf(r, chunks) == {<<r, c>> : c \in chunks}

(* A dispatch that fails, or is cut short by a crash, is a send and then a Lose. *)
Sent(tasks) == [t \in Task |-> IF t \in tasks /\ queue[t] < MaxCopies THEN queue[t] + 1 ELSE queue[t]]
Taken(t) == [queue EXCEPT ![t] = @ - 1]

(* The chunk rows a worker's transaction has locked FOR UPDATE. *)
Holds(w, r, c) == pc[w] \in {"executing", "recording"} /\ task[w] = <<r, c>>
Locked(r, c) == \E w \in Worker : Holds(w, r, c)

Goto(w, where) == pc' = [pc EXCEPT ![w] = where]
Done(w) ==
  /\ Goto(w, "idle")
  /\ task' = [task EXCEPT ![w] = NoTask]
  /\ again' = [again EXCEPT ![w] = FALSE]

(* uq_job_run_active, and _ensure_not_running before it. *)
NoneActive(job) == \A q \in Run : JobOf[q] = job => run[q].status \notin ActiveStatus

-----------------------------------------------------------------------------
(* HR and the scheduler *)

(* create_run, by HR or by a schedule that is due. *)
CreateRun(r) ==
  /\ run[r].status = "none"
  /\ NoneActive(JobOf[r])
  /\ run' = [run EXCEPT ![r].status = "queued"]
  /\ queue' = Sent({StartOf(r)})
  /\ UNCHANGED <<chunk, effects, cancelling, workers, faults, calls>>

(* cancel_run locks the run, then updates the pending chunks: it waits for those *)
(* that a worker has locked.                                                     *)
CancelBegin(r) ==
  /\ calls < MaxCalls
  /\ r \notin cancelling
  /\ run[r].status \in ActiveStatus
  /\ cancelling' = cancelling \cup {r}
  /\ calls' = calls + 1
  /\ UNCHANGED <<rows, queue, workers, faults>>

CancelChunks(r) == [c \in Chunk |-> IF chunk[r][c].status = "pending"
                                      THEN [chunk[r][c] EXCEPT !.status = "cancelled"]
                                      ELSE chunk[r][c]]

(* Mutation: chunks that a worker has locked are skipped, not waited for. *)
CancelCommitNoWait(r) ==
  /\ r \in cancelling
  /\ chunk' = [chunk EXCEPT ![r] = [c \in Chunk |-> IF Locked(r, c) THEN chunk[r][c] ELSE CancelChunks(r)[c]]]
  /\ run' = [run EXCEPT ![r].status = "cancelled"]
  /\ cancelling' = cancelling \ {r}
  /\ UNCHANGED <<effects, queue, workers, faults, calls>>

CancelCommit(r) ==
  /\ r \in cancelling
  /\ \A c \in ChunksOf(r, "pending") : ~Locked(r, c)
  /\ chunk' = [chunk EXCEPT ![r] = CancelChunks(r)]
  /\ run' = [run EXCEPT ![r].status = "cancelled"]
  /\ cancelling' = cancelling \ {r}
  /\ UNCHANGED <<effects, queue, workers, faults, calls>>

Retried(row) == [status |-> "pending", attempts |-> 0]

(* retry_run: the failed chunks again, or the plan when no chunk was stored. *)
RetryRun(r) ==
  /\ calls < MaxCalls
  /\ r \notin cancelling
  /\ run[r].status \in RetryableStatus
  /\ NoneActive(JobOf[r])
  /\ LET failed == ChunksOf(r, "failed")
         planned == ChunksOf(r, "none") # Chunk
     IN /\ chunk' = [chunk EXCEPT ![r] = [c \in Chunk |-> IF c \in failed THEN Retried(chunk[r][c])
                                                                         ELSE chunk[r][c]]]
        /\ run' = [run EXCEPT ![r].status = IF planned THEN "running" ELSE "queued", ![r].failed = 0]
        /\ queue' = Sent(IF planned THEN TasksOf(r, failed) ELSE {StartOf(r)})
  /\ calls' = calls + 1
  /\ UNCHANGED <<effects, cancelling, workers, faults>>

(* Scheduler: a run queued for more than 5 minutes has lost its task. *)
Requeue(r) ==
  /\ r \notin cancelling
  /\ run[r].status = "queued"
  /\ queue' = Sent({StartOf(r)})
  /\ UNCHANGED <<rows, cancelling, workers, faults, calls>>

(* Mutation: the start task is resent, as for a queued run. *)
ResumeStart(r) ==
  /\ r \notin cancelling
  /\ run[r].status = "running"
  /\ queue' = Sent({StartOf(r)})
  /\ UNCHANGED <<rows, cancelling, workers, faults, calls>>

(* Scheduler: a run without progress for 30 minutes; its pending chunks are resent. *)
Resume(r) ==
  /\ r \notin cancelling
  /\ run[r].status = "running"
  /\ queue' = Sent(TasksOf(r, ChunksOf(r, "pending")))
  /\ UNCHANGED <<rows, cancelling, workers, faults, calls>>

-----------------------------------------------------------------------------
(* Workers *)

Startable(w, r) ==
  /\ pc[w] = "idle" /\ queue[StartOf(r)] > 0
  /\ r \notin cancelling

PlannedRows(planned) ==
  [c \in Chunk |-> [status |-> IF c \in planned THEN "pending" ELSE "none", attempts |-> 0]]

(* start_run stores the chunks of the plan, then sends a task for each. *)
StartRun(w, r, planned) ==
  /\ Startable(w, r)
  /\ run[r].status = "queued"
  /\ chunk' = [chunk EXCEPT ![r] = PlannedRows(planned)]
  /\ run' = [run EXCEPT ![r].status = IF planned = {} THEN "success" ELSE "running"]
  /\ queue' = [Sent(TasksOf(r, planned)) EXCEPT ![StartOf(r)] = @ - 1]
  /\ UNCHANGED <<effects, cancelling, workers, faults, calls>>

(* The plan raises: its savepoint is rolled back and the run has failed. *)
PlanFails(w, r) ==
  /\ Startable(w, r)
  /\ run[r].status = "queued"
  /\ run' = [run EXCEPT ![r].status = "failed"]
  /\ queue' = Taken(StartOf(r))
  /\ UNCHANGED <<chunk, effects, cancelling, workers, faults, calls>>

(* A start task that comes twice, or after the run was cancelled. *)
StartRunAgain(w, r) ==
  /\ Startable(w, r)
  /\ run[r].status # "queued"
  /\ queue' = Taken(StartOf(r))
  /\ UNCHANGED <<rows, cancelling, workers, faults, calls>>

(* Mutations: the claim without SKIP LOCKED, and without its filter on the status. *)
ClaimableLocked(r, c) == chunk[r][c].status = "pending" /\ run[r].status = "running"
ClaimableAnyStatus(r, c) == chunk[r][c].status # "none" /\ ~Locked(r, c) /\ run[r].status = "running"

(* SELECT ... FOR UPDATE SKIP LOCKED of a pending chunk, then the status of the run. *)
Claimable(r, c) == chunk[r][c].status = "pending" /\ ~Locked(r, c) /\ run[r].status = "running"

ClaimChunk(w, r, c) ==
  /\ pc[w] = "idle" /\ queue[<<r, c>>] > 0
  /\ Claimable(r, c)
  /\ queue' = Taken(<<r, c>>)
  /\ Goto(w, "executing")
  /\ task' = [task EXCEPT ![w] = <<r, c>>]
  /\ UNCHANGED <<rows, cancelling, again, faults, calls>>

(* cancel_run may already have locked a chunk that is still pending. *)
SkipChunk(w, r, c) ==
  /\ pc[w] = "idle" /\ queue[<<r, c>>] > 0
  /\ ~Claimable(r, c) \/ r \in cancelling
  /\ queue' = Taken(<<r, c>>)
  /\ UNCHANGED <<rows, cancelling, workers, faults, calls>>

(* The changes and the chunk's status commit together.  When the answer to the *)
(* commit is lost (a fault) the worker goes on as if the chunk had failed.     *)
CommitChunk(w) ==
  /\ pc[w] = "executing"
  /\ LET r == task[w][1]
         c == task[w][2]
     IN /\ chunk' = [chunk EXCEPT ![r][c] = [status |-> "success", attempts |-> @.attempts + 1]]
        /\ effects' = IF r \in DryRun THEN effects ELSE [effects EXCEPT ![r][c] = @ + 1]
  /\ \/ Goto(w, "finalize") /\ UNCHANGED faults
     \/ Goto(w, "record") /\ faults < MaxFaults /\ faults' = faults + 1
  /\ UNCHANGED <<run, cancelling, queue, task, again, calls>>

FailChunk(w) ==
  /\ pc[w] = "executing"
  /\ Goto(w, "record")
  /\ UNCHANGED <<rows, cancelling, queue, task, again, faults, calls>>

(* Mutation: a failure that comes too late ends the task. *)
RecordBeginReturns(w) ==
  /\ pc[w] = "record" /\ ~Locked(task[w][1], task[w][2])
  /\ IF chunk[task[w][1]][task[w][2]].status = "pending"
     THEN Goto(w, "recording") /\ UNCHANGED <<task, again>> ELSE Done(w)
  /\ UNCHANGED <<rows, cancelling, queue, faults, calls>>

(* _record_failure waits for the chunk row and looks at its status again. *)
RecordBegin(w) ==
  /\ pc[w] = "record"
  /\ LET r == task[w][1]
         c == task[w][2]
     IN /\ ~Locked(r, c)
        /\ Goto(w, IF chunk[r][c].status = "pending" THEN "recording" ELSE "finalize")
  /\ UNCHANGED <<rows, cancelling, queue, task, again, faults, calls>>

IsFinal(attempts) == attempts >= MaxAttempts

(* Its log row references the run, so it waits while cancel_run holds the run. *)
RecordCommit(w) ==
  /\ pc[w] = "recording"
  /\ task[w][1] \notin cancelling
  /\ LET r == task[w][1]
         c == task[w][2]
         attempts == chunk[r][c].attempts + 1
         final == IsFinal(attempts)
     IN /\ chunk' = [chunk EXCEPT ![r][c] = [status |-> IF final THEN "failed" ELSE "pending",
                                             attempts |-> attempts]]
        /\ again' = [again EXCEPT ![w] = ~final]
  /\ Goto(w, "finalize")
  /\ UNCHANGED <<run, effects, cancelling, queue, task, faults, calls>>

(* The status finalize gives a run that has no pending chunk left. *)
(* Mutation: one success is enough. *)
OutcomeOptimistic(done, failed) == IF done > 0 \/ failed = 0 THEN "success" ELSE "failed"

Outcome(done, failed) == IF failed = 0 THEN "success" ELSE IF done > 0 THEN "partial" ELSE "failed"

Finalized(r) ==
  LET done == Cardinality(ChunksOf(r, "success"))
      failed == Cardinality(ChunksOf(r, "failed"))
  IN [status |-> IF ChunksOf(r, "pending") # {} THEN "running" ELSE Outcome(done, failed),
      done |-> done, failed |-> failed]

(* finalize, then the end of the task: a retry is sent, the message is acknowledged. *)
Finalize(w) ==
  /\ pc[w] = "finalize"
  /\ task[w][1] \notin cancelling
  /\ run' = IF run[task[w][1]].status = "running"
              THEN [run EXCEPT ![task[w][1]] = Finalized(task[w][1])]
              ELSE run
  /\ queue' = IF again[w] THEN Sent({task[w]}) ELSE queue
  /\ Done(w)
  /\ UNCHANGED <<chunk, effects, cancelling, faults, calls>>

-----------------------------------------------------------------------------
(* Faults and PostgreSQL's deadlock detector *)

(* cancel_run has the run and waits for the chunk, a failure being recorded has the *)
(* chunk and waits for the run: the detector aborts one of the two transactions.    *)
BreakDeadlock(r) ==
  \E w \in Worker :
    /\ r \in cancelling /\ pc[w] = "recording" /\ task[w][1] = r
    /\ \/ cancelling' = cancelling \ {r} /\ UNCHANGED workers
       \/ Done(w) /\ UNCHANGED cancelling
    /\ UNCHANGED <<rows, queue, faults, calls>>

(* A worker is killed, and its unacknowledged task is delivered again; or an error *)
(* escapes the task, which Celery acknowledges.  The window: the chunk has reached *)
(* its last status and finalize has not run.                                       *)
WorkerFault(w) ==
  /\ pc[w] # "idle"
  /\ FaultInWindow \/ chunk[task[w][1]][task[w][2]].status = "pending"
  /\ faults < MaxFaults
  /\ faults' = faults + 1
  /\ queue' \in {queue, Sent({task[w]})}
  /\ Done(w)
  /\ UNCHANGED <<rows, cancelling, calls>>

(* The broker loses a task, or delivers one again that a worker still has. *)
LoseTask(t) ==
  /\ faults < MaxFaults /\ queue[t] > 0
  /\ faults' = faults + 1
  /\ queue' = Taken(t)
  /\ UNCHANGED <<rows, cancelling, workers, calls>>

RedeliverTask(w) ==
  /\ faults < MaxFaults /\ pc[w] # "idle"
  /\ faults' = faults + 1
  /\ queue' = Sent({task[w]})
  /\ UNCHANGED <<rows, cancelling, workers, calls>>

-----------------------------------------------------------------------------

Init ==
  /\ run = [r \in Run |-> [status |-> "none", done |-> 0, failed |-> 0]]
  /\ chunk = [r \in Run |-> [c \in Chunk |-> [status |-> "none", attempts |-> 0]]]
  /\ effects = [r \in Run |-> [c \in Chunk |-> 0]]
  /\ cancelling = {}
  /\ queue = [t \in Task |-> 0]
  /\ pc = [w \in Worker |-> "idle"]
  /\ task = [w \in Worker |-> NoTask]
  /\ again = [w \in Worker |-> FALSE]
  /\ faults = 0 /\ calls = 0

UserStep(r) == CreateRun(r) \/ CancelBegin(r) \/ RetryRun(r)

TakeStart(r) ==
  \E w \in Worker : \/ \E planned \in SUBSET Chunk : StartRun(w, r, planned)
                    \/ PlanFails(w, r) \/ StartRunAgain(w, r)
TakeChunk(r, c) == \E w \in Worker : ClaimChunk(w, r, c) \/ SkipChunk(w, r, c)
WorkerStep(w) == CommitChunk(w) \/ FailChunk(w) \/ RecordBegin(w) \/ RecordCommit(w) \/ Finalize(w)

FaultStep ==
  \/ \E w \in Worker : WorkerFault(w) \/ RedeliverTask(w)
  \/ \E t \in Task : LoseTask(t)

Next ==
  \/ \E r \in Run : UserStep(r) \/ CancelCommit(r) \/ BreakDeadlock(r) \/ Requeue(r) \/ Resume(r)
  \/ \E r \in Run : TakeStart(r)
  \/ \E r \in Run, c \in Chunk : TakeChunk(r, c)
  \/ \E w \in Worker : WorkerStep(w)
  \/ FaultStep

Spec == Init /\ [][Next]_vars

(* PostgreSQL grants a lock that is free and breaks deadlocks, a worker goes on with *)
(* its task, the scheduler ticks, and the queues are first in, first out.  Nobody    *)
(* has to create, cancel or retry a run, and no fault has to happen.                 *)
Fairness ==
  /\ \A r \in Run : WF_vars(CancelCommit(r)) /\ WF_vars(BreakDeadlock(r))
                    /\ WF_vars(Requeue(r)) /\ WF_vars(Resume(r)) /\ SF_vars(TakeStart(r))
  /\ \A r \in Run, c \in Chunk : SF_vars(TakeChunk(r, c))
  /\ \A w \in Worker : WF_vars(WorkerStep(w))

FairSpec == Spec /\ Fairness

-----------------------------------------------------------------------------
(* Properties *)

(* Type correctness of the rows, the broker and the workers. *)
TypeOK ==
  /\ run \in [Run -> RunRow]
  /\ chunk \in [Run -> [Chunk -> ChunkRow]]
  /\ effects \in [Run -> [Chunk -> Nat]]
  /\ cancelling \subseteq Run
  /\ queue \in [Task -> 0..MaxCopies]
  /\ pc \in [Worker -> {"idle"} \cup Busy]
  /\ task \in [Worker -> (Run \X Chunk) \cup {NoTask}]
  /\ again \in [Worker -> BOOLEAN]
  /\ faults \in 0..MaxFaults /\ calls \in 0..MaxCalls

(* ADR 009.4: whatever is redelivered, resent, killed or retried, the changes of a  *)
(* chunk are committed once, exactly when its row says success, and never in a dry run. *)
EffectsOnceIn(r) ==
  \A c \in Chunk : effects[r][c] = IF chunk[r][c].status = "success" /\ r \notin DryRun THEN 1 ELSE 0

EffectsOnce == \A r \in Run : EffectsOnceIn(r)

(* The status and the counters of a finished run tell what its chunks did, and a chunk *)
(* has failed only when all its attempts are spent.                                    *)
OutcomeTells(r) ==
  /\ run[r].status \notin {"none", "queued", "running"} => ChunksOf(r, "pending") = {}
  /\ run[r].status = "success" => ChunksOf(r, "failed") = {} /\ ChunksOf(r, "cancelled") = {}
  /\ run[r].status = "partial" => ChunksOf(r, "failed") # {} /\ ChunksOf(r, "success") # {}
  /\ run[r].status = "failed" => ChunksOf(r, "success") = {} /\ ChunksOf(r, "cancelled") = {}
  /\ run[r].status \in {"success", "partial", "failed"} =>
       /\ run[r].done = Cardinality(ChunksOf(r, "success"))
       /\ run[r].failed = Cardinality(ChunksOf(r, "failed"))
  /\ \A c \in ChunksOf(r, "failed") : chunk[r][c].attempts = MaxAttempts

OutcomeTellsChunks == \A r \in Run : OutcomeTells(r)

(* The inductive invariant: one worker at most has a chunk row locked, the chunk is then  *)
(* pending and its run is running; what the chunks of a run can be at each of its stages. *)
LocksExclusive ==
  \A w \in Worker :
    /\ pc[w] = "idle" <=> task[w] = NoTask
    /\ \A r \in Run, c \in Chunk : Holds(w, r, c) =>
         /\ chunk[r][c].status = "pending" /\ run[r].status = "running"
         /\ \A v \in Worker : Holds(v, r, c) => v = w

StageAgrees(r) ==
  /\ run[r].status \in {"none", "queued"} =>
       ChunksOf(r, "none") = Chunk /\ run[r].done = 0 /\ run[r].failed = 0
  /\ run[r].status # "cancelled" => ChunksOf(r, "cancelled") = {}
  /\ r \in cancelling => run[r].status \in ActiveStatus
  /\ \A c \in ChunksOf(r, "pending") : chunk[r][c].attempts < MaxAttempts

StagesAgree == \A r \in Run : StageAgrees(r)

JobInv == LocksExclusive /\ StagesAgree /\ EffectsOnce /\ OutcomeTellsChunks

(* Once a run is cancelled or has succeeded nothing more is applied or recorded for it, *)
(* and a chunk that has succeeded is never run again.                                   *)
StaysSettled(r) ==
  /\ run[r].status \in {"success", "cancelled"} =>
       run'[r].status = run[r].status /\ chunk'[r] = chunk[r] /\ effects'[r] = effects[r]
  /\ \A c \in Chunk : chunk[r][c].status = "success" => chunk'[r][c] = chunk[r][c]

SettledStays == [][\A r \in Run : StaysSettled(r)]_vars

(* The scheduler and the workers bring every run to an end, lost tasks and deadlocks *)
(* included, so that the job is not blocked for ever by its active run.              *)
RunsFinish == \A r \in Run : run[r].status \in ActiveStatus ~> run[r].status \notin ActiveStatus

(* Running, with nothing left to do, and no worker is at any of its tasks: nobody will finalize it. *)
LeftUnfinalized(r) ==
  /\ run[r].status = "running" /\ ChunksOf(r, "pending") = {}
  /\ \A w \in Worker : task[w] = NoTask \/ task[w][1] # r

(* ... or is left so, *)
RunsFinishOrAreLeft ==
  \A r \in Run : run[r].status \in ActiveStatus ~>
                    (run[r].status \notin ActiveStatus \/ LeftUnfinalized(r))

(* which is done by a worker with a task of the run, in the step in which it dies or fails between *)
(* the last status of its chunk and finalize, and by no end of a task, retry, cancel or deadlock.  *)
LeftOnlyByFault ==
  [][\A r \in Run : LeftUnfinalized(r)' =>
       LeftUnfinalized(r) \/ \E w \in Worker : WorkerFault(w) /\ task[w][1] = r]_vars

(* ADR 009 and services/jobs.py: seen through its rows, a run does what JobPromise says, *)
(* whatever the broker and the workers do.                                               *)
Promise == INSTANCE JobPromise WITH
  stage   <- [r \in Run |-> run[r].status],
  todo    <- [r \in Run |-> ChunksOf(r, "pending")],
  done    <- [r \in Run |-> ChunksOf(r, "success")],
  givenUp <- [r \in Run |-> ChunksOf(r, "failed")],
  effects <- effects

ImplementsPromise == Promise!PromiseSpec

=============================================================================
