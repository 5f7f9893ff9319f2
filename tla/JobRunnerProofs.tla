---------------------------- MODULE JobRunnerProofs ----------------------------
(* Proofs about JobRunner: the type invariant, the inductive invariant and what *)
(* follows from it, for every number of runs, chunks, workers and faults.       *)
EXTENDS JobRunner, FiniteSetTheorems, TLAPS

-----------------------------------------------------------------------------
(* Helpers *)

LEMMA WorkerTask ==
  ASSUME TypeOK, LocksExclusive, NEW w \in Worker, pc[w] # "idle"
  PROVE  \E r \in Run, c \in Chunk : task[w] = <<r, c>>
<1>1. task[w] # NoTask
  BY DEF LocksExclusive
<1> QED
  BY <1>1 DEF TypeOK

LEMMA TaskTypes ==
  /\ \A r \in Run : StartOf(r) \in Task
  /\ \A r \in Run, c \in Chunk : <<r, c>> \in Task
BY DEF StartOf, Task

LEMMA SentType ==
  ASSUME TypeOK, NEW tasks
  PROVE  Sent(tasks) \in [Task -> 0..MaxCopies]
<1>1. \A t \in Task : queue[t] \in 0..MaxCopies /\ MaxCopies \in Nat
  BY JobAssumption DEF TypeOK
<1>2. \A t \in Task : (queue[t] < MaxCopies) => queue[t] + 1 \in 0..MaxCopies
  BY <1>1
<1> QED
  BY <1>1, <1>2 DEF Sent

LEMMA TakenType ==
  ASSUME TypeOK, NEW t \in Task, queue[t] > 0
  PROVE  Taken(t) \in [Task -> 0..MaxCopies]
<1>1. queue[t] - 1 \in 0..MaxCopies
  BY JobAssumption DEF TypeOK
<1> QED
  BY <1>1 DEF Taken, TypeOK

LEMMA ChunksOfFinite ==
  ASSUME NEW r, NEW status
  PROVE  /\ IsFiniteSet(ChunksOf(r, status)) /\ Cardinality(ChunksOf(r, status)) \in Nat
         /\ Cardinality(ChunksOf(r, status)) = 0 <=> ChunksOf(r, status) = {}
<1>1. ChunksOf(r, status) \subseteq Chunk
  BY DEF ChunksOf
<1>2. IsFiniteSet(ChunksOf(r, status))
  BY <1>1, JobAssumption, FS_Subset
<1> QED
  BY <1>2, FS_CardinalityType, FS_EmptySet

LEMMA FinalizedType == \A r \in Run : Finalized(r) \in RunRow
BY ChunksOfFinite DEF Finalized, Outcome, RunRow, RunStatus

LEMMA RunRowType ==
  ASSUME NEW x \in RunRow, NEW s \in RunStatus
  PROVE  [x EXCEPT !.status = s] \in RunRow /\ [x EXCEPT !.status = s, !.failed = 0] \in RunRow
BY DEF RunRow

LEMMA ChunkRowType ==
  ASSUME NEW s \in ChunkStatus
  PROVE  /\ \A n \in 0..MaxAttempts : [status |-> s, attempts |-> n] \in ChunkRow
         /\ \A x \in ChunkRow : [x EXCEPT !.status = s] \in ChunkRow
BY DEF ChunkRow

-----------------------------------------------------------------------------
(* Type correctness *)

LEMMA TypeInit == Init => TypeOK
BY JobAssumption DEF Init, TypeOK, RunRow, ChunkRow, RunStatus, ChunkStatus

LEMMA UserType ==
  ASSUME TypeOK, NEW r \in Run,
         UserStep(r) \/ CancelCommit(r) \/ Requeue(r) \/ Resume(r)
  PROVE  TypeOK'
<1> USE DEF TypeOK, rows, workers
<1>0. \A s \in RunStatus : [run EXCEPT ![r].status = s] \in [Run -> RunRow]
  BY RunRowType
<1>1. CASE CreateRun(r)
  BY <1>0, <1>1, SentType DEF CreateRun, RunStatus
<1>2. CASE CancelBegin(r)
  BY <1>2, JobAssumption DEF CancelBegin
<1>3. CASE CancelCommit(r)
  <2>1. \A c \in Chunk : [chunk[r][c] EXCEPT !.status = "cancelled"] \in ChunkRow
    BY ChunkRowType DEF ChunkStatus
  <2>2. CancelChunks(r) \in [Chunk -> ChunkRow]
    BY <2>1 DEF CancelChunks
  <2> QED
    BY <1>0, <1>3, <2>2 DEF CancelCommit, RunStatus
<1>4. CASE RetryRun(r)
  <2>1. \A c \in Chunk : Retried(chunk[r][c]) \in ChunkRow
    BY ChunkRowType, JobAssumption DEF Retried, ChunkStatus
  <2>2. chunk' \in [Run -> [Chunk -> ChunkRow]]
    BY <1>4, <2>1 DEF RetryRun
  <2>3. run' \in [Run -> RunRow]
    <3>1. \E s \in RunStatus : run' = [run EXCEPT ![r].status = s, ![r].failed = 0]
      BY <1>4 DEF RetryRun, RunStatus
    <3>2. PICK s \in RunStatus : run' = [run EXCEPT ![r].status = s, ![r].failed = 0]
      BY <3>1
    <3>3. [run[r] EXCEPT !.status = s, !.failed = 0] \in RunRow
      BY RunRowType
    <3> QED
      BY <3>2, <3>3
  <2>4. calls' \in 0..MaxCalls
    BY <1>4, JobAssumption DEF RetryRun
  <2>5. queue' \in [Task -> 0..MaxCopies]
    BY <1>4, SentType DEF RetryRun
  <2> QED
    BY <1>4, <2>2, <2>3, <2>4, <2>5 DEF RetryRun
<1>5. CASE Requeue(r)
  BY <1>5, SentType DEF Requeue
<1>6. CASE Resume(r)
  BY <1>6, SentType DEF Resume
<1> QED
  BY <1>1, <1>2, <1>3, <1>4, <1>5, <1>6 DEF UserStep

LEMMA TakeType ==
  ASSUME TypeOK, NEW r \in Run, NEW w \in Worker,
         \/ \E planned \in SUBSET Chunk : StartRun(w, r, planned)
         \/ PlanFails(w, r) \/ StartRunAgain(w, r)
         \/ \E c \in Chunk : ClaimChunk(w, r, c) \/ SkipChunk(w, r, c)
  PROVE  TypeOK'
<1> USE DEF TypeOK, rows, workers
<1>0. \A s \in RunStatus : [run EXCEPT ![r].status = s] \in [Run -> RunRow]
  BY RunRowType
<1>1. CASE \E planned \in SUBSET Chunk : StartRun(w, r, planned)
  <2> PICK planned \in SUBSET Chunk : StartRun(w, r, planned)
    BY <1>1
  <2>1. queue' \in [Task -> 0..MaxCopies]
    <3> DEFINE q == Sent(TasksOf(r, planned))
    <3>1. q \in [Task -> 0..MaxCopies] /\ StartOf(r) \in Task
      BY SentType, TaskTypes
    <3>2. q[StartOf(r)] > 0
      BY <3>1, JobAssumption DEF StartRun, Startable, Sent
    <3>3. q[StartOf(r)] - 1 \in 0..MaxCopies
      BY <3>1, <3>2, JobAssumption
    <3> QED
      BY <3>1, <3>3 DEF StartRun
  <2>2. PlannedRows(planned) \in [Chunk -> ChunkRow]
    BY ChunkRowType, JobAssumption DEF PlannedRows, ChunkStatus
  <2>3. run' \in [Run -> RunRow]
    BY <1>0 DEF StartRun, RunStatus
  <2> QED
    BY <2>1, <2>2, <2>3 DEF StartRun
<1>2. CASE PlanFails(w, r)
  BY <1>0, <1>2, TaskTypes, TakenType DEF PlanFails, Startable, RunStatus
<1>3. CASE StartRunAgain(w, r)
  BY <1>3, TaskTypes, TakenType DEF StartRunAgain, Startable
<1>4. CASE \E c \in Chunk : ClaimChunk(w, r, c)
  <2> PICK c \in Chunk : ClaimChunk(w, r, c)
    BY <1>4
  <2>1. queue' \in [Task -> 0..MaxCopies]
    BY TaskTypes, TakenType DEF ClaimChunk
  <2> QED
    BY <2>1 DEF ClaimChunk, Goto, Busy
<1>5. CASE \E c \in Chunk : SkipChunk(w, r, c)
  BY <1>5, TaskTypes, TakenType DEF SkipChunk
<1> QED
  BY <1>1, <1>2, <1>3, <1>4, <1>5

LEMMA DoneType ==
  ASSUME TypeOK, NEW w \in Worker, Done(w)
  PROVE  /\ pc' \in [Worker -> {"idle"} \cup Busy]
         /\ task' \in [Worker -> (Run \X Chunk) \cup {NoTask}]
         /\ again' \in [Worker -> BOOLEAN]
BY DEF TypeOK, Done, Goto

LEMMA WorkerType ==
  ASSUME TypeOK, LocksExclusive, StagesAgree, NEW w \in Worker, WorkerStep(w)
  PROVE  TypeOK'
<1> USE DEF TypeOK, rows, workers
<1>0. PICK r \in Run, c \in Chunk : task[w] = <<r, c>>
  BY WorkerTask DEF WorkerStep, CommitChunk, FailChunk, RecordBegin, RecordCommit, Finalize
<1>1. chunk[r][c].attempts \in 0..MaxAttempts
  BY DEF ChunkRow
<1>2. ASSUME pc[w] \in {"executing", "recording"}
      PROVE  chunk[r][c].attempts + 1 \in 0..MaxAttempts
  <2>1. chunk[r][c].status = "pending"
    BY <1>0, <1>2 DEF LocksExclusive, Holds
  <2>2. chunk[r][c].attempts < MaxAttempts
    BY <2>1 DEF StagesAgree, StageAgrees, ChunksOf
  <2> QED
    BY <1>1, <2>2, JobAssumption
<1>3. CASE CommitChunk(w)
  <2>1. chunk' = [chunk EXCEPT ![r][c] = [status |-> "success", attempts |-> chunk[r][c].attempts + 1]]
    BY <1>0, <1>3 DEF CommitChunk
  <2>2. chunk' \in [Run -> [Chunk -> ChunkRow]]
    <3>1. [status |-> "success", attempts |-> chunk[r][c].attempts + 1] \in ChunkRow
      BY <1>2, <1>3, ChunkRowType DEF CommitChunk, ChunkStatus
    <3> QED
      BY <2>1, <3>1
  <2>3. effects' \in [Run -> [Chunk -> Nat]]
    BY <1>0, <1>3 DEF CommitChunk
  <2>4. pc' \in [Worker -> {"idle"} \cup Busy]
    BY <1>3 DEF CommitChunk, Goto, Busy
  <2>5. faults' \in 0..MaxFaults
    BY <1>3, JobAssumption DEF CommitChunk
  <2> QED
    BY <1>3, <2>2, <2>3, <2>4, <2>5 DEF CommitChunk
<1>4. CASE FailChunk(w)
  BY <1>4 DEF FailChunk, Goto, Busy
<1>5. CASE RecordBegin(w)
  BY <1>5 DEF RecordBegin, Goto, Busy
<1>6. CASE RecordCommit(w)
  <2>1. chunk' = [chunk EXCEPT ![r][c] =
           [status |-> IF IsFinal(chunk[r][c].attempts + 1) THEN "failed" ELSE "pending",
            attempts |-> chunk[r][c].attempts + 1]]
    BY <1>0, <1>6 DEF RecordCommit
  <2>2. chunk' \in [Run -> [Chunk -> ChunkRow]]
    <3>1. \A s \in {"failed", "pending"} : [status |-> s, attempts |-> chunk[r][c].attempts + 1] \in ChunkRow
      BY <1>2, <1>6, ChunkRowType DEF RecordCommit, ChunkStatus
    <3> QED
      BY <2>1, <3>1
  <2>3. again' \in [Worker -> BOOLEAN]
    BY <1>6 DEF RecordCommit, IsFinal
  <2> QED
    BY <1>6, <2>2, <2>3 DEF RecordCommit, Goto, Busy
<1>7. CASE Finalize(w)
  <2>1. run' \in [Run -> RunRow]
    BY <1>0, <1>7, FinalizedType DEF Finalize
  <2>2. queue' \in [Task -> 0..MaxCopies]
    BY <1>7, SentType DEF Finalize
  <2> QED
    BY <1>7, <2>1, <2>2, DoneType DEF Finalize
<1> QED
  BY <1>3, <1>4, <1>5, <1>6, <1>7 DEF WorkerStep

LEMMA FaultType ==
  ASSUME TypeOK, FaultStep \/ \E r \in Run : BreakDeadlock(r)
  PROVE  TypeOK'
<1> USE DEF TypeOK, rows, workers
<1>1. CASE \E w \in Worker : WorkerFault(w)
  <2> PICK w \in Worker : WorkerFault(w)
    BY <1>1
  <2>1. queue' \in [Task -> 0..MaxCopies] /\ faults' \in 0..MaxFaults
    BY SentType, JobAssumption DEF WorkerFault
  <2> QED
    BY <2>1, DoneType DEF WorkerFault
<1>2. CASE \E w \in Worker : RedeliverTask(w)
  BY <1>2, SentType, JobAssumption DEF RedeliverTask
<1>3. CASE \E t \in Task : LoseTask(t)
  BY <1>3, TakenType, JobAssumption DEF LoseTask
<1>4. CASE \E r \in Run : BreakDeadlock(r)
  BY <1>4, DoneType DEF BreakDeadlock
<1> QED
  BY <1>1, <1>2, <1>3, <1>4 DEF FaultStep

LEMMA TypeStep == TypeOK /\ LocksExclusive /\ StagesAgree /\ [Next]_vars => TypeOK'
<1> SUFFICES ASSUME TypeOK, LocksExclusive, StagesAgree, [Next]_vars PROVE TypeOK'
  OBVIOUS
<1>1. CASE UNCHANGED vars
  BY <1>1 DEF vars, TypeOK
<1> QED
  BY <1>1, UserType, TakeType, WorkerType, FaultType DEF Next, TakeStart, TakeChunk

-----------------------------------------------------------------------------
(* The inductive invariant *)

RunInv(r) == StageAgrees(r) /\ EffectsOnceIn(r) /\ OutcomeTells(r)

LEMMA JobInvParts ==
  /\ JobInv <=> LocksExclusive /\ \A r \in Run : RunInv(r)
  /\ JobInv' <=> LocksExclusive' /\ \A r \in Run : RunInv(r)'
BY DEF JobInv, StagesAgree, EffectsOnce, OutcomeTellsChunks, RunInv

(* A run that a step does not touch. *)
LEMMA RunUntouched ==
  ASSUME NEW r \in Run, RunInv(r),
         run'[r] = run[r], chunk'[r] = chunk[r], effects'[r] = effects[r],
         r \in cancelling' => r \in cancelling \/ run[r].status \in ActiveStatus
  PROVE  RunInv(r)'
<1>1. \A s : ChunksOf(r, s)' = ChunksOf(r, s)
  BY DEF ChunksOf
<1>2. StageAgrees(r)'
  BY <1>1 DEF RunInv, StageAgrees
<1>3. EffectsOnceIn(r)'
  BY DEF RunInv, EffectsOnceIn
<1>4. OutcomeTells(r)'
  BY <1>1 DEF RunInv, OutcomeTells
<1> QED
  BY <1>2, <1>3, <1>4 DEF RunInv

LEMMA InvInit == Init => JobInv
<1> SUFFICES ASSUME Init PROVE JobInv
  OBVIOUS
<1>1. LocksExclusive
  BY JobAssumption DEF Init, LocksExclusive, Holds
<1>2. ASSUME NEW r \in Run PROVE RunInv(r)
  <2>1. run[r].status = "none" /\ \A c \in Chunk : chunk[r][c].status = "none" /\ effects[r][c] = 0
    BY DEF Init
  <2>3. run[r].done = 0 /\ run[r].failed = 0
    BY DEF Init
  <2>2. r \notin cancelling
    BY DEF Init
  <2> QED
    BY <2>1, <2>2, <2>3 DEF RunInv, StageAgrees, EffectsOnceIn, OutcomeTells, ChunksOf
<1> QED
  BY <1>1, <1>2, JobInvParts

(* Locks: a step of worker w, or of nobody when w keeps its place and its task. *)
LEMMA LocksKept ==
  ASSUME LocksExclusive,
         pc' = pc, task' = task,
         \A v \in Worker, r \in Run, c \in Chunk :
           Holds(v, r, c) => chunk'[r][c].status = "pending" /\ run'[r].status = "running"
  PROVE  LocksExclusive'
<1>1. \A v, r, c : Holds(v, r, c)' <=> Holds(v, r, c)
  BY DEF Holds
<1> QED
  BY <1>1 DEF LocksExclusive

LEMMA LocksMoved ==
  ASSUME LocksExclusive, NEW w \in Worker,
         \A v \in Worker \ {w} : pc'[v] = pc[v] /\ task'[v] = task[v],
         pc'[w] = "idle" <=> task'[w] = NoTask,
         \A v \in Worker \ {w}, r \in Run, c \in Chunk :
           Holds(v, r, c) => chunk'[r][c].status = "pending" /\ run'[r].status = "running",
         \A r \in Run, c \in Chunk : Holds(w, r, c)' =>
           /\ chunk'[r][c].status = "pending" /\ run'[r].status = "running"
           /\ \A v \in Worker \ {w} : ~Holds(v, r, c)
  PROVE  LocksExclusive'
<1>1. \A v \in Worker \ {w}, r \in Run, c \in Chunk : Holds(v, r, c)' <=> Holds(v, r, c)
  BY DEF Holds
<1>2. \A v \in Worker : pc'[v] = "idle" <=> task'[v] = NoTask
  BY DEF LocksExclusive
<1>3. ASSUME NEW v \in Worker, NEW r \in Run, NEW c \in Chunk, Holds(v, r, c)'
      PROVE  /\ chunk'[r][c].status = "pending" /\ run'[r].status = "running"
             /\ \A u \in Worker : Holds(u, r, c)' => u = v
  <2>1. CASE v = w
    BY <1>1, <1>3, <2>1
  <2>2. CASE v # w
    <3>1. Holds(v, r, c)
      BY <1>1, <1>3, <2>2
    <3>2. ~Holds(w, r, c)'
      BY <3>1, <2>2
    <3> QED
      BY <1>1, <3>1, <3>2, <2>2 DEF LocksExclusive
  <2> QED
    BY <2>1, <2>2
<1> QED
  BY <1>2, <1>3 DEF LocksExclusive

(* HR and the scheduler. *)
LEMMA UserInv ==
  ASSUME TypeOK, JobInv, NEW r \in Run,
         UserStep(r) \/ CancelCommit(r) \/ Requeue(r) \/ Resume(r)
  PROVE  JobInv'
<1> USE DEF TypeOK, rows, workers
<1>0. LocksExclusive /\ RunInv(r) /\ \A q \in Run : RunInv(q)
  BY JobInvParts
<1>1. CASE CreateRun(r)
  <2>0. run[r].status = "none" /\ run' = [run EXCEPT ![r].status = "queued"]
        /\ chunk' = chunk /\ effects' = effects /\ cancelling' = cancelling /\ pc' = pc /\ task' = task
    BY <1>1 DEF CreateRun
  <2>1. /\ run'[r].status = "queued" /\ run'[r].done = run[r].done /\ run'[r].failed = run[r].failed
        /\ \A q \in Run \ {r} : run'[q] = run[q]
    BY <2>0 DEF RunRow
  <2>2. LocksExclusive'
    <3>1. \A v \in Worker, q \in Run, c \in Chunk : Holds(v, q, c) =>
             chunk'[q][c].status = "pending" /\ run'[q].status = "running"
      BY <1>0, <2>0, <2>1 DEF LocksExclusive
    <3> QED
      BY <1>0, <2>0, <3>1, LocksKept
  <2>3. RunInv(r)'
    <3>1. \A s : ChunksOf(r, s)' = ChunksOf(r, s)
      BY <2>0 DEF ChunksOf
    <3>2. ChunksOf(r, "none") = Chunk
      BY <1>0, <2>0 DEF RunInv, StageAgrees
    <3>3. \A s \in {"failed", "cancelled", "pending", "success"} : ChunksOf(r, s) = {}
      BY <3>2 DEF ChunksOf
    <3> QED
      BY <1>0, <2>0, <2>1, <3>1, <3>2, <3>3
         DEF RunInv, StageAgrees, EffectsOnceIn, OutcomeTells, ActiveStatus
  <2>4. \A q \in Run \ {r} : RunInv(q)'
    BY <1>0, <2>0, <2>1, RunUntouched
  <2> QED
    BY <2>2, <2>3, <2>4, JobInvParts
<1>2. CASE CancelBegin(r)
  <2>1. \A q \in Run : RunInv(q)'
    BY <1>0, <1>2, RunUntouched DEF CancelBegin
  <2>2. LocksExclusive'
    BY <1>0, <1>2, LocksKept DEF CancelBegin, LocksExclusive
  <2> QED
    BY <2>1, <2>2, JobInvParts
<1>3. CASE CancelCommit(r)
  <2>0. /\ r \in cancelling /\ \A c \in ChunksOf(r, "pending") : ~Locked(r, c)
        /\ chunk' = [chunk EXCEPT ![r] = CancelChunks(r)]
        /\ run' = [run EXCEPT ![r].status = "cancelled"]
        /\ cancelling' = cancelling \ {r}
        /\ effects' = effects /\ pc' = pc /\ task' = task
    BY <1>3 DEF CancelCommit
  <2>1. run'[r].status = "cancelled" /\ \A q \in Run \ {r} : run'[q] = run[q] /\ chunk'[q] = chunk[q]
    BY <2>0
  <2>2. LocksExclusive'
    <3>1. \A v \in Worker, q \in Run, c \in Chunk : Holds(v, q, c) => q # r
      BY <1>0, <2>0 DEF LocksExclusive, Locked, ChunksOf
    <3>2. \A v \in Worker, q \in Run, c \in Chunk : Holds(v, q, c) =>
             chunk'[q][c].status = "pending" /\ run'[q].status = "running"
      BY <1>0, <2>1, <3>1 DEF LocksExclusive
    <3> QED
      BY <1>0, <2>0, <3>2, LocksKept
  <2>3. RunInv(r)'
    <3>1. \A c \in Chunk : chunk'[r][c] = CancelChunks(r)[c]
      BY <2>0
    <3>2. \A c \in Chunk : /\ chunk'[r][c].status # "pending"
                           /\ chunk'[r][c].status = "success" <=> chunk[r][c].status = "success"
                           /\ chunk'[r][c].status = "failed" => chunk'[r][c] = chunk[r][c]
      <4> TAKE c \in Chunk
      <4>1. chunk[r][c] \in ChunkRow
        OBVIOUS
      <4>2. [chunk[r][c] EXCEPT !.status = "cancelled"].status = "cancelled"
        BY <4>1 DEF ChunkRow
      <4> QED
        BY <3>1, <4>2 DEF CancelChunks
    <3>3. ChunksOf(r, "pending")' = {}
      BY <3>2 DEF ChunksOf
    <3> QED
      BY <1>0, <2>0, <2>1, <3>2, <3>3 DEF RunInv, StageAgrees, EffectsOnceIn, OutcomeTells, ChunksOf
  <2>4. \A q \in Run \ {r} : RunInv(q)'
    BY <1>0, <2>0, <2>1, RunUntouched
  <2> QED
    BY <2>2, <2>3, <2>4, JobInvParts
<1>4. CASE RetryRun(r)
  <2> DEFINE failed == ChunksOf(r, "failed")
             planned == ChunksOf(r, "none") # Chunk
  <2>0. /\ run[r].status \in RetryableStatus
        /\ chunk' = [chunk EXCEPT ![r] = [c \in Chunk |-> IF c \in failed THEN Retried(chunk[r][c])
                                                                          ELSE chunk[r][c]]]
        /\ run' = [run EXCEPT ![r].status = IF planned THEN "running" ELSE "queued", ![r].failed = 0]
        /\ effects' = effects /\ cancelling' = cancelling /\ pc' = pc /\ task' = task
        /\ r \notin cancelling
    BY <1>4 DEF RetryRun
  <2>1. /\ run'[r].status = IF planned THEN "running" ELSE "queued"
        /\ run'[r].done = run[r].done /\ run'[r].failed = 0
        /\ \A q \in Run \ {r} : run'[q] = run[q] /\ chunk'[q] = chunk[q]
    BY <2>0 DEF RunRow
  <2>2. LocksExclusive'
    <3>1. \A v \in Worker, q \in Run, c \in Chunk : Holds(v, q, c) => q # r
      BY <1>0, <2>0 DEF LocksExclusive, RetryableStatus
    <3>2. \A v \in Worker, q \in Run, c \in Chunk : Holds(v, q, c) =>
             chunk'[q][c].status = "pending" /\ run'[q].status = "running"
      BY <1>0, <2>1, <3>1 DEF LocksExclusive
    <3> QED
      BY <1>0, <2>0, <3>2, LocksKept
  <2>3. RunInv(r)'
    <3>1. \A c \in Chunk : chunk'[r][c] = IF c \in failed THEN [status |-> "pending", attempts |-> 0]
                                                          ELSE chunk[r][c]
      BY <2>0 DEF Retried
    <3>2. \A c \in Chunk : /\ chunk'[r][c].status # "failed"
                           /\ chunk'[r][c].status = "success" <=> chunk[r][c].status = "success"
                           /\ chunk'[r][c].status = "cancelled" <=> chunk[r][c].status = "cancelled"
                           /\ chunk'[r][c].status = "pending" => chunk'[r][c].attempts < MaxAttempts
      BY <1>0, <3>1, JobAssumption DEF RunInv, StageAgrees, ChunksOf
    <3>3. ~planned => ChunksOf(r, "none")' = Chunk
      BY <3>1 DEF ChunksOf
    <3>4. ChunksOf(r, "failed")' = {} /\ ChunksOf(r, "cancelled")' = {}
      BY <1>0, <2>0, <3>2 DEF RunInv, StageAgrees, ChunksOf, RetryableStatus
    <3>5. StageAgrees(r)'
      <4>1. /\ run'[r].status \in {"running", "queued"}
            /\ run'[r].status = "queued" => ~planned
        BY <2>1
      <4>2. \A c \in ChunksOf(r, "pending")' : chunk'[r][c].attempts < MaxAttempts
        BY <3>2 DEF ChunksOf
      <4>3. ~planned => run'[r].done = 0
        <5>1. ~planned => ChunksOf(r, "success") = {}
          BY DEF ChunksOf
        <5>2. run[r].done = Cardinality(ChunksOf(r, "success"))
          BY <1>0, <2>0 DEF RunInv, OutcomeTells, RetryableStatus
        <5> QED
          BY <2>1, <5>1, <5>2, FS_EmptySet
      <4> QED
        BY <2>0, <2>1, <3>3, <3>4, <4>1, <4>2, <4>3 DEF StageAgrees
    <3>6. EffectsOnceIn(r)'
      BY <1>0, <2>0, <3>2 DEF RunInv, EffectsOnceIn
    <3>7. OutcomeTells(r)'
      <4>1. run'[r].status \in {"running", "queued"}
        BY <2>1
      <4> QED
        BY <3>4, <4>1 DEF OutcomeTells
    <3> QED
      BY <3>5, <3>6, <3>7 DEF RunInv
  <2>4. \A q \in Run \ {r} : RunInv(q)'
    BY <1>0, <2>0, <2>1, RunUntouched
  <2> QED
    BY <2>2, <2>3, <2>4, JobInvParts
<1>5. CASE Requeue(r) \/ Resume(r)
  <2>0. UNCHANGED <<rows, cancelling, workers>>
    BY <1>5 DEF Requeue, Resume
  <2>1. LocksExclusive'
    BY <1>0, <2>0, LocksKept DEF LocksExclusive
  <2>2. \A q \in Run : RunInv(q)'
    BY <1>0, <2>0, RunUntouched
  <2> QED
    BY <2>1, <2>2, JobInvParts
<1> QED
  BY <1>1, <1>2, <1>3, <1>4, <1>5 DEF UserStep

(* Workers take a task: the start of a run, or a chunk. *)
LEMMA TakeInv ==
  ASSUME TypeOK, JobInv, NEW r \in Run, NEW w \in Worker,
         \/ \E planned \in SUBSET Chunk : StartRun(w, r, planned)
         \/ PlanFails(w, r) \/ StartRunAgain(w, r)
         \/ \E c \in Chunk : ClaimChunk(w, r, c) \/ SkipChunk(w, r, c)
  PROVE  JobInv'
<1> USE DEF TypeOK, rows, workers
<1>0. LocksExclusive /\ RunInv(r) /\ \A q \in Run : RunInv(q)
  BY JobInvParts
<1>1. ASSUME run[r].status = "queued"
      PROVE  /\ \A v \in Worker, q \in Run, c \in Chunk : Holds(v, q, c) => q # r
             /\ \A c \in Chunk : chunk[r][c].status = "none" /\ effects[r][c] = 0
  BY <1>0, <1>1 DEF LocksExclusive, RunInv, StageAgrees, EffectsOnceIn, ChunksOf
<1>2. CASE \E planned \in SUBSET Chunk : StartRun(w, r, planned)
  <2> PICK planned \in SUBSET Chunk : StartRun(w, r, planned)
    BY <1>2
  <2>0. /\ run[r].status = "queued" /\ r \notin cancelling
        /\ chunk' = [chunk EXCEPT ![r] = PlannedRows(planned)]
        /\ run' = [run EXCEPT ![r].status = IF planned = {} THEN "success" ELSE "running"]
        /\ effects' = effects /\ cancelling' = cancelling /\ pc' = pc /\ task' = task
    BY DEF StartRun, Startable
  <2>1. \A q \in Run \ {r} : run'[q] = run[q] /\ chunk'[q] = chunk[q]
    BY <2>0
  <2>2. LocksExclusive'
    <3>1. \A v \in Worker, q \in Run, c \in Chunk : Holds(v, q, c) =>
             chunk'[q][c].status = "pending" /\ run'[q].status = "running"
      BY <1>0, <1>1, <2>0, <2>1 DEF LocksExclusive
    <3> QED
      BY <1>0, <2>0, <3>1, LocksKept
  <2>3. RunInv(r)'
    <3>1. \A c \in Chunk : /\ chunk'[r][c].status = IF c \in planned THEN "pending" ELSE "none"
                           /\ chunk'[r][c].attempts = 0
      BY <2>0 DEF PlannedRows
    <3>2. \A s \in {"success", "failed", "cancelled"} : ChunksOf(r, s)' = {}
      BY <3>1 DEF ChunksOf
    <3>3. planned = {} => ChunksOf(r, "pending")' = {}
      BY <3>1 DEF ChunksOf
    <3>4. /\ run'[r].status = IF planned = {} THEN "success" ELSE "running"
          /\ run'[r].done = run[r].done /\ run'[r].failed = run[r].failed
      BY <2>0 DEF RunRow
    <3>5. StageAgrees(r)'
      <4>1. \A c \in ChunksOf(r, "pending")' : chunk'[r][c].attempts < MaxAttempts
        BY <3>1, JobAssumption DEF ChunksOf
      <4> QED
        BY <2>0, <3>2, <3>4, <4>1 DEF StageAgrees
    <3>6. EffectsOnceIn(r)'
      BY <1>1, <2>0, <3>1 DEF EffectsOnceIn
    <3>7. OutcomeTells(r)'
      <4>1. run'[r].done = 0 /\ run'[r].failed = 0
        BY <1>0, <2>0, <3>4 DEF RunInv, StageAgrees
      <4>2. run'[r].status \in {"success", "running"}
        BY <3>4
      <4>3. run'[r].status = "success" => ChunksOf(r, "pending")' = {}
        BY <3>3, <3>4
      <4> QED
        BY <3>2, <4>1, <4>2, <4>3, FS_EmptySet DEF OutcomeTells
    <3> QED
      BY <3>5, <3>6, <3>7 DEF RunInv
  <2>4. \A q \in Run \ {r} : RunInv(q)'
    BY <1>0, <2>0, <2>1, RunUntouched
  <2> QED
    BY <2>2, <2>3, <2>4, JobInvParts
<1>3. CASE PlanFails(w, r)
  <2>0. /\ run[r].status = "queued" /\ r \notin cancelling
        /\ run' = [run EXCEPT ![r].status = "failed"]
        /\ chunk' = chunk /\ effects' = effects /\ cancelling' = cancelling /\ pc' = pc /\ task' = task
    BY <1>3 DEF PlanFails, Startable
  <2>1. \A q \in Run \ {r} : run'[q] = run[q]
    BY <2>0
  <2>2. LocksExclusive'
    <3>1. \A v \in Worker, q \in Run, c \in Chunk : Holds(v, q, c) =>
             chunk'[q][c].status = "pending" /\ run'[q].status = "running"
      BY <1>0, <1>1, <2>0, <2>1 DEF LocksExclusive
    <3> QED
      BY <1>0, <2>0, <3>1, LocksKept
  <2>3. RunInv(r)'
    <3>1. \A s \in {"pending", "success", "failed", "cancelled"} : ChunksOf(r, s)' = {}
      BY <1>1, <2>0 DEF ChunksOf
    <3>2. /\ run'[r].status = "failed"
          /\ run'[r].done = run[r].done /\ run'[r].failed = run[r].failed
      BY <2>0 DEF RunRow
    <3>3. StageAgrees(r)'
      BY <2>0, <3>1, <3>2 DEF StageAgrees
    <3>4. EffectsOnceIn(r)'
      BY <1>0, <2>0 DEF RunInv, EffectsOnceIn
    <3>5. OutcomeTells(r)'
      <4>1. run'[r].done = 0 /\ run'[r].failed = 0
        BY <1>0, <2>0, <3>2 DEF RunInv, StageAgrees
      <4> QED
        BY <3>1, <3>2, <4>1, FS_EmptySet DEF OutcomeTells
    <3> QED
      BY <3>3, <3>4, <3>5 DEF RunInv
  <2>4. \A q \in Run \ {r} : RunInv(q)'
    BY <1>0, <2>0, <2>1, RunUntouched
  <2> QED
    BY <2>2, <2>3, <2>4, JobInvParts
<1>4. CASE StartRunAgain(w, r) \/ \E c \in Chunk : SkipChunk(w, r, c)
  <2>0. UNCHANGED <<rows, cancelling, workers>>
    BY <1>4 DEF StartRunAgain, SkipChunk
  <2>1. LocksExclusive'
    BY <1>0, <2>0, LocksKept DEF LocksExclusive
  <2>2. \A q \in Run : RunInv(q)'
    BY <1>0, <2>0, RunUntouched
  <2> QED
    BY <2>1, <2>2, JobInvParts
<1>5. CASE \E c \in Chunk : ClaimChunk(w, r, c)
  <2> PICK c \in Chunk : ClaimChunk(w, r, c)
    BY <1>5
  <2>0. /\ chunk[r][c].status = "pending" /\ ~Locked(r, c) /\ run[r].status = "running"
        /\ pc' = [pc EXCEPT ![w] = "executing"] /\ task' = [task EXCEPT ![w] = <<r, c>>]
        /\ UNCHANGED <<rows, cancelling>>
    BY DEF ClaimChunk, Claimable, Goto
  <2>1. LocksExclusive'
    <3>1. \A v \in Worker \ {w} : pc'[v] = pc[v] /\ task'[v] = task[v]
      BY <2>0
    <3>2. pc'[w] = "executing" /\ task'[w] = <<r, c>> /\ task'[w] # NoTask
      BY <2>0, TaskTypes, JobAssumption
    <3>3. \A q \in Run, d \in Chunk : Holds(w, q, d)' => q = r /\ d = c
      BY <3>2 DEF Holds
    <3>4. \A v \in Worker : ~Holds(v, r, c)
      BY <2>0 DEF Locked
    <3>5. \A v \in Worker \ {w}, q \in Run, d \in Chunk :
             Holds(v, q, d) => chunk'[q][d].status = "pending" /\ run'[q].status = "running"
      BY <1>0, <2>0 DEF LocksExclusive
    <3> QED
      BY <1>0, <2>0, <3>1, <3>2, <3>3, <3>4, <3>5, LocksMoved
  <2>2. \A q \in Run : RunInv(q)'
    BY <1>0, <2>0, RunUntouched
  <2> QED
    BY <2>1, <2>2, JobInvParts
<1> QED
  BY <1>2, <1>3, <1>4, <1>5

(* Workers execute a chunk, record a failure and finalize. *)
LEMMA WorkerInv ==
  ASSUME TypeOK, JobInv, NEW w \in Worker, WorkerStep(w)
  PROVE  JobInv'
<1> USE DEF TypeOK, rows, workers
<1>0. LocksExclusive /\ \A q \in Run : RunInv(q)
  BY JobInvParts
<1>1. PICK r \in Run, c \in Chunk : task[w] = <<r, c>>
  BY <1>0, WorkerTask DEF WorkerStep, CommitChunk, FailChunk, RecordBegin, RecordCommit, Finalize
<1>2. task[w] # NoTask /\ \A q \in Run, d \in Chunk : Holds(w, q, d) => q = r /\ d = c
  BY <1>1, TaskTypes, JobAssumption DEF Holds
<1>3. ASSUME pc[w] \in {"executing", "recording"}
      PROVE  /\ chunk[r][c].status = "pending" /\ run[r].status = "running"
             /\ chunk[r][c].attempts < MaxAttempts
             /\ \A v \in Worker, q \in Run, d \in Chunk :
                  Holds(v, q, d) /\ v # w => q # r \/ d # c
  <2>1. Holds(w, r, c)
    BY <1>1, <1>3 DEF Holds
  <2>2. chunk[r][c].status = "pending" /\ run[r].status = "running"
        /\ \A v \in Worker : Holds(v, r, c) => v = w
    BY <1>0, <2>1 DEF LocksExclusive
  <2> QED
    BY <1>0, <2>2 DEF RunInv, StageAgrees, ChunksOf
<1>4. CASE CommitChunk(w)
  <2>0. /\ pc[w] = "executing" /\ task' = task /\ UNCHANGED <<run, cancelling>>
        /\ chunk' = [chunk EXCEPT ![r][c] = [status |-> "success", attempts |-> chunk[r][c].attempts + 1]]
        /\ effects' = IF r \in DryRun THEN effects ELSE [effects EXCEPT ![r][c] = effects[r][c] + 1]
        /\ pc' = [pc EXCEPT ![w] = "finalize"] \/ pc' = [pc EXCEPT ![w] = "record"]
    BY <1>1, <1>4 DEF CommitChunk, Goto
  <2>1. /\ \A q \in Run \ {r} : chunk'[q] = chunk[q] /\ effects'[q] = effects[q]
        /\ \A d \in Chunk \ {c} : chunk'[r][d] = chunk[r][d] /\ effects'[r][d] = effects[r][d]
        /\ chunk'[r][c].status = "success"
        /\ effects'[r][c] = IF r \in DryRun THEN effects[r][c] ELSE effects[r][c] + 1
    BY <2>0
  <2>2. LocksExclusive'
    <3>1. pc'[w] \in {"finalize", "record"} /\ \A v \in Worker \ {w} : pc'[v] = pc[v] /\ task'[v] = task[v]
      BY <2>0
    <3>2. \A q \in Run, d \in Chunk : ~Holds(w, q, d)'
      BY <3>1 DEF Holds
    <3>3. \A v \in Worker \ {w}, q \in Run, d \in Chunk :
             Holds(v, q, d) => chunk'[q][d].status = "pending" /\ run'[q].status = "running"
      <4> TAKE v \in Worker \ {w}, q \in Run, d \in Chunk
      <4> HAVE Holds(v, q, d)
      <4>1. chunk[q][d].status = "pending" /\ run[q].status = "running"
        BY <1>0 DEF LocksExclusive
      <4>2. q # r \/ d # c
        BY <1>3, <2>0
      <4> QED
        BY <2>0, <2>1, <4>1, <4>2
    <3> QED
      BY <1>0, <1>2, <2>0, <3>1, <3>2, <3>3, LocksMoved
  <2>3. RunInv(r)'
    <3>1. chunk[r][c].status = "pending" /\ run[r].status = "running" /\ run'[r] = run[r]
      BY <1>3, <2>0
    <3>2. ChunksOf(r, "cancelled")' = {}
      BY <1>0, <2>1, <3>1 DEF RunInv, StageAgrees, ChunksOf
    <3>3. \A d \in ChunksOf(r, "pending")' : chunk'[r][d].attempts < MaxAttempts
      BY <1>0, <2>1, <3>1 DEF RunInv, StageAgrees, ChunksOf
    <3>4. StageAgrees(r)'
      BY <2>0, <3>1, <3>2, <3>3 DEF StageAgrees, ActiveStatus
    <3>5. EffectsOnceIn(r)'
      BY <1>0, <2>1, <3>1 DEF RunInv, EffectsOnceIn
    <3>6. \A d \in ChunksOf(r, "failed")' : chunk'[r][d].attempts = MaxAttempts
      <4>1. \A d \in ChunksOf(r, "failed") : chunk[r][d].attempts = MaxAttempts
        BY <1>0 DEF RunInv, OutcomeTells
      <4> QED
        BY <2>1, <4>1 DEF ChunksOf
    <3>7. OutcomeTells(r)'
      BY <3>1, <3>6 DEF OutcomeTells
    <3> QED
      BY <3>4, <3>5, <3>7 DEF RunInv
  <2>4. \A q \in Run \ {r} : RunInv(q)'
    BY <1>0, <2>0, <2>1, RunUntouched
  <2> QED
    BY <2>2, <2>3, <2>4, JobInvParts
<1>5. CASE FailChunk(w) \/ RecordBegin(w)
  <2>0. /\ task' = task /\ UNCHANGED <<rows, cancelling>> /\ pc[w] # "idle"
        /\ \E where \in {"record", "recording", "finalize"} :
             /\ pc' = [pc EXCEPT ![w] = where]
             /\ where = "recording" => ~Locked(r, c) /\ chunk[r][c].status = "pending"
    BY <1>1, <1>5 DEF FailChunk, RecordBegin, Goto
  <2>1. \A q \in Run : RunInv(q)'
    BY <1>0, <2>0, RunUntouched
  <2>2. ASSUME chunk[r][c].status = "pending" PROVE run[r].status = "running"
    <3>1. ChunksOf(r, "pending") # {}
      BY <2>2 DEF ChunksOf
    <3>2. run[r].status \notin {"none", "queued"}
      BY <1>0, <2>2 DEF RunInv, StageAgrees, ChunksOf
    <3>3. run[r].status \in {"none", "queued", "running"}
      BY <1>0, <3>1 DEF RunInv, OutcomeTells
    <3> QED
      BY <3>2, <3>3
  <2>3. LocksExclusive'
    <3>1. /\ pc'[w] \in {"record", "recording", "finalize"}
          /\ pc'[w] = "recording" => ~Locked(r, c) /\ chunk[r][c].status = "pending"
          /\ \A v \in Worker \ {w} : pc'[v] = pc[v] /\ task'[v] = task[v]
      BY <2>0
    <3>2. \A q \in Run, d \in Chunk : Holds(w, q, d)' => pc'[w] = "recording" /\ q = r /\ d = c
      BY <1>1, <2>0, <3>1 DEF Holds
    <3>3. \A v \in Worker, q \in Run, d \in Chunk :
             Holds(v, q, d) => chunk'[q][d].status = "pending" /\ run'[q].status = "running"
      BY <1>0, <2>0 DEF LocksExclusive
    <3>4. pc'[w] = "recording" => /\ chunk'[r][c].status = "pending" /\ run'[r].status = "running"
                                  /\ \A v \in Worker : ~Holds(v, r, c)
      BY <2>0, <2>2, <3>1 DEF Locked
    <3> QED
      BY <1>0, <1>2, <2>0, <3>1, <3>2, <3>3, <3>4, LocksMoved
  <2> QED
    BY <2>1, <2>3, JobInvParts
<1>6. CASE RecordCommit(w)
  <2> DEFINE attempts == chunk[r][c].attempts + 1
  <2>0. /\ pc[w] = "recording" /\ task' = task /\ UNCHANGED <<run, effects, cancelling>>
        /\ chunk' = [chunk EXCEPT ![r][c] = [status |-> IF IsFinal(attempts) THEN "failed" ELSE "pending",
                                             attempts |-> attempts]]
        /\ pc' = [pc EXCEPT ![w] = "finalize"]
    BY <1>1, <1>6 DEF RecordCommit, Goto
  <2>1. /\ \A q \in Run \ {r} : chunk'[q] = chunk[q]
        /\ \A d \in Chunk \ {c} : chunk'[r][d] = chunk[r][d]
        /\ chunk'[r][c].status = IF IsFinal(attempts) THEN "failed" ELSE "pending"
        /\ chunk'[r][c].attempts = attempts
    BY <2>0
  <2>2. LocksExclusive'
    <3>1. pc'[w] = "finalize" /\ \A v \in Worker \ {w} : pc'[v] = pc[v] /\ task'[v] = task[v]
      BY <2>0
    <3>2. \A q \in Run, d \in Chunk : ~Holds(w, q, d)'
      BY <3>1 DEF Holds
    <3>3. \A v \in Worker \ {w}, q \in Run, d \in Chunk :
             Holds(v, q, d) => chunk'[q][d].status = "pending" /\ run'[q].status = "running"
      <4> TAKE v \in Worker \ {w}, q \in Run, d \in Chunk
      <4> HAVE Holds(v, q, d)
      <4>1. chunk[q][d].status = "pending" /\ run[q].status = "running"
        BY <1>0 DEF LocksExclusive
      <4>2. q # r \/ d # c
        BY <1>3, <2>0
      <4> QED
        BY <2>0, <2>1, <4>1, <4>2
    <3> QED
      BY <1>0, <1>2, <2>0, <3>1, <3>2, <3>3, LocksMoved
  <2>3. RunInv(r)'
    <3>1. chunk[r][c].status = "pending" /\ run[r].status = "running" /\ run'[r] = run[r]
      BY <1>3, <2>0
    <3>2. /\ attempts \in 0..MaxAttempts
          /\ IsFinal(attempts) <=> attempts = MaxAttempts
          /\ ~IsFinal(attempts) => attempts < MaxAttempts
      <4>1. chunk[r][c] \in ChunkRow /\ MaxAttempts \in Nat
        BY JobAssumption
      <4>2. chunk[r][c].attempts \in 0..MaxAttempts /\ chunk[r][c].attempts < MaxAttempts
        BY <1>3, <2>0, <4>1 DEF ChunkRow
      <4>3. \A n \in 0..MaxAttempts : n < MaxAttempts =>
              /\ n + 1 \in 0..MaxAttempts
              /\ n + 1 >= MaxAttempts <=> n + 1 = MaxAttempts
              /\ ~(n + 1 >= MaxAttempts) => n + 1 < MaxAttempts
        BY <4>1
      <4> QED
        BY <4>2, <4>3 DEF IsFinal
    <3>3. ChunksOf(r, "cancelled")' = {}
      BY <1>0, <2>1, <3>1 DEF RunInv, StageAgrees, ChunksOf
    <3>4. \A d \in ChunksOf(r, "pending")' : chunk'[r][d].attempts < MaxAttempts
      <4>1. \A d \in ChunksOf(r, "pending") : chunk[r][d].attempts < MaxAttempts
        BY <1>0 DEF RunInv, StageAgrees
      <4> HIDE DEF attempts
      <4> QED
        BY <2>1, <3>2, <4>1 DEF ChunksOf
    <3>5. StageAgrees(r)'
      BY <2>0, <3>1, <3>3, <3>4 DEF StageAgrees, ActiveStatus
    <3>6. EffectsOnceIn(r)'
      BY <1>0, <2>0, <2>1, <3>1 DEF RunInv, EffectsOnceIn
    <3>7. \A d \in ChunksOf(r, "failed")' : chunk'[r][d].attempts = MaxAttempts
      <4>1. \A d \in ChunksOf(r, "failed") : chunk[r][d].attempts = MaxAttempts
        BY <1>0 DEF RunInv, OutcomeTells
      <4> HIDE DEF attempts
      <4> QED
        BY <2>1, <3>2, <4>1 DEF ChunksOf
    <3>8. OutcomeTells(r)'
      BY <3>1, <3>7 DEF OutcomeTells
    <3> QED
      BY <3>5, <3>6, <3>8 DEF RunInv
  <2>4. \A q \in Run \ {r} : RunInv(q)'
    BY <1>0, <2>0, <2>1, RunUntouched
  <2> QED
    BY <2>2, <2>3, <2>4, JobInvParts
<1>7. CASE Finalize(w)
  <2>0. /\ pc[w] = "finalize" /\ UNCHANGED <<chunk, effects, cancelling>>
        /\ run' = IF run[r].status = "running" THEN [run EXCEPT ![r] = Finalized(r)] ELSE run
        /\ pc' = [pc EXCEPT ![w] = "idle"] /\ task' = [task EXCEPT ![w] = NoTask]
        /\ r \notin cancelling
    BY <1>1, <1>7 DEF Finalize, Done, Goto
  <2>1. \A q \in Run \ {r} : run'[q] = run[q]
    BY <2>0
  <2>2. \A s : ChunksOf(r, s)' = ChunksOf(r, s)
    BY <2>0 DEF ChunksOf
  <2>3. ASSUME run[r].status = "running"
        PROVE  /\ run'[r].status = IF ChunksOf(r, "pending") # {} THEN "running"
                    ELSE Outcome(Cardinality(ChunksOf(r, "success")), Cardinality(ChunksOf(r, "failed")))
               /\ run'[r].done = Cardinality(ChunksOf(r, "success"))
               /\ run'[r].failed = Cardinality(ChunksOf(r, "failed"))
    BY <2>0, <2>3 DEF Finalized
  <2>4. LocksExclusive'
    <3>1. pc'[w] = "idle" /\ task'[w] = NoTask /\ \A v \in Worker \ {w} : pc'[v] = pc[v] /\ task'[v] = task[v]
      BY <2>0
    <3>2. \A q \in Run, d \in Chunk : ~Holds(w, q, d)'
      BY <3>1 DEF Holds
    <3>3. \A v \in Worker \ {w}, q \in Run, d \in Chunk :
             Holds(v, q, d) => chunk'[q][d].status = "pending" /\ run'[q].status = "running"
      <4> TAKE v \in Worker \ {w}, q \in Run, d \in Chunk
      <4> HAVE Holds(v, q, d)
      <4>1. chunk[q][d].status = "pending" /\ run[q].status = "running"
        BY <1>0 DEF LocksExclusive
      <4>2. q = r => ChunksOf(r, "pending") # {}
        BY <4>1 DEF ChunksOf
      <4> QED
        BY <2>0, <2>1, <2>3, <4>1, <4>2
    <3> QED
      BY <1>0, <3>1, <3>2, <3>3, LocksMoved
  <2>5. RunInv(r)'
    <3>1. CASE run[r].status # "running"
      BY <1>0, <2>0, <3>1, RunUntouched
    <3>2. CASE run[r].status = "running"
      <4> DEFINE done == Cardinality(ChunksOf(r, "success"))
                 failed == Cardinality(ChunksOf(r, "failed"))
      <4>1. /\ done \in Nat /\ failed \in Nat
            /\ done = 0 <=> ChunksOf(r, "success") = {}
            /\ failed = 0 <=> ChunksOf(r, "failed") = {}
        BY ChunksOfFinite
      <4>2. ChunksOf(r, "cancelled") = {}
        BY <1>0, <3>2 DEF RunInv, StageAgrees
      <4>3. Outcome(done, failed) \in {"success", "partial", "failed"}
        BY DEF Outcome
      <4>4. StageAgrees(r)'
        BY <1>0, <2>0, <2>2, <2>3, <3>2, <4>2, <4>3 DEF RunInv, StageAgrees
      <4>5. EffectsOnceIn(r)'
        BY <1>0, <2>0 DEF RunInv, EffectsOnceIn
      <4>6. \A d \in ChunksOf(r, "failed")' : chunk'[r][d].attempts = MaxAttempts
        BY <1>0, <2>0, <2>2 DEF RunInv, OutcomeTells
      <4>7. OutcomeTells(r)'
        <5>1. CASE ChunksOf(r, "pending") # {}
          <6>1. run'[r].status = "running"
            BY <2>3, <3>2, <5>1
          <6> QED
            BY <4>6, <6>1 DEF OutcomeTells
        <5>2. CASE ChunksOf(r, "pending") = {}
          <6>1. run'[r].status = Outcome(done, failed) /\ run'[r].done = done /\ run'[r].failed = failed
            BY <2>3, <3>2, <5>2
          <6>2. /\ Outcome(done, failed) = "success" => failed = 0
                /\ Outcome(done, failed) = "partial" => failed # 0 /\ done # 0
                /\ Outcome(done, failed) = "failed" => done = 0
            BY <4>1 DEF Outcome
          <6> HIDE DEF done, failed
          <6>3. /\ run'[r].done = Cardinality(ChunksOf(r, "success")')
                /\ run'[r].failed = Cardinality(ChunksOf(r, "failed")')
            BY <2>2, <6>1 DEF done, failed
          <6> QED
            BY <2>2, <4>1, <4>2, <4>6, <5>2, <6>1, <6>2, <6>3 DEF OutcomeTells
        <5> QED
          BY <5>1, <5>2
      <4> QED
        BY <4>4, <4>5, <4>7 DEF RunInv
    <3> QED
      BY <3>1, <3>2
  <2>6. \A q \in Run \ {r} : RunInv(q)'
    BY <1>0, <2>0, <2>1, RunUntouched
  <2> QED
    BY <2>4, <2>5, <2>6, JobInvParts
<1> QED
  BY <1>4, <1>5, <1>6, <1>7 DEF WorkerStep

(* Faults and broken deadlocks: at most one worker drops its task. *)
LEMMA FaultInv ==
  ASSUME TypeOK, JobInv, FaultStep \/ \E r \in Run : BreakDeadlock(r)
  PROVE  JobInv'
<1> USE DEF rows, workers
<1>0. LocksExclusive /\ \A q \in Run : RunInv(q)
  BY JobInvParts
<1>1. /\ UNCHANGED rows /\ cancelling' \subseteq cancelling
      /\ UNCHANGED workers \/ \E w \in Worker : Done(w)
  BY DEF FaultStep, WorkerFault, LoseTask, RedeliverTask, BreakDeadlock
<1>2. \A q \in Run : RunInv(q)'
  BY <1>0, <1>1, RunUntouched
<1>3. CASE UNCHANGED workers
  BY <1>0, <1>1, <1>2, <1>3, LocksKept, JobInvParts DEF LocksExclusive
<1>4. CASE \E w \in Worker : Done(w)
  <2> PICK w \in Worker : Done(w)
    BY <1>4
  <2>1. pc'[w] = "idle" /\ task'[w] = NoTask /\ \A v \in Worker \ {w} : pc'[v] = pc[v] /\ task'[v] = task[v]
    BY DEF Done, Goto, TypeOK
  <2>2. \A q \in Run, d \in Chunk : ~Holds(w, q, d)'
    BY <2>1 DEF Holds
  <2>3. \A v \in Worker \ {w}, q \in Run, d \in Chunk :
           Holds(v, q, d) => chunk'[q][d].status = "pending" /\ run'[q].status = "running"
    BY <1>0, <1>1 DEF LocksExclusive
  <2>4. LocksExclusive'
    BY <1>0, <2>1, <2>2, <2>3, LocksMoved
  <2> QED
    BY <1>2, <2>4, JobInvParts
<1> QED
  BY <1>1, <1>3, <1>4

LEMMA InvStep == TypeOK /\ JobInv /\ [Next]_vars => JobInv'
<1> SUFFICES ASSUME TypeOK, JobInv, [Next]_vars PROVE JobInv'
  OBVIOUS
<1>1. CASE UNCHANGED vars
  <2>0. LocksExclusive /\ \A q \in Run : RunInv(q)
    BY JobInvParts
  <2>1. UNCHANGED <<run, chunk, effects, cancelling, pc, task>>
    BY <1>1 DEF vars
  <2>2. LocksExclusive'
    BY <2>0, <2>1, LocksKept DEF LocksExclusive
  <2>3. \A q \in Run : RunInv(q)'
    BY <2>0, <2>1, RunUntouched
  <2> QED
    BY <2>2, <2>3, JobInvParts
<1> QED
  BY <1>1, UserInv, TakeInv, WorkerInv, FaultInv DEF Next, TakeStart, TakeChunk

(* A step that writes rows finds them where StaysSettled lets them change. *)
LEMMA SettledStep ==
  ASSUME TypeOK, JobInv, Next, NEW q \in Run
  PROVE  StaysSettled(q)
<1> USE DEF TypeOK, rows, workers, StaysSettled
<1>0. LocksExclusive /\ \A r \in Run : RunInv(r)
  BY JobInvParts
<1>1. CASE UNCHANGED rows
  BY <1>1
<1>2. ASSUME NEW r \in Run, UserStep(r) \/ CancelCommit(r) PROVE StaysSettled(q)
  <2>1. CASE CreateRun(r)
    BY <2>1 DEF CreateRun
  <2>2. CASE CancelBegin(r)
    BY <2>2 DEF CancelBegin
  <2>3. CASE CancelCommit(r)
    <3>1. run[r].status \in ActiveStatus
      BY <1>0, <2>3 DEF CancelCommit, RunInv, StageAgrees
    <3> QED
      BY <2>3, <3>1 DEF CancelCommit, CancelChunks, ActiveStatus
  <2>4. CASE RetryRun(r)
    <3>1. /\ run[r].status \in RetryableStatus
          /\ chunk' = [chunk EXCEPT ![r] = [c \in Chunk |->
               IF c \in ChunksOf(r, "failed") THEN Retried(chunk[r][c]) ELSE chunk[r][c]]]
          /\ \A p \in Run \ {r} : run'[p] = run[p]
          /\ effects' = effects
      BY <2>4 DEF RetryRun
    <3> QED
      BY <3>1 DEF RetryableStatus, ChunksOf
  <2> QED
    BY <1>2, <2>1, <2>2, <2>3, <2>4 DEF UserStep
<1>3. ASSUME NEW r \in Run, TakeStart(r) PROVE StaysSettled(q)
  <2>1. CASE UNCHANGED rows
    BY <2>1
  <2>2. CASE run[r].status = "queued" /\ effects' = effects /\ (\A p \in Run \ {r} : run'[p] = run[p] /\ chunk'[p] = chunk[p])
    BY <1>0, <2>2 DEF RunInv, StageAgrees, ChunksOf
  <2> QED
    BY <1>3, <2>1, <2>2 DEF TakeStart, StartRun, PlanFails, StartRunAgain
<1>4. ASSUME NEW w \in Worker, WorkerStep(w) PROVE StaysSettled(q)
  <2>0. PICK r \in Run, c \in Chunk : task[w] = <<r, c>>
    BY <1>0, <1>4, WorkerTask DEF WorkerStep, CommitChunk, FailChunk, RecordBegin, RecordCommit,
           Finalize
  <2>1. CASE CommitChunk(w) \/ RecordCommit(w)
    <3>1. Holds(w, r, c)
      BY <2>0, <2>1 DEF CommitChunk, RecordCommit, Holds
    <3>2. chunk[r][c].status = "pending" /\ run[r].status = "running"
      BY <1>0, <3>1 DEF LocksExclusive
    <3>3. /\ run' = run
          /\ \A p \in Run \ {r} : chunk'[p] = chunk[p] /\ effects'[p] = effects[p]
          /\ \A d \in Chunk \ {c} : chunk'[r][d] = chunk[r][d]
      BY <2>0, <2>1 DEF CommitChunk, RecordCommit
    <3> QED
      BY <3>2, <3>3
  <2>2. CASE FailChunk(w) \/ RecordBegin(w)
    BY <2>2 DEF FailChunk, RecordBegin
  <2>3. CASE Finalize(w)
    BY <2>0, <2>3 DEF Finalize
  <2> QED
    BY <1>4, <2>1, <2>2, <2>3 DEF WorkerStep
<1> QED
  BY <1>1, <1>2, <1>3, <1>4
     DEF Next, Requeue, Resume, BreakDeadlock, TakeChunk, ClaimChunk, SkipChunk,
         FaultStep, WorkerFault, LoseTask, RedeliverTask

(* A step that leaves a run unfinalized finds it so, or is the fault of a worker with its task. *)
LEMMA LeftStep ==
  ASSUME TypeOK, JobInv, Next, NEW q \in Run, LeftUnfinalized(q)'
  PROVE  LeftUnfinalized(q) \/ \E w \in Worker : WorkerFault(w) /\ task[w][1] = q
<1> USE DEF TypeOK, rows, workers
<1>0. LocksExclusive /\ \A r \in Run : RunInv(r)
  BY JobInvParts
<1>1. /\ run'[q].status = "running" /\ \A c \in Chunk : chunk'[q][c].status # "pending"
      /\ \A w \in Worker : task'[w] = NoTask \/ task'[w][1] # q
  BY DEF LeftUnfinalized, ChunksOf
(* What a step that keeps the run and the workers' tasks for it finds. *)
<1>2. ASSUME run'[q] = run[q], chunk'[q] = chunk[q],
             \A w \in Worker : task[w] = NoTask \/ task[w][1] # q \/ task'[w] = task[w]
      PROVE  LeftUnfinalized(q)
  BY <1>1, <1>2 DEF LeftUnfinalized, ChunksOf
<1>3. ASSUME NEW r \in Run, UserStep(r) \/ CancelCommit(r) PROVE LeftUnfinalized(q)
  <2>1. CASE r # q \/ CancelBegin(r)
    <3>1. run'[q] = run[q] /\ chunk'[q] = chunk[q] /\ task' = task
      BY <1>3, <2>1 DEF UserStep, CreateRun, CancelBegin, CancelCommit, RetryRun
    <3> QED
      BY <1>2, <3>1
  <2>2. CASE r = q /\ (CreateRun(r) \/ CancelCommit(r))
    <3>1. run'[q].status \in {"queued", "cancelled"}
      BY <2>2 DEF CreateRun, CancelCommit, RunRow
    <3> QED
      BY <1>1, <3>1
  <2>3. CASE r = q /\ RetryRun(r)
    <3>1. run[q].status \in RetryableStatus /\ ChunksOf(q, "none") # Chunk
      BY <1>1, <2>3 DEF RetryRun
    <3>2. \A c \in Chunk : chunk[q][c].status \in ChunkStatus
      BY DEF ChunkRow
    <3>3. ChunksOf(q, "failed") # {}
      <4>1. OutcomeTells(q)
        BY <1>0 DEF RunInv
      <4>2. CASE run[q].status = "partial"
        BY <4>1, <4>2 DEF OutcomeTells
      <4>3. CASE run[q].status = "failed"
        <5>1. ChunksOf(q, "pending") = {} /\ ChunksOf(q, "success") = {} /\ ChunksOf(q, "cancelled") = {}
          BY <4>1, <4>3 DEF OutcomeTells
        <5> QED
          BY <3>1, <3>2, <5>1 DEF ChunksOf, ChunkStatus
      <4> QED
        BY <3>1, <4>2, <4>3 DEF RetryableStatus
    <3>4. PICK c \in Chunk : c \in ChunksOf(q, "failed")
      BY <3>3 DEF ChunksOf
    <3>5. chunk'[q][c] = Retried(chunk[q][c])
      BY <2>3, <3>4 DEF RetryRun
    <3> QED
      BY <1>1, <3>5 DEF Retried
  <2> QED
    BY <1>3, <2>1, <2>2, <2>3 DEF UserStep
<1>4. ASSUME NEW r \in Run, TakeStart(r) PROVE LeftUnfinalized(q)
  <2>1. PICK w \in Worker : (\E planned \in SUBSET Chunk : StartRun(w, r, planned))
                            \/ PlanFails(w, r) \/ StartRunAgain(w, r)
    BY <1>4 DEF TakeStart
  <2>2. task' = task
    BY <2>1 DEF StartRun, PlanFails, StartRunAgain
  <2>3. CASE r # q \/ StartRunAgain(w, r)
    <3>1. run'[q] = run[q] /\ chunk'[q] = chunk[q]
      BY <2>1, <2>3 DEF StartRun, PlanFails, StartRunAgain
    <3> QED
      BY <1>2, <2>2, <3>1
  <2>4. CASE r = q /\ PlanFails(w, r)
    BY <1>1, <2>4 DEF PlanFails
  <2>5. ASSUME r = q, NEW planned \in SUBSET Chunk, StartRun(w, r, planned) PROVE FALSE
    <3>1. planned # {}
      BY <1>1, <2>5 DEF StartRun
    <3>2. \A c \in planned : chunk'[q][c].status = "pending"
      BY <2>5 DEF StartRun, PlannedRows
    <3> QED
      BY <1>1, <3>1, <3>2
  <2> QED
    BY <2>1, <2>3, <2>4, <2>5
<1>5. ASSUME NEW r \in Run, NEW c \in Chunk, TakeChunk(r, c) PROVE LeftUnfinalized(q)
  <2>1. PICK w \in Worker : ClaimChunk(w, r, c) \/ SkipChunk(w, r, c)
    BY <1>5 DEF TakeChunk
  <2>2. run' = run /\ chunk' = chunk /\ pc[w] = "idle" /\ \A v \in Worker \ {w} : task'[v] = task[v]
    BY <2>1 DEF ClaimChunk, SkipChunk
  <2>3. task[w] = NoTask
    BY <1>0, <2>2 DEF LocksExclusive
  <2> QED
    BY <1>2, <2>2, <2>3
<1>6. ASSUME NEW w \in Worker, WorkerStep(w) PROVE LeftUnfinalized(q)
  <2>0. PICK r \in Run, c \in Chunk : task[w] = <<r, c>>
    BY <1>0, <1>6, WorkerTask DEF WorkerStep, CommitChunk, FailChunk, RecordBegin, RecordCommit, Finalize
  <2>1. CASE CommitChunk(w) \/ FailChunk(w) \/ RecordBegin(w) \/ RecordCommit(w)
    <3>1. task' = task /\ run' = run
      BY <2>1 DEF CommitChunk, FailChunk, RecordBegin, RecordCommit
    <3>2. task[w] # NoTask /\ task[w][1] = r
      BY <2>0, JobAssumption, TaskTypes
    <3>3. r # q
      BY <1>1, <3>1, <3>2
    <3>4. chunk'[q] = chunk[q]
      BY <2>0, <2>1, <3>3 DEF CommitChunk, FailChunk, RecordBegin, RecordCommit
    <3> QED
      BY <1>2, <3>1, <3>4
  <2>2. CASE Finalize(w)
    <3>1. chunk' = chunk /\ \A v \in Worker \ {w} : task'[v] = task[v]
      BY <2>2 DEF Finalize, Done
    <3>2. \A s : ChunksOf(q, s)' = ChunksOf(q, s)
      BY <3>1 DEF ChunksOf
    <3>3. r # q
      <4>1. SUFFICES ASSUME r = q PROVE FALSE
        OBVIOUS
      <4>2. run[q].status = "running" /\ run'[q] = Finalized(q)
        BY <1>1, <2>0, <2>2, <4>1 DEF Finalize
      <4>3. ChunksOf(q, "pending") = {}
        BY <3>2 DEF LeftUnfinalized
      <4>4. run'[q].status # "running"
        BY <4>2, <4>3 DEF Finalized, Outcome
      <4> QED
        BY <1>1, <4>4
    <3>4. run'[q] = run[q]
      BY <2>0, <2>2, <3>3 DEF Finalize
    <3> QED
      BY <1>2, <2>0, <3>1, <3>3, <3>4
  <2> QED
    BY <1>6, <2>1, <2>2 DEF WorkerStep
<1>7. ASSUME NEW r \in Run, BreakDeadlock(r) PROVE LeftUnfinalized(q)
  <2>1. PICK w \in Worker : /\ pc[w] = "recording" /\ task[w][1] = r /\ run' = run /\ chunk' = chunk
                            /\ \A v \in Worker \ {w} : task'[v] = task[v]
    BY <1>7 DEF BreakDeadlock, Done
  <2>2. PICK p \in Run, c \in Chunk : task[w] = <<p, c>>
    BY <1>0, <2>1, WorkerTask
  <2>3. p # q
    BY <1>0, <1>1, <2>1, <2>2 DEF LocksExclusive, Holds
  <2> QED
    BY <1>2, <2>1, <2>2, <2>3
<1>8. ASSUME NEW w \in Worker, WorkerFault(w)
      PROVE  LeftUnfinalized(q) \/ \E v \in Worker : WorkerFault(v) /\ task[v][1] = q
  <2>1. run' = run /\ chunk' = chunk /\ \A v \in Worker \ {w} : task'[v] = task[v]
    BY <1>8 DEF WorkerFault, Done
  <2>2. CASE task[w][1] = q
    BY <1>8, <2>2
  <2>3. CASE task[w][1] # q
    BY <1>2, <2>1, <2>3
  <2> QED
    BY <2>2, <2>3
<1>9. CASE \/ \E r \in Run : Requeue(r) \/ Resume(r)
           \/ \E w \in Worker : RedeliverTask(w)
           \/ \E t \in Task : LoseTask(t)
  <2>1. run' = run /\ chunk' = chunk /\ task' = task
    BY <1>9 DEF Requeue, Resume, RedeliverTask, LoseTask
  <2> QED
    BY <1>2, <2>1
<1> QED
  BY <1>3, <1>4, <1>5, <1>6, <1>7, <1>8, <1>9 DEF Next, FaultStep

-----------------------------------------------------------------------------
(* Theorems *)

(* The inductive invariant: row locks are exclusive and the rows of a run agree with *)
(* its stage, through every redelivery, crash, cancel, retry and broken deadlock.    *)
THEOREM JobInvariant == Spec => [](TypeOK /\ JobInv)
<1>1. Init => TypeOK /\ JobInv
  BY TypeInit, InvInit
<1>2. TypeOK /\ JobInv /\ [Next]_vars => (TypeOK /\ JobInv)'
  BY TypeStep, InvStep DEF JobInv
<1> QED
  BY <1>1, <1>2, PTL DEF Spec

(* Rows, tasks and workers always have the types the models and the runner give them. *)
THEOREM TypeCorrect == Spec => []TypeOK
BY JobInvariant, PTL

(* The changes of a chunk are committed exactly once when its row says success, and *)
(* never otherwise: the claim under SKIP LOCKED makes a duplicate task harmless.    *)
THEOREM EffectsCorrect == Spec => []EffectsOnce
<1>1. JobInv => EffectsOnce
  BY DEF JobInv
<1> QED
  BY <1>1, JobInvariant, PTL

(* What finalize, cancel_run and start_run write on a finished run is what its chunks did. *)
THEOREM OutcomesCorrect == Spec => []OutcomeTellsChunks
<1>1. JobInv => OutcomeTellsChunks
  BY DEF JobInv
<1> QED
  BY <1>1, JobInvariant, PTL

(* No step applies or records anything for a run that is cancelled or has succeeded, and *)
(* none runs a succeeded chunk again: cancel_run waits for the chunks being executed.    *)
THEOREM SettledCorrect == Spec => SettledStays
<1>1. TypeOK /\ JobInv /\ [Next]_vars => [\A r \in Run : StaysSettled(r)]_vars
  BY SettledStep
<1> QED
  BY <1>1, JobInvariant, PTL DEF Spec, SettledStays

(* jobs/runner.py: whatever ends a task but a fault leaves the run finalized or with work to do. *)
THEOREM LeftOnlyByFaults == Spec => LeftOnlyByFault
<1> DEFINE LeftBy(r) == LeftUnfinalized(r)' =>
                          LeftUnfinalized(r) \/ \E w \in Worker : WorkerFault(w) /\ task[w][1] = r
<1>1. TypeOK /\ JobInv /\ [Next]_vars => [\A r \in Run : LeftBy(r)]_vars
  BY LeftStep
<1> QED
  BY <1>1, JobInvariant, PTL DEF Spec, LeftOnlyByFault

-----------------------------------------------------------------------------
(* The refinement *)

(* What JobPromise sees of the rows. *)
StageOf == [r \in Run |-> run[r].status]
InState(s) == [r \in Run |-> ChunksOf(r, s)]

(* A step that changes the status of one run, or of none. *)
LEMMA StageMoves ==
  ASSUME NEW r \in Run, \A q \in Run \ {r} : run'[q].status = run[q].status
  PROVE  StageOf' = [StageOf EXCEPT ![r] = run'[r].status]
BY DEF StageOf

LEMMA StageStays ==
  ASSUME \A q \in Run : run'[q].status = run[q].status
  PROVE  StageOf' = StageOf
BY DEF StageOf

(* A step after which the chunks of one run in a state are T, or the same. *)
LEMMA StateMoves ==
  ASSUME NEW r \in Run, NEW s, NEW STATE T, {c \in Chunk : chunk'[r][c].status = s} = T,
         \A q \in Run \ {r} : chunk'[q] = chunk[q]
  PROVE  InState(s)' = [InState(s) EXCEPT ![r] = T]
BY DEF InState, ChunksOf

LEMMA StateStays ==
  ASSUME NEW r \in Run, NEW s, {c \in Chunk : chunk'[r][c].status = s} = ChunksOf(r, s),
         \A q \in Run \ {r} : chunk'[q] = chunk[q]
  PROVE  InState(s)' = InState(s)
BY DEF InState, ChunksOf

(* A step that changes no chunk, or nothing that JobPromise sees. *)
LEMMA StatesStay == chunk' = chunk => \A s : InState(s)' = InState(s)
BY DEF InState, ChunksOf

LEMMA Stutters ==
  ASSUME \A q \in Run : run'[q].status = run[q].status, chunk' = chunk, effects' = effects
  PROVE  UNCHANGED Promise!promise
<1>1. StageOf' = StageOf
  BY StageStays
<1>2. InState("pending")' = InState("pending") /\ InState("success")' = InState("success")
      /\ InState("failed")' = InState("failed")
  BY StatesStay
<1> QED
  BY <1>1, <1>2 DEF Promise!promise, StageOf, InState

(* What becomes of the other chunks of a run when one that is pending is settled. *)
LEMMA ChunkSettles ==
  ASSUME NEW r \in Run, NEW k \in Chunk, NEW z \in {"success", "failed"},
         chunk[r][k].status = "pending", chunk'[r][k].status = z,
         \A c \in Chunk \ {k} : chunk'[r][c] = chunk[r][c],
         \A q \in Run \ {r} : chunk'[q] = chunk[q]
  PROVE  /\ InState("pending")' = [InState("pending") EXCEPT ![r] = @ \ {k}]
         /\ InState(z)' = [InState(z) EXCEPT ![r] = @ \cup {k}]
         /\ \A s \in {"success", "failed"} \ {z} : InState(s)' = InState(s)
<1>1. \A s : InState(s)[r] = ChunksOf(r, s)
  BY DEF InState
<1>2. {c \in Chunk : chunk'[r][c].status = "pending"} = ChunksOf(r, "pending") \ {k}
  BY DEF ChunksOf
<1>3. {c \in Chunk : chunk'[r][c].status = z} = ChunksOf(r, z) \cup {k}
  BY DEF ChunksOf
<1>4. ASSUME NEW s \in {"success", "failed"} \ {z}
      PROVE  {c \in Chunk : chunk'[r][c].status = s} = ChunksOf(r, s)
  BY <1>4 DEF ChunksOf
<1>5. InState("pending")' = [InState("pending") EXCEPT ![r] = @ \ {k}]
  <2> DEFINE rest == ChunksOf(r, "pending") \ {k}
  <2>1. {c \in Chunk : chunk'[r][c].status = "pending"} = rest
    BY <1>2
  <2> HIDE DEF rest
  <2>2. InState("pending")' = [InState("pending") EXCEPT ![r] = rest]
    <3>1. \A q \in Run : {c \in Chunk : chunk'[q][c].status = "pending"}
                           = IF q = r THEN rest ELSE ChunksOf(q, "pending")
      BY <2>1 DEF ChunksOf
    <3>2. InState("pending")' = [q \in Run |-> {c \in Chunk : chunk'[q][c].status = "pending"}]
      BY DEF InState, ChunksOf
    <3> QED
      BY <3>1, <3>2 DEF InState
  <2>3. rest = InState("pending")[r] \ {k}
    BY <1>1 DEF rest
  <2> QED
    BY <2>2, <2>3
<1>6. InState(z)' = [InState(z) EXCEPT ![r] = @ \cup {k}]
  <2> DEFINE rest == ChunksOf(r, z) \cup {k}
  <2>1. {c \in Chunk : chunk'[r][c].status = z} = rest
    BY <1>3
  <2>2. rest = InState(z)[r] \cup {k}
    BY <1>1
  <2> HIDE DEF rest
  <2>3. InState(z)' = [InState(z) EXCEPT ![r] = rest]
    <3>1. \A q \in Run : {c \in Chunk : chunk'[q][c].status = z}
                           = IF q = r THEN rest ELSE ChunksOf(q, z)
      BY <2>1 DEF ChunksOf
    <3>2. InState(z)' = [q \in Run |-> {c \in Chunk : chunk'[q][c].status = z}]
      BY DEF InState, ChunksOf
    <3> QED
      BY <3>1, <3>2 DEF InState
  <2> QED
    BY <2>2, <2>3
<1>7. ASSUME NEW s \in {"success", "failed"} \ {z} PROVE InState(s)' = InState(s)
  BY <1>4, StateStays
<1> QED
  BY <1>5, <1>6, <1>7

(* What users ask for: create, cancel, retry. *)
LEMMA UserPromise ==
  ASSUME TypeOK, JobInv, NEW r \in Run, UserStep(r) \/ CancelCommit(r)
  PROVE  Promise!PromiseNext \/ UNCHANGED Promise!promise
<1>0. RunInv(r) /\ run \in [Run -> RunRow] /\ chunk \in [Run -> [Chunk -> ChunkRow]]
  BY JobInvParts DEF TypeOK
<1>1. CASE CreateRun(r)
  <2>1. /\ run[r].status = "none" /\ run'[r].status = "queued"
        /\ \A q \in Run \ {r} : run'[q].status = run[q].status
        /\ chunk' = chunk /\ effects' = effects
    BY <1>0, <1>1 DEF CreateRun, RunRow
  <2>2. StageOf[r] = "none" /\ StageOf' = [StageOf EXCEPT ![r] = "queued"]
    BY <2>1, StageMoves DEF StageOf
  <2>3. InState("pending")' = InState("pending") /\ InState("success")' = InState("success")
        /\ InState("failed")' = InState("failed")
    BY <2>1, StatesStay
  <2>4. Promise!Create(r)
    BY <2>1, <2>2, <2>3 DEF Promise!Create, StageOf, InState
  <2> QED
    BY <2>4 DEF Promise!PromiseNext
<1>2. CASE CancelBegin(r)
  BY <1>2, Stutters DEF CancelBegin, rows
<1>3. CASE CancelCommit(r)
  <2>1. /\ run[r].status \in {"queued", "running"} /\ run'[r].status = "cancelled"
        /\ \A q \in Run \ {r} : run'[q].status = run[q].status
        /\ chunk' = [chunk EXCEPT ![r] = CancelChunks(r)] /\ effects' = effects
    BY <1>0, <1>3 DEF CancelCommit, RunRow, RunInv, StageAgrees, ActiveStatus
  <2>2. \A q \in Run \ {r} : chunk'[q] = chunk[q]
    BY <1>0, <2>1
  <2>3. \A c \in Chunk : chunk'[r][c].status = IF chunk[r][c].status = "pending" THEN "cancelled"
                                                ELSE chunk[r][c].status
    BY <1>0, <2>1 DEF CancelChunks, ChunkRow
  <2>4. StageOf[r] \in {"queued", "running"} /\ StageOf' = [StageOf EXCEPT ![r] = "cancelled"]
    BY <2>1, StageMoves DEF StageOf
  <2>5. {c \in Chunk : chunk'[r][c].status = "pending"} = {}
    BY <2>3
  <2>6. InState("pending")' = [InState("pending") EXCEPT ![r] = {}]
    BY <2>2, <2>5, StateMoves
  <2>7. InState("success")' = InState("success")
    <3>1. {c \in Chunk : chunk'[r][c].status = "success"} = ChunksOf(r, "success")
      BY <2>3 DEF ChunksOf
    <3> QED
      BY <2>2, <3>1, StateStays
  <2>8. InState("failed")' = InState("failed")
    <3>1. {c \in Chunk : chunk'[r][c].status = "failed"} = ChunksOf(r, "failed")
      BY <2>3 DEF ChunksOf
    <3> QED
      BY <2>2, <3>1, StateStays
  <2>9. Promise!Cancel(r)
    BY <2>1, <2>4, <2>6, <2>7, <2>8 DEF Promise!Cancel, StageOf, InState
  <2> QED
    BY <2>9 DEF Promise!PromiseNext
<1>4. CASE RetryRun(r)
  <2> DEFINE failed == ChunksOf(r, "failed")
             planned == ChunksOf(r, "none") # Chunk
  <2>1. /\ run[r].status \in {"failed", "partial"}
        /\ run'[r].status = IF planned THEN "running" ELSE "queued"
        /\ \A q \in Run \ {r} : run'[q].status = run[q].status
        /\ chunk' = [chunk EXCEPT ![r] = [c \in Chunk |-> IF c \in failed THEN Retried(chunk[r][c])
                                                                         ELSE chunk[r][c]]]
        /\ effects' = effects
    BY <1>0, <1>4 DEF RetryRun, RunRow, RetryableStatus
  <2>2. \A q \in Run \ {r} : chunk'[q] = chunk[q]
    BY <1>0, <2>1
  <2>3. \A c \in Chunk : chunk'[r][c].status = IF chunk[r][c].status = "failed" THEN "pending"
                                                ELSE chunk[r][c].status
    BY <1>0, <2>1 DEF Retried, ChunksOf
  <2>4. planned <=> failed # {}
    <3>1. ASSUME failed # {} PROVE planned
      BY <3>1 DEF ChunksOf
    <3>2. ASSUME failed = {} PROVE ChunksOf(r, "none") = Chunk
      <4>1. ChunksOf(r, "pending") = {} /\ ChunksOf(r, "success") = {} /\ ChunksOf(r, "cancelled") = {}
        BY <1>0, <2>1, <3>2 DEF RunInv, OutcomeTells
      <4> QED
        BY <1>0, <3>2, <4>1 DEF ChunksOf, ChunkRow, ChunkStatus
    <3> QED
      BY <3>1, <3>2
  <2>5. /\ StageOf[r] \in {"failed", "partial"}
        /\ StageOf' = [StageOf EXCEPT ![r] = IF InState("failed")[r] = {} THEN "queued" ELSE "running"]
    BY <2>1, <2>4, StageMoves DEF StageOf, InState
  <2>6. InState("pending")' = [InState("pending") EXCEPT ![r] = InState("failed")[r]]
    <3>1. ChunksOf(r, "pending") = {}
      BY <1>0, <2>1 DEF RunInv, OutcomeTells
    <3>2. {c \in Chunk : chunk'[r][c].status = "pending"} = failed
      BY <2>3, <3>1 DEF ChunksOf
    <3>3. InState("failed")[r] = failed
      BY DEF InState
    <3> HIDE DEF failed
    <3>4. InState("pending")' = [InState("pending") EXCEPT ![r] = failed]
      BY <2>2, <3>2, StateMoves
    <3> QED
      BY <3>3, <3>4
  <2>7. InState("failed")' = [InState("failed") EXCEPT ![r] = {}]
    <3>1. {c \in Chunk : chunk'[r][c].status = "failed"} = {}
      BY <2>3
    <3> QED
      BY <2>2, <3>1, StateMoves
  <2>8. InState("success")' = InState("success")
    <3>1. {c \in Chunk : chunk'[r][c].status = "success"} = ChunksOf(r, "success")
      BY <2>3 DEF ChunksOf
    <3> QED
      BY <2>2, <3>1, StateStays
  <2>9. Promise!Retry(r)
    BY <2>1, <2>5, <2>6, <2>7, <2>8 DEF Promise!Retry, StageOf, InState
  <2> QED
    BY <2>9 DEF Promise!PromiseNext
<1> QED
  BY <1>1, <1>2, <1>3, <1>4 DEF UserStep

(* The worker plans the chunks of a run. *)
LEMMA StartPromise ==
  ASSUME TypeOK, JobInv, NEW r \in Run, TakeStart(r)
  PROVE  Promise!PromiseNext \/ UNCHANGED Promise!promise
<1>0. RunInv(r) /\ run \in [Run -> RunRow] /\ chunk \in [Run -> [Chunk -> ChunkRow]]
  BY JobInvParts DEF TypeOK
<1>1. PICK w \in Worker : \/ \E planned \in SUBSET Chunk : StartRun(w, r, planned)
                          \/ PlanFails(w, r) \/ StartRunAgain(w, r)
  BY DEF TakeStart
<1>2. ASSUME NEW planned \in SUBSET Chunk, StartRun(w, r, planned)
      PROVE  Promise!PromiseNext
  <2>1. /\ run[r].status = "queued" /\ run'[r].status = IF planned = {} THEN "success" ELSE "running"
        /\ \A q \in Run \ {r} : run'[q].status = run[q].status
        /\ chunk' = [chunk EXCEPT ![r] = PlannedRows(planned)] /\ effects' = effects
    BY <1>0, <1>2 DEF StartRun, RunRow
  <2>2. \A q \in Run \ {r} : chunk'[q] = chunk[q]
    BY <1>0, <2>1
  <2>3. \A c \in Chunk : chunk'[r][c].status = IF c \in planned THEN "pending" ELSE "none"
    BY <1>0, <2>1 DEF PlannedRows
  <2>4. \A c \in Chunk : chunk[r][c].status = "none"
    BY <1>0, <2>1 DEF RunInv, StageAgrees, ChunksOf
  <2>5. StageOf[r] = "queued"
        /\ StageOf' = [StageOf EXCEPT ![r] = IF planned = {} THEN "success" ELSE "running"]
    BY <2>1, StageMoves DEF StageOf
  <2>6. InState("pending")' = [InState("pending") EXCEPT ![r] = planned]
    <3>1. {c \in Chunk : chunk'[r][c].status = "pending"} = planned
      BY <2>3
    <3> QED
      BY <2>2, <3>1, StateMoves
  <2>7. InState("success")' = InState("success")
    <3>1. {c \in Chunk : chunk'[r][c].status = "success"} = ChunksOf(r, "success")
      BY <2>3, <2>4 DEF ChunksOf
    <3> QED
      BY <2>2, <3>1, StateStays
  <2>8. InState("failed")' = InState("failed")
    <3>1. {c \in Chunk : chunk'[r][c].status = "failed"} = ChunksOf(r, "failed")
      BY <2>3, <2>4 DEF ChunksOf
    <3> QED
      BY <2>2, <3>1, StateStays
  <2>9. Promise!Plan(r)
    BY <2>1, <2>5, <2>6, <2>7, <2>8 DEF Promise!Plan, StageOf, InState
  <2> QED
    BY <2>9 DEF Promise!PromiseNext
<1>3. CASE PlanFails(w, r)
  <2>1. /\ run[r].status = "queued" /\ run'[r].status = "failed"
        /\ \A q \in Run \ {r} : run'[q].status = run[q].status
        /\ chunk' = chunk /\ effects' = effects
    BY <1>0, <1>3 DEF PlanFails, RunRow
  <2>2. StageOf[r] = "queued" /\ StageOf' = [StageOf EXCEPT ![r] = "failed"]
    BY <2>1, StageMoves DEF StageOf
  <2>3. InState("pending")' = InState("pending") /\ InState("success")' = InState("success")
        /\ InState("failed")' = InState("failed")
    BY <2>1, StatesStay
  <2>4. Promise!Plan(r)
    BY <2>1, <2>2, <2>3 DEF Promise!Plan, StageOf, InState
  <2> QED
    BY <2>4 DEF Promise!PromiseNext
<1>4. CASE StartRunAgain(w, r)
  BY <1>4, Stutters DEF StartRunAgain, rows
<1> QED
  BY <1>1, <1>2, <1>3, <1>4

(* The worker executes a chunk, records a failure, closes the run. *)
LEMMA WorkerPromise ==
  ASSUME TypeOK, JobInv, NEW w \in Worker, WorkerStep(w)
  PROVE  Promise!PromiseNext \/ UNCHANGED Promise!promise
<1>0. /\ LocksExclusive /\ \A q \in Run : RunInv(q)
      /\ run \in [Run -> RunRow] /\ chunk \in [Run -> [Chunk -> ChunkRow]]
      /\ effects \in [Run -> [Chunk -> Nat]]
  BY JobInvParts DEF TypeOK
<1>1. PICK r \in Run, k \in Chunk : task[w] = <<r, k>>
  BY <1>0, WorkerTask DEF WorkerStep, CommitChunk, FailChunk, RecordBegin, RecordCommit, Finalize
<1>2. CASE CommitChunk(w)
  <2>1. chunk[r][k].status = "pending" /\ run[r].status = "running"
    BY <1>0, <1>1, <1>2 DEF CommitChunk, Holds, LocksExclusive
  <2>2. /\ chunk' = [chunk EXCEPT ![r][k] = [status |-> "success", attempts |-> @.attempts + 1]]
        /\ effects' = IF r \in DryRun THEN effects ELSE [effects EXCEPT ![r][k] = @ + 1]
        /\ run' = run
    BY <1>1, <1>2 DEF CommitChunk
  <2>3. /\ chunk'[r][k].status = "success"
        /\ \A c \in Chunk \ {k} : chunk'[r][c] = chunk[r][c]
        /\ \A q \in Run \ {r} : chunk'[q] = chunk[q]
    BY <1>0, <2>2
  <2>4. /\ InState("pending")' = [InState("pending") EXCEPT ![r] = @ \ {k}]
        /\ InState("success")' = [InState("success") EXCEPT ![r] = @ \cup {k}]
        /\ InState("failed")' = InState("failed")
    BY <2>1, <2>3, ChunkSettles
  <2>5. StageOf[r] = "running" /\ k \in InState("pending")[r] /\ StageOf' = StageOf
    BY <2>1, <2>2 DEF StageOf, InState, ChunksOf
  <2>6. effects' = IF r \in DryRun THEN effects ELSE [effects EXCEPT ![r][k] = 1]
    <3>1. effects[r][k] = 0
      BY <1>0, <2>1 DEF RunInv, EffectsOnceIn
    <3> QED
      BY <1>0, <2>2, <3>1
  <2>7. Promise!Apply(r, k)
    BY <2>4, <2>5, <2>6 DEF Promise!Apply, StageOf, InState
  <2> QED
    BY <2>7 DEF Promise!PromiseNext
<1>3. CASE FailChunk(w) \/ RecordBegin(w)
  BY <1>3, Stutters DEF FailChunk, RecordBegin, rows
<1>4. CASE RecordCommit(w)
  <2> DEFINE n == chunk[r][k].attempts + 1
             z == IF IsFinal(n) THEN "failed" ELSE "pending"
  <2>1. chunk[r][k].status = "pending" /\ run[r].status = "running"
    BY <1>0, <1>1, <1>4 DEF RecordCommit, Holds, LocksExclusive
  <2>2. chunk' = [chunk EXCEPT ![r][k] = [status |-> z, attempts |-> n]] /\ run' = run /\ effects' = effects
    BY <1>1, <1>4 DEF RecordCommit
  <2>3. /\ chunk'[r][k].status = z
        /\ \A c \in Chunk \ {k} : chunk'[r][c] = chunk[r][c]
        /\ \A q \in Run \ {r} : chunk'[q] = chunk[q]
    BY <1>0, <2>2
  <2>4. StageOf[r] = "running" /\ k \in InState("pending")[r] /\ StageOf' = StageOf
    BY <2>1, <2>2 DEF StageOf, InState, ChunksOf
  <2>5. CASE IsFinal(n)
    <3>1. /\ InState("pending")' = [InState("pending") EXCEPT ![r] = @ \ {k}]
          /\ InState("failed")' = [InState("failed") EXCEPT ![r] = @ \cup {k}]
          /\ InState("success")' = InState("success")
      BY <2>1, <2>3, <2>5, ChunkSettles
    <3>2. Promise!GiveUp(r, k)
      BY <2>2, <2>4, <3>1 DEF Promise!GiveUp, StageOf, InState
    <3> QED
      BY <3>2 DEF Promise!PromiseNext
  <2>6. CASE ~IsFinal(n)
    <3>1. \A s : \A q \in Run : {c \in Chunk : chunk'[q][c].status = s} = {c \in Chunk : chunk[q][c].status = s}
      BY <2>1, <2>3, <2>6
    <3>2. InState("pending")' = InState("pending") /\ InState("success")' = InState("success")
          /\ InState("failed")' = InState("failed")
      BY <3>1 DEF InState, ChunksOf
    <3> QED
      BY <2>2, <2>4, <3>2 DEF Promise!promise, StageOf, InState
  <2> QED
    BY <2>5, <2>6
<1>5. CASE Finalize(w)
  <2>1. chunk' = chunk /\ effects' = effects
    BY <1>5 DEF Finalize
  <2>2. CASE run[r].status # "running" \/ ChunksOf(r, "pending") # {}
    <3>1. \A q \in Run : run'[q].status = run[q].status
      BY <1>0, <1>1, <1>5, <2>2 DEF Finalize, Finalized, RunRow
    <3> QED
      BY <2>1, <3>1, Stutters
  <2>3. CASE run[r].status = "running" /\ ChunksOf(r, "pending") = {}
    <3> DEFINE ok == ChunksOf(r, "success")
               ko == ChunksOf(r, "failed")
    <3>1. /\ run'[r].status = Outcome(Cardinality(ok), Cardinality(ko))
          /\ \A q \in Run \ {r} : run'[q].status = run[q].status
      BY <1>0, <1>1, <1>5, <2>3 DEF Finalize, Finalized
    <3>2. /\ Cardinality(ok) \in Nat /\ (Cardinality(ok) = 0 <=> ok = {})
          /\ Cardinality(ko) \in Nat /\ (Cardinality(ko) = 0 <=> ko = {})
      BY ChunksOfFinite
    <3>3. run'[r].status = Promise!Verdict(InState("success")[r], InState("failed")[r])
      BY <3>1, <3>2 DEF Outcome, Promise!Verdict, InState
    <3>4. /\ StageOf[r] = "running" /\ InState("pending")[r] = {}
          /\ StageOf' = [StageOf EXCEPT ![r] = Promise!Verdict(InState("success")[r], InState("failed")[r])]
      BY <2>3, <3>1, <3>3, StageMoves DEF StageOf, InState
    <3>5. InState("pending")' = InState("pending") /\ InState("success")' = InState("success")
          /\ InState("failed")' = InState("failed")
      BY <2>1, StatesStay
    <3>6. Promise!Close(r)
      BY <2>1, <3>4, <3>5 DEF Promise!Close, StageOf, InState
    <3> QED
      BY <3>6 DEF Promise!PromiseNext
  <2> QED
    BY <2>2, <2>3
<1> QED
  BY <1>2, <1>3, <1>4, <1>5 DEF WorkerStep

(* ADR 009, services/jobs.py, jobs/runner.py: seen through its rows a run does what JobPromise says: *)
(* whatever is delivered twice, lost, killed, cancelled or retried.                                  *)
THEOREM RunsKeepPromise == Spec => ImplementsPromise
<1>1. Init => Promise!PromiseInit
  BY DEF Init, Promise!PromiseInit, ChunksOf
<1>2. ASSUME TypeOK, JobInv, [Next]_vars PROVE [Promise!PromiseNext]_(Promise!promise)
  <2>1. CASE UNCHANGED vars
    BY <2>1, Stutters DEF vars
  <2>2. CASE \E r \in Run : Requeue(r) \/ Resume(r) \/ BreakDeadlock(r)
    BY <2>2, Stutters DEF Requeue, Resume, BreakDeadlock, rows
  <2>3. CASE \E r \in Run, c \in Chunk : TakeChunk(r, c)
    BY <2>3, Stutters DEF TakeChunk, ClaimChunk, SkipChunk, rows
  <2>4. CASE FaultStep
    BY <2>4, Stutters DEF FaultStep, WorkerFault, RedeliverTask, LoseTask, rows
  <2> QED
    BY <1>2, <2>1, <2>2, <2>3, <2>4, UserPromise, StartPromise, WorkerPromise DEF Next
<1> QED
  BY <1>1, <1>2, JobInvariant, PTL DEF Spec, ImplementsPromise, Promise!PromiseSpec
=============================================================================
