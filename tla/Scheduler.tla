------------------------------ MODULE Scheduler ------------------------------
(***************************************************************************)
(* The job scheduler: several replicas of jobs/scheduler.py, the schedules *)
(* and runs they work on, and the callers of services/jobs.py who create,  *)
(* retry and cancel runs and change schedules at the same time.            *)
(*                                                                         *)
(* A tick is one transaction over all due work, under an advisory lock     *)
(* that only one replica can hold, and sends its tasks after the commit.   *)
(* Each statement of a tick that meets another transaction is a step.      *)
(* What a run does inside (chunks, attempts) is JobRunner's; here a run    *)
(* starts, ends or fails.                                                  *)
(***************************************************************************)
EXTENDS Integers, FiniteSets

CONSTANTS Job, NoJob, Key, NoKey, Caller, Request,  \* what each caller may ask for
          MaxRun,          \* rows job_run may have
          MaxTime,         \* bound of the clock
          MaxLag,          \* how old a replica's clock may be when it gets the lock
          Period,          \* cron expressions, as the period they fire with
          QueuedTimeout, StalledTimeout, BatchLimit,
          Retirable,       \* jobs that a deployment may drop from DEFINITIONS
          MaxFaults        \* crashes, failed sends and failed requests

Run == 1..MaxRun
Time == 0..MaxTime
NoRun == 0

Operation == [kind : {"create", "retry", "cancel", "update"}, job : Job,
              key : Key \cup {NoKey}, period : Period \cup {0}, active : BOOLEAN]

ASSUME SchedulerAssumption ==
  /\ MaxRun \in Nat /\ MaxTime \in Nat /\ MaxLag \in Nat /\ MaxFaults \in Nat
  /\ Period \subseteq Nat \ {0}
  /\ QueuedTimeout \in Nat /\ StalledTimeout \in Nat /\ BatchLimit \in Nat
  /\ NoKey \notin Key /\ NoJob \notin Job /\ Retirable \subseteq Job
  /\ Request \in [Caller -> SUBSET Operation]

VARIABLES now,       \* the clock all processes read
          defined,   \* DEFINITIONS of the deployed code
          schedule,  \* job_schedule, one row per job
          run,       \* job_run
          sent,      \* runs a task was sent for, which may be lost, late or delivered twice
          tick,      \* the tick of the replica that holds the lock
          call,      \* what each caller is doing
          faults     \* faults so far

vars == <<now, defined, schedule, run, sent, tick, call, faults>>

Active == {"queued", "running"}
ScheduleRow == [period : Period, active : BOOLEAN, next : Nat]
RunRow == [status : {"none", "queued", "running", "failed", "ended"}, job : Job \cup {NoJob},
           key : Key \cup {NoKey}, due : Nat \cup {-1}, touched : Time]
TickRow == [pc : {"idle", "working", "inserting"}, clock : Time,
            schedules : SUBSET Job, queued : SUBSET Run, stalled : SUBSET Run,
            item : Job \cup {NoJob}, fired : SUBSET Job,
            created : SUBSET [run : Run, job : Job, due : Nat], touched : SUBSET Run]
CallRow == [pc : {"ready", "locked", "checked", "inserted", "answered", "refused"},
            op : Operation, run : Run \cup {NoRun}]

TypeOK ==
  /\ now \in Time /\ defined \subseteq Job /\ schedule \in [Job -> ScheduleRow]
  /\ run \in [Run -> RunRow] /\ sent \subseteq Run /\ tick \in TickRow
  /\ call \in [Caller -> CallRow] /\ faults \in 0..MaxFaults

-----------------------------------------------------------------------------
(* Who holds which row, and which rows are not committed yet.               *)

(* services/jobs.py: the next time of the schedule's cron strictly after t. *)
NextFire(period, t) == (t \div period + 1) * period

(* The ids of runs still free: neither committed nor inserted by anybody.   *)
Taken == {r \in Run : run[r].status # "none"}
           \cup {x.run : x \in tick.created}
           \cup {call[c].run : c \in {d \in Caller : call[d].pc = "inserted"}}
NewRun(r) == r \in Run \ Taken /\ \A x \in Run \ Taken : r <= x

(* The job whose active run a caller is about to commit. *)
JobOfCall(c) == IF call[c].op.kind = "retry" THEN run[call[c].run].job ELSE call[c].op.job
KeyOfCall(c) == IF call[c].op.kind = "create" THEN call[c].op.key ELSE NoKey
CallInserts(c, j) == call[c].pc = "inserted" /\ JobOfCall(c) = j
TickInserts(j) == \E x \in tick.created : x.job = j

HasActive(j) == \E r \in Run : run[r].status \in Active /\ run[r].job = j
HasKey(k) == k # NoKey /\ \E r \in Run : run[r].status # "none" /\ run[r].key = k

(* Row locks of transactions that are under way. *)
ScheduleHeld(j) == \E c \in Caller : call[c].pc = "locked" /\ call[c].op.job = j
RunHeld(r) == \E c \in Caller : call[c].pc \in {"checked", "inserted"}
                                /\ call[c].op.kind = "retry" /\ call[c].run = r
ScheduleTicked(j) == j \in tick.fired
RunTicked(r) == r \in tick.touched

-----------------------------------------------------------------------------
IdleTick == [pc |-> "idle", clock |-> 0, schedules |-> {}, queued |-> {}, stalled |-> {},
             item |-> NoJob, fired |-> {}, created |-> {}, touched |-> {}]
NoRow == [status |-> "none", job |-> NoJob, key |-> NoKey, due |-> -1, touched |-> 0]

(* services/jobs.py ensure_default_schedules: every job with a cron has a row. *)
Init ==
  /\ now = 0 /\ defined = Job /\ faults = 0
  /\ schedule \in [Job -> {[period |-> d, active |-> TRUE, next |-> NextFire(d, 0)] : d \in Period}]
  /\ run = [r \in Run |-> NoRow] /\ sent = {}
  /\ tick = IdleTick
  /\ call \in [Caller -> [pc : {"ready"}, op : Operation, run : {NoRun}]]
  /\ \A c \in Caller : call[c].op \in Request[c]

-----------------------------------------------------------------------------
(* One tick.                                                                *)

DueAt(j, t) == schedule[j].active /\ schedule[j].next <= t
QueuedTooLong(r, t) == run[r].status = "queued" /\ run[r].touched + QueuedTimeout < t
Stalled(r, t) == run[r].status = "running" /\ run[r].touched + StalledTimeout < t

(* The oldest rows of a set, at most BatchLimit: ORDER BY ... LIMIT. *)
Oldest(S, age) ==
  {B \in SUBSET S : /\ Cardinality(B) = IF Cardinality(S) < BatchLimit THEN Cardinality(S)
                                        ELSE BatchLimit
                    /\ \A x \in B, y \in S \ B : age[x] <= age[y]}

(* pg_try_advisory_xact_lock: one replica works at a time, a second one's tick ends  *)
(* at once.  So tick is the one tick under way, of whichever replica.  The replica   *)
(* has read its clock before, and job_scheduler_work reads one snapshot after.       *)
BeginTick ==
  /\ tick.pc = "idle"
  /\ \E t \in {u \in Time : u <= now /\ now <= u + MaxLag} :
     \E S \in Oldest({j \in Job : DueAt(j, t)}, [j \in Job |-> schedule[j].next]),
        Q \in Oldest({r \in Run : QueuedTooLong(r, t)}, [r \in Run |-> run[r].touched]),
        R \in Oldest({r \in Run : Stalled(r, t)}, [r \in Run |-> run[r].touched]) :
       tick' = [IdleTick EXCEPT !.pc = "working", !.clock = t, !.schedules = S,
                                !.queued = Q, !.stalled = R]
  /\ UNCHANGED <<now, defined, schedule, run, sent, call, faults>>

(* _fire_schedule reads the row again, skips it when it is locked or no     *)
(* longer due, advances it, and goes on to create_run unless the job is     *)
(* unknown or already running.                                              *)
\* mutants: the schedule is not read again under its lock, or is not locked
StillDueAsListed(j) == ~ScheduleHeld(j)
StillDueUnlocked(j) == DueAt(j, tick.clock)
StillDue(j) == DueAt(j, tick.clock) /\ ~ScheduleHeld(j)
FireSchedule(j) ==
  /\ tick.pc = "working" /\ j \in tick.schedules
  /\ LET creates == StillDue(j) /\ j \in defined /\ ~HasActive(j) IN
     tick' = [tick EXCEPT !.schedules = @ \ {j},
                          !.fired = IF StillDue(j) THEN @ \cup {j} ELSE @,
                          !.pc = IF creates THEN "inserting" ELSE @,
                          !.item = IF creates THEN j ELSE NoJob]
  /\ UNCHANGED <<now, defined, schedule, run, sent, call, faults>>

(* The insert waits for an active run of the job that is not committed, and *)
(* is undone to its savepoint when one is (the schedule is skipped).        *)
InsertScheduled ==
  /\ tick.pc = "inserting"
  /\ LET j == tick.item IN
     /\ \A c \in Caller : ~CallInserts(c, j)
     /\ \/ /\ HasActive(j)
           /\ tick' = [tick EXCEPT !.pc = "working", !.item = NoJob]
        \/ /\ ~HasActive(j)
           /\ \E r \in Run :
                /\ NewRun(r)
                /\ tick' = [tick EXCEPT
                     !.pc = "working", !.item = NoJob,
                     !.created = @ \cup {[run |-> r, job |-> j, due |-> schedule[j].next]}]
  /\ UNCHANGED <<now, defined, schedule, run, sent, call, faults>>

(* _requeue and _resume: the run is read again and skipped when it has      *)
(* changed or is locked.  A job that DEFINITIONS no longer has raises       *)
(* NotFoundError, which nobody catches: the whole tick is rolled back.      *)
Abort == tick' = IdleTick
\* mutant: updated_at is not set
TakeUpUntouched(r, status) ==
  IF run[r].status # status \/ RunHeld(r)
  THEN tick' = [tick EXCEPT !.queued = @ \ {r}, !.stalled = @ \ {r}]
  ELSE IF run[r].job \notin defined THEN Abort
  ELSE tick' = [tick EXCEPT !.queued = @ \ {r}, !.stalled = @ \ {r}]
TakeUp(r, status) ==
  IF run[r].status # status \/ RunHeld(r)
  THEN tick' = [tick EXCEPT !.queued = @ \ {r}, !.stalled = @ \ {r}]
  ELSE IF run[r].job \notin defined THEN Abort
  ELSE tick' = [tick EXCEPT !.queued = @ \ {r}, !.stalled = @ \ {r},
                            !.touched = @ \cup {r}]

Requeue(r) ==
  /\ tick.pc = "working" /\ tick.schedules = {} /\ r \in tick.queued
  /\ TakeUp(r, "queued")
  /\ UNCHANGED <<now, defined, schedule, run, sent, call, faults>>

Resume(r) ==
  /\ tick.pc = "working" /\ tick.schedules = {} /\ tick.queued = {}
  /\ r \in tick.stalled /\ TakeUp(r, "running")
  /\ UNCHANGED <<now, defined, schedule, run, sent, call, faults>>

Scheduled(x, t) == [status |-> "queued", job |-> x.job, key |-> NoKey, due |-> x.due, touched |-> t]

(* After a commit the tasks are sent, one by one: a process that dies then, or a broker *)
(* that is down, leaves some unsent.                                                    *)
SendTasks(R) ==
  \/ sent' = sent \cup R /\ faults' = faults
  \/ /\ faults < MaxFaults /\ faults' = faults + 1
     /\ \E S \in (SUBSET R) \ {R} : sent' = sent \cup S

CommitTick ==
  LET t == tick IN
  /\ t.pc = "working" /\ t.schedules = {} /\ t.queued = {} /\ t.stalled = {}
  /\ schedule' = [j \in Job |-> IF j \in t.fired
                    THEN [schedule[j] EXCEPT !.next = NextFire(schedule[j].period, t.clock)]
                    ELSE schedule[j]]
  /\ run' = [r \in Run |->
       IF \E x \in t.created : x.run = r
       THEN Scheduled(CHOOSE x \in t.created : x.run = r, now)
       ELSE IF r \in t.touched THEN [run[r] EXCEPT !.touched = t.clock] ELSE run[r]]
  /\ Abort
  /\ SendTasks({x.run : x \in t.created} \cup t.touched)
  /\ UNCHANGED <<now, defined, call>>

CrashReplica ==
  /\ tick.pc # "idle" /\ faults < MaxFaults /\ faults' = faults + 1
  /\ Abort
  /\ UNCHANGED <<now, defined, schedule, run, sent, call>>

-----------------------------------------------------------------------------
(* Callers of the API.  Each runs one request, in a transaction.            *)

Refuse(c) == call' = [call EXCEPT ![c].pc = "refused"]

(* create_run: the job is known, the key is looked up, no run is active. *)
BeginCreate(c) ==
  LET o == call[c].op IN
  /\ call[c].pc = "ready" /\ o.kind = "create"
  /\ \/ o.job \notin defined /\ Refuse(c)
     \/ /\ o.job \in defined /\ HasKey(o.key)
        /\ \E r \in Run : /\ run[r].status # "none" /\ run[r].key = o.key
                          /\ call' = [call EXCEPT ![c].pc = "answered", ![c].run = r]
     \/ o.job \in defined /\ ~HasKey(o.key) /\ HasActive(o.job) /\ Refuse(c)
     \/ /\ o.job \in defined /\ ~HasKey(o.key) /\ ~HasActive(o.job)
        /\ call' = [call EXCEPT ![c].pc = "checked"]
  /\ UNCHANGED <<now, defined, schedule, run, sent, tick, faults>>

(* retry_run: the run is locked; it has failed, its job is known, none is active. *)
BeginRetry(c, r) ==
  /\ call[c].pc = "ready" /\ call[c].op.kind = "retry"
  /\ run[r].status # "none" /\ ~RunTicked(r) /\ ~RunHeld(r)
  /\ \/ /\ run[r].status = "failed" /\ ~HasActive(run[r].job) /\ run[r].job \in defined
        /\ call' = [call EXCEPT ![c].pc = "checked", ![c].run = r]
     \/ /\ run[r].status # "failed" \/ HasActive(run[r].job) \/ run[r].job \notin defined
        /\ Refuse(c)
  /\ UNCHANGED <<now, defined, schedule, run, sent, tick, faults>>

(* The insert of create_run, the update of retry_run: the unique indexes make it    *)
(* wait for the uncommitted run of the same job or key, then refuse it or let it by. *)
\* mutants: the insert is not stopped by the key's index, does not wait for the other's commit
KeyConflictIgnored(c) == FALSE
WaitsForNobody(c) == FALSE
KeyConflict(c) == HasKey(KeyOfCall(c))
Waits(c) == \/ TickInserts(JobOfCall(c))
            \/ \E d \in Caller \ {c} : \/ CallInserts(d, JobOfCall(c))
                                       \/ /\ call[d].pc = "inserted" /\ KeyOfCall(c) # NoKey
                                          /\ KeyOfCall(d) = KeyOfCall(c)
Insert(c) ==
  /\ call[c].pc = "checked" /\ ~Waits(c)
  /\ \/ (HasActive(JobOfCall(c)) \/ KeyConflict(c)) /\ Refuse(c)
     \/ /\ ~HasActive(JobOfCall(c)) /\ ~KeyConflict(c)
        /\ \E r \in Run : /\ IF call[c].op.kind = "retry" THEN r = call[c].run ELSE NewRun(r)
                          /\ call' = [call EXCEPT ![c].pc = "inserted", ![c].run = r]
  /\ UNCHANGED <<now, defined, schedule, run, sent, tick, faults>>

(* The commit, and after it the task. *)
CommitRun(c) ==
  LET r == call[c].run IN
  /\ call[c].pc = "inserted"
  /\ \E status \in IF call[c].op.kind = "retry" THEN Active ELSE {"queued"} :
       run' = [run EXCEPT ![r] =
         IF call[c].op.kind = "retry" THEN [@ EXCEPT !.status = status, !.touched = now]
         ELSE [status |-> status, job |-> call[c].op.job, key |-> call[c].op.key, due |-> -1,
               touched |-> now]]
  /\ call' = [call EXCEPT ![c].pc = "answered"]
  /\ SendTasks({r})
  /\ UNCHANGED <<now, defined, schedule, tick>>

(* cancel_run.  It waits for the lock of the run; what workers hold is JobRunner's. *)
CancelRun(c, r) ==
  /\ call[c].pc = "ready" /\ call[c].op.kind = "cancel"
  /\ run[r].status # "none" /\ ~RunTicked(r) /\ ~RunHeld(r)
  /\ \/ run[r].status \notin Active /\ Refuse(c) /\ run' = run
     \/ /\ run[r].status \in Active
        /\ run' = [run EXCEPT ![r].status = "ended", ![r].touched = now]
        /\ call' = [call EXCEPT ![c].pc = "answered", ![c].run = r]
  /\ UNCHANGED <<now, defined, schedule, sent, tick, faults>>

BeginUpdate(c) ==
  LET j == call[c].op.job IN
  /\ call[c].pc = "ready" /\ call[c].op.kind = "update"
  /\ ~ScheduleTicked(j) /\ ~ScheduleHeld(j)
  /\ call' = [call EXCEPT ![c].pc = "locked"]
  /\ UNCHANGED <<now, defined, schedule, run, sent, tick, faults>>

(* update_schedule: only a new cron or timezone moves next_run_at (period 0: neither). *)
CommitUpdate(c) ==
  LET o == call[c].op
      row == schedule[o.job]
  IN
  /\ call[c].pc = "locked"
  /\ schedule' = [schedule EXCEPT ![o.job] =
       [period |-> IF o.period = 0 THEN row.period ELSE o.period, active |-> o.active,
        next |-> IF o.period = 0 THEN row.next ELSE NextFire(o.period, now)]]
  /\ call' = [call EXCEPT ![c].pc = "answered"]
  /\ UNCHANGED <<now, defined, run, sent, tick, faults>>

(* A request that fails before its commit leaves nothing. *)
Rollback(c) ==
  /\ call[c].pc \in {"locked", "checked", "inserted"} /\ faults < MaxFaults
  /\ faults' = faults + 1 /\ Refuse(c)
  /\ UNCHANGED <<now, defined, schedule, run, sent, tick>>

-----------------------------------------------------------------------------
(* Workers, deployments and time.                                           *)

(* start_run: a queued run starts, or fails while it is planned. *)
StartRun(r) ==
  /\ r \in sent /\ run[r].status = "queued" /\ ~RunTicked(r) /\ ~RunHeld(r)
  /\ run[r].job \in defined
  /\ \E status \in {"running", "failed"} :
       run' = [run EXCEPT ![r].status = status, ![r].touched = now]
  /\ UNCHANGED <<now, defined, schedule, sent, tick, call, faults>>

(* finalize, after the last chunk. *)
FinishRun(r) ==
  /\ r \in sent /\ run[r].status = "running" /\ ~RunTicked(r) /\ ~RunHeld(r)
  /\ \E status \in {"ended", "failed"} :
       run' = [run EXCEPT ![r].status = status, ![r].touched = now]
  /\ UNCHANGED <<now, defined, schedule, sent, tick, call, faults>>

(* A deployment whose DEFINITIONS has one job less. *)
Retire(j) ==
  /\ j \in Retirable \cap defined /\ defined' = defined \ {j}
  /\ UNCHANGED <<now, schedule, run, sent, tick, call, faults>>

Advance ==
  /\ now < MaxTime /\ now' = now + 1
  /\ UNCHANGED <<defined, schedule, run, sent, tick, call, faults>>

TickStep ==
  \/ BeginTick \/ InsertScheduled \/ CommitTick
  \/ \E j \in Job : FireSchedule(j)
  \/ \E r \in Run : Requeue(r) \/ Resume(r)

CallStep(c) == BeginCreate(c) \/ BeginUpdate(c) \/ Insert(c) \/ CommitRun(c)
               \/ CommitUpdate(c) \/ \E r \in Run : BeginRetry(c, r) \/ CancelRun(c, r)

Next ==
  \/ TickStep \/ CrashReplica
  \/ \E c \in Caller : CallStep(c) \/ Rollback(c)
  \/ \E r \in Run : StartRun(r) \/ FinishRun(r)
  \/ \E j \in Job : Retire(j)
  \/ Advance

Spec == Init /\ [][Next]_vars

(* main loops for ever, and a request, once its statements can proceed, goes on. *)
FairSpec == Spec /\ WF_vars(TickStep)
                 /\ (\A c \in Caller : WF_vars(CallStep(c)))

-----------------------------------------------------------------------------
(* The unique indexes and row locks at work: what a transaction has inserted or locked *)
(* and not committed yet meets no other row or holder, and a free row is empty.        *)
TickHolds ==
  /\ tick.pc = "idle" => tick = IdleTick
  /\ tick.pc = "inserting" => /\ tick.item \in tick.fired
                              /\ \A x \in tick.created : x.job # tick.item
  /\ tick.clock <= now /\ tick.schedules \cap tick.fired = {}
  /\ \A j \in tick.fired : DueAt(j, tick.clock)
  /\ \A r \in tick.touched : run[r].status \in Active
  /\ \A x \in tick.created :
       /\ x.job \in tick.fired /\ x.due = schedule[x.job].next
       /\ run[x.run].status = "none" /\ ~HasActive(x.job)
       /\ \A y \in tick.created : (x.job = y.job \/ x.run = y.run) => x = y

Retries(c) == call[c].op.kind = "retry" /\ call[c].pc \in {"checked", "inserted"}
CallHolds(c) ==
  /\ Retries(c) => call[c].run \in Run /\ run[call[c].run].status = "failed"
  /\ call[c].pc = "checked" => call[c].op.kind \in {"create", "retry"}
  /\ call[c].pc = "locked" => call[c].op.kind = "update"
  /\ call[c].pc = "inserted" =>
       /\ call[c].op.kind \in {"create", "retry"} /\ call[c].run \in Run
       /\ call[c].op.kind = "create" => run[call[c].run].status = "none"
       /\ ~HasActive(JobOfCall(c)) /\ ~HasKey(KeyOfCall(c))
  /\ (call[c].pc = "answered" /\ call[c].op.kind = "create") =>
       /\ call[c].run \in Run /\ run[call[c].run].status # "none"
       /\ call[c].op.key # NoKey => run[call[c].run].key = call[c].op.key

Apart(c, d) ==
  /\ (Retries(c) /\ Retries(d)) => call[c].run # call[d].run
  /\ (call[c].pc = "locked" /\ call[d].pc = "locked") => call[c].op.job # call[d].op.job
  /\ (call[c].pc = "inserted" /\ call[d].pc = "inserted") =>
       /\ call[c].run # call[d].run /\ JobOfCall(c) # JobOfCall(d)
       /\ KeyOfCall(c) = KeyOfCall(d) => KeyOfCall(c) = NoKey

BesideTick(c) ==
  /\ call[c].pc = "locked" => call[c].op.job \notin tick.fired
  /\ Retries(c) => call[c].run \notin tick.touched
  /\ call[c].pc = "inserted" =>
       \A x \in tick.created : x.job # JobOfCall(c) /\ x.run # call[c].run

CallsApart == /\ \A c \in Caller : CallHolds(c) /\ BesideTick(c)
              /\ \A c, d \in Caller : c # d => Apart(c, d)

RowsApart ==
  /\ \A r \in Run : IF run[r].status = "none" THEN run[r] = NoRow
                    ELSE run[r].job \in Job /\ run[r].due <= now
  /\ \A r, s \in Run : (run[r].key = run[s].key /\ run[r].key # NoKey) => r = s

(* At most one run of a job is active, whoever creates, retries or fires it. *)
OneActiveRun ==
  \A r, s \in Run : (/\ run[r].status \in Active /\ run[s].status \in Active
                     /\ run[r].job = run[s].job) => r = s

(* One time of a schedule fires one run, although several replicas tick with clocks *)
(* of different age and HR moves the schedule meanwhile; what has fired is past.    *)
OccurrenceOnce ==
  \A r \in Run : run[r].due >= 0 =>
    /\ run[r].due < schedule[run[r].job].next
    /\ \A s \in Run : (run[s].due = run[r].due /\ run[s].job = run[r].job) => r = s

(* services/jobs.py create_run: of the calls with one Idempotency-Key, all that are *)
(* answered are answered with one run.                                              *)
SameKeySameRun ==
  \A c, d \in Caller :
    (/\ call[c].pc = "answered" /\ call[d].pc = "answered"
     /\ call[c].op.kind = "create" /\ call[d].op.kind = "create"
     /\ call[c].op.key = call[d].op.key /\ call[c].op.key # NoKey) => call[c].run = call[d].run

SchedInv == TypeOK /\ TickHolds /\ CallsApart /\ RowsApart /\ OneActiveRun /\ OccurrenceOnce

(* A schedule fires only while it is active and due, in the commit that moves it past *)
(* that time, and never beside an active run: not after HR has stopped or moved it.   *)
FiresWhenDue ==
  [][\A r \in Run : (run[r].status = "none" /\ run'[r].due >= 0) =>
       LET j == run'[r].job IN
       /\ schedule[j].active /\ run'[r].due = schedule[j].next /\ schedule[j].next <= now
       /\ schedule'[j].next > run'[r].due /\ ~HasActive(j)]_vars

(* A run of a job that DEFINITIONS has lost, queued or stalled too long, makes every *)
(* tick fail for all schedules and runs.                                             *)
Blocked == \E r \in Run : (QueuedTooLong(r, now) \/ Stalled(r, now)) /\ run[r].job \notin defined

(* Whatever is due is taken up, unless the ticks are blocked: by a clock at most *)
(* MaxLag old, every due schedule, and every run that waits too long for its tasks.  *)
Due(j) == DueAt(j, now - MaxLag)
TooLong(r) == QueuedTooLong(r, now - MaxLag) \/ Stalled(r, now - MaxLag)
WorkTakenUp ==
  /\ \A j \in Job : Due(j) ~> (~Due(j) \/ Blocked)
  /\ \A r \in Run : TooLong(r) ~> (~TooLong(r) \/ Blocked)
=============================================================================
