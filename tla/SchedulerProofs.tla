--------------------------- MODULE SchedulerProofs ---------------------------
(***************************************************************************)
(* Theorems of Scheduler, for any number of jobs, runs, callers, faults    *)
(* and any clock.                                                          *)
(***************************************************************************)
EXTENDS Scheduler, TLAPS

(* A schedule moves past the time it is moved from. *)
LEMMA NextFireLater ==
  ASSUME NEW p \in Nat \ {0}, NEW t \in Nat
  PROVE  NextFire(p, t) \in Nat /\ NextFire(p, t) > t
<1> DEFINE q == t \div p
<1>1. q \in Nat /\ t < (q + 1) * p
  OBVIOUS
<1>2. (q + 1) * p \in Nat
  BY <1>1
<1>3. QED
  BY <1>1, <1>2 DEF NextFire

(* No tick is a tick, and no row is a row. *)
LEMMA IdleTickType == IdleTick \in TickRow
BY SchedulerAssumption DEF IdleTick, TickRow, Time

LEMMA NoRowType == NoRow \in RunRow
BY SchedulerAssumption DEF NoRow, RunRow, Time
-----------------------------------------------------------------------------
(* Types                                                                    *)

(* A tick: its lists only shrink, and what it fires is a job of its list. *)
LEMMA TickTypes ==
  ASSUME TypeOK, TickHolds,
         \/ BeginTick \/ InsertScheduled \/ CrashReplica
         \/ \E j \in Job : FireSchedule(j)
         \/ \E r \in Run : Requeue(r) \/ Resume(r)
  PROVE  TypeOK'
<1> USE DEF TypeOK
<1>1. CASE BeginTick
  <2> USE <1>1 DEF BeginTick
  <2>1. PICK t \in Time : \E S \in SUBSET Job, Q \in SUBSET Run, R \in SUBSET Run :
          tick' = [IdleTick EXCEPT !.pc = "working", !.clock = t, !.schedules = S,
                                   !.queued = Q, !.stalled = R]
    BY DEF Oldest
  <2>2. tick' \in TickRow
    BY <2>1, IdleTickType DEF TickRow
  <2>3. QED
    BY <2>2
<1>2. CASE InsertScheduled
  <2> USE <1>2 DEF InsertScheduled
  <2>1. tick.item \in Job
    BY DEF TickHolds, TickRow
  <2>2. schedule[tick.item].next \in Nat
    BY <2>1 DEF ScheduleRow
  <2>3. \A r \in Run : [run |-> r, job |-> tick.item, due |-> schedule[tick.item].next]
                          \in [run : Run, job : Job, due : Nat]
    BY <2>1, <2>2
  <2>4. PICK C \in SUBSET [run : Run, job : Job, due : Nat] :
          tick' = [tick EXCEPT !.pc = "working", !.item = NoJob, !.created = C]
    <3>1. tick.created \in SUBSET [run : Run, job : Job, due : Nat]
      BY DEF TickRow
    <3>2. CASE HasActive(tick.item)
      <4>1. tick' = [tick EXCEPT !.pc = "working", !.item = NoJob, !.created = tick.created]
        BY <3>2 DEF TickRow
      <4>2. QED
        BY <3>1, <4>1
    <3>3. CASE ~HasActive(tick.item)
      <4>1. PICK r \in Run : tick' = [tick EXCEPT !.pc = "working", !.item = NoJob, !.created = @ \cup
                {[run |-> r, job |-> tick.item, due |-> schedule[tick.item].next]}]
        BY <3>3
      <4>2. tick.created \cup {[run |-> r, job |-> tick.item, due |-> schedule[tick.item].next]}
              \in SUBSET [run : Run, job : Job, due : Nat]
        BY <2>3, <3>1
      <4>3. QED
        BY <4>1, <4>2
    <3>4. QED
      BY <3>2, <3>3
  <2>5. tick' \in TickRow
    BY <2>4 DEF TickRow
  <2>6. QED
    BY <2>5
<1>3. CASE CrashReplica
  BY <1>3, IdleTickType, SchedulerAssumption DEF CrashReplica, Abort
<1>4. CASE \E j \in Job : FireSchedule(j)
  <2>1. PICK j \in Job : FireSchedule(j)
    BY <1>4
  <2>2. PICK S \in SUBSET Job, F \in SUBSET Job, p \in {"working", "inserting"}, i \in Job \cup {NoJob} :
          tick' = [tick EXCEPT !.schedules = S, !.fired = F, !.pc = p, !.item = i]
    <3>1. tick.schedules \ {j} \in SUBSET Job /\ tick.fired \cup {j} \in SUBSET Job /\ tick.fired \in SUBSET Job
      BY DEF TickRow
    <3>2. CASE StillDue(j)
      BY <2>1, <3>1, <3>2 DEF FireSchedule
    <3>3. CASE ~StillDue(j)
      BY <2>1, <3>1, <3>3 DEF FireSchedule
    <3>4. QED
      BY <3>2, <3>3
  <2>3. tick' \in TickRow
    BY <2>2 DEF TickRow
  <2>4. QED
    BY <2>1, <2>3 DEF FireSchedule
<1>5. CASE \E r \in Run : Requeue(r) \/ Resume(r)
  <2>1. PICK r \in Run : Requeue(r) \/ Resume(r)
    BY <1>5
  <2>2. \/ tick' = IdleTick
        \/ \E Q \in SUBSET Run, R \in SUBSET Run, T \in SUBSET Run :
             tick' = [tick EXCEPT !.queued = Q, !.stalled = R, !.touched = T]
    <3>1. /\ tick.touched \in SUBSET Run /\ tick.touched \cup {r} \in SUBSET Run
          /\ tick.queued \ {r} \in SUBSET Run /\ tick.stalled \ {r} \in SUBSET Run
      BY DEF TickRow
    <3>2. \/ tick' = IdleTick
          \/ tick' = [tick EXCEPT !.queued = @ \ {r}, !.stalled = @ \ {r}]
          \/ tick' = [tick EXCEPT !.queued = @ \ {r}, !.stalled = @ \ {r}, !.touched = @ \cup {r}]
      BY <2>1 DEF Requeue, Resume, TakeUp, Abort
    <3>3. [tick EXCEPT !.queued = @ \ {r}, !.stalled = @ \ {r}]
            = [tick EXCEPT !.queued = @ \ {r}, !.stalled = @ \ {r}, !.touched = tick.touched]
      BY DEF TickRow
    <3>4. QED
      BY <3>1, <3>2, <3>3
  <2>3. tick' \in TickRow
    <3>1. CASE tick' = IdleTick
      BY <3>1, IdleTickType
    <3>2. ASSUME NEW Q \in SUBSET Run, NEW R \in SUBSET Run, NEW T \in SUBSET Run
          PROVE  [tick EXCEPT !.queued = Q, !.stalled = R, !.touched = T] \in TickRow
      BY DEF TickRow
    <3>3. ASSUME NEW Q \in SUBSET Run, NEW R \in SUBSET Run, NEW T \in SUBSET Run,
                 tick' = [tick EXCEPT !.queued = Q, !.stalled = R, !.touched = T]
          PROVE  tick' \in TickRow
      <4>1. [tick EXCEPT !.queued = Q, !.stalled = R, !.touched = T] \in TickRow
        BY <3>2
      <4>2. QED
        BY ONLY <3>3, <4>1
    <3>4. QED
      BY ONLY <2>2, <3>1, <3>3
  <2>4. QED
    BY <2>1, <2>3 DEF Requeue, Resume
<1>6. QED
  BY <1>1, <1>2, <1>3, <1>4, <1>5

(* A caller: its row, and what its commit stores. *)
LEMMA CallTypes ==
  ASSUME TypeOK, CallsApart, NEW c \in Caller, CallStep(c) \/ Rollback(c)
  PROVE  TypeOK'
<1> USE DEF TypeOK
<1>1. call[c] \in CallRow
  OBVIOUS
<1>2. CASE BeginCreate(c)
  BY <1>1, <1>2 DEF BeginCreate, Refuse, CallRow
<1>3. CASE BeginUpdate(c)
  BY <1>1, <1>3 DEF BeginUpdate, CallRow
<1>4. CASE Insert(c)
  BY <1>1, <1>4 DEF Insert, Refuse, CallRow
<1>5. CASE CommitRun(c)
  <2> USE <1>5 DEF CommitRun
  <2>1. call[c].op.job \in Job /\ call[c].op.key \in Key \cup {NoKey}
    BY <1>1 DEF CallRow, Operation
  <2>2. PICK status \in Active : run' = [run EXCEPT ![call[c].run] =
         IF call[c].op.kind = "retry" THEN [@ EXCEPT !.status = status, !.touched = now]
         ELSE [status |-> status, job |-> call[c].op.job, key |-> call[c].op.key, due |-> -1,
               touched |-> now]]
    BY DEF Active
  <2>3. run' \in [Run -> RunRow]
    <3>1. ASSUME call[c].run \in Run PROVE run'[call[c].run] \in RunRow
      <4>1. CASE call[c].op.kind = "retry"
        <5>1. run'[call[c].run] = [run[call[c].run] EXCEPT !.status = status, !.touched = now]
          BY <2>2, <3>1, <4>1
        <5>2. run[call[c].run] \in RunRow /\ now \in Time /\ status \in {"queued", "running"}
          BY <3>1 DEF Active
        <5>3. QED
          BY <5>1, <5>2 DEF RunRow
      <4>2. CASE call[c].op.kind # "retry"
        <5>1. run'[call[c].run] = [status |-> status, job |-> call[c].op.job, key |-> call[c].op.key,
                                   due |-> -1, touched |-> now]
          BY <2>2, <3>1, <4>2
        <5>2. now \in Time /\ status \in {"queued", "running"}
          BY DEF Active
        <5>3. QED
          BY <2>1, <5>1, <5>2 DEF RunRow
      <4>3. QED
        BY <4>1, <4>2
    <3>2. QED
      BY <2>2, <3>1
  <2>4. call' \in [Caller -> CallRow]
    BY <1>1 DEF CallRow
  <2>5. sent' \subseteq Run /\ faults' \in 0..MaxFaults
    <3>1. call[c].run \in Run
      BY <1>5 DEF CommitRun, CallsApart, CallHolds
    <3>2. QED
      BY <3>1, SchedulerAssumption DEF SendTasks
  <2>6. QED
    BY <2>3, <2>4, <2>5
<1>6. CASE CommitUpdate(c)
  <2> USE <1>6 DEF CommitUpdate
  <2>1. call[c].op.job \in Job /\ call[c].op.period \in Period \cup {0} /\ call[c].op.active \in BOOLEAN
    BY <1>1 DEF CallRow, Operation
  <2>2. schedule[call[c].op.job] \in ScheduleRow
    BY <2>1
  <2>3. call[c].op.period # 0 => NextFire(call[c].op.period, now) \in Nat
    BY <2>1, NextFireLater, SchedulerAssumption DEF Time
  <2>4. schedule' \in [Job -> ScheduleRow]
    BY <2>1, <2>2, <2>3 DEF ScheduleRow
  <2>5. call' \in [Caller -> CallRow]
    BY <1>1 DEF CallRow
  <2>6. QED
    BY <2>4, <2>5
<1>7. CASE \E r \in Run : BeginRetry(c, r)
  BY <1>1, <1>7 DEF BeginRetry, Refuse, CallRow
<1>8. CASE \E r \in Run : CancelRun(c, r)
  <2>1. PICK r \in Run : CancelRun(c, r)
    BY <1>8
  <2>2. call' \in [Caller -> CallRow]
    BY <1>1, <2>1 DEF CancelRun, Refuse, CallRow
  <2>3. run' \in [Run -> RunRow]
    BY <2>1 DEF CancelRun, RunRow
  <2>4. QED
    BY <2>1, <2>2, <2>3 DEF CancelRun
<1>9. CASE Rollback(c)
  BY <1>1, <1>9, SchedulerAssumption DEF Rollback, Refuse, CallRow
<1>10. QED
  BY <1>2, <1>3, <1>4, <1>5, <1>6, <1>7, <1>8, <1>9 DEF CallStep

(* The commit of a tick, workers, deployments and time. *)
LEMMA OtherTypes ==
  ASSUME TypeOK, TickHolds,
         \/ CommitTick \/ Advance
         \/ \E r \in Run : StartRun(r) \/ FinishRun(r)
         \/ \E j \in Job : Retire(j)
  PROVE  TypeOK'
<1> USE DEF TypeOK
<1>1. CASE CommitTick
  <2> USE <1>1 DEF CommitTick
  <2>1. /\ tick.clock \in Time /\ tick.fired \subseteq Job /\ tick.touched \subseteq Run
        /\ tick.created \subseteq [run : Run, job : Job, due : Nat]
    BY DEF TickRow
  <2>2. schedule' \in [Job -> ScheduleRow]
    <3>1. ASSUME NEW j \in Job PROVE schedule'[j] \in ScheduleRow
      <4>1. schedule[j] \in ScheduleRow
        OBVIOUS
      <4>2. NextFire(schedule[j].period, tick.clock) \in Nat
        BY <2>1, <4>1, NextFireLater, SchedulerAssumption DEF ScheduleRow, Time
      <4>3. [schedule[j] EXCEPT !.next = NextFire(schedule[j].period, tick.clock)] \in ScheduleRow
        BY <4>1, <4>2 DEF ScheduleRow
      <4>4. QED
        BY <4>1, <4>3
    <3>2. QED
      BY <3>1
  <2>3. run' \in [Run -> RunRow]
    <3>1. ASSUME NEW r \in Run PROVE run'[r] \in RunRow
      <4>1. CASE \E x \in tick.created : x.run = r
        <5> DEFINE y == CHOOSE x \in tick.created : x.run = r
        <5>1. y \in tick.created
          BY <4>1
        <5>2. y.job \in Job /\ y.due \in Nat
          BY <2>1, <5>1
        <5>3. run'[r] = Scheduled(y, now)
          BY <4>1
        <5>4. QED
          BY <5>2, <5>3 DEF Scheduled, RunRow
      <4>2. CASE ~\E x \in tick.created : x.run = r
        <5>1. run'[r] = IF r \in tick.touched THEN [run[r] EXCEPT !.touched = tick.clock] ELSE run[r]
          BY <4>2
        <5>2. QED
          BY <2>1, <5>1 DEF RunRow
      <4>3. QED
        BY <4>1, <4>2
    <3>2. QED
      BY <3>1
  <2>4. tick' \in TickRow
    BY IdleTickType DEF Abort
  <2>5. sent' \subseteq Run /\ faults' \in 0..MaxFaults
    <3>1. {x.run : x \in tick.created} \cup tick.touched \subseteq Run
      BY <2>1
    <3>2. QED
      BY <3>1, SchedulerAssumption DEF SendTasks
  <2>6. QED
    BY <2>2, <2>3, <2>4, <2>5
<1>2. CASE Advance
  BY <1>2, SchedulerAssumption DEF Advance, Time
<1>3. CASE \E r \in Run : StartRun(r) \/ FinishRun(r)
  <2>1. PICK r \in Run : StartRun(r) \/ FinishRun(r)
    BY <1>3
  <2>2. run' \in [Run -> RunRow]
    BY <2>1 DEF StartRun, FinishRun, RunRow
  <2>3. QED
    BY <2>1, <2>2 DEF StartRun, FinishRun
<1>4. CASE \E j \in Job : Retire(j)
  BY <1>4 DEF Retire
<1>5. QED
  BY <1>1, <1>2, <1>3, <1>4
-----------------------------------------------------------------------------
(* What a step leaves of the invariant when it touches only a part of the state. *)

(* Rows that do not change, at a later time. *)
LEMMA SameRows ==
  ASSUME TypeOK, TypeOK', RowsApart, OneActiveRun, OccurrenceOnce,
         run' = run, schedule' = schedule, now <= now'
  PROVE  RowsApart' /\ OneActiveRun' /\ OccurrenceOnce'
<1>1. now \in Nat /\ now' \in Nat /\ \A r \in Run : run[r].due \in Int
  BY SchedulerAssumption DEF TypeOK, Time, RunRow
<1>2. RowsApart'
  BY <1>1 DEF RowsApart
<1>3. OneActiveRun' /\ OccurrenceOnce'
  BY DEF OneActiveRun, OccurrenceOnce
<1>4. QED
  BY <1>2, <1>3

(* No tick is under way. *)
LEMMA IdleHolds ==
  ASSUME TypeOK', tick' = IdleTick
  PROVE  TickHolds' /\ \A c \in Caller : BesideTick(c)'
BY SchedulerAssumption DEF TickHolds, BesideTick, IdleTick, TypeOK, Time

(* Apart does not depend on the order of the two. *)
LEMMA ApartSymmetric ==
  ASSUME NEW c \in Caller, NEW d \in Caller, Apart(c, d)'
  PROVE  Apart(d, c)'
BY DEF Apart

(* A tick goes on, and no row changes. *)
LEMMA TickMoves ==
  ASSUME SchedInv, TypeOK', UNCHANGED <<run, schedule, call, now>>,
         TickHolds', \A c \in Caller : BesideTick(c)'
  PROVE  SchedInv'
<1>1. now <= now'
  BY SchedulerAssumption DEF SchedInv, TypeOK, Time
<1>2. RowsApart' /\ OneActiveRun' /\ OccurrenceOnce'
  BY <1>1, SameRows DEF SchedInv
<1>3. ASSUME NEW c \in Caller PROVE CallHolds(c)'
  <2>1. CallHolds(c)
    BY DEF SchedInv, CallsApart
  <2>2. QED
    BY <2>1 DEF CallHolds, Retries, JobOfCall, KeyOfCall, HasActive, HasKey
<1>4. ASSUME NEW c \in Caller, NEW d \in Caller, c # d PROVE Apart(c, d)'
  <2>1. Apart(c, d)
    BY <1>4 DEF SchedInv, CallsApart
  <2>2. QED
    BY <2>1 DEF Apart, Retries, JobOfCall, KeyOfCall
<1>5. QED
  BY <1>2, <1>3, <1>4 DEF SchedInv, CallsApart

(* A caller goes on, and no row changes. *)
LEMMA CallMoves ==
  ASSUME SchedInv, TypeOK', UNCHANGED <<run, schedule, tick, now>>, NEW c \in Caller,
         \A d \in Caller : d # c => call'[d] = call[d],
         CallHolds(c)', BesideTick(c)', \A d \in Caller : d # c => Apart(c, d)'
  PROVE  SchedInv'
<1>1. now <= now'
  BY SchedulerAssumption DEF SchedInv, TypeOK, Time
<1>2. RowsApart' /\ OneActiveRun' /\ OccurrenceOnce'
  BY <1>1, SameRows DEF SchedInv
<1>3. TickHolds'
  BY DEF SchedInv, TickHolds, DueAt, HasActive
<1>4. ASSUME NEW d \in Caller PROVE CallHolds(d)' /\ BesideTick(d)'
  <2>1. CASE d = c
    BY <2>1
  <2>2. CASE d # c
    <3>1. CallHolds(d) /\ BesideTick(d) /\ call'[d] = call[d]
      BY <2>2 DEF SchedInv, CallsApart
    <3>2. CallHolds(d)'
      BY <3>1 DEF CallHolds, Retries, JobOfCall, KeyOfCall, HasActive, HasKey
    <3>3. BesideTick(d)'
      BY <3>1 DEF BesideTick, Retries, JobOfCall
    <3>4. QED
      BY <3>2, <3>3
  <2>3. QED
    BY <2>1, <2>2
<1>5. ASSUME NEW d \in Caller, NEW e \in Caller, d # e PROVE Apart(d, e)'
  <2>1. CASE d = c
    BY <1>5, <2>1
  <2>2. CASE e = c
    BY <1>5, <2>2, ApartSymmetric
  <2>3. CASE d # c /\ e # c
    <3>1. Apart(d, e) /\ call'[d] = call[d] /\ call'[e] = call[e]
      BY <1>5, <2>3 DEF SchedInv, CallsApart
    <3>2. QED
      BY <3>1 DEF Apart, Retries, JobOfCall, KeyOfCall
  <2>4. QED
    BY <2>1, <2>2, <2>3
<1>6. QED
  BY <1>2, <1>3, <1>4, <1>5 DEF SchedInv, CallsApart
-----------------------------------------------------------------------------
(* The steps of a tick                                                      *)

(* A tick begins with nothing fired, created or touched. *)
LEMMA BeginTickKeeps == ASSUME SchedInv, TypeOK', BeginTick PROVE SchedInv'
<1> USE DEF BeginTick
<1>1. PICK t \in Time : t <= now /\ \E S \in SUBSET Job, Q \in SUBSET Run, R \in SUBSET Run :
        tick' = [IdleTick EXCEPT !.pc = "working", !.clock = t, !.schedules = S,
                                 !.queued = Q, !.stalled = R]
  BY DEF Oldest
<1>2. /\ tick'.pc = "working" /\ tick'.clock = t /\ tick'.fired = {}
      /\ tick'.created = {} /\ tick'.touched = {}
  BY <1>1 DEF IdleTick
<1>3. TickHolds'
  BY <1>1, <1>2 DEF TickHolds
<1>4. ASSUME NEW c \in Caller PROVE BesideTick(c)'
  BY <1>2 DEF BesideTick
<1>5. QED
  BY <1>3, <1>4, TickMoves

(* It fires a schedule it has read again, is due and nobody holds. *)
LEMMA FireScheduleKeeps ==
  ASSUME SchedInv, TypeOK', NEW j \in Job, FireSchedule(j)
  PROVE  SchedInv'
<1> USE DEF FireSchedule
<1>1. tick \in TickRow
  BY DEF SchedInv, TypeOK
<1>2. /\ tick'.schedules = tick.schedules \ {j} /\ tick'.clock = tick.clock
      /\ tick'.created = tick.created /\ tick'.touched = tick.touched
      /\ tick'.pc \in {"working", "inserting"}
      /\ tick'.pc = "inserting" => tick'.item = j /\ StillDue(j)
      /\ tick'.fired = IF StillDue(j) THEN tick.fired \cup {j} ELSE tick.fired
  BY <1>1 DEF TickRow
<1>3. j \notin tick.fired
  BY DEF SchedInv, TickHolds
<1>4. TickHolds'
  <2>1. \A k \in tick'.fired : DueAt(k, tick.clock)'
    BY <1>2 DEF SchedInv, TickHolds, StillDue, DueAt
  <2>2. \A r \in tick'.touched : run'[r].status \in Active
    BY <1>2 DEF SchedInv, TickHolds
  <2>3. \A x \in tick'.created :
          /\ x.job \in tick'.fired /\ x.due = schedule'[x.job].next
          /\ run'[x.run].status = "none" /\ ~HasActive(x.job)'
          /\ \A y \in tick'.created : (x.job = y.job \/ x.run = y.run) => x = y
    BY <1>2 DEF SchedInv, TickHolds, HasActive
  <2>4. tick'.clock <= now' /\ tick'.schedules \cap tick'.fired = {}
    BY <1>2, <1>3 DEF SchedInv, TickHolds
  <2>5. tick'.pc = "inserting" => /\ tick'.item \in tick'.fired
                                   /\ \A x \in tick'.created : x.job # tick'.item
    BY <1>2, <1>3 DEF SchedInv, TickHolds
  <2>6. QED
    BY <1>2, <2>1, <2>2, <2>3, <2>4, <2>5 DEF TickHolds
<1>5. ASSUME NEW c \in Caller PROVE BesideTick(c)'
  <2>1. BesideTick(c)
    BY DEF SchedInv, CallsApart
  <2>2. QED
    BY <1>2, <2>1 DEF BesideTick, StillDue, ScheduleHeld, Retries, JobOfCall
<1>6. QED
  BY <1>4, <1>5, TickMoves

(* It inserts a run no transaction has, for a job without an active run. *)
LEMMA InsertScheduledKeeps == ASSUME SchedInv, TypeOK', InsertScheduled PROVE SchedInv'
<1> USE DEF InsertScheduled
<1>1. tick \in TickRow /\ tick.item \in tick.fired
  BY DEF SchedInv, TypeOK, TickHolds
<1>2. CASE HasActive(tick.item)
  <2>1. tick' = [tick EXCEPT !.pc = "working", !.item = NoJob]
    BY <1>2
  <2>2. /\ tick'.pc = "working" /\ tick'.schedules = tick.schedules /\ tick'.clock = tick.clock
        /\ tick'.created = tick.created /\ tick'.touched = tick.touched /\ tick'.fired = tick.fired
    BY <1>1, <2>1 DEF TickRow
  <2>3. TickHolds'
    <3>1. TickHolds
      BY DEF SchedInv
    <3>2. tick'.created = tick.created /\ tick'.fired = tick.fired /\ run' = run /\ schedule' = schedule /\ now' = now
      BY <2>2
    <3>3. ASSUME NEW x \in tick'.created
          PROVE  /\ x.job \in tick'.fired /\ x.due = schedule'[x.job].next
                 /\ run'[x.run].status = "none" /\ ~HasActive(x.job)'
                 /\ \A y \in tick'.created : (x.job = y.job \/ x.run = y.run) => x = y
      <4>1. ~HasActive(x.job)
        BY <3>1, <3>2 DEF TickHolds
      <4>2. ~HasActive(x.job)'
        BY <3>2, <4>1 DEF HasActive
      <4>3. QED
        BY <3>1, <3>2, <4>2 DEF TickHolds
    <3>4. QED
      BY <2>2, <3>1, <3>3 DEF TickHolds, DueAt
  <2>4. ASSUME NEW c \in Caller PROVE BesideTick(c)'
    <3>1. BesideTick(c)
      BY DEF SchedInv, CallsApart
    <3>2. QED
      BY <2>2, <3>1 DEF BesideTick, Retries, JobOfCall
  <2>5. QED
    BY <2>3, <2>4, TickMoves
<1>3. CASE ~HasActive(tick.item)
  <2>1. PICK r \in Run : /\ NewRun(r)
                         /\ tick' = [tick EXCEPT !.pc = "working", !.item = NoJob, !.created = @ \cup
                              {[run |-> r, job |-> tick.item, due |-> schedule[tick.item].next]}]
    BY <1>3
  <2> DEFINE new == [run |-> r, job |-> tick.item, due |-> schedule[tick.item].next]
  <2>2. /\ tick'.pc = "working" /\ tick'.schedules = tick.schedules /\ tick'.clock = tick.clock
        /\ tick'.created = tick.created \cup {new}
        /\ tick'.touched = tick.touched /\ tick'.fired = tick.fired
    BY <1>1, <2>1 DEF TickRow
  <2>3. /\ run[r].status = "none" /\ \A x \in tick.created : x.run # r
        /\ \A c \in Caller : call[c].pc = "inserted" => call[c].run # r
    BY <2>1 DEF NewRun, Taken
  <2>4. \A x \in tick.created : x.job # tick.item
    BY DEF SchedInv, TickHolds
  <2>5. ASSUME NEW x \in tick'.created
        PROVE  /\ x.job \in tick'.fired /\ x.due = schedule'[x.job].next
               /\ run'[x.run].status = "none" /\ ~HasActive(x.job)'
               /\ \A y \in tick'.created : (x.job = y.job \/ x.run = y.run) => x = y
    <3>1. CASE x = new
      <4>1. x.job = tick.item /\ x.run = r /\ x.due = schedule[tick.item].next
        BY <3>1
      <4>2. ~HasActive(x.job)'
        BY <1>3, <4>1 DEF HasActive
      <4>3. \A y \in tick'.created : (x.job = y.job \/ x.run = y.run) => x = y
        BY <2>2, <2>3, <2>4, <3>1, <4>1
      <4>4. QED
        BY <1>1, <2>2, <2>3, <4>1, <4>2, <4>3
    <3>2. CASE x \in tick.created
      <4>1. /\ x.job \in tick.fired /\ x.due = schedule[x.job].next
            /\ run[x.run].status = "none" /\ ~HasActive(x.job)
            /\ \A y \in tick.created : (x.job = y.job \/ x.run = y.run) => x = y
        BY <3>2 DEF SchedInv, TickHolds
      <4>2. ~HasActive(x.job)'
        BY <4>1 DEF HasActive
      <4>3. new.job = tick.item /\ new.run = r
        OBVIOUS
      <4>4. \A y \in tick'.created : (x.job = y.job \/ x.run = y.run) => x = y
        BY <2>2, <2>3, <2>4, <3>2, <4>1, <4>3
      <4>5. QED
        BY <2>2, <4>1, <4>2, <4>4
    <3>3. QED
      BY <2>2, <3>1, <3>2
  <2>6. TickHolds'
    BY <2>2, <2>5 DEF SchedInv, TickHolds, DueAt
  <2>7. ASSUME NEW c \in Caller PROVE BesideTick(c)'
    <3>1. BesideTick(c)
      BY DEF SchedInv, CallsApart
    <3>2. call[c].pc = "inserted" => JobOfCall(c) # tick.item
      BY DEF CallInserts
    <3>3. new.job = tick.item /\ new.run = r
      OBVIOUS
    <3>4. call' = call /\ JobOfCall(c)' = JobOfCall(c)
      BY DEF JobOfCall
    <3>5. ASSUME call'[c].pc = "inserted", NEW x \in tick'.created
          PROVE  x.job # JobOfCall(c)' /\ x.run # call'[c].run
      <4>1. CASE x = new
        BY <2>3, <3>2, <3>3, <3>4, <3>5, <4>1
      <4>2. CASE x \in tick.created
        BY <3>1, <3>4, <3>5, <4>2 DEF BesideTick
      <4>3. QED
        BY <2>2, <4>1, <4>2
    <3>6. /\ call'[c].pc = "locked" => call'[c].op.job \notin tick'.fired
          /\ Retries(c)' => call'[c].run \notin tick'.touched
      BY <2>2, <3>1, <3>4 DEF BesideTick, Retries
    <3>7. QED
      BY <3>5, <3>6 DEF BesideTick
  <2>8. QED
    BY <2>6, <2>7, TickMoves
<1>4. QED
  BY <1>2, <1>3

(* It touches an active run nobody holds, or is rolled back. *)
LEMMA TakeUpKeeps ==
  ASSUME SchedInv, TypeOK', NEW r \in Run, Requeue(r) \/ Resume(r)
  PROVE  SchedInv'
<1>1. tick \in TickRow /\ tick.pc = "working" /\ UNCHANGED <<run, schedule, call, now>>
  BY DEF SchedInv, TypeOK, Requeue, Resume
<1>2. \/ tick' = IdleTick
      \/ tick' = [tick EXCEPT !.queued = @ \ {r}, !.stalled = @ \ {r}]
      \/ /\ run[r].status \in Active /\ ~RunHeld(r)
         /\ tick' = [tick EXCEPT !.queued = @ \ {r}, !.stalled = @ \ {r}, !.touched = @ \cup {r}]
  BY DEF Requeue, Resume, TakeUp, Abort, Active
<1>3. CASE tick' = IdleTick
  BY <1>1, <1>3, IdleHolds, TickMoves
<1>4. CASE tick' # IdleTick
  <2>1. /\ tick'.pc = "working" /\ tick'.schedules = tick.schedules /\ tick'.clock = tick.clock
        /\ tick'.created = tick.created /\ tick'.fired = tick.fired
        /\ \/ tick'.touched = tick.touched
           \/ tick'.touched = tick.touched \cup {r} /\ run[r].status \in Active /\ ~RunHeld(r)
    BY <1>1, <1>2, <1>4 DEF TickRow
  <2>2. TickHolds'
    BY <1>1, <2>1 DEF SchedInv, TickHolds, DueAt, HasActive
  <2>3. ASSUME NEW c \in Caller PROVE BesideTick(c)'
    <3>1. BesideTick(c)
      BY DEF SchedInv, CallsApart
    <3>2. QED
      BY <1>1, <2>1, <3>1 DEF BesideTick, Retries, JobOfCall, RunHeld
  <2>4. QED
    BY <1>1, <2>2, <2>3, TickMoves
<1>5. QED
  BY <1>3, <1>4

(* A replica that dies leaves nothing. *)
LEMMA CrashKeeps == ASSUME SchedInv, TypeOK', CrashReplica PROVE SchedInv'
BY IdleHolds, TickMoves DEF CrashReplica, Abort
-----------------------------------------------------------------------------
(* Callers, before they commit                                              *)

(* A request that is refused holds nothing any more. *)
LEMMA RefuseKeeps ==
  ASSUME SchedInv, TypeOK', UNCHANGED <<run, schedule, tick, now>>, NEW c \in Caller, Refuse(c)
  PROVE  SchedInv'
<1>1. call'[c].pc = "refused" /\ \A d \in Caller : d # c => call'[d] = call[d]
  BY DEF Refuse, SchedInv, TypeOK, CallRow
<1>2. CallHolds(c)' /\ BesideTick(c)' /\ \A d \in Caller : d # c => Apart(c, d)'
  BY <1>1 DEF CallHolds, BesideTick, Apart, Retries
<1>3. QED
  BY <1>1, <1>2, CallMoves

(* create_run finds the run of its key, is refused, or goes on to insert. *)
LEMMA BeginCreateKeeps ==
  ASSUME SchedInv, TypeOK', NEW c \in Caller, BeginCreate(c)
  PROVE  SchedInv'
<1> USE DEF BeginCreate
<1>1. call[c].op.kind = "create" /\ call \in [Caller -> CallRow]
  BY DEF SchedInv, TypeOK
<1>2. CASE Refuse(c)
  BY <1>2, RefuseKeeps
<1>3. CASE \E r \in Run : /\ run[r].status # "none" /\ run[r].key = call[c].op.key
                          /\ call' = [call EXCEPT ![c].pc = "answered", ![c].run = r]
  <2>1. PICK r \in Run : /\ run[r].status # "none" /\ run[r].key = call[c].op.key
                         /\ call' = [call EXCEPT ![c].pc = "answered", ![c].run = r]
    BY <1>3
  <2>2. /\ call'[c].pc = "answered" /\ call'[c].run = r /\ call'[c].op = call[c].op
        /\ \A d \in Caller : d # c => call'[d] = call[d]
    BY <1>1, <2>1 DEF CallRow
  <2>3. CallHolds(c)' /\ BesideTick(c)' /\ \A d \in Caller : d # c => Apart(c, d)'
    BY <2>1, <2>2 DEF CallHolds, BesideTick, Apart, Retries
  <2>4. QED
    BY <2>2, <2>3, CallMoves
<1>4. CASE call' = [call EXCEPT ![c].pc = "checked"]
  <2>1. /\ call'[c].pc = "checked" /\ call'[c].op = call[c].op
        /\ \A d \in Caller : d # c => call'[d] = call[d]
    BY <1>1, <1>4 DEF CallRow
  <2>2. CallHolds(c)' /\ BesideTick(c)' /\ \A d \in Caller : d # c => Apart(c, d)'
    BY <1>1, <2>1 DEF CallHolds, BesideTick, Apart, Retries
  <2>3. QED
    BY <2>1, <2>2, CallMoves
<1>5. QED
  BY <1>2, <1>3, <1>4

(* retry_run locks a failed run that neither the tick nor another call has. *)
LEMMA BeginRetryKeeps ==
  ASSUME SchedInv, TypeOK', NEW c \in Caller, NEW r \in Run, BeginRetry(c, r)
  PROVE  SchedInv'
<1> USE DEF BeginRetry
<1>1. call[c].op.kind = "retry" /\ call \in [Caller -> CallRow]
  BY DEF SchedInv, TypeOK
<1>2. CASE Refuse(c)
  BY <1>2, RefuseKeeps
<1>3. CASE run[r].status = "failed" /\ call' = [call EXCEPT ![c].pc = "checked", ![c].run = r]
  <2>1. /\ call'[c].pc = "checked" /\ call'[c].run = r /\ call'[c].op = call[c].op
        /\ \A d \in Caller : d # c => call'[d] = call[d]
    BY <1>1, <1>3 DEF CallRow
  <2>2. CallHolds(c)'
    BY <1>1, <1>3, <2>1 DEF CallHolds, Retries
  <2>3. BesideTick(c)'
    BY <2>1 DEF BesideTick, RunTicked
  <2>4. ASSUME NEW d \in Caller, d # c PROVE Apart(c, d)'
    BY <2>1, <2>4 DEF Apart, Retries, RunHeld
  <2>5. QED
    BY <2>1, <2>2, <2>3, <2>4, CallMoves
<1>4. QED
  BY <1>2, <1>3

(* What it inserts has waited for whatever else is inserted. *)
LEMMA InsertKeeps ==
  ASSUME SchedInv, TypeOK', NEW c \in Caller, Insert(c)
  PROVE  SchedInv'
<1> USE DEF Insert
<1>1. call \in [Caller -> CallRow] /\ CallHolds(c) /\ BesideTick(c)
  BY DEF SchedInv, TypeOK, CallsApart
<1>2. CASE Refuse(c)
  BY <1>2, RefuseKeeps
<1>3. CASE ~Refuse(c)
  <2>1. PICK r \in Run : /\ IF call[c].op.kind = "retry" THEN r = call[c].run ELSE NewRun(r)
                         /\ call' = [call EXCEPT ![c].pc = "inserted", ![c].run = r]
    BY <1>3
  <2>2. /\ call'[c].pc = "inserted" /\ call'[c].run = r /\ call'[c].op = call[c].op
        /\ \A d \in Caller : d # c => call'[d] = call[d]
    BY <1>1, <2>1 DEF CallRow
  <2>3. ~HasActive(JobOfCall(c)) /\ ~HasKey(KeyOfCall(c)) /\ call[c].op.kind \in {"create", "retry"}
    BY <1>1, <1>3 DEF KeyConflict, CallHolds
  <2>4. JobOfCall(c)' = JobOfCall(c) /\ KeyOfCall(c)' = KeyOfCall(c)
    BY <2>1, <2>2 DEF JobOfCall, KeyOfCall
  <2>5. call[c].op.kind = "create" =>
          /\ run[r].status = "none" /\ \A x \in tick.created : x.run # r
          /\ \A d \in Caller : call[d].pc = "inserted" => call[d].run # r
    BY <2>1 DEF NewRun, Taken
  <2>6. call[c].op.kind = "retry" => Retries(c) /\ r = call[c].run /\ run[r].status = "failed"
    BY <1>1, <2>1 DEF CallHolds, Retries
  <2>7. CallHolds(c)'
    <3>1. ~HasActive(JobOfCall(c))' /\ ~HasKey(KeyOfCall(c))'
      BY <2>3, <2>4 DEF HasActive, HasKey
    <3>2. QED
      BY <2>2, <2>3, <2>5, <2>6, <3>1 DEF CallHolds, Retries
  <2>8. BesideTick(c)'
    <3>1. \A x \in tick.created : x.job # JobOfCall(c) /\ x.run # r
      BY <2>3, <2>5, <2>6 DEF Waits, TickInserts, SchedInv, TickHolds
    <3>2. Retries(c)' => r \notin tick.touched
      BY <1>1, <2>2, <2>6 DEF BesideTick, Retries
    <3>3. QED
      BY <2>2, <2>4, <3>1, <3>2 DEF BesideTick
  <2>9. ASSUME NEW d \in Caller, d # c PROVE Apart(c, d)'
    <3>1. Apart(c, d) /\ CallHolds(d) /\ call'[d] = call[d]
      BY <2>2, <2>9 DEF SchedInv, CallsApart
    <3>2. JobOfCall(d)' = JobOfCall(d) /\ KeyOfCall(d)' = KeyOfCall(d)
      BY <3>1 DEF JobOfCall, KeyOfCall
    <3>3. call[d].pc = "inserted" => /\ JobOfCall(d) # JobOfCall(c)
                                     /\ KeyOfCall(d) = KeyOfCall(c) => KeyOfCall(c) = NoKey
      BY <2>9 DEF Waits, CallInserts
    <3>4. (Retries(c)' /\ Retries(d)') => call'[c].run # call'[d].run
      BY <2>2, <2>6, <3>1 DEF Apart, Retries
    <3>5. call[d].pc = "inserted" => call[d].run # r
      <4>1. CASE call[c].op.kind = "create"
        BY <2>5, <4>1
      <4>2. CASE call[c].op.kind = "retry"
        BY <2>6, <3>1, <4>2 DEF Apart, Retries, CallHolds
      <4>3. QED
        BY <2>3, <4>1, <4>2
    <3>6. QED
      BY <2>2, <2>4, <3>1, <3>2, <3>3, <3>4, <3>5 DEF Apart
  <2>10. QED
    BY <2>2, <2>7, <2>8, <2>9, CallMoves
<1>4. QED
  BY <1>2, <1>3

(* update_schedule locks a schedule that neither the tick nor another call has. *)
LEMMA BeginUpdateKeeps ==
  ASSUME SchedInv, TypeOK', NEW c \in Caller, BeginUpdate(c)
  PROVE  SchedInv'
<1> USE DEF BeginUpdate
<1>1. /\ call'[c].pc = "locked" /\ call'[c].op = call[c].op /\ call[c].op.kind = "update"
      /\ \A d \in Caller : d # c => call'[d] = call[d]
  BY DEF SchedInv, TypeOK, CallRow
<1>2. CallHolds(c)' /\ BesideTick(c)'
  BY <1>1 DEF CallHolds, BesideTick, Retries, ScheduleTicked
<1>3. ASSUME NEW d \in Caller, d # c PROVE Apart(c, d)'
  BY <1>1, <1>3 DEF Apart, Retries, ScheduleHeld
<1>4. QED
  BY <1>1, <1>2, <1>3, CallMoves
-----------------------------------------------------------------------------
(* Commits                                                                  *)

(* What a commit may not do to a run, and to a caller d who still holds something. *)
RunsStay == \A r \in Run : run[r].status # "none" =>
  run'[r].status # "none" /\ run'[r].key = run[r].key /\ run'[r].job = run[r].job
NoneActiveAfter(j) == \A r \in Run : run'[r].status \in Active => run'[r].job # j
NoKeyAfter(k) == k = NoKey \/ \A r \in Run : run'[r].status # "none" => run'[r].key # k
Undisturbed(d) ==
  /\ call'[d] = call[d]
  /\ Retries(d) => run'[call[d].run].status = "failed"
  /\ call[d].pc = "inserted" =>
       /\ call[d].op.kind = "create" => run'[call[d].run].status = "none"
       /\ NoneActiveAfter(JobOfCall(d)) /\ NoKeyAfter(KeyOfCall(d))

(* Callers who hold something are undisturbed, and the others hold nothing. *)
LEMMA CallsKept ==
  ASSUME SchedInv, TypeOK', RunsStay, tick' \in {tick, IdleTick},
         \A d \in Caller : \/ Undisturbed(d)
                           \/ call'[d].pc \in {"answered", "refused"} /\ CallHolds(d)'
  PROVE  CallsApart'
<1>1. ASSUME NEW d \in Caller, Undisturbed(d)
      PROVE  JobOfCall(d)' = JobOfCall(d) \/ ~(Retries(d) \/ call[d].op.kind # "retry")
  <2>1. CallHolds(d)
    BY DEF SchedInv, CallsApart
  <2>2. QED
    BY <1>1, <2>1 DEF JobOfCall, Undisturbed, RunsStay, CallHolds, Retries
<1>2. ASSUME NEW d \in Caller PROVE CallHolds(d)'
  <2>1. CASE Undisturbed(d)
    <3>1. CallHolds(d) /\ call'[d] = call[d]
      BY <2>1 DEF SchedInv, CallsApart, Undisturbed
    <3>2. call[d].pc = "inserted" => ~HasActive(JobOfCall(d))' /\ ~HasKey(KeyOfCall(d))'
      <4>1. CASE call[d].pc = "inserted"
        <5>1. JobOfCall(d)' = JobOfCall(d) /\ KeyOfCall(d)' = KeyOfCall(d)
          BY <1>1, <2>1, <3>1, <4>1 DEF Retries, KeyOfCall
        <5>2. NoneActiveAfter(JobOfCall(d)) /\ NoKeyAfter(KeyOfCall(d))
          BY <2>1, <4>1 DEF Undisturbed
        <5>3. QED
          BY <5>1, <5>2 DEF NoneActiveAfter, NoKeyAfter, HasActive, HasKey
      <4>2. QED
        BY <4>1
    <3>3. Retries(d)' <=> Retries(d)
      BY <3>1 DEF Retries
    <3>4. QED
      BY <2>1, <3>1, <3>2, <3>3 DEF CallHolds, Undisturbed, RunsStay
  <2>2. QED
    BY <2>1
<1>3. ASSUME NEW d \in Caller PROVE BesideTick(d)'
  <2>1. CASE Undisturbed(d)
    <3>1. CASE tick' = IdleTick
      BY <3>1, IdleHolds
    <3>2. CASE tick' = tick
      <4>1. BesideTick(d) /\ call'[d] = call[d]
        BY <2>1 DEF SchedInv, CallsApart, Undisturbed
      <4>2. call[d].pc = "inserted" => JobOfCall(d)' = JobOfCall(d)
        BY <1>1, <2>1 DEF Retries
      <4>3. QED
        BY <3>2, <4>1, <4>2 DEF BesideTick, Retries
    <3>3. QED
      BY <3>1, <3>2
  <2>2. CASE ~Undisturbed(d)
    BY <2>2 DEF BesideTick, Retries
  <2>3. QED
    BY <2>1, <2>2
<1>4. ASSUME NEW d \in Caller, NEW e \in Caller, d # e PROVE Apart(d, e)'
  <2>1. CASE Undisturbed(d) /\ Undisturbed(e)
    <3>1. Apart(d, e) /\ call'[d] = call[d] /\ call'[e] = call[e]
      BY <1>4, <2>1 DEF SchedInv, CallsApart, Undisturbed
    <3>2. call[d].pc = "inserted" => JobOfCall(d)' = JobOfCall(d)
      BY <1>1, <2>1 DEF Retries
    <3>3. call[e].pc = "inserted" => JobOfCall(e)' = JobOfCall(e)
      BY <1>1, <2>1 DEF Retries
    <3>4. QED
      BY <3>1, <3>2, <3>3 DEF Apart, Retries, KeyOfCall
  <2>2. CASE ~Undisturbed(d) \/ ~Undisturbed(e)
    BY <2>2 DEF Apart, Retries
  <2>3. QED
    BY <2>1, <2>2
<1>5. QED
  BY <1>2, <1>3, <1>4 DEF CallsApart

(* The tick under way keeps its rows when a commit leaves them. *)
LEMMA TickKept ==
  ASSUME SchedInv, TypeOK', tick' = tick, now' = now,
         \A j \in tick.fired : schedule'[j] = schedule[j],
         \A r \in tick.touched : run'[r].status \in Active,
         \A x \in tick.created : run'[x.run].status = "none" /\ NoneActiveAfter(x.job)
  PROVE  TickHolds'
<1>1. TickHolds
  BY DEF SchedInv
<1>2. ASSUME NEW x \in tick.created
      PROVE  /\ x.job \in tick.fired /\ x.due = schedule'[x.job].next /\ run'[x.run].status = "none"
             /\ ~HasActive(x.job)'
             /\ \A y \in tick.created : (x.job = y.job \/ x.run = y.run) => x = y
  <2>1. ~HasActive(x.job)'
    BY DEF NoneActiveAfter, HasActive
  <2>2. QED
    BY <1>1, <2>1 DEF TickHolds
<1>3. \A j \in tick.fired : DueAt(j, tick.clock)'
  BY <1>1 DEF TickHolds, DueAt
<1>4. QED
  BY <1>1, <1>2, <1>3 DEF TickHolds

(* One run changes: it is new, without a time of a schedule and with a key nobody *)
(* has, or keeps what names it; and it is the only active run of its job.         *)
LEMMA OneRowMoves ==
  ASSUME SchedInv, TypeOK', schedule' = schedule, now' = now, NEW r \in Run,
         \A s \in Run : s # r => run'[s] = run[s],
         run'[r].status # "none", run'[r].job \in Job,
         \/ /\ run[r].status # "none" /\ run'[r].job = run[r].job
            /\ run'[r].key = run[r].key /\ run'[r].due = run[r].due
         \/ run[r].status = "none" /\ run'[r].due = -1 /\ ~HasKey(run'[r].key),
         run'[r].status \in Active =>
           \A s \in Run : (s # r /\ run[s].status \in Active) => run[s].job # run'[r].job
  PROVE  RowsApart' /\ OneActiveRun' /\ OccurrenceOnce'
<1> USE DEF SchedInv
<1>1. now \in Nat
  BY SchedulerAssumption DEF TypeOK, Time
<1>2. \A s \in Run : run[s].status = "none" => run[s] = NoRow
  BY DEF RowsApart
<1>3. \A s \in Run : run[s].status # "none" => run[s].job \in Job /\ run[s].due <= now
  BY DEF RowsApart
<1>4. NoRow.key = NoKey /\ NoRow.due = -1
  BY DEF NoRow
<1>5. RowsApart'
  <2>1. ASSUME NEW s \in Run
        PROVE  IF run'[s].status = "none" THEN run'[s] = NoRow
               ELSE run'[s].job \in Job /\ run'[s].due <= now
    <3>1. CASE s = r
      BY <1>1, <1>3, <3>1
    <3>2. CASE s # r
      BY <1>2, <1>3, <3>2
    <3>3. QED
      BY <3>1, <3>2
  <2>2. ASSUME NEW s \in Run, NEW u \in Run, run'[s].key = run'[u].key, run'[s].key # NoKey
        PROVE  s = u
    <3>1. CASE run[r].status # "none"
      BY <2>2, <3>1 DEF RowsApart
    <3>2. CASE run[r].status = "none" /\ ~HasKey(run'[r].key)
      <4>1. \A v \in Run : run[v].key = run'[r].key => run'[r].key = NoKey
        BY <1>2, <1>4, <3>2 DEF HasKey
      <4>2. QED
        BY <2>2, <4>1 DEF RowsApart
    <3>3. QED
      BY <3>1, <3>2
  <2>3. QED
    BY <2>1, <2>2 DEF RowsApart
<1>6. OneActiveRun'
  BY DEF OneActiveRun
<1>7. OccurrenceOnce'
  <2>1. \A s \in Run : run'[s].due >= 0 => run'[s].due = run[s].due /\ run'[s].job = run[s].job
    <3>1. \A s \in Run : s # r => run'[s].due = run[s].due /\ run'[s].job = run[s].job
      OBVIOUS
    <3>2. run'[r].due >= 0 => run'[r].due = run[r].due /\ run'[r].job = run[r].job
      OBVIOUS
    <3>3. QED
      BY <3>1, <3>2
  <2>2. QED
    BY <2>1 DEF OccurrenceOnce
<1>8. QED
  BY <1>5, <1>6, <1>7

(* The run that is committed is apart from all others, so they stay as they are. *)
LEMMA CommitRunKeeps ==
  ASSUME SchedInv, TypeOK', NEW c \in Caller, CommitRun(c)
  PROVE  SchedInv'
<1> DEFINE r == call[c].run
<1> USE DEF CommitRun
<1>1. /\ call \in [Caller -> CallRow] /\ run \in [Run -> RunRow]
      /\ CallHolds(c) /\ BesideTick(c) /\ TickHolds
  BY DEF SchedInv, TypeOK, CallsApart
<1>2. /\ r \in Run /\ call[c].op.kind \in {"create", "retry"}
      /\ call[c].op.kind = "create" => run[r].status = "none"
      /\ call[c].op.kind = "retry" => run[r].status = "failed" /\ Retries(c)
      /\ ~HasActive(JobOfCall(c)) /\ ~HasKey(KeyOfCall(c))
  BY <1>1 DEF CallHolds, Retries
<1>3. /\ \A s \in Run : s # r => run'[s] = run[s]
      /\ run'[r].status \in Active /\ run'[r].job = JobOfCall(c)
      /\ call[c].op.kind = "retry" => run'[r].key = run[r].key /\ run'[r].due = run[r].due
      /\ call[c].op.kind = "create" => run'[r].key = call[c].op.key /\ run'[r].due = -1
  <2>1. PICK status \in Active : run' = [run EXCEPT ![r] =
         IF call[c].op.kind = "retry" THEN [@ EXCEPT !.status = status, !.touched = now]
         ELSE [status |-> status, job |-> call[c].op.job, key |-> call[c].op.key, due |-> -1,
               touched |-> now]]
    BY DEF Active
  <2>2. \A s \in Run : s # r => run'[s] = run[s]
    BY <1>1, <2>1
  <2>3. CASE call[c].op.kind = "retry"
    <3>1. run'[r] = [run[r] EXCEPT !.status = status, !.touched = now] /\ run[r] \in RunRow
      BY <1>1, <1>2, <2>1, <2>3
    <3>2. QED
      BY <2>2, <2>3, <3>1 DEF RunRow, JobOfCall
  <2>4. CASE call[c].op.kind = "create"
    <3>1. run'[r] = [status |-> status, job |-> call[c].op.job, key |-> call[c].op.key, due |-> -1,
                     touched |-> now]
      BY <1>1, <1>2, <2>1, <2>4
    <3>2. QED
      BY <2>2, <2>4, <3>1 DEF JobOfCall
  <2>5. QED
    BY <1>2, <2>3, <2>4
<1>4. /\ call'[c].pc = "answered" /\ call'[c].op = call[c].op /\ call'[c].run = r
      /\ \A d \in Caller : d # c => call'[d] = call[d]
  BY <1>1 DEF CallRow
<1>5. JobOfCall(c) \in Job
  <2>1. call[c].op.job \in Job
    BY <1>1 DEF CallRow, Operation
  <2>2. run[r].status # "none" => run[r].job \in Job
    BY <1>2 DEF SchedInv, RowsApart
  <2>3. QED
    BY <1>2, <2>1, <2>2 DEF JobOfCall
<1>6. RowsApart' /\ OneActiveRun' /\ OccurrenceOnce'
  <2>1. \/ /\ run[r].status # "none" /\ run'[r].job = run[r].job
           /\ run'[r].key = run[r].key /\ run'[r].due = run[r].due
        \/ run[r].status = "none" /\ run'[r].due = -1 /\ ~HasKey(run'[r].key)
    BY <1>2, <1>3 DEF JobOfCall, KeyOfCall
  <2>2. \A s \in Run : (s # r /\ run[s].status \in Active) => run[s].job # run'[r].job
    BY <1>2, <1>3 DEF HasActive
  <2>3. run'[r].status # "none" /\ run'[r].job \in Job
    BY <1>3, <1>5 DEF Active
  <2>4. QED
    BY <1>2, <1>3, <2>1, <2>2, <2>3, OneRowMoves
<1>7. RunsStay
  <2>1. run[r].status # "none" => run'[r].key = run[r].key /\ run'[r].job = run[r].job
    BY <1>2, <1>3 DEF JobOfCall
  <2>2. QED
    BY <1>3, <2>1 DEF RunsStay, Active
<1>8. CallHolds(c)'
  BY <1>2, <1>3, <1>4 DEF CallHolds, Retries, Active
<1>9. ASSUME NEW d \in Caller, d # c PROVE Undisturbed(d)
  <2>1. CallHolds(d) /\ Apart(c, d) /\ call'[d] = call[d]
    BY <1>4, <1>9 DEF SchedInv, CallsApart
  <2>2. Retries(d) => run'[call[d].run].status = "failed"
    BY <1>2, <1>3, <2>1 DEF CallHolds, Apart
  <2>3. CASE call[d].pc = "inserted"
    <3>1. /\ call[d].run # r /\ JobOfCall(c) # JobOfCall(d)
          /\ KeyOfCall(c) = KeyOfCall(d) => KeyOfCall(c) = NoKey
      BY <2>1, <2>3 DEF Apart
    <3>2. call[d].op.kind = "create" => run'[call[d].run].status = "none"
      BY <1>3, <2>1, <2>3, <3>1 DEF CallHolds
    <3>3. NoneActiveAfter(JobOfCall(d))
      BY <1>3, <2>1, <2>3, <3>1 DEF CallHolds, HasActive, NoneActiveAfter
    <3>4. NoKeyAfter(KeyOfCall(d))
      <4>1. ~HasKey(KeyOfCall(d))
        BY <2>1, <2>3 DEF CallHolds
      <4>2. ASSUME KeyOfCall(d) # NoKey, NEW s \in Run, run'[s].status # "none"
            PROVE  run'[s].key # KeyOfCall(d)
        <5>1. CASE s # r
          BY <1>3, <4>1, <4>2, <5>1 DEF HasKey
        <5>2. CASE s = r /\ call[c].op.kind = "retry"
          BY <1>2, <1>3, <4>1, <4>2, <5>2 DEF HasKey
        <5>3. CASE s = r /\ call[c].op.kind = "create"
          BY <1>3, <3>1, <4>2, <5>3 DEF KeyOfCall
        <5>4. QED
          BY <1>2, <5>1, <5>2, <5>3
      <4>3. QED
        BY <4>2 DEF NoKeyAfter
    <3>5. QED
      BY <2>1, <2>2, <3>2, <3>3, <3>4 DEF Undisturbed
  <2>4. CASE call[d].pc # "inserted"
    BY <2>1, <2>2, <2>4 DEF Undisturbed
  <2>5. QED
    BY <2>3, <2>4
<1>10. CallsApart'
  BY <1>4, <1>7, <1>8, <1>9, CallsKept
<1>11. TickHolds'
  <2>1. \A q \in tick.touched : q # r
    BY <1>1, <1>2 DEF BesideTick, TickHolds, Active
  <2>2. \A q \in tick.touched : run'[q].status \in Active
    <3>1. tick.touched \subseteq Run
      BY DEF SchedInv, TypeOK, TickRow
    <3>2. QED
      BY <1>1, <1>3, <2>1, <3>1 DEF TickHolds
  <2>3. ASSUME NEW x \in tick.created
        PROVE  run'[x.run].status = "none" /\ NoneActiveAfter(x.job)
    <3>1. x.job # JobOfCall(c) /\ x.run # r
      BY <1>1 DEF BesideTick
    <3>2. x.run \in Run /\ run[x.run].status = "none" /\ ~HasActive(x.job)
      BY <1>1 DEF SchedInv, TypeOK, TickRow, TickHolds
    <3>3. QED
      BY <1>3, <3>1, <3>2 DEF HasActive, NoneActiveAfter
  <2>4. QED
    BY <2>2, <2>3, TickKept
<1>12. QED
  BY <1>6, <1>10, <1>11 DEF SchedInv

(* An active run that nobody holds starts, ends, fails or is cancelled. *)
LEMMA ActiveMoves ==
  ASSUME SchedInv, TypeOK', UNCHANGED <<now, schedule, tick>>,
         NEW r \in Run, run[r].status \in Active, ~RunTicked(r),
         NEW status \in {"running", "failed", "ended"},
         run' = [run EXCEPT ![r].status = status, ![r].touched = now],
         \A d \in Caller : \/ call'[d] = call[d]
                           \/ call'[d].pc \in {"answered", "refused"} /\ call'[d].op.kind # "create"
  PROVE  SchedInv'
<1>1. run \in [Run -> RunRow] /\ TickHolds /\ run[r].status # "none"
  BY DEF SchedInv, TypeOK, Active
<1>2. /\ \A s \in Run : s # r => run'[s] = run[s]
      /\ run'[r].status = status /\ run'[r].job = run[r].job
      /\ run'[r].key = run[r].key /\ run'[r].due = run[r].due
  BY <1>1 DEF RunRow
<1>3. RowsApart' /\ OneActiveRun' /\ OccurrenceOnce'
  <2>1. run[r].job \in Job
    BY <1>1 DEF SchedInv, RowsApart
  <2>2. \A s \in Run : (s # r /\ run[s].status \in Active) => run[s].job # run'[r].job
    BY <1>2 DEF SchedInv, OneActiveRun
  <2>3. QED
    BY <1>1, <1>2, <2>1, <2>2, OneRowMoves
<1>4. RunsStay
  BY <1>2 DEF RunsStay
<1>5. \A j : ~HasActive(j) => NoneActiveAfter(j)
  BY <1>2 DEF HasActive, NoneActiveAfter
<1>6. ASSUME NEW d \in Caller
      PROVE  \/ Undisturbed(d)
             \/ call'[d].pc \in {"answered", "refused"} /\ CallHolds(d)'
  <2>1. CASE call'[d] = call[d]
    <3>1. CallHolds(d)
      BY DEF SchedInv, CallsApart
    <3>2. Retries(d) => run'[call[d].run].status = "failed"
      BY <1>2, <3>1 DEF CallHolds, Active
    <3>3. CASE call[d].pc = "inserted"
      <4>1. call[d].op.kind = "create" => run'[call[d].run].status = "none"
        BY <1>1, <1>2, <3>1, <3>3 DEF CallHolds
      <4>2. NoneActiveAfter(JobOfCall(d))
        BY <1>5, <3>1, <3>3 DEF CallHolds
      <4>3. NoKeyAfter(KeyOfCall(d))
        <5>1. ~HasKey(KeyOfCall(d))
          BY <3>1, <3>3 DEF CallHolds
        <5>2. QED
          BY <1>1, <1>2, <5>1 DEF HasKey, NoKeyAfter
      <4>4. QED
        BY <2>1, <3>2, <4>1, <4>2, <4>3 DEF Undisturbed
    <3>4. CASE call[d].pc # "inserted"
      BY <2>1, <3>2, <3>4 DEF Undisturbed
    <3>5. QED
      BY <3>3, <3>4
  <2>2. CASE call'[d].pc \in {"answered", "refused"} /\ call'[d].op.kind # "create"
    BY <2>2 DEF CallHolds, Retries
  <2>3. QED
    BY <2>1, <2>2
<1>7. CallsApart'
  BY <1>4, <1>6, CallsKept
<1>8. TickHolds'
  <2>1. \A q \in tick.touched : run'[q].status \in Active
    BY <1>1, <1>2 DEF TickHolds, RunTicked, SchedInv, TypeOK, TickRow
  <2>2. \A x \in tick.created : run'[x.run].status = "none" /\ NoneActiveAfter(x.job)
    BY <1>1, <1>2, <1>5 DEF TickHolds, SchedInv, TypeOK, TickRow
  <2>3. QED
    BY <2>1, <2>2, TickKept
<1>9. QED
  BY <1>3, <1>7, <1>8 DEF SchedInv

(* Workers start and end runs that nobody holds. *)
LEMMA WorkerKeeps ==
  ASSUME SchedInv, TypeOK', NEW r \in Run, StartRun(r) \/ FinishRun(r)
  PROVE  SchedInv'
<1>1. run[r].status \in Active /\ ~RunTicked(r) /\ UNCHANGED <<now, schedule, tick, call>>
  BY DEF StartRun, FinishRun, Active
<1>2. \E status \in {"running", "failed", "ended"} :
        run' = [run EXCEPT ![r].status = status, ![r].touched = now]
  BY DEF StartRun, FinishRun
<1>3. QED
  BY <1>1, <1>2, ActiveMoves

(* So does cancel_run. *)
LEMMA CancelRunKeeps ==
  ASSUME SchedInv, TypeOK', NEW c \in Caller, NEW r \in Run, CancelRun(c, r)
  PROVE  SchedInv'
<1> USE DEF CancelRun
<1>1. CASE Refuse(c) /\ run' = run
  BY <1>1, RefuseKeeps
<1>2. CASE /\ run[r].status \in Active
           /\ run' = [run EXCEPT ![r].status = "ended", ![r].touched = now]
           /\ call' = [call EXCEPT ![c].pc = "answered", ![c].run = r]
  <2>1. /\ call'[c].pc = "answered" /\ call'[c].op.kind # "create"
        /\ \A d \in Caller : d # c => call'[d] = call[d]
    BY <1>2 DEF SchedInv, TypeOK, CallRow
  <2>2. QED
    BY <1>2, <2>1, ActiveMoves
<1>3. QED
  BY <1>1, <1>2

(* The schedule that moves is not one the tick has fired, and moves past now. *)
LEMMA CommitUpdateKeeps ==
  ASSUME SchedInv, TypeOK', NEW c \in Caller, CommitUpdate(c)
  PROVE  SchedInv'
<1> DEFINE o == call[c].op
           row == schedule[o.job]
<1> USE DEF CommitUpdate
<1>1. /\ call \in [Caller -> CallRow] /\ schedule \in [Job -> ScheduleRow]
      /\ run \in [Run -> RunRow] /\ now \in Nat
      /\ CallHolds(c) /\ BesideTick(c) /\ TickHolds
  BY SchedulerAssumption DEF SchedInv, TypeOK, CallsApart, Time
<1>2. o.kind = "update" /\ o.job \in Job /\ o.period \in Period \cup {0} /\ o.job \notin tick.fired
  BY <1>1 DEF CallHolds, BesideTick, CallRow, Operation
<1>3. /\ schedule'[o.job].next = IF o.period = 0 THEN row.next ELSE NextFire(o.period, now)
      /\ \A j \in Job : j # o.job => schedule'[j] = schedule[j]
  BY <1>1, <1>2
<1>4. /\ call'[c].pc = "answered" /\ call'[c].op = o
      /\ \A d \in Caller : d # c => call'[d] = call[d]
  BY <1>1 DEF CallRow
<1>5. RowsApart' /\ OneActiveRun'
  BY DEF SchedInv, RowsApart, OneActiveRun
<1>6. OccurrenceOnce'
  <2>1. ASSUME NEW r \in Run, run[r].due >= 0
        PROVE  run[r].due < schedule'[run[r].job].next
    <3>1. run[r].status # "none"
      BY <2>1 DEF SchedInv, RowsApart, NoRow
    <3>2. /\ run[r].job \in Job /\ run[r].due <= now /\ run[r].due \in Nat
          /\ run[r].due < schedule[run[r].job].next
      BY <1>1, <2>1, <3>1 DEF SchedInv, RowsApart, OccurrenceOnce, RunRow
    <3>3. CASE run[r].job = o.job /\ o.period # 0
      <4>1. NextFire(o.period, now) \in Nat /\ NextFire(o.period, now) > now
        BY <1>1, <1>2, <3>3, NextFireLater, SchedulerAssumption
      <4>2. QED
        BY <1>1, <1>3, <3>2, <3>3, <4>1
    <3>4. CASE run[r].job = o.job /\ o.period = 0
      BY <1>3, <3>2, <3>4
    <3>5. CASE run[r].job # o.job
      BY <1>3, <3>2, <3>5
    <3>6. QED
      BY <3>3, <3>4, <3>5
  <2>2. QED
    BY <2>1 DEF SchedInv, OccurrenceOnce
<1>7. ASSUME NEW d \in Caller
      PROVE  \/ Undisturbed(d)
             \/ call'[d].pc \in {"answered", "refused"} /\ CallHolds(d)'
  <2>1. CASE d = c
    BY <1>2, <1>4, <2>1 DEF CallHolds, Retries
  <2>2. CASE d # c
    <3>1. CallHolds(d) /\ call'[d] = call[d]
      BY <1>4, <2>2 DEF SchedInv, CallsApart
    <3>2. call[d].pc = "inserted" => NoneActiveAfter(JobOfCall(d)) /\ NoKeyAfter(KeyOfCall(d))
      BY <3>1 DEF CallHolds, HasActive, HasKey, NoneActiveAfter, NoKeyAfter
    <3>3. QED
      BY <3>1, <3>2 DEF CallHolds, Undisturbed
  <2>3. QED
    BY <2>1, <2>2
<1>8. CallsApart'
  <2>1. RunsStay
    BY DEF RunsStay
  <2>2. QED
    BY <1>7, <2>1, CallsKept
<1>9. TickHolds'
  <2>1. \A j \in tick.fired : schedule'[j] = schedule[j]
    BY <1>2, <1>3 DEF SchedInv, TypeOK, TickRow
  <2>2. \A x \in tick.created : run'[x.run].status = "none" /\ NoneActiveAfter(x.job)
    BY <1>1 DEF TickHolds, HasActive, NoneActiveAfter
  <2>3. \A r \in tick.touched : run'[r].status \in Active
    BY <1>1 DEF TickHolds
  <2>4. QED
    BY <2>1, <2>2, <2>3, TickKept
<1>10. QED
  BY <1>5, <1>6, <1>8, <1>9 DEF SchedInv

(* What the commit of a tick does to a run: it is one the tick has created, for a  *)
(* time of a schedule that is over, or a run whose row only gets a later touch.    *)
CreatedBy(r, x) ==
  /\ x \in tick.created /\ x.run = r /\ x.job \in tick.fired /\ run[r].status = "none"
  /\ run'[r] = Scheduled(x, now) /\ x.due = schedule[x.job].next
  /\ schedule[x.job].active /\ x.due <= tick.clock /\ ~HasActive(x.job)
  /\ x.due \in Nat /\ x.job \in Job
Kept(r) ==
  /\ \A x \in tick.created : x.run # r
  /\ run'[r].status = run[r].status /\ run'[r].job = run[r].job
  /\ run'[r].key = run[r].key /\ run'[r].due = run[r].due
  /\ run[r].status = "none" => run'[r] = run[r]

LEMMA CommitTickRows ==
  ASSUME SchedInv, CommitTick, NEW r \in Run
  PROVE  Kept(r) \/ \E x \in tick.created : CreatedBy(r, x)
<1> USE DEF CommitTick
<1>1. run \in [Run -> RunRow] /\ tick \in TickRow /\ TickHolds
  BY DEF SchedInv, TypeOK
<1>2. CASE \E x \in tick.created : x.run = r
  <2> DEFINE y == CHOOSE x \in tick.created : x.run = r
  <2>1. y \in tick.created /\ y.run = r
    BY <1>2
  <2>2. run'[r] = Scheduled(y, now)
    BY <1>2
  <2>3. /\ y.job \in tick.fired /\ y.due = schedule[y.job].next /\ run[y.run].status = "none"
        /\ ~HasActive(y.job) /\ DueAt(y.job, tick.clock)
    BY <1>1, <2>1 DEF TickHolds
  <2>4. y.job \in Job /\ y.due \in Nat
    BY <1>1, <2>1 DEF TickRow
  <2> HIDE DEF y
  <2>5. CreatedBy(r, y)
    BY <2>1, <2>2, <2>3, <2>4 DEF CreatedBy, DueAt
  <2>6. QED
    BY <2>1, <2>5
<1>3. CASE ~\E x \in tick.created : x.run = r
  <2>1. run'[r] = IF r \in tick.touched THEN [run[r] EXCEPT !.touched = tick.clock] ELSE run[r]
    BY <1>3
  <2>2. r \in tick.touched => run[r].status # "none"
    BY <1>1 DEF TickHolds, Active
  <2>3. Kept(r)
    BY <1>1, <1>3, <2>1, <2>2 DEF Kept, RunRow
  <2>4. QED
    BY <2>3
<1>4. QED
  BY <1>2, <1>3

(* A fired schedule moves past its time, and the others stay. *)
LEMMA CommitTickSchedules ==
  ASSUME SchedInv, CommitTick, NEW j \in Job
  PROVE  /\ schedule'[j].next \in Nat /\ schedule[j].next \in Nat
         /\ j \in tick.fired => schedule'[j].next > schedule[j].next
         /\ j \notin tick.fired => schedule'[j] = schedule[j]
<1> USE DEF CommitTick
<1>1. schedule[j] \in ScheduleRow /\ tick.clock \in Nat
  BY SchedulerAssumption DEF SchedInv, TypeOK, TickRow, Time
<1>2. CASE j \in tick.fired
  <2>1. schedule'[j].next = NextFire(schedule[j].period, tick.clock)
    BY <1>1, <1>2 DEF ScheduleRow
  <2>2. NextFire(schedule[j].period, tick.clock) \in Nat /\ NextFire(schedule[j].period, tick.clock) > tick.clock
    BY <1>1, NextFireLater, SchedulerAssumption DEF ScheduleRow
  <2>3. schedule[j].next <= tick.clock
    BY <1>2 DEF SchedInv, TickHolds, DueAt
  <2>4. QED
    BY <1>1, <1>2, <2>1, <2>2, <2>3 DEF ScheduleRow
<1>3. CASE j \notin tick.fired
  BY <1>1, <1>3 DEF ScheduleRow
<1>4. QED
  BY <1>2, <1>3

(* What the tick has fired moves on, and what it has created is there. *)
LEMMA CommitTickKeeps ==
  ASSUME SchedInv, TypeOK', CommitTick
  PROVE  SchedInv'
<1>1. /\ run \in [Run -> RunRow] /\ tick \in TickRow /\ TickHolds /\ now \in Nat
      /\ tick.clock \in Nat /\ tick.clock <= now /\ tick' = IdleTick
      /\ call' = call /\ now' = now
  BY SchedulerAssumption DEF SchedInv, TypeOK, TickHolds, TickRow, Time, CommitTick, Abort
<1>2. \A r \in Run : Kept(r) \/ \E x \in tick.created : CreatedBy(r, x)
  BY CommitTickRows
<1>3. TickHolds'
  BY <1>1, IdleHolds
<1>4. ASSUME NEW r \in Run, NEW x \in tick.created, CreatedBy(r, x)
      PROVE  /\ run'[r].status = "queued" /\ run'[r].job = x.job /\ run'[r].key = NoKey
             /\ run'[r].due = x.due
  BY <1>4 DEF CreatedBy, Scheduled
<1>5. ASSUME NEW r \in Run, NEW s \in Run, NEW x \in tick.created, NEW y \in tick.created,
             CreatedBy(r, x), CreatedBy(s, y), x.job = y.job
      PROVE  r = s
  BY <1>1, <1>5 DEF CreatedBy, TickHolds
<1>6. RowsApart'
  <2>1. ASSUME NEW r \in Run
        PROVE  IF run'[r].status = "none" THEN run'[r] = NoRow
               ELSE run'[r].job \in Job /\ run'[r].due <= now'
    <3>1. CASE Kept(r)
      BY <1>1, <3>1 DEF Kept, SchedInv, RowsApart
    <3>2. ASSUME NEW x \in tick.created, CreatedBy(r, x)
          PROVE  run'[r].status # "none" /\ run'[r].job \in Job /\ run'[r].due <= now'
      <4>1. x.due <= tick.clock /\ x.due \in Nat /\ x.job \in Job
        BY <3>2 DEF CreatedBy
      <4>2. QED
        BY <1>1, <1>4, <3>2, <4>1
    <3>3. QED
      BY <1>2, <3>1, <3>2
  <2>2. \A r \in Run : run'[r].key = run[r].key \/ run'[r].key = NoKey
    BY <1>2, <1>4 DEF Kept
  <2>3. \A r, s \in Run : (run'[r].key = run'[s].key /\ run'[r].key # NoKey) => r = s
    BY <2>2 DEF SchedInv, RowsApart
  <2>4. QED
    BY <2>1, <2>3 DEF RowsApart
<1>7. OneActiveRun'
  <2>1. ASSUME NEW r \in Run, NEW s \in Run, run'[r].status \in Active, run'[s].status \in Active,
               run'[r].job = run'[s].job
        PROVE  r = s
    <3>1. CASE Kept(r) /\ Kept(s)
      BY <2>1, <3>1 DEF Kept, SchedInv, OneActiveRun
    <3>2. ASSUME NEW x \in tick.created, CreatedBy(r, x), Kept(s) PROVE FALSE
      BY <1>4, <2>1, <3>2 DEF CreatedBy, Kept, HasActive
    <3>3. ASSUME NEW x \in tick.created, CreatedBy(s, x), Kept(r) PROVE FALSE
      BY <1>4, <2>1, <3>3 DEF CreatedBy, Kept, HasActive
    <3>4. ASSUME NEW x \in tick.created, NEW y \in tick.created, CreatedBy(r, x), CreatedBy(s, y)
          PROVE  r = s
      BY <1>4, <1>5, <2>1, <3>4
    <3>5. QED
      BY <1>2, <3>1, <3>2, <3>3, <3>4
  <2>2. QED
    BY <2>1 DEF OneActiveRun
<1>8. OccurrenceOnce'
  <2>1. ASSUME NEW r \in Run, Kept(r), run[r].due >= 0
        PROVE  /\ run[r].job \in Job /\ run[r].due \in Nat
               /\ run[r].due < schedule[run[r].job].next
    <3>1. run[r].status # "none"
      BY <2>1 DEF SchedInv, RowsApart, NoRow
    <3>2. QED
      BY <1>1, <2>1, <3>1 DEF SchedInv, RowsApart, OccurrenceOnce, RunRow
  <2>2. ASSUME NEW r \in Run, run'[r].due >= 0
        PROVE  run'[r].due < schedule'[run'[r].job].next
    <3>1. CASE Kept(r)
      <4>1. /\ run[r].job \in Job /\ run[r].due \in Nat /\ run'[r].job = run[r].job
            /\ run'[r].due = run[r].due /\ run[r].due < schedule[run[r].job].next
        BY <2>1, <2>2, <3>1 DEF Kept
      <4>2. schedule'[run[r].job].next \in Nat /\ schedule'[run[r].job].next >= schedule[run[r].job].next
        BY <4>1, CommitTickSchedules
      <4>3. QED
        BY <1>1, <4>1, <4>2, CommitTickSchedules
    <3>2. ASSUME NEW x \in tick.created, CreatedBy(r, x)
          PROVE  run'[r].due < schedule'[run'[r].job].next
      <4>1. x.job \in Job /\ x.job \in tick.fired /\ x.due = schedule[x.job].next
        BY <3>2 DEF CreatedBy
      <4>2. schedule'[x.job].next > schedule[x.job].next /\ schedule[x.job].next \in Nat
            /\ schedule'[x.job].next \in Nat
        BY <4>1, CommitTickSchedules
      <4>3. run'[r].job = x.job /\ run'[r].due = x.due
        BY <1>4, <3>2
      <4>4. QED
        BY <4>1, <4>2, <4>3
    <3>3. QED
      BY <1>2, <3>1, <3>2
  <2>3. ASSUME NEW r \in Run, NEW s \in Run, run'[r].due >= 0,
               run'[s].due = run'[r].due, run'[s].job = run'[r].job
        PROVE  r = s
    <3>1. CASE Kept(r) /\ Kept(s)
      BY <2>3, <3>1 DEF Kept, SchedInv, OccurrenceOnce
    <3>2. ASSUME NEW p \in Run, NEW q \in Run, NEW x \in tick.created, CreatedBy(p, x), Kept(q),
                 run'[q].due = run'[p].due, run'[q].job = run'[p].job
          PROVE  FALSE
      <4>1. x.due = schedule[x.job].next /\ x.due \in Nat /\ run'[p].job = x.job /\ run'[p].due = x.due
        BY <1>4, <3>2 DEF CreatedBy
      <4>2. run[q].due = x.due /\ run[q].job = x.job
        BY <3>2, <4>1 DEF Kept
      <4>3. run[q].due < schedule[run[q].job].next
        BY <2>1, <3>2, <4>1, <4>2
      <4>4. QED
        BY <4>1, <4>2, <4>3
    <3>3. ASSUME NEW x \in tick.created, NEW y \in tick.created, CreatedBy(r, x), CreatedBy(s, y)
          PROVE  r = s
      BY <1>4, <1>5, <2>3, <3>3
    <3>4. QED
      BY <1>2, <2>3, <3>1, <3>2, <3>3
  <2>4. QED
    BY <2>2, <2>3 DEF OccurrenceOnce
<1>9. RunsStay
  BY <1>2 DEF RunsStay, Kept, CreatedBy
<1>10. ASSUME NEW d \in Caller PROVE Undisturbed(d)
  <2>1. CallHolds(d) /\ BesideTick(d)
    BY DEF SchedInv, CallsApart
  <2>2. Retries(d) => run'[call[d].run].status = "failed"
    BY <1>2, <2>1 DEF CallHolds, Kept, CreatedBy
  <2>3. CASE call[d].pc = "inserted"
    <3>1. ~HasActive(JobOfCall(d)) /\ ~HasKey(KeyOfCall(d)) /\ call[d].run \in Run
          /\ \A x \in tick.created : x.job # JobOfCall(d) /\ x.run # call[d].run
      BY <2>1, <2>3 DEF CallHolds, BesideTick
    <3>2. call[d].op.kind = "create" => run'[call[d].run].status = "none"
      BY <1>2, <2>1, <2>3, <3>1 DEF CallHolds, Kept, CreatedBy
    <3>3. NoneActiveAfter(JobOfCall(d))
      <4>1. ASSUME NEW r \in Run, run'[r].status \in Active PROVE run'[r].job # JobOfCall(d)
        <5>1. CASE Kept(r)
          BY <3>1, <4>1, <5>1 DEF Kept, HasActive
        <5>2. ASSUME NEW x \in tick.created, CreatedBy(r, x) PROVE run'[r].job # JobOfCall(d)
          BY <1>4, <3>1, <5>2
        <5>3. QED
          BY <1>2, <5>1, <5>2
      <4>2. QED
        BY <4>1 DEF NoneActiveAfter
    <3>4. NoKeyAfter(KeyOfCall(d))
      <4>1. ASSUME KeyOfCall(d) # NoKey, NEW r \in Run, run'[r].status # "none"
            PROVE  run'[r].key # KeyOfCall(d)
        <5>1. CASE Kept(r)
          BY <3>1, <4>1, <5>1 DEF Kept, HasKey
        <5>2. ASSUME NEW x \in tick.created, CreatedBy(r, x) PROVE run'[r].key # KeyOfCall(d)
          BY <1>4, <4>1, <5>2
        <5>3. QED
          BY <1>2, <5>1, <5>2
      <4>2. QED
        BY <4>1 DEF NoKeyAfter
    <3>5. QED
      BY <1>1, <2>2, <3>2, <3>3, <3>4 DEF Undisturbed
  <2>4. CASE call[d].pc # "inserted"
    BY <1>1, <2>2, <2>4 DEF Undisturbed
  <2>5. QED
    BY <2>3, <2>4
<1>11. CallsApart'
  BY <1>1, <1>9, <1>10, CallsKept
<1>12. QED
  BY <1>3, <1>6, <1>7, <1>8, <1>11 DEF SchedInv

(* Time and deployments touch no row. *)
LEMMA OthersKeep ==
  ASSUME SchedInv, TypeOK', now <= now', UNCHANGED <<schedule, run, tick, call>>
  PROVE  SchedInv'
<1>1. RowsApart' /\ OneActiveRun' /\ OccurrenceOnce'
  BY SameRows DEF SchedInv
<1>2. TickHolds'
  BY SchedulerAssumption DEF SchedInv, TickHolds, DueAt, HasActive, TypeOK, TickRow, Time
<1>3. \A c \in Caller : CallHolds(c)' /\ BesideTick(c)'
  BY DEF SchedInv, CallsApart, CallHolds, BesideTick, Retries, JobOfCall, KeyOfCall, HasActive, HasKey
<1>4. \A c, d \in Caller : c # d => Apart(c, d)'
  BY DEF SchedInv, CallsApart, Apart, Retries, JobOfCall, KeyOfCall
<1>5. QED
  BY <1>1, <1>2, <1>3, <1>4 DEF SchedInv, CallsApart
-----------------------------------------------------------------------------
(* The invariant                                                            *)

(* Nothing runs and nobody holds anything. *)
LEMMA SchedInvInit == Init => SchedInv
<1> SUFFICES ASSUME Init PROVE SchedInv
  OBVIOUS
<1> USE DEF Init
<1>1. TypeOK
  <2>1. \A p \in Period : NextFire(p, 0) \in Nat
    BY NextFireLater, SchedulerAssumption
  <2>2. schedule \in [Job -> ScheduleRow]
    <3>1. \A p \in Period : [period |-> p, active |-> TRUE, next |-> NextFire(p, 0)] \in ScheduleRow
      BY <2>1 DEF ScheduleRow
    <3>2. QED
      BY <3>1
  <2>3. run \in [Run -> RunRow]
    BY NoRowType
  <2>4. call \in [Caller -> CallRow]
    BY DEF CallRow
  <2>5. QED
    BY <2>2, <2>3, <2>4, IdleTickType, SchedulerAssumption DEF TypeOK, Time
<1>2. TickHolds
  BY DEF TickHolds, IdleTick
<1>3. \A c \in Caller : call[c].pc = "ready"
  OBVIOUS
<1>4. CallsApart
  BY <1>3 DEF CallsApart, CallHolds, BesideTick, Apart, Retries
<1>5. \A r \in Run : run[r] = NoRow
  OBVIOUS
<1>6. RowsApart /\ OneActiveRun /\ OccurrenceOnce
  BY <1>5 DEF RowsApart, OneActiveRun, OccurrenceOnce, NoRow, Active
<1>7. QED
  BY <1>1, <1>2, <1>4, <1>6 DEF SchedInv

(* One case per action. *)
LEMMA SchedInvNext == SchedInv /\ [Next]_vars => SchedInv'
<1> SUFFICES ASSUME SchedInv, [Next]_vars PROVE SchedInv'
  OBVIOUS
<1>1. TypeOK /\ TickHolds /\ CallsApart /\ now \in Nat
  BY SchedulerAssumption DEF SchedInv, TypeOK, Time
<1>2. CASE TickStep
  <2>1. TypeOK'
    BY <1>1, <1>2, TickTypes, OtherTypes DEF TickStep
  <2>2. QED
    BY <1>2, <2>1, BeginTickKeeps, InsertScheduledKeeps, CommitTickKeeps, FireScheduleKeeps,
       TakeUpKeeps DEF TickStep
<1>3. CASE CrashReplica
  BY <1>1, <1>3, TickTypes, CrashKeeps
<1>4. CASE \E c \in Caller : CallStep(c) \/ Rollback(c)
  <2>1. PICK c \in Caller : CallStep(c) \/ Rollback(c)
    BY <1>4
  <2>2. TypeOK'
    BY <1>1, <2>1, CallTypes
  <2>3. CASE Rollback(c)
    BY <2>2, <2>3, RefuseKeeps DEF Rollback
  <2>4. CASE CallStep(c)
    BY <2>2, <2>4, BeginCreateKeeps, BeginUpdateKeeps, InsertKeeps, CommitRunKeeps,
       CommitUpdateKeeps, BeginRetryKeeps, CancelRunKeeps DEF CallStep
  <2>5. QED
    BY <2>1, <2>3, <2>4
<1>5. CASE \E r \in Run : StartRun(r) \/ FinishRun(r)
  BY <1>1, <1>5, OtherTypes, WorkerKeeps
<1>6. CASE \E j \in Job : Retire(j)
  <2>1. TypeOK'
    BY <1>1, <1>6, OtherTypes
  <2>2. QED
    BY <1>1, <1>6, <2>1, OthersKeep DEF Retire
<1>7. CASE Advance
  <2>1. TypeOK'
    BY <1>1, <1>7, OtherTypes
  <2>2. QED
    BY <1>1, <1>7, <2>1, OthersKeep DEF Advance
<1>8. CASE UNCHANGED vars
  <2>1. TypeOK'
    BY <1>1, <1>8 DEF vars, TypeOK
  <2>2. QED
    BY <1>1, <1>8, <2>1, OthersKeep DEF vars
<1>9. QED
  BY <1>2, <1>3, <1>4, <1>5, <1>6, <1>7, <1>8 DEF Next

(* jobs/scheduler.py and services/jobs.py: what ticks and requests have locked or   *)
(* inserted and not committed never meets, and the rows stay within their indexes.  *)
THEOREM SchedulerInvariant == Spec => []SchedInv
<1>1. Init => SchedInv
  BY SchedInvInit
<1>2. SchedInv /\ [Next]_vars => SchedInv'
  BY SchedInvNext
<1>3. QED
  BY <1>1, <1>2, PTL DEF Spec

(* A job never has two active runs, whoever creates, retries or fires one meanwhile. *)
THEOREM AtMostOneActiveRun == Spec => []OneActiveRun
<1>1. SchedInv => OneActiveRun
  BY DEF SchedInv
<1>2. QED
  BY <1>1, SchedulerInvariant, PTL

(* _fire_schedule: a time of a schedule never fires two runs, and what has fired is past. *)
THEOREM FiresOncePerOccurrence == Spec => []OccurrenceOnce
<1>1. SchedInv => OccurrenceOnce
  BY DEF SchedInv
<1>2. QED
  BY <1>1, SchedulerInvariant, PTL

(* create_run: all calls that are answered for one Idempotency-Key name one run. *)
THEOREM OneRunPerKey == Spec => []SameKeySameRun
<1>1. SchedInv => SameKeySameRun
  <2>1. SUFFICES ASSUME SchedInv, NEW c \in Caller, NEW d \in Caller,
                        call[c].pc = "answered", call[d].pc = "answered",
                        call[c].op.kind = "create", call[d].op.kind = "create",
                        call[c].op.key = call[d].op.key, call[c].op.key # NoKey
                 PROVE  call[c].run = call[d].run
    BY DEF SameKeySameRun
  <2>2. CallHolds(c) /\ CallHolds(d)
    BY <2>1 DEF SchedInv, CallsApart
  <2>3. /\ call[c].run \in Run /\ run[call[c].run].key = call[c].op.key
        /\ call[d].run \in Run /\ run[call[d].run].key = call[c].op.key
    BY <2>1, <2>2 DEF CallHolds
  <2>4. QED
    BY <2>1, <2>3 DEF SchedInv, RowsApart
<1>2. QED
  BY <1>1, SchedulerInvariant, PTL

(* What a step that fires a run for a schedule has seen of it. *)
FiresDue ==
  \A r \in Run : (run[r].status = "none" /\ run'[r].due >= 0) =>
    LET j == run'[r].job IN
    /\ schedule[j].active /\ run'[r].due = schedule[j].next /\ schedule[j].next <= now
    /\ schedule'[j].next > run'[r].due /\ ~HasActive(j)

LEMMA StepFiresDue == SchedInv /\ [Next]_vars => FiresDue
<1> SUFFICES ASSUME SchedInv, [Next]_vars PROVE FiresDue
  OBVIOUS
<1>1. /\ run \in [Run -> RunRow] /\ tick.clock \in Nat /\ now \in Nat /\ tick.clock <= now
      /\ \A r \in Run : run[r].status = "none" => run[r].due = -1
  BY SchedulerAssumption DEF SchedInv, TypeOK, TickHolds, TickRow, Time, RowsApart, NoRow
<1>2. CASE CommitTick
  <2>1. ASSUME NEW r \in Run, run[r].status = "none", run'[r].due >= 0
        PROVE  \E x \in tick.created : CreatedBy(r, x)
    <3>1. ~Kept(r)
      BY <1>1, <2>1 DEF Kept
    <3>2. QED
      BY <1>2, <3>1, CommitTickRows
  <2>2. ASSUME NEW r \in Run, NEW x \in tick.created, CreatedBy(r, x)
        PROVE  /\ run'[r].job = x.job /\ schedule[x.job].active
               /\ run'[r].due = schedule[x.job].next /\ schedule[x.job].next <= now
               /\ schedule'[x.job].next > run'[r].due /\ ~HasActive(x.job)
    <3>1. /\ x.job \in Job /\ x.job \in tick.fired /\ x.due = schedule[x.job].next
          /\ schedule[x.job].active /\ x.due <= tick.clock /\ ~HasActive(x.job) /\ x.due \in Nat
          /\ run'[r].job = x.job /\ run'[r].due = x.due
      BY <2>2 DEF CreatedBy, Scheduled
    <3>2. schedule'[x.job].next > schedule[x.job].next
      BY <1>2, <3>1, CommitTickSchedules
    <3>3. QED
      BY <1>1, <3>1, <3>2
  <2>3. QED
    BY <2>1, <2>2 DEF FiresDue
<1>3. CASE run' = run
  BY <1>1, <1>3 DEF FiresDue
<1>4. ASSUME NEW c \in Caller, CommitRun(c) PROVE FiresDue
  <2>1. CallHolds(c) /\ call[c].run \in Run
    BY <1>4 DEF SchedInv, CallsApart, CallHolds, CommitRun
  <2>2. ASSUME NEW r \in Run, run[r].status = "none" PROVE run'[r].due = -1
    <3>1. CASE call[c].run = r
      <4>1. call[c].op.kind = "create"
        BY <1>4, <2>1, <2>2, <3>1 DEF CallHolds, CommitRun, Retries
      <4>2. QED
        BY <1>1, <1>4, <3>1, <4>1 DEF CommitRun
    <3>2. CASE call[c].run # r
      BY <1>1, <1>4, <2>2, <3>2 DEF CommitRun
    <3>3. QED
      BY <3>1, <3>2
  <2>3. QED
    BY <2>2 DEF FiresDue
<1>5. ASSUME NEW r \in Run, NEW status, run' = [run EXCEPT ![r].status = status, ![r].touched = now]
      PROVE  FiresDue
  <2>1. \A s \in Run : run'[s].due = run[s].due
    BY <1>1, <1>5 DEF RunRow
  <2>2. QED
    BY <1>1, <2>1 DEF FiresDue
<1>6. CASE TickStep /\ ~CommitTick
  BY <1>3, <1>6 DEF TickStep, BeginTick, InsertScheduled, FireSchedule, Requeue, Resume
<1>7. ASSUME NEW c \in Caller, CallStep(c) \/ Rollback(c) PROVE FiresDue
  <2>1. CASE \E r \in Run : CancelRun(c, r)
    BY <1>3, <1>5, <2>1 DEF CancelRun
  <2>2. CASE run' = run \/ CommitRun(c)
    BY <1>3, <1>4, <2>2
  <2>3. QED
    BY <1>7, <2>1, <2>2 DEF CallStep, BeginCreate, BeginUpdate, Insert, CommitUpdate, BeginRetry,
      Rollback
<1>8. CASE \E r \in Run : StartRun(r) \/ FinishRun(r)
  BY <1>5, <1>8 DEF StartRun, FinishRun
<1>9. CASE CrashReplica \/ Advance \/ UNCHANGED vars \/ \E j \in Job : Retire(j)
  BY <1>3, <1>9 DEF CrashReplica, Advance, Retire, vars
<1>10. QED
  BY <1>2, <1>6, <1>7, <1>8, <1>9 DEF Next

(* A schedule fires only while it is active and due, in the commit that moves it past *)
(* that time, never beside an active run.                                             *)
THEOREM ScheduleFiresWhenDue == Spec => FiresWhenDue
<1>1. SchedInv /\ [Next]_vars => [FiresDue]_vars
  BY StepFiresDue
<1>2. Spec => [][FiresDue]_vars
  BY <1>1, SchedulerInvariant, PTL DEF Spec
<1>3. QED
  BY <1>2 DEF FiresWhenDue, FiresDue
=============================================================================
