# A verification of the HR backend

TLA+ models of the parts of this HR system where an error would be hard to see in
a test: leave (requests, approvals, balances and the jobs that change them), the
batch-job framework with its scheduler, core HR (the organisation tree and the job
history), sessions, the AI settings and their usage, and the report builder. TLC
checks them on small instances, and TLAPS proves the most important properties for
every value of the constants.

`PROJECT.json` is the index: the components, the runs with their properties, a
mutant of the code for every property, the map from each definition to its
source lines, the hazards, the findings and the theorems. Source paths below are
relative to `src/backend/app/` unless they start with `src/`.

## 1. The system

One FastAPI backend over PostgreSQL (one transaction per request, READ COMMITTED,
row-level security by tenant), a Celery worker that runs the same service code,
a scheduler process, Redis as the broker, and a stateless gateway to the model
providers. There is no shared memory between requests: what components share are
rows, row locks, unique and exclusion constraints, and tasks in the broker.

### Inventory

| Component | State it keeps | Operations | What is hard | What makes it correct |
| --- | --- | --- | --- | --- |
| Leave requests and approvals (`services/leave_requests.py`, `rules/leave.py`) | `leave_request`, `leave_approval` | submit, validate, decide, cancel, listings, team calendar | concurrent submits and decisions; configuration that changes under a pending request; retries with an idempotency key | buckets equal a recount of the requests, the chain tells the same story as the request, decisions stand, no two active requests share a day |
| Leave balances (`services/leave_balances.py`) | `leave_balance` | lazy creation, list, adjust, bucket updates of requests | rows created by whoever reads first; corrections below what is used | never overspent, never negative through expiry |
| Leave accrual and carry-over (`services/leave_accrual.py`, `jobs/leave.py`) | `leave_balance` (the same rows) | accrue a chunk, expire a chunk | reruns, last year's balance read without a lock and still moving | idempotent, carried-over days are not taken twice |
| Leave configuration (`services/leave_config.py`) | `leave_type`, `leave_policy`, `holiday_calendar` | create, update, delete | changes under pending requests | what is given back is what was taken |
| Batch job runs (`jobs/runner.py`, `services/jobs.py`, `worker/tasks.py`) | `job_run`, `job_run_chunk`, `job_run_log`, tasks in Redis | create, start, run chunk, record failure, finalize, cancel, retry | redelivery, lost tasks, killed workers, lost commit answers, cancel against execution, deadlock | changes of a chunk committed once; the status of a run tells what its chunks did; every run ends |
| Job scheduler (`jobs/scheduler.py`) | `job_schedule`, advisory lock | fire due schedules, requeue, resume | two replicas, missed ticks, one transaction for a whole tick | one firing per due time, lost work is resent |
| Core HR (`services/employees.py`, `rules/core_hr.py`) | `employee`, effective-dated `employee_job` | create, update, add a job row, job as of a day, lists | concurrent additions, same-day sequences, two people each other's supervisor | history is never rewritten, one row in force per day, hire/terminate/rehire alternate, all as-of reads agree |
| Organisation units (`services/org_units.py`) | `org_unit` tree | create, move, deactivate | two moves that are each legal | the tree has no cycle, no active unit under an inactive one |
| Authentication (`services/auth.py`) | `refresh_token`, login counter in Redis | login, refresh, logout, revoke all | one token brought by several requests; a revocation in a transaction of its own, on the same pool, among refreshes and logouts; Redis that fails half way | one usable token per login, a revocation misses none it could see, nobody is locked out for ever |
| AI settings, usage and entitlement (`services/ai_settings.py`, `services/ai_usage.py`, `entitlement/`) | `tenant_ai_setting`, `ai_usage`, `ai_usage_monthly` | update, test connection, record usage, which features are active | a network call between two reads of one row; a month that ends meanwhile; one request that changes many fields | consent is for the provider there is, verified is what was tested, the counters are the log, a feature is active only when allowed |
| Reports (`services/reports.py`, `reports/`) | `report_template`, its audit entries | create, update, delete, preview, export | overlapping updates, limits, a catalog that changes | each change has its audit entry, nothing is cut without a word |
| Pagination (`core/pagination.py`) | none (cursor) | keyset page | rows inserted, renamed and deleted between pages | a row that stays is shown once |
| Tenant session, CLI, seed, AI gateway, HTTP layer, frontend | none of their own, or single-operator | - | - | - |

How they interact. Requests and jobs meet in the `leave_balance` row, which both
lock `FOR UPDATE`. Submit reads `employee_job` (activity, supervisor), the
calendar, the type and the policies of the moment and stores a snapshot of what
it decided (days, levels, approvers). A leave job is a run of the job framework:
one chunk of the job is one transaction that changes balances and the chunk's
status. The scheduler and the API create runs; tasks are sent after the commit.

## 2. The modules

| Module | What it is |
| --- | --- |
| `LeaveLedger` | requests, approvals, balances, leave jobs and configuration; one step per committed call or chunk |
| `LeaveReads` | what the lists, the detail, the team calendar and the warning show of that state; EXTENDS `LeaveLedger` |
| `LeaveLedgerProofs` | type correctness, inductive invariants, safety and action properties of both (TLAPS) |
| `MCLeaveLedger` | instances of `LeaveReads`: `MCLeaveApprovals.cfg`, `MCLeaveCarryOver.cfg` |
| `LeaveTx` | submit, decide, cancel and adjust as concurrent transactions, statement by statement; EXTENDS `LeaveLedger` and implements it |
| `LeaveTxProofs` | its inductive invariant and the refinement (TLAPS) |
| `MCLeaveTx` | instance of `LeaveTx`: `MCTxCalls.cfg` |
| `JobPromise` | abstract: what a batch run promises, without tasks, workers, locks or attempts |
| `JobRunner` | runs, chunks, broker, workers, cancel and retry, the scheduler's resends; implements `JobPromise` |
| `JobRunnerProofs` | its inductive invariant, safety and action property, and the refinement (TLAPS) |
| `MCJobRunner` | instances of `JobRunner`: `MCJobSafety.cfg`, `MCJobStuck.cfg` |
| `Scheduler` | replicas that tick, schedules, and the callers who create, retry, cancel and reschedule |
| `SchedulerProofs` | its inductive invariant, safety and action property (TLAPS) |
| `MCScheduler` | its instance |
| `CoreHR` | the tree of units and the job histories under concurrent calls |
| `CoreReads` | the as-of reads, filters and visibility over it; EXTENDS `CoreHR` |
| `CoreHRProofs` | the inductive invariants, safety and action property of both (TLAPS) |
| `MCCoreHR` | instance of `CoreReads` |
| `Sessions` | login, refresh, reuse, revocation, logout of one user |
| `SessionsProofs` | its inductive invariant, safety and action property (TLAPS) |
| `MCSessions` | instances: `MCSessions.cfg`, `MCSessionsStuck.cfg` |
| `AiSettings` | the AI settings, the connection test, readiness, usage log and counters |
| `AiSettingsProofs` | its inductive invariant and safety (TLAPS) |
| `MCAiSettings` | instances: `MCAiSettings.cfg`, `MCAiStaleTest.cfg` |
| `Reports` | report templates, the compiler's checks, limits, and the walk over pages |
| `ReportsProofs` | its inductive invariants and safety (TLAPS) |
| `MCReports` | its instance |

How they compose. `LeaveTx` implements `LeaveLedger`, so that whatever is shown of
calls that are one step each holds of interleaved ones. `JobRunner` implements
`JobPromise`: a chunk's changes are committed once. `LeaveLedger` has the two leave
jobs as steps of one chunk each (`Accrue`, `ExpireCarryOver`) and lets them be
repeated at will, which is what a retry of a run does; each model thus stands on what
the other one shows. `Scheduler` takes a run as a row that starts and ends and asks
who may make one; `JobRunner` takes a run as given and asks what it does. `LeaveLedger`
reads `job[e][d]`, which is what `CoreReads!Read` returns for a day; `CoreHR` shows
that the past of it never changes.

### LeaveLedger

A step is a committed transaction: a call that raises rolls its transaction back
and is no step. The variables are the tables. `status`, `row`, `level` are the
columns of `leave_request` (`row` holds those that submit writes and nobody
changes), `approval[r][l]` the rows of `leave_approval`, `balance` the rows of
`leave_balance` with all their buckets and marks, `leaveType`, `holidays` and
`job` what HR can change, `today` the tenant's date.

| Action | Code |
| --- | --- |
| `Submit` = guards `KeyTaken`, `Admissible`, `BalanceCovers`, `Excluded`, then `StoreRequest` | `leave_requests.submit`, `_evaluate`, `_approver_chain`, the exclusion constraint |
| `Reject`, `ApproveLevel`, `ApproveFinal` = `MayDecide`, then `StoreRejection`, `StoreLevelApproval`, `StoreApproval` | the three branches of `leave_requests.decide` |
| `Cancel` = `MayCancel`, then `StoreCancel` | `leave_requests.cancel`, `rules.ensure_can_cancel` |
| `Validate`, `ReadBalances` | `leave_requests.validate`, `leave_balances.list_balances`: reads that create the balance rows they read (`api/leave.py` documents validate as storing nothing) |
| `AdjustBalance` | `leave_balances.adjust_balance` |
| `Accrue`, `ExpireCarryOver` | one chunk of `leave_accrual.accrue` and `expire_carry_over` |
| `UpdateLeaveType`, `CreateHoliday`, `DeleteHoliday`, `ChangeJob`, `NextDay` | `leave_config`, the effect of `employees.add_job`, the clock |

Abstractions. Days are numbers, a year is `YearLength` days, weekends and the
possible holidays are sets of days. `row[r].days` is the set of working days
counted at submit: the column holds its size (`Days`), and the set lets the
properties recount days without trusting the code's arithmetic. A policy is what
`pick_policy` may return, any member of a set (a tenant without a matching policy
is a policy of zero days); which one is picked is not modelled. A NULL date
is 0, and a month of expiry is a day. Notes,
reasons and the audit log have no influence on state and are left out.

### LeaveReads

No variables of its own: operators over `LeaveLedger`. `Shown` and `Detail` are the
columns of a list and of one request, `Queue`, `Mine` and `All` the scopes of
`list_requests`, `CanView` the right to open one, `Found` the bounded overlap condition
that `_team_overlap` and `team_calendar` share, `Team` the `employees_as_of_query` of
a supervisor. Paging is in `Reports`.

### LeaveTx

The variables of `LeaveLedger` are what is committed. A `Call` is one request of the
API, `op[c]` what it asks for, `pc[c]` the statement it has reached, `seen[c]` the
balance row it holds `FOR UPDATE`, as it read it. A call changes the tables in one
step, its commit, from the values it has read under its locks; that the values
are still right then is what has to be shown. Everything else it did before (its
own uncommitted rows) shows to others only as something to wait for: `WaitsFor(c)` is the
set of calls whose end c's next statement needs.

| Call | Statements (`pc` after each) | Code |
| --- | --- | --- |
| submit | `FindKey` keyed, `Evaluate` evaluated, `CheckBalance` checked, `Insert` inserted, `CheckDates` ready | the look-up of the key, `_evaluate` up to the overlap query, `get_balance(lock=True)` with `check_balance`, the flush with the unique index and then the exclusion constraint |
| approve | `Load` loaded, `Write` written, `CheckWritten` updated, `LockReleased` ready | `_load(lock=True)` and the caller's right, the autoflush before the queries of `_release_balance`, the exclusion constraint on the new row version, `get_balance(lock=True)`; below the last level `Write` is all there is |
| reject | `Load` loaded, `Write` updated, `LockReleased` ready | the same without the constraint (a rejected row leaves its index) |
| cancel | `Load` loaded, `LockReleased` balanced, `WriteCancel` ready | the balance is locked before the request is written |
| adjust | `Adjust` ready | `adjust_balance` |
| all | `Commit` stored; `End` returned, refused, conflict, aborted, deadlocked | `core/db.py` `transaction_session`: one transaction per call, rolled back by any exception |

PostgreSQL is modelled from what the code relies on, and marked external in
the map: a row lock is held to the end of the transaction; every statement reads
what is committed when it starts (READ COMMITTED); an insert waits for a
transaction that has an equal key in flight; an exclusion check comes after the
insert, waits for rows in doubt and may meet a settled one first (`MeetSettled`); a
minimal cycle of waits loses one member (`BreakDeadlock`). An approval that only moves to
the next level changes no indexed column and is checked against no constraint. The
creation of a balance by its first reader is the same wait as its lock, since
`ON CONFLICT DO NOTHING` waits for the other insert and the row is then read again.
The overlap query and the calendar are read before the balance lock, as in
the code. Calls run while the day, the types, the calendar and the jobs stand still;
corrections (`adjust`) are the other writer of a balance.

### JobRunner

A step is a transaction, or a part of one that holds a row lock for which
another transaction may wait. A worker is at `"idle"`, `"executing"` (has claimed
a chunk with `FOR UPDATE SKIP LOCKED`), `"record"` and `"recording"` (before and
after it has locked the chunk again in `_record_failure`) or `"finalize"`. Row
locks of chunks are the program counters of their holders (`Holds`), the lock of
a run is `cancelling`.

| Action | Code |
| --- | --- |
| `CreateRun`, `RetryRun`, `CancelBegin`/`CancelCommit` | `services/jobs.py` `create_run`, `retry_run`, `cancel_run` |
| `Requeue`, `Resume` | `jobs/scheduler.py` `_requeue`, `_resume` |
| `StartRun`, `PlanFails`, `StartRunAgain` | the branches of `runner.start_run` |
| `ClaimChunk`, `SkipChunk`, `CommitChunk`, `FailChunk` | `runner.run_chunk`, `_execute_chunk` |
| `RecordBegin`, `RecordCommit` | `runner._record_failure` |
| `Finalize` | `runner.finalize`, the retry and the acknowledgement in `worker/tasks.py` |
| `WorkerFault`, `LoseTask`, `RedeliverTask`, `BreakDeadlock` | what happens to workers, broker and database (late acknowledgement is set in `worker/celery_app.py`) |

Abstractions. The broker is a bag of tasks with a bound on copies. A dispatch
that fails, or a process that dies before it dispatches, is the dispatch followed
by `LoseTask`. `CancelCommit` waits for all chunks at once, where the statement
takes them one by one; the intermediate states hold more locks and change no
row. The timeouts of the scheduler (5 and 30 minutes) are dropped, so a resend
may come at any time, which includes every time the code allows. A worker that is
killed rolls its transaction back, so it counts no attempt. `effects` counts how
often the changes of a chunk have been committed: the job's own data.

### Scheduler

Several replicas run `jobs/scheduler.py`; a tick is one transaction over all due work
under `pg_try_advisory_xact_lock`. As a second replica that does not get the lock ends
its tick at once, `tick` is the one tick under way, of whichever replica. It works on
a snapshot (`job_scheduler_work`) made with a clock that was read before the lock and
may be `MaxLag` old.

| Action | Code |
| --- | --- |
| `BeginTick` | the lock and the work list, at most `BatchLimit` rows of each kind, oldest first |
| `FireSchedule`, `InsertScheduled` | `_fire_schedule`: the row read again under `SKIP LOCKED`, moved on, and the insert in a savepoint |
| `Requeue`, `Resume` | `_requeue`, `_resume`; a run of a job that `DEFINITIONS` has not raises and ends the tick |
| `CommitTick`, `CrashReplica` | the commit and the sends after it; a process that dies |
| `BeginCreate`/`BeginRetry`, `Insert`, `CommitRun` | `services/jobs.py` `create_run`, `retry_run`: checks without a lock, then the unique indexes on active runs and on keys, then the commit and the send |
| `CancelRun`, `BeginUpdate`/`CommitUpdate` | `cancel_run`, `update_schedule` |
| `StartRun`, `FinishRun` | a run as the scheduler sees it; what it does inside is `JobRunner` |
| `Rollback`, `Retire`, `Advance` | a request that fails, a deployment with one job less, time |

Abstractions. A cron expression is the period it fires with. `sent` is the set of runs
a task was sent for: such a task may be late, or lost if the run never starts.

### CoreHR and CoreReads

A call is one transaction. Only `add_job` locks what it reads (the employee); the
others read, check and write without a lock, so each check is a step and the write
with its commit another. `seen` is the unit as `update_org_unit` loaded it: the flush
writes only the fields that differ from it.

| Call | Steps | Code |
| --- | --- | --- |
| create a unit | `BeginCreateUnit`, `EnsureActiveParent`, `CommitCreateUnit` | `org_units.create_org_unit` |
| move or switch a unit | `BeginUpdateUnit`, `EnsureActiveParent`, `CheckAncestors`, `CheckChildren`, `CommitUpdateUnit` | `org_units.update_org_unit`, `_ancestors`, `rules/core_hr.py` |
| hire | `BeginCreateEmployee`, `CheckEmployeeJob`, `CommitCreateEmployee` | `employees.create_employee` |
| edit | `BeginUpdateEmployee`, `CommitUpdateEmployee` | `employees.update_employee` |
| add a job row | `BeginAddJob`, `CheckJob`, `CommitJob`, `BreakDeadlock` | `employees.add_job`; the foreign key of the row locks the supervisor |

`overlapped` and `reactivated` are history variables, no columns: units that were
written while another call's write of a unit came in between, and units switched on
below an inactive parent. `CoreReads` has the reads: `Read` is the row in force on a
day (`_current_job_select`, and `pre_hire` where there is none), `Listed` the filters
of `list_employees`, `AsOfQuery` the query with its shortcut over the index of the
history (`employees_as_of_query`), `ManagerViews` the visibility of `get_employee`.

### Sessions

`token` is the table of refresh tokens of one user, `attempts` and `expiring` the
counter in Redis and whether it has a time to live. A request is one transaction; the
revocation is a second one of the same request (`_revoke_all_for_user`), on a second
connection of the same pool, while the first still holds its row.

| Call | Steps | Code |
| --- | --- | --- |
| login | `BeginLogin`, `Verify`, `IssueLogin`, `CommitLogin` | `auth.login`, `_failed_attempts`, `_record_failure`, `_issue_tokens` |
| refresh | `BeginRefresh`, `ReadToken`, `CommitRefresh` | `auth.refresh` |
| a revoked token is brought | `BeginRevoke` or `PoolTimeout`, `RevokeRow`, `CommitRevoke`, `BreakDeadlock` | `_revoke_all_for_user`: the UPDATE takes a snapshot and reaches its rows one by one |
| logout | `BeginLogout`, `CommitLogout` | `auth.logout` |
| all | `Rollback`, `ExpireAttempts`, `Deactivate` | a lost request, Redis' time to live, an operator's UPDATE |

`login` in a row names the login a token descends from: a history column, the table
has only `replaced_by`. A token may be expired at any time, as the clock is left out.

### AiSettings

`setting` is the row of the tenant, `log` and `counter` are `ai_usage` and
`ai_usage_monthly` by month. `UpdateSettings` locks with its first statement and is
one step; the first update of a tenant finds no row to lock and is two (`BeginFirst`,
`CommitFirst`). A test is `BeginTest` (reads without a lock), `Answer` (the gateway and the
provider) and `CommitSuccess` or `CommitFailure`, which select the row again `FOR UPDATE`
but get the object their session has already, with the values of the first read
(`Reread`). `Edited` and `Accepted` are `update_ai_settings` field by field, `Ready`,
`LimitReached` and `ActiveFeatures` the entitlement. `consentFor`, `tested` and
`overtaken` are history variables: for which provider the consent in force was given, what
the test that verified the settings has called, and whether an update came between that test's
read and write. `Redeploy` changes `AI_ENABLED`, `NextMonth` ends a month.

### Reports

`template` is `report_template`, `told` the audit entries of each, with the time their
transaction began (`at`, for `created_at`); `stored` (history) has the contents that were
committed, each with the call that changed it. An update writes the fields that differ
from what it loaded, reads the row again and records an entry if that is not what it loaded: also when it
wrote nothing and only saw what another call had changed. `BeginCreate`/`BeginChange`, `CheckCall` and `CommitCreate`, `CommitUpdate`,
`CommitDelete` are the three calls of `services/reports.py`; the unique indexes are in
`Conflicts`. `Compiles` is `reports/query.py`, over columns with types, `Fetch` is
`_fetch` with its line more than the limit, `Preview` and `Export` its two uses.
`BeginWalk` and `ReadPage` are a client that reads the list page by page
(`core/pagination.py`); `steady` is what was there when it began and has been
neither renamed nor deleted.

## 3. What the runs check

| Run | Instance | Properties |
| --- | --- | --- |
| `leave_approvals` | 3 people in a line (one is HR), 2 requests, chain of 2, 3 days; HR changes the levels, and moves or ends a job | `ApprovalChain`, `QueueDecidable`, `CalendarTellsWarning`, `DecisionsStand` |
| `leave_carry_over` | 1 person, 2 years of 2 days, 2 requests, a holiday, a correction, 2 policies, both jobs | `CarryOverNotSpentTwice`, `JobsIdempotent`, `BucketsMatchRequests`, `OverlapQueryExact`, `NoOverspend`, `CarryOverFloor` |
| `tx_calls` | 3 calls, each one of 8: submits over the same days, with and without a balance and with one key, approve, reject, cancel, correction; fair | `TxInv`, `ImplementsLedger`, `CallsEnd` |
| `job_safety` | 1 run, 2 chunks, 2 workers, 2 attempts, 2 faults, 2 calls, 1 copy of a task; fair | `EffectsOnce`, `OutcomeTellsChunks`, `SettledStays`, `ImplementsPromise`, `RunsFinishOrAreLeft`, `LeftOnlyByFault` |
| `job_stuck` | the same with 1 attempt, 1 fault, no calls | `RunsFinish` is violated |
| `scheduler` | 1 job, 2 callers, 4 runs, 3 times, clocks up to 1 old, batches of 1, 1 fault, a job that may be dropped; fair | `OneActiveRun`, `OccurrenceOnce`, `SameKeySameRun`, `FiresWhenDue`, `WorkTakenUp` |
| `core_hr` | 4 units, 3 people, 3 days, 2 callers, 4 calls out of 16 | `CyclesComeFromOverlap`, `InactiveAboveActive`, `HistoryInOrder`, `ShortcutLosesNobody`, `PastStays` |
| `sessions` | 3 requests at once, 3 calls, 7 tokens, 4 connections, 1 fault; fair | `OneLivePerLogin`, `RevocationMissesNone`, `CallsEnd`, `LockoutEnds` |
| `sessions_stuck` | 2 requests at once, no fault; fair | `ReuseRevokesAll` is violated |
| `ai_settings` | 2 callers, 8 updates, 3 tests, 2 months, 1 fault | `ConsentForProvider`, `VerifiedUnlessOvertaken`, `CountersFollowLog`, `ActiveOnlyWhenAllowed` |
| `ai_stale_test` | the same | `VerifiedMeansTested` is violated |
| `reports` | 4 templates, 2 callers, 3 calls out of 11, pages of 1, limits of 1 and 2 lines, up to 3 lines a year | `ChangesAudited`, `NothingCutUnsaid`, `WalkMissesNothing` |

What the properties say.

- `BucketsMatchRequests`: `pending` and `used` of every balance equal a recount of
  the days its requests hold. Since days are recounted as a set, it also says that
  no day is paid for twice. It breaks if days are counted again when they are
  given back, or given back to the wrong year.
- `ApprovalChain`, `DecisionsStand`: request and level statuses agree whatever
  HR reconfigures, and what was decided is never rewritten.
- `QueueDecidable`: the queue, the detail and `decide` agree, although each reads other
  columns. `CalendarTellsWarning`: the warning of a submit and the calendar of the
  supervisor tell of the same colleagues, if the leave starts today. On other days the two ask
  for the team of different days, as the code means them to.
- `OverlapQueryExact`: the overlap query with its index-friendly lower bound finds
  exactly what the exclusion constraint refuses. The bound only works because
  requests are at most `MaxSpan` days long.
- `NoOverspend`, `CarryOverFloor`: requests never take more than was granted, and
  expiry alone never makes a balance negative. A plain "available is never
  negative" is false and is not claimed: HR may correct an entitlement away and a
  cancel after the expiry of carry-over does not revive it.
- `JobsIdempotent`: ADR 010.5, in every state, with last year's balance moved
  arbitrarily between two accruals.
- `CarryOverNotSpentTwice`: for types that cannot be backdated, a day left over is
  not both carried over and taken from the old year. With backdating it can be,
  which ADR 010 accepts (HR corrects by hand), so the run excludes it; the theorem
  `BookedOnce` (section 4) says that this and a correction downward are the only ways.
- `ImplementsLedger` (it is `LeaveLedger!Spec`): concurrent calls do what they
  would do one after the other. A lost update of a balance, two overlapping
  requests, a request decided twice or a balance overdrawn by two submits would
  each be a commit that is no step of the ledger. `TxInv`: a locked row has one
  holder, and what a call has checked or read stays true until it commits.
- `EffectsOnce`, `OutcomeTellsChunks`, `SettledStays`: ADR 009.4 and 009.3 under
  every redelivery, resend, fault, cancel and retry. `ImplementsPromise`: the rows
  of a run move as the abstract run of `JobPromise` does.
- `RunsFinish`: an active run ends. It is violated (see Findings). `RunsFinishOrAreLeft`: it
  ends or is left unfinalized, which is running with nothing pending and with no worker at any
  of its tasks, so that a worker on its way to `finalize` does not count. `LeftOnlyByFault`: the step that
  leaves it so is the fault of a worker with its task, and by what "left" says that worker was
  past the last status of its chunk. Together: the window found there is the only obstacle.
- `OneActiveRun`, `OccurrenceOnce`, `SameKeySameRun`, `FiresWhenDue`: whoever creates,
  retries or fires, one run of a job is active, one due time fires once, calls with one
  key are answered with one run, and a schedule that HR has stopped or moved does not
  fire. `WorkTakenUp`: due schedules and runs without tasks are taken up, unless a run of
  a retired job blocks every tick.
- `CyclesComeFromOverlap`, `InactiveAboveActive`: which calls can bend the tree. Both
  hazards are real (below); the properties say that nothing else does it.
- `HistoryInOrder`, `PastStays`: the history begins with the hire, rehires follow
  terminations, days are numbered without gap, and what was in force on a past day stays.
  `ShortcutLosesNobody`: the two ways to find the people of a supervisor, of a unit or of both agree on every day.
- `OneLivePerLogin`, `RevocationMissesNone`, `LockoutEnds`: one usable token per login; a
  revocation that commits has revoked all of its snapshot; a lockout ends.
- `ConsentForProvider`, `VerifiedUnlessOvertaken`, `ActiveOnlyWhenAllowed`,
  `CountersFollowLog`: consent is for the provider that is set, verified settings are those
  a test has tried unless an update overtook it, features are active only below
  the limit, and the counters have what the log has, a call at the end of a month one
  month later.
- `ChangesAudited`, `NothingCutUnsaid`, `WalkMissesNothing`: each content a call stores is told by
  an entry of that call, and none tells a content that never was; no line is missing from a preview or export that does not say so; rows that stay in
  place are shown once by a walk over the pages.
- `CallsEnd` (in two modules): no call waits for ever, although calls lock in opposite
  orders; in `Sessions` except in the ring of `sessions_stuck`.

Bounds, and why they are enough. Two requests are what overlap, double payment
and a shared balance need, two levels are the maximum of the schema, two years
are one year end, and the span limit of two puts the boundary of the overlap query inside
the instance. Three concurrent calls are a ring of waits with one more waiting; a
balance of two days is used up by two calls. Two workers and two chunks give every race on
one chunk and every partial outcome, two faults a lost commit answer and a killed worker.
Two callers beside a tick give each pair of the writers of `job_run`; a third time lets a
missed schedule fire late. Two moves of units bend a tree, two rows of people lock each
other. Three requests are two that hold rows and one that revokes, and four connections
are too few for two revocations beside another request. Three tests and two months let a
limit be passed and a month end under a call. Three lines with limits of one and two are
below, at and above each. Unbounded quantities of the code are cut by `MaxAdjust`, `LastDay`, `MaxFaults`,
`MaxCalls`, `MaxCopies`, `MaxRun`, `MaxTime`, `MaxToken`, `MaxTests`, `LastMonth` and
`MaxLines`, each in a guard or a range. Backdated requests and
negative corrections of a balance are in `LeaveLedger` and covered by its proofs,
but not by a run: `leave_carry_over` excludes them.

Symmetry is used where only safety is checked (requests in the leave runs, callers in
`ai_settings`), never with liveness. Deadlock is checked in `tx_calls`, `scheduler`
and the AI runs; not where a system really may stop: time ends at `LastDay`, a
run that is over is left alone, and `CoreHR`, `Sessions` and `Reports` stop when their calls are
used up.

Fairness. `JobRunner!Fairness`: workers go on with the task they have, the scheduler
ticks (`main` catches every exception of a tick), PostgreSQL grants free locks and breaks
deadlocks: weak fairness. Taking a start task or a chunk's task is strongly fair,
because the queues are first in first out: a task that is in the queue again and again,
even if it comes and goes with resends, is taken. Nothing is assumed of users, of plans
or chunks succeeding, or of faults. `LeaveTx!Fairness`: a call that waits for nobody goes on,
and PostgreSQL breaks a deadlock. `Scheduler`: replicas tick in a loop, and a
request whose statement can proceed goes on. `Sessions`: the same of each call,
and Redis drops keys whose time is over. All of these are weak and per call; locks
are kept at most until their holder ends.

### Findings

- `job_stuck`: a worker that fails between the commit of the last chunk and
  `finalize` leaves the run `running` for ever. Redelivery does not help (no
  pending chunk is found and `run_chunk` returns before `finalize`), nor does the
  scheduler (it resends pending chunks only), and the unique index on active runs
  then blocks the job until HR cancels the run.
- `sessions_stuck`: the request that found a reused token keeps that row locked while its
  revocation, a transaction of its own, waits for rows. Two such requests beside a logout
  or a refresh can wait for each other in a way PostgreSQL cannot see: each waiting
  statement belongs to another transaction than the lock it needs. Both hang, nothing
  is revoked.
- `ai_stale_test`: `test_connection` selects the row again to notice an update that came
  while the provider was called, but without `populate_existing` its session returns the
  values of the first read. An untested model is marked verified.

Observations that are no contradiction of a document: two moves of units that overlap can
make a cycle, and a unit can be switched on below an inactive parent; two employees who
are made each other's supervisor at once deadlock, and one call is aborted; a
repetition with the same key that is sent while the first submit still runs is refused by its twin
instead of answered, and of two overlapping submits without a balance one may be
ended by a deadlock error; a request of HR at a level without an approver is in HR's own
queue, though he cannot decide it, and one whose approver has no account is in nobody's; a
supervisor must exist, not be active; a queued run of a job that the deployed code has not
blocks every tick; consent is kept when only the URL of a custom provider changes;
`ai_usage.created_at` is the begin of a transaction, so that a call over the
end of a month is logged and counted in different months; an audit entry of a
template may tell also what another update changed, or only that; entries are dated by the begin of
their transaction, so that of overlapping changes the newest entry need not be the last commit's and the order
of the entries is not claimed to tell what is stored; two deletes of one template are
both audited; an update of a template that loses a race ends in an error nobody handles; a template renamed
between two pages may be shown twice or never.

## 4. What is proved

Every theorem holds for every value of the constants that satisfies the named assumption of its
module (`ConstantsAssumption`, `OperationAssumption`, `JobAssumption`, `SchedulerAssumption`,
`SessionAssumption`, `AiAssumption`, and `CoreAssumption` and `ReportsAssumption`, each with the
`StartAssumption` of its module): any number of people, types, years, requests, policies, units,
workers, chunks, runs, tokens, connections, updates, templates, pages, faults and concurrent calls.
Of the 40 properties the passing runs check, the 35 that are not liveness are theorems. The inductive
invariants were checked by TLC on the instances of the runs before they were proved.

`LeaveLedgerProofs!TypeCorrect` proves `[]TypeOK`. It is not trivial: that `used`,
`pending` and `expired` stay natural numbers follows from the CHECK constraints
(`RowAccepted`) where the code subtracts.

`LeaveLedgerProofs!LedgerInvariant` proves `[]LedgerInv`. `BucketsMatchRequests` is not
inductive: giving back the size of a set of days is exact only if no other
request of the balance holds any of them. So the invariant adds what a submit
guarantees of a row (`RequestRowsOK`: a range inside one year, at most `MaxSpan`
days, days inside the range), that active requests of one person do not meet
(`RequestsDisjoint`), and that the balance of an active request exists
(`BalanceRowsOK`). The counting is done once, in the lemmas about `DaysHeld` and
`Cardinality` of a union and a difference of disjoint sets; the proof has one
lemma per kind of step (submit, a move of a request out of a status, a change of
balances alone). From it follow `BucketsCorrect`, `NeverOverspent`, `FloorHolds`,
`ChainCorrect`, `OverlapCorrect` (the query equals the constraint for every span
limit), `DecisionsCorrect` (an action property, which also needs that rows of
requests not yet made are blank) and `JobsAreIdempotent`.

`LeaveLedgerProofs!QueueIsDecidable` and `CalendarTells` are about what is read. The queue looks at the
level of a request and at the row of that level, `decide` at the status of the request too: that
they agree is `ApprovalChain`, part of `LedgerInv`. The calendar and the warning take the absences that
begin at most `MaxSpan` days before the range: that none is missed is the bound on a row's
span in `RequestRowsOK`.

`LeaveLedgerProofs!BookedOnce` is about the carry-over, of which the run sees only the instance
without backdating. It is an action property without such a condition: a step after which a day carried
over is spent in the old year as well is a correction downward (`LowersAdjusted`) or reserves
days of a year that is over for a type that allows backdating (`ReservesLate`). It needs
`CarryInv`: days are carried only with the mark that says so, and none into a
year that has not begun, since a request for the year there is would otherwise
take them. `CarryOverOnce` is `[]CarryOverNotSpentTwice` from it, with the two conditions of that
property as hypotheses: no type is ever backdated and corrections only add.

`LeaveTxProofs!TxInvariant` proves `TxSpec => [](TypeOK /\ LedgerInv /\ TxInv)` and
`LeaveTxProofs!TransactionsImplementLedger` proves `TxSpec => Spec`, for any number of calls: so every
theorem about `LeaveLedger` holds of the interleaved calls. Since `LeaveTx` extends the ledger
and keeps its variables, the refinement mapping is the identity: every statement but
`Commit` is a stutter, and `Commit` must be a `Submit`, `Reject`, `ApproveLevel`, `ApproveFinal`, `Cancel`
or `AdjustBalance` (`CommitIsStep`). The guards of that step were evaluated earlier, in other
states, and `TxInv` carries them to the commit: `SeenIsCurrent` (the balance read is the
balance), `SubmitStages` and `SubmitsApart` (the key, the dates and the balance are
still free, and no other submit in flight has them), `DecisionStages` (the right to
decide, and the level) and `LocksExclude`. The core of the proof is
`CommitKeeps` and `CommitKeepsSubmit`: a commit changes only what its call has locked or
what the index checks kept apart from every other call. It assumes what `LeaveTx`
assumes: a configuration and a day that stand still while calls run, and PostgreSQL's
locks as described above.

`JobRunnerProofs!JobInvariant` proves `[](TypeOK /\ JobInv)`. `EffectsOnce` alone is not
inductive: a second commit of a chunk is excluded because a chunk row has at most
one holder and is then pending (`LocksExclusive`), and the outcome of a run is right
because of what its chunks can be at each stage (`StagesAgree`): no chunk before
the plan, none cancelled in a run that is not, attempts below the maximum while
pending. From it follow `TypeCorrect`, `EffectsCorrect`, `OutcomesCorrect` and
`SettledCorrect`. `LeftOnlyByFaults` goes through the steps once more: a task ends with
`finalize`, which ends a run that has nothing pending, or as the victim of a deadlock, when its chunk is
still pending; a retry finds failed chunks, because a run with chunks that is `failed` or
`partial` has some.

`JobRunnerProofs!RunsKeepPromise` proves `Spec => Promise!PromiseSpec`. The mapping reads
the abstract state off the rows: `stage` is the status of the run, `todo` its pending chunks,
`done` and `givenUp` its successes and failures. Every action that touches tasks, workers or
locks only is a stutter; `ClaimChunk` is one too, `CommitChunk` is `Apply`, the last failed
attempt is `GiveUp`, `Finalize` is `Close` if the run is still running. The proof uses `JobInv`
for what a step's guard does not say: that the chunk a worker commits is still pending
and its run not over.

`SchedulerProofs!SchedulerInvariant` proves `[]SchedInv`. That two active runs never exist,
or two runs of one time, is not inductive: a commit breaks it when what it stores was
inserted beside another uncommitted row. `TickHolds` says what the tick has
fired, created and touched (schedules still due, free rows of jobs without an active run, active
runs), `CallHolds(c)` what a caller has, `Apart(c, d)` that two callers, and `BesideTick(c)` that a caller and
the tick, have different runs, jobs, keys and schedules. A commit then changes rows that
nobody else has (`CallsKept`, `TickKept`). `AtMostOneActiveRun`, `FiresOncePerOccurrence` and `OneRunPerKey`
follow from it, and `ScheduleFiresWhenDue` from it and the step: what the tick has created was
due at its clock, and its schedule moves past that clock.

`SessionsProofs!SessionInvariant` proves `[]SessionInv`. `OneLivePerLogin` is not inductive: that a
refresh replaces the only usable token needs that no other request has that row, or has
inserted the same token (`CallsApart`: what requests have locked, written or inserted never
meets, and what each has is as it left it), and that a token is replaced only by one of its own login
(`Chained`). `OneUsableToken` follows, and `RevocationComplete`: of a revocation's snapshot, what it
has passed is written by it or was found revoked.

`AiSettingsProofs!AiInvariant` proves `[]AiInv`. Consent and verification are inductive with
their history variables; the limit needs that no call under way began in a later month and
that from this month on all the log has is counted (`LogIsCounted`), and a first update
that waits for its commit was accepted (`FirstAccepted`). From it follow `TypeCorrect`,
`ConsentCorrect`, `VerificationCorrect` and `ActiveCorrect`. `CountersCorrect` proves
`[]CountersFollowLog`: a call that is recorded adds to the totals of the log from the month it
began in, and to those of the counters from the present one, which is no earlier. A sum
over months is the size of the set of its units (`Total`): the prover cannot unfold a recursive
sum, but it can count a union of disjoint sets (`TotalAdds`).

`CoreHRProofs!HistoryInvariant` proves `[]HistInv`. The order of a history is not inductive:
`add_job` checks its date and its action in one step and stores the row in another. `HistInv`
adds that a call which holds the employee's lock still has what it checked (`Fits` in
`Remembered`), that no two calls hold one employee (`LocksApart`), and that rows are in
a line with a last one (`Lined`), after which the new row comes (`AppendKeepsOrder`).
`HistoryStaysInOrder` follows, and `PastNeverChanges`: the new row is not before the latest, so
no earlier day sees it. `InactiveOnlyByOverlap` is proved from `TreeInv`: as long as no other
call has written units, what a call on units has read and checked is still so
(`UnitSeen`); otherwise the unit it writes is marked in `overlapped`.

`CyclesByOverlap` says that a cycle of units always has a unit whose write overlapped another
call's. The ancestors that `update_org_unit` collects are the least set that has the parent
and is closed under going up (`ClosedUpward`), so that what it refuses is exactly what
would close a cycle among the units it has read. `CycleInv` carries that to the commit: unless
another call has written units, a new parent that was checked is still not below the unit
(`PlacedRight`), and every parent is a unit there is (`ParentsKnown`). A cycle that the commit closes
then has a unit that was marked. `ShortcutFindsAll` is about `CoreReads`: with either filter, with both
or with none, the employees found by the index over all rows of the history, then narrowed to the
day, are those the plain list finds, because the row in
force on a day is one of those rows (`ReadIsARow`); that there is one uses that histories stay
finite (`HistoriesStayFinite`).

`CoreHR!StartAssumption` says that the calls start from finite, ordered histories and from a finite tree
without a cycle and without an active unit below an inactive one; the run evaluates it.

`ReportsProofs!AuditInvariant` proves `[]AuditInv`: the entry is made of the row as it is read again, under the lock if this call has
written it, so that what it stores is told as it is stored, whatever others have changed since the load. A call that
wrote nothing tells what another has stored; this needs that the present content is always among those
stored (`ContentStored`). `AuditIsTrue` follows.
`CutIsTold` is a fact about `Fetch`, for every number of lines and every limit: one line more than the
limit is enough to tell. `WalkInvariant` proves `[]WalkInv`: that a walk misses nothing is not inductive; what
carries it from page to page is `CursorParts`, by which the templates that stay in place are
shown exactly when their name is not above the cursor. A page keeps it because of what it shows:
everything above the cursor if no more than a page is left (`LastPageShowsAll`), otherwise
exactly what lies up to the next cursor (`PageShowsUpToCursor`); a commit keeps it because what it renames
or deletes no longer stays in place, and what it creates was not there. `Reports!StartAssumption`
says that a create gives a name (`src/backend/app/schemas/reports.py:98`).

Model-checked only: liveness (`CallsEnd` of two modules, `RunsFinishOrAreLeft`, `WorkTakenUp`,
`LockoutEnds`), which is beyond the prover.

## 5. Not modelled

- The leave jobs' statements among those of concurrent calls: they are steps of
  `LeaveLedger`, so a chunk that fails because a request has inserted the same balance
  (`leave_accrual.py:154`) is seen only as a failed and retried chunk of `JobRunner`.
- A configuration or a day that changes while calls of `LeaveTx` run: between calls it does,
  in `LeaveLedger`.
- Two jobs that share one batch: `Scheduler` has one job, so its batch limit never binds, and
  one job's failure that undoes the others' work of its tick (`jobs/scheduler.py:75`) is not shown.
- Row locks a revocation of `Sessions` would keep on rows it met already revoked: only rows it
  has written are held.
- `pick_policy`, `service_months` and the month arithmetic of expiry, and the create, update and
  delete of policies: a policy is any of a set, so what the models show holds
  whichever is picked. The rules themselves are pure functions with tests of their own.
- Names, titles, grades and managers of units: no rule reads them.
- The SQL of reports, their views (except `v_employee`, whose rows are `CoreReads!Reads`)
  and the rendering of files: queries and layout.
- Hashing, tokens as strings, cookies, encryption of keys, the encoding of cursors.
- Row-level security: PostgreSQL policies; every module is about one tenant.
- Platform administration, the CLI and the performance seed: a single operator.
- The HTTP layer, logging, health checks, migrations, and the frontend: no state
  that two requests share beyond what the services do. The AI gateway keeps none
  either: it is the action `Answer`.
- A worker killed by every execution of a chunk: it counts no attempt and
  would be redelivered for ever; the number of faults is bounded in `JobRunner`.
