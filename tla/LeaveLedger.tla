------------------------------ MODULE LeaveLedger ------------------------------
(***************************************************************************)
(* Leave management, one action per committed API call or job chunk:       *)
(* requests with their approval chain, and the balance buckets that are    *)
(* changed in the same transaction.  A call that raises rolls its          *)
(* transaction back, so only the successful path of a handler is a step.   *)
(*                                                                         *)
(* Sources: services/leave_requests.py, services/leave_balances.py,        *)
(* services/leave_accrual.py, services/leave_config.py, rules/leave.py and *)
(* models/leave.py of the backend, for one tenant.                         *)
(***************************************************************************)
EXTENDS Integers, FiniteSets

CONSTANTS
  Employee, NoEmployee,
  User, NoUser,
  EmployeeOf,        \* the employee a user account is linked to, or NoEmployee
  HrAdmin,           \* the users with the HR_ADMIN role
  LeaveType, NoType,
  BalanceType,       \* the leave types with requires_balance (never updated)
  LeaveTypeConfig,   \* the values HR may give the other columns of a leave type
  InitialConfig,     \* the configuration each leave type is created with
  JobRecord,         \* what employee_job says of one day: supervisor, active
  InitialJob,        \* the job record each employee starts with
  JobChange,         \* the rows HR may add: [employee, from, to, job]
  Policy,            \* what pick_policy may select: days, cap, expiry
  Delta,             \* the corrections HR may make to a balance
  MaxAdjust,         \* bound: a balance is corrected by at most this much in all
  Request,           \* identities of leave requests
  Key, NoKey,        \* idempotency keys
  LastDay,           \* bound: time stops here
  YearLength,        \* days in a year
  Weekend,
  Holiday,           \* the days HR may declare or undeclare a holiday
  MaxSpan            \* MAX_REQUEST_SPAN_DAYS

Day == 1..LastDay
YearOf(d) == (d - 1) \div YearLength
FirstDay(y) == y * YearLength + 1
Year == {YearOf(d) : d \in Day}
Level == 1..2
Account == Employee \X BalanceType \X Year

Config == [active: BOOLEAN, levels: Level, notice: Nat, backdated: BOOLEAN, maxDays: Nat]
Job == [supervisor: Employee \cup {NoEmployee}, active: BOOLEAN]

ASSUME ConstantsAssumption ==
  /\ LastDay \in Nat \ {0} /\ YearLength \in Nat \ {0} /\ MaxSpan \in Nat \ {0}
  /\ MaxAdjust \in Nat /\ Delta \subseteq Int
  /\ NoEmployee \notin Employee /\ NoUser \notin User
  /\ NoType \notin LeaveType /\ NoKey \notin Key
  /\ BalanceType \subseteq LeaveType
  /\ HrAdmin \subseteq User
  /\ EmployeeOf \in [User -> Employee \cup {NoEmployee}]
  /\ LeaveTypeConfig \subseteq Config
  /\ InitialConfig \in [LeaveType -> Config]
  /\ JobRecord \subseteq Job
  /\ InitialJob \in [Employee -> Job]
  /\ JobChange \subseteq [employee: Employee, from: Day, to: Day, job: JobRecord]
  /\ Policy \subseteq [days: Nat, cap: Nat, expiry: Nat]
  /\ Weekend \subseteq Day /\ Holiday \subseteq Day

VARIABLES
  today,
  leaveType,   \* configuration of each leave type
  holidays,    \* holiday_calendar
  job,         \* job[e][d]: the employee_job row of e in force on day d
  status,      \* leave_request.status, "none" before the request exists
  row,         \* the columns of leave_request that never change after submit
  level,       \* leave_request.current_level
  approval,    \* approval[r][l]: the leave_approval row of level l
  balance      \* the leave_balance rows

vars == <<today, leaveType, holidays, job, status, row, level, approval, balance>>

-----------------------------------------------------------------------------
(* Rows *)

RequestStatus == {"none", "pending", "approved", "rejected", "cancelled"}
ApprovalStatus == {"none", "pending", "approved", "rejected", "skipped"}

(* "days" is the set of working days counted at submit; the column holds its size. *)
Row == [employee: Employee \cup {NoEmployee}, type: LeaveType \cup {NoType},
        start: Nat, end: Nat, days: SUBSET Day, levels: 0..2, key: Key \cup {NoKey}]
NoRow == [employee |-> NoEmployee, type |-> NoType, start |-> 0, end |-> 0,
          days |-> {}, levels |-> 0, key |-> NoKey]

Approval == [status: ApprovalStatus, approver: Employee \cup {NoEmployee}, by: User \cup {NoUser}]
NoApproval == [status |-> "none", approver |-> NoEmployee, by |-> NoUser]

(* "open" says that the row exists; expires = 0 stands for a NULL date, "applied" *)
(* and "expiredAt" for the two timestamps being set.                              *)
Balance == [open: BOOLEAN, entitled: Nat, carried: Nat, adjusted: Int, used: Nat, pending: Nat,
            expired: Nat, applied: BOOLEAN, expires: Nat, expiredAt: BOOLEAN]
BalanceRow(days, isOpen) ==
  [open |-> isOpen, entitled |-> days, carried |-> 0, adjusted |-> 0, used |-> 0, pending |-> 0,
   expired |-> 0, applied |-> FALSE, expires |-> 0, expiredAt |-> FALSE]

(* Mutation: days under approval are forgotten. *)
AvailableIgnoringPending(b) == b.entitled + b.carried + b.adjusted - b.used - b.expired

Available(b) == b.entitled + b.carried + b.adjusted - b.used - b.pending - b.expired

(* The two CHECK constraints of leave_balance: an update that breaks one fails. *)
RowAccepted(b) == b.used >= 0 /\ b.pending >= 0 /\ b.expired >= 0 /\ b.expired <= b.carried

(* get_balance: the row, or a new one with the entitlement of the policy picked *)
(* for the start of the year (policy days = 0 when none matches).               *)
GetBalance(a, policy) == IF balance[a].open THEN balance[a] ELSE BalanceRow(policy.days, TRUE)

AccountOf(r) == <<row[r].employee, row[r].type, YearOf(row[r].start)>>
UsesBalance(r) == row[r].type \in BalanceType

-----------------------------------------------------------------------------
(* The rules *)

Active == {"pending", "approved"}
WorkingDays(s, f) == {d \in s..f : d \notin Weekend /\ d \notin holidays}

(* Mutation: the days are counted again when they are given back. *)
DaysRecounted(r) == Cardinality(WorkingDays(row[r].start, row[r].end))

Days(r) == Cardinality(row[r].days)

RangesMeet(s1, f1, s2, f2) == s1 <= f2 /\ s2 <= f1

(* Mutation: the lower bound on start_date is one day too tight. *)
OverlapsTightBound(e, s, f) ==
  \E r \in Request : /\ status[r] \in Active
                     /\ row[r].employee = e
                     /\ row[r].start <= f /\ row[r].end >= s
                     /\ row[r].start > s - MaxSpan + 1

(* The overlap query of the services, with the lower bound on start_date. *)
Overlaps(e, s, f) ==
  \E r \in Request : /\ status[r] \in Active
                     /\ row[r].employee = e
                     /\ row[r].start <= f /\ row[r].end >= s
                     /\ row[r].start > s - MaxSpan

(* The exclusion constraint ex_leave_request_no_overlap. *)
Excluded(e, s, f) ==
  \E r \in Request : /\ status[r] \in {"pending", "approved"}
                     /\ row[r].employee = e
                     /\ RangesMeet(row[r].start, row[r].end, s, f)

CheckRange(s, f) == s <= f /\ YearOf(s) = YearOf(f) /\ f - s + 1 <= MaxSpan

CheckNotice(t, s) ==
  /\ s < today => leaveType[t].backdated
  /\ s >= today => s - today >= leaveType[t].notice

CheckMaxDays(t, n) == leaveType[t].maxDays = 0 \/ n <= leaveType[t].maxDays

(* The hard rules of _evaluate about the type, the calendar and the person's job. *)
HardRules(e, t, s, f) ==
  /\ leaveType[t].active
  /\ CheckRange(s, f)
  /\ WorkingDays(s, f) # {}
  /\ job[e][s].active
  /\ CheckNotice(t, s)
  /\ CheckMaxDays(t, Cardinality(WorkingDays(s, f)))

(* The hard rules of _evaluate other than the balance. *)
Admissible(e, t, s, f) == HardRules(e, t, s, f) /\ ~Overlaps(e, s, f)

(* _approver_chain: the supervisor as of today, then the supervisor's own. *)
Supervisor(x) == IF x = NoEmployee THEN NoEmployee ELSE job[x][today].supervisor
Chain(e) == [l \in Level |-> IF l = 1 THEN Supervisor(e) ELSE Supervisor(Supervisor(e))]

-----------------------------------------------------------------------------
(* Requests *)

(* What a submit writes: the request, its levels, and the days as pending in the *)
(* balance row b it has read.                                                    *)
StoreRequest(r, e, t, s, f, k, b) ==
  LET a == <<e, t, YearOf(s)>>
      days == WorkingDays(s, f)
  IN
  /\ status' = [status EXCEPT ![r] = "pending"]
  /\ row' = [row EXCEPT ![r] = [employee |-> e, type |-> t, start |-> s, end |-> f, days |-> days,
                                levels |-> leaveType[t].levels, key |-> k]]
  /\ level' = [level EXCEPT ![r] = 1]
  /\ approval' = [approval EXCEPT ![r] =
       [l \in Level |-> IF l <= leaveType[t].levels
                          THEN [status |-> "pending", approver |-> Chain(e)[l], by |-> NoUser]
                          ELSE NoApproval]]
  /\ balance' = IF t \in BalanceType
                  THEN [balance EXCEPT ![a] = [b EXCEPT !.pending = @ + Cardinality(days)]]
                  ELSE balance
  /\ UNCHANGED <<today, leaveType, holidays, job>>

(* The stored request with idempotency key k of employee e. *)
KeyTaken(e, k) == k # NoKey /\ \E q \in Request : status[q] # "none" /\ row[q].employee = e /\ row[q].key = k

BalanceCovers(e, t, s, f, policy) ==
  t \in BalanceType =>
    Cardinality(WorkingDays(s, f)) <= Available(GetBalance(<<e, t, YearOf(s)>>, policy))

(* submit.  A known idempotency key returns the stored request: no step. *)
Submit(u, r, t, s, f, k, policy) ==
  LET e == EmployeeOf[u] IN
  /\ status[r] = "none"
  /\ e # NoEmployee
  /\ ~KeyTaken(e, k)
  /\ Admissible(e, t, s, f)
  /\ BalanceCovers(e, t, s, f, policy)
  /\ ~Excluded(e, s, f)
  /\ StoreRequest(r, e, t, s, f, k, GetBalance(<<e, t, YearOf(s)>>, policy))

(* The row exists since submit and is never deleted, so the branch of get_balance *)
(* that creates it is not taken.                                                  *)
BalanceOf(r) == balance[AccountOf(r)]

(* _release_balance, given the balance row b it has read. *)
ReleaseBalance(r, b, pending, used) ==
  LET c == [b EXCEPT !.pending = @ + pending, !.used = @ + used]
  IN IF UsesBalance(r)
       THEN RowAccepted(c) /\ balance' = [balance EXCEPT ![AccountOf(r)] = c]
       ELSE UNCHANGED balance

(* Mutations: the update is lost, or its filter on pending levels is. *)
SkipNothing(rows) == rows
SkipEverything(rows) == [l \in Level |-> IF rows[l].status = "none" THEN rows[l]
                                         ELSE [rows[l] EXCEPT !.status = "skipped"]]

(* _skip_remaining over the levels of one request, given the rows as they stand. *)
SkipRemaining(rows) ==
  [l \in Level |-> IF rows[l].status = "pending" THEN [rows[l] EXCEPT !.status = "skipped"]
                                                 ELSE rows[l]]

Decided(r, u, decision) ==
  [approval[r] EXCEPT ![level[r]] = [@ EXCEPT !.status = decision, !.by = u]]

MayDecide(u, r) ==
  /\ status[r] = "pending"
  /\ \/ u \in HrAdmin
     \/ /\ approval[r][level[r]].approver # NoEmployee
        /\ approval[r][level[r]].approver = EmployeeOf[u]
  /\ EmployeeOf[u] # row[r].employee

StoreRejection(u, r, b) ==
  /\ status' = [status EXCEPT ![r] = "rejected"]
  /\ approval' = [approval EXCEPT ![r] = SkipRemaining(Decided(r, u, "rejected"))]
  /\ ReleaseBalance(r, b, -Days(r), 0)
  /\ UNCHANGED <<today, leaveType, holidays, job, row, level>>

Reject(u, r) == MayDecide(u, r) /\ StoreRejection(u, r, BalanceOf(r))

StoreLevelApproval(u, r) ==
  /\ level' = [level EXCEPT ![r] = @ + 1]
  /\ approval' = [approval EXCEPT ![r] = Decided(r, u, "approved")]
  /\ UNCHANGED <<today, leaveType, holidays, job, status, row, balance>>

ApproveLevel(u, r) == MayDecide(u, r) /\ level[r] < row[r].levels /\ StoreLevelApproval(u, r)

StoreApproval(u, r, b) ==
  /\ status' = [status EXCEPT ![r] = "approved"]
  /\ approval' = [approval EXCEPT ![r] = Decided(r, u, "approved")]
  /\ ReleaseBalance(r, b, -Days(r), Days(r))
  /\ UNCHANGED <<today, leaveType, holidays, job, row, level>>

ApproveFinal(u, r) == MayDecide(u, r) /\ level[r] >= row[r].levels /\ StoreApproval(u, r, BalanceOf(r))

(* cancel: the owner or HR, while pending, or approved and not yet started. *)
CanCancel(r) == status[r] = "pending" \/ (status[r] = "approved" /\ row[r].start > today)

MayCancel(u, r) == (EmployeeOf[u] = row[r].employee \/ u \in HrAdmin) /\ CanCancel(r)

StoreCancel(r, b) ==
  /\ status' = [status EXCEPT ![r] = "cancelled"]
  /\ approval' = [approval EXCEPT ![r] = SkipRemaining(approval[r])]
  /\ IF status[r] = "pending" THEN ReleaseBalance(r, b, -Days(r), 0) ELSE ReleaseBalance(r, b, 0, -Days(r))
  /\ UNCHANGED <<today, leaveType, holidays, job, row, level>>

Cancel(u, r) == MayCancel(u, r) /\ StoreCancel(r, BalanceOf(r))

-----------------------------------------------------------------------------
(* Balances *)

(* One balance row is created or changed. *)
StoreBalance(a, b) ==
  /\ balance' = [balance EXCEPT ![a] = b]
  /\ UNCHANGED <<today, leaveType, holidays, job, status, row, level, approval>>

(* validate: a dry run that still creates the balance row it reads (get_balance). *)
Validate(u, t, s, f, policy) ==
  LET a == <<EmployeeOf[u], t, YearOf(s)>> IN
  /\ EmployeeOf[u] # NoEmployee
  /\ CheckRange(s, f)
  /\ t \in BalanceType
  /\ ~balance[a].open
  /\ StoreBalance(a, GetBalance(a, policy))

(* list_balances: reading the balances of the active types creates the missing rows. *)
ReadBalances(e, y, policy) ==
  LET missing == {t \in BalanceType : leaveType[t].active /\ ~balance[<<e, t, y>>].open} IN
  /\ missing # {}
  /\ balance' = [a \in Account |-> IF a[1] = e /\ a[3] = y /\ a[2] \in missing
                                     THEN GetBalance(a, policy[a[2]])
                                     ELSE balance[a]]
  /\ UNCHANGED <<today, leaveType, holidays, job, status, row, level, approval>>

(* adjust_balance, by HR.  The bound on the total correction is the model's. *)
MayAdjust(b, delta) == Available(b) + delta >= 0 /\ b.adjusted + delta \in -MaxAdjust..MaxAdjust

AdjustBalance(e, t, y, delta, policy) ==
  LET a == <<e, t, y>>
      b == GetBalance(a, policy)
  IN MayAdjust(b, delta) /\ StoreBalance(a, [b EXCEPT !.adjusted = @ + delta])

(* accrue for one balance: create, raise the entitlement, carry over once. *)
(* Mutation: last year's entitlement is carried over, not what is left of it. *)
CarryOverEntitlement(previous, base) ==
  IF previous.entitled <= base.cap THEN previous.entitled ELSE base.cap

CarryOver(previous, base) ==
  LET rest == IF previous.open /\ Available(previous) > 0 THEN Available(previous) ELSE 0
  IN IF rest <= base.cap THEN rest ELSE base.cap

Raised(b, target) == IF target.days > b.entitled THEN [b EXCEPT !.entitled = target.days] ELSE b

ExpiryDay(y, base) == IF base.expiry = 0 THEN 0 ELSE FirstDay(y) + base.expiry

CarriedInto(b, y, carry, base) ==
  IF carry > 0
    THEN [b EXCEPT !.applied = TRUE, !.carried = @ + carry, !.expires = ExpiryDay(y, base)]
    ELSE [b EXCEPT !.applied = TRUE]

(* Mutation: carry_over_applied_at is not looked at. *)
CarriedEveryTime(b, y, carry, base) == CarriedInto(b, y, carry, base)

Carried(b, y, carry, base) == IF b.applied THEN b ELSE CarriedInto(b, y, carry, base)

Accrued(b, y, previous, base, target) ==
  LET b0 == IF b.open THEN b ELSE BalanceRow(base.days, TRUE)
  IN Carried(Raised(b0, target), y, CarryOver(previous, base), base)

Previous(a) == IF a[3] - 1 \in Year THEN balance[<<a[1], a[2], a[3] - 1>>] ELSE BalanceRow(0, FALSE)

(* One chunk of the leave_accrual job, for the employees active at as_of; the *)
(* previous year is read without a lock.  base and target are what pick_policy *)
(* finds for each balance at the start of the year and at as_of.               *)
Accrue(asOf, chunk, base, target) ==
  /\ balance' = [a \in Account |->
       IF /\ a[1] \in chunk /\ a[3] = YearOf(asOf)
          /\ job[a[1]][asOf].active /\ leaveType[a[2]].active
         THEN Accrued(balance[a], a[3], Previous(a), base[<<a[1], a[2]>>], target[<<a[1], a[2]>>])
         ELSE balance[a]]
  /\ UNCHANGED <<today, leaveType, holidays, job, status, row, level, approval>>

(* Mutation: what was taken from the carry-over expires too. *)
UnusedAll(b) == b.carried

(* expire_carry_over for one balance: carry-over counts as used first. *)
Unused(b) == IF b.carried > b.used + b.pending THEN b.carried - b.used - b.pending ELSE 0

Expired(b, asOf) ==
  IF b.expires # 0 /\ b.expires <= asOf /\ ~b.expiredAt
    THEN [b EXCEPT !.expired = @ + Unused(b), !.expiredAt = TRUE]
    ELSE b

(* One chunk of the leave_carry_over_expiry job. *)
ExpireCarryOver(asOf, chunk) ==
  /\ balance' = [a \in Account |->
       IF a[1] \in chunk /\ a[3] = YearOf(asOf) THEN Expired(balance[a], asOf) ELSE balance[a]]
  /\ \A a \in Account : RowAccepted(balance'[a])
  /\ UNCHANGED <<today, leaveType, holidays, job, status, row, level, approval>>

-----------------------------------------------------------------------------
(* Configuration and time *)

UpdateLeaveType(t, config) ==
  /\ leaveType' = [leaveType EXCEPT ![t] = config]
  /\ UNCHANGED <<today, holidays, job, status, row, level, approval, balance>>

CreateHoliday(d) ==
  /\ d \notin holidays
  /\ holidays' = holidays \cup {d}
  /\ UNCHANGED <<today, leaveType, job, status, row, level, approval, balance>>

DeleteHoliday(d) ==
  /\ d \in holidays
  /\ holidays' = holidays \ {d}
  /\ UNCHANGED <<today, leaveType, job, status, row, level, approval, balance>>

(* A new employee_job row takes effect from a day until the next row of the employee. *)
ChangeJob(c) ==
  /\ job' = [job EXCEPT ![c.employee] =
               [d \in Day |-> IF d \in c.from..c.to THEN c.job ELSE job[c.employee][d]]]
  /\ UNCHANGED <<today, leaveType, holidays, status, row, level, approval, balance>>

NextDay ==
  /\ today < LastDay
  /\ today' = today + 1
  /\ UNCHANGED <<leaveType, holidays, job, status, row, level, approval, balance>>

-----------------------------------------------------------------------------

Init ==
  /\ today = 1
  /\ leaveType = InitialConfig
  /\ holidays = {}
  /\ job = [e \in Employee |-> [d \in Day |-> InitialJob[e]]]
  /\ status = [r \in Request |-> "none"]
  /\ row = [r \in Request |-> NoRow]
  /\ level = [r \in Request |-> 0]
  /\ approval = [r \in Request |-> [l \in Level |-> NoApproval]]
  /\ balance = [a \in Account |-> BalanceRow(0, FALSE)]

RequestStep ==
  \/ \E u \in User, r \in Request, t \in LeaveType, s, f \in Day, k \in Key \cup {NoKey}, p \in Policy :
       Submit(u, r, t, s, f, k, p)
  \/ \E u \in User, r \in Request : Reject(u, r)
  \/ \E u \in User, r \in Request : ApproveLevel(u, r)
  \/ \E u \in User, r \in Request : ApproveFinal(u, r)
  \/ \E u \in User, r \in Request : Cancel(u, r)

BalanceStep ==
  \/ \E u \in User, t \in LeaveType, s, f \in Day, p \in Policy : Validate(u, t, s, f, p)
  \/ \E e \in Employee, y \in Year, p \in [BalanceType -> Policy] : ReadBalances(e, y, p)
  \/ \E e \in Employee, t \in BalanceType, y \in Year, delta \in Delta, p \in Policy :
       AdjustBalance(e, t, y, delta, p)
  \/ \E asOf \in 1..today, chunk \in SUBSET Employee :
       \E base, target \in [Employee \X BalanceType -> Policy] : Accrue(asOf, chunk, base, target)
  \/ \E asOf \in 1..today, chunk \in SUBSET Employee : ExpireCarryOver(asOf, chunk)

ConfigStep ==
  \/ \E t \in LeaveType, config \in LeaveTypeConfig : UpdateLeaveType(t, config)
  \/ \E d \in Holiday : CreateHoliday(d) \/ DeleteHoliday(d)
  \/ \E c \in JobChange : ChangeJob(c)
  \/ NextDay

Next == RequestStep \/ BalanceStep \/ ConfigStep

Spec == Init /\ [][Next]_vars

-----------------------------------------------------------------------------
(* Properties *)

(* Type correctness of every column and row the services write. *)
TypeOK ==
  /\ today \in Day
  /\ leaveType \in [LeaveType -> Config]
  /\ holidays \subseteq Day
  /\ job \in [Employee -> [Day -> Job]]
  /\ status \in [Request -> RequestStatus]
  /\ row \in [Request -> Row]
  /\ level \in [Request -> 0..2]
  /\ approval \in [Request -> [Level -> Approval]]
  /\ balance \in [Account -> Balance]

(* The days of employee e, type t and year y that requests in a status hold. *)
DaysHeld(a, st) ==
  {d \in Day : \E r \in Request : /\ status[r] = st
                                  /\ row[r].employee = a[1] /\ row[r].type = a[2]
                                  /\ YearOf(row[r].start) = a[3]
                                  /\ d \in row[r].days}

(* ADR 008.2: the stored buckets always equal what a recount of the requests would give, *)
(* whatever HR changes in the calendar, the leave types or the jobs in between.          *)
BucketsMatchRequests ==
  \A a \in Account : /\ balance[a].pending = Cardinality(DaysHeld(a, "pending"))
                     /\ balance[a].used = Cardinality(DaysHeld(a, "approved"))

(* Leave taken and requested never exceeds what was granted to the balance. *)
NoOverspend ==
  \A a \in Account : LET b == balance[a] IN b.used + b.pending <= b.entitled + b.carried + b.adjusted

(* The expiry of carry-over alone never makes a balance negative: it is so only when *)
(* HR's corrections are below minus the entitlement.                                 *)
CarryOverFloor ==
  \A a \in Account : LET b == balance[a]
                     IN Available(b) >= 0 \/ Available(b) >= b.entitled + b.adjusted

(* The status of a request and the statuses of its levels tell the same story. *)
ChainOf(r, before, at, after) ==
  \A l \in 1..row[r].levels :
    approval[r][l].status = (IF l < level[r] THEN before ELSE IF l = level[r] THEN at ELSE after)

ApprovalChain ==
  \A r \in Request :
    /\ status[r] # "none" => level[r] \in 1..row[r].levels
    /\ status[r] = "pending" => ChainOf(r, "approved", "pending", "pending")
    /\ status[r] = "approved" => level[r] = row[r].levels /\ ChainOf(r, "approved", "approved", "approved")
    /\ status[r] = "rejected" => ChainOf(r, "approved", "rejected", "skipped")
    /\ status[r] = "cancelled" => \/ ChainOf(r, "approved", "skipped", "skipped")
                                  \/ ChainOf(r, "approved", "approved", "approved")

(* The bounded overlap query and the exclusion constraint agree, so a submit that *)
(* passes validation alone is never refused by the database.                      *)
OverlapQueryExact ==
  \A e \in Employee, s, f \in Day : CheckRange(s, f) => (Overlaps(e, s, f) <=> Excluded(e, s, f))

(* ADR 010.5: running a leave job again for the same date changes nothing, even when *)
(* last year's balance has moved in between.                                         *)
JobsIdempotent ==
  \A a \in Account, base, target \in Policy, asOf \in 1..today :
    /\ LET once == Accrued(balance[a], a[3], Previous(a), base, target)
       IN \A q \in {balance[b] : b \in Account} : Accrued(once, a[3], q, base, target) = once
    /\ LET once == Expired(balance[a], asOf) IN Expired(once, asOf) = once

(* The inductive invariant: what a submitted request row guarantees, that the active  *)
(* requests of one person never share a day, and what a balance row guarantees before *)
(* it is created and before its carry-over has expired.                               *)
RequestRowsOK ==
  \A r \in Request : status[r] # "none" =>
    /\ row[r].employee \in Employee /\ row[r].type \in LeaveType
    /\ row[r].start \in Day /\ row[r].end \in Day
    /\ row[r].start <= row[r].end /\ row[r].end - row[r].start + 1 <= MaxSpan
    /\ YearOf(row[r].start) = YearOf(row[r].end)
    /\ row[r].days \subseteq row[r].start..row[r].end
    /\ row[r].levels \in Level

RequestsDisjoint ==
  \A q, r \in Request :
    (q # r /\ status[q] \in Active /\ status[r] \in Active /\ row[q].employee = row[r].employee)
      => ~RangesMeet(row[q].start, row[q].end, row[r].start, row[r].end)

BalanceRowsOK ==
  /\ \A a \in Account : /\ ~balance[a].open => balance[a] = BalanceRow(0, FALSE)
                        /\ ~balance[a].expiredAt => balance[a].expired = 0
  /\ \A r \in Request : (status[r] \in Active /\ UsesBalance(r)) => balance[AccountOf(r)].open

LedgerInv ==
  /\ RequestRowsOK /\ RequestsDisjoint /\ BalanceRowsOK
  /\ ApprovalChain /\ BucketsMatchRequests /\ NoOverspend /\ CarryOverFloor

(* What was decided stays: a decided level is never rewritten, a rejected or cancelled *)
(* request never moves, and an approved one only moves by a cancel before it starts.   *)
DecisionsStand ==
  [][\A r \in Request :
       /\ status[r] \in {"rejected", "cancelled"} => UNCHANGED <<status[r], approval[r], level[r]>>
       /\ status[r] = "approved" /\ status'[r] # "approved" =>
            status'[r] = "cancelled" /\ row[r].start > today
       /\ \A l \in Level : approval[r][l].status \in {"approved", "rejected"} =>
            approval'[r][l] = approval[r][l]]_vars

(* A day of leave left over at the end of a year is not both carried over and taken *)
(* from the old year (types without backdating, corrections that add).               *)
SpentOnce(a) ==
  LET next == <<a[1], a[2], a[3] + 1>> IN
  a[3] + 1 \in Year =>
    balance[a].used + balance[a].pending + balance[next].carried
      <= balance[a].entitled + balance[a].carried + balance[a].adjusted
CarryOverNotSpentTwice == \A a \in Account : SpentOnce(a)

(* The conditions, and what keeps it so: a carry-over is noted with its days, and none is *)
(* made before its year.                                                                  *)
NeverBackdated == /\ \A t \in LeaveType : ~InitialConfig[t].backdated
                  /\ \A config \in LeaveTypeConfig : ~config.backdated
CarryInv == \A a \in Account : /\ ~balance[a].applied => balance[a].carried = 0
                               /\ balance[a].carried > 0 => a[3] <= YearOf(today)

=============================================================================
