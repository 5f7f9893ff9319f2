--------------------------- MODULE LeaveLedgerProofs ---------------------------
(***************************************************************************)
(* Theorems of LeaveLedger and LeaveReads, for every value of the          *)
(* constants: type correctness, the inductive invariant of the ledger and  *)
(* what follows from it, what stands once decided, the carry-over, and     *)
(* what the screens show.                                                  *)
(***************************************************************************)
EXTENDS LeaveReads, FiniteSetTheorems, TLAPS

(* A year is a natural number, and so is the day a carry-over expires. *)
LEMMA YearIsNat == \A d \in Day : YearOf(d) \in Nat
BY ConstantsAssumption DEF Day, YearOf

LEMMA YearsAreNat == Year \subseteq Nat
BY YearIsNat DEF Year

LEMMA ExpiryDayIsNat ==
  ASSUME NEW y \in Year, NEW base \in Policy
  PROVE  ExpiryDay(y, base) \in Nat
<1>1. y \in Nat
  BY YearsAreNat
<1>2. y * YearLength \in Nat
  BY <1>1, ConstantsAssumption
<1>3. base.expiry \in Nat
  BY ConstantsAssumption
<1> QED
  BY <1>2, <1>3 DEF ExpiryDay, FirstDay

(* What is left of a previous year is carried over up to the cap. *)
LEMMA CarryOverIsNat ==
  ASSUME NEW b \in Balance, NEW base \in Policy
  PROVE  CarryOver(b, base) \in Nat
<1>1. base.cap \in Nat
  BY ConstantsAssumption
<1>2. Available(b) \in Int
  BY DEF Available, Balance
<1> QED
  BY <1>1, <1>2 DEF CarryOver

LEMMA NewRowType == \A n \in Nat, o \in BOOLEAN : BalanceRow(n, o) \in Balance
BY DEF BalanceRow, Balance

LEMMA PreviousType ==
  ASSUME TypeOK, NEW a \in Account
  PROVE  Previous(a) \in Balance
<1>1. CASE a[3] - 1 \in Year
  <2>1. <<a[1], a[2], a[3] - 1>> \in Account
    BY <1>1 DEF Account
  <2> QED
    BY <1>1, <2>1 DEF Previous, TypeOK
<1>2. CASE a[3] - 1 \notin Year
  BY <1>2, NewRowType DEF Previous
<1> QED
  BY <1>1, <1>2

LEMMA GetBalanceType ==
  ASSUME TypeOK, NEW a \in Account, NEW p \in Policy
  PROVE  GetBalance(a, p) \in Balance
<1>1. p.days \in Nat
  BY ConstantsAssumption
<1>2. BalanceRow(p.days, TRUE) \in Balance
  BY <1>1, NewRowType
<1> QED
  BY <1>2 DEF GetBalance, TypeOK

LEMMA CarriedType ==
  ASSUME NEW b \in Balance, NEW y \in Year, NEW carry \in Nat, NEW base \in Policy
  PROVE  Carried(b, y, carry, base) \in Balance
<1>1. ExpiryDay(y, base) \in Nat
  BY ExpiryDayIsNat
<1>2. [b EXCEPT !.applied = TRUE] \in Balance
  BY DEF Balance
<1>3. b.carried + carry \in Nat
  BY DEF Balance
<1>4. [b EXCEPT !.applied = TRUE, !.carried = @ + carry, !.expires = ExpiryDay(y, base)] \in Balance
  BY <1>1, <1>3 DEF Balance
<1> QED
  BY <1>2, <1>4 DEF Carried, CarriedInto

LEMMA AccruedType ==
  ASSUME NEW b \in Balance, NEW y \in Year, NEW q \in Balance, NEW base \in Policy, NEW target \in Policy
  PROVE  Accrued(b, y, q, base, target) \in Balance
<1>1. base.days \in Nat /\ target.days \in Nat
  BY ConstantsAssumption
<1>2. \A c \in Balance : Raised(c, target) \in Balance
  BY <1>1 DEF Raised, Balance
<1>3. (IF b.open THEN b ELSE BalanceRow(base.days, TRUE)) \in Balance
  BY <1>1, NewRowType
<1> QED
  BY <1>2, <1>3, CarriedType, CarryOverIsNat DEF Accrued

LEMMA ExpiredType ==
  ASSUME NEW b \in Balance, NEW asOf \in Nat
  PROVE  Expired(b, asOf) \in Balance
<1> DEFINE n == b.expired + Unused(b)
<1>1. n \in Nat
  BY DEF Unused, Balance
<1>2. [b EXCEPT !.expired = n, !.expiredAt = TRUE] \in Balance
  <2> HIDE DEF n
  <2> QED BY <1>1 DEF Balance
<1> QED
  BY <1>2 DEF Expired

LEMMA WorkingDaysFacts ==
  ASSUME NEW s \in Day, NEW f \in Day
  PROVE  /\ WorkingDays(s, f) \subseteq Day
         /\ WorkingDays(s, f) \subseteq s..f
         /\ IsFiniteSet(WorkingDays(s, f))
         /\ Cardinality(WorkingDays(s, f)) \in Nat
<1>1. s..f \subseteq Day
  BY ConstantsAssumption DEF Day
<1>2. IsFiniteSet(s..f)
  BY FS_Interval DEF Day
<1>3. WorkingDays(s, f) \subseteq s..f
  BY DEF WorkingDays
<1>4. IsFiniteSet(WorkingDays(s, f))
  BY <1>2, <1>3, FS_Subset
<1> QED
  BY <1>1, <1>3, <1>4, FS_CardinalityType

LEMMA DaysFinite == \A S \in SUBSET Day : IsFiniteSet(S) /\ Cardinality(S) \in Nat
<1>1. IsFiniteSet(Day)
  BY FS_Interval, ConstantsAssumption DEF Day
<1> QED
  BY <1>1, FS_Subset, FS_CardinalityType

LEMMA DaysIsNat ==
  ASSUME TypeOK, NEW r \in Request
  PROVE  Days(r) \in Nat
<1>1. row[r].days \in SUBSET Day
  BY DEF TypeOK, Row
<1> QED
  BY <1>1, DaysFinite DEF Days

-----------------------------------------------------------------------------
(* Type correctness *)

LEMMA TypeInit == Init => TypeOK
<1> SUFFICES ASSUME Init PROVE TypeOK
  OBVIOUS
<1>1. today \in Day
  BY ConstantsAssumption DEF Init, Day
<1>2. leaveType \in [LeaveType -> Config] /\ holidays \subseteq Day
  BY ConstantsAssumption DEF Init
<1>3. job \in [Employee -> [Day -> Job]]
  BY ConstantsAssumption DEF Init
<1>4. status \in [Request -> RequestStatus] /\ level \in [Request -> 0..2]
  BY DEF Init, RequestStatus
<1>5. row \in [Request -> Row]
  <2>1. NoRow \in Row
    BY DEF NoRow, Row
  <2> QED
    BY <2>1 DEF Init
<1>6. approval \in [Request -> [Level -> Approval]]
  <2>1. NoApproval \in Approval
    BY DEF NoApproval, Approval, ApprovalStatus
  <2> QED
    BY <2>1 DEF Init
<1>7. balance \in [Account -> Balance]
  BY NewRowType DEF Init
<1> QED
  BY <1>1, <1>2, <1>3, <1>4, <1>5, <1>6, <1>7 DEF TypeOK

LEMMA ChainType ==
  ASSUME TypeOK, NEW e \in Employee, NEW l \in Level
  PROVE  Chain(e)[l] \in Employee \cup {NoEmployee}
<1>1. \A x \in Employee : job[x][today].supervisor \in Employee \cup {NoEmployee}
  BY DEF TypeOK, Job
<1>2. \A x \in Employee \cup {NoEmployee} : Supervisor(x) \in Employee \cup {NoEmployee}
  BY <1>1 DEF Supervisor
<1> QED
  BY <1>2 DEF Chain

(* Giving days back or moving them keeps a balance row well formed. *)
LEMMA ReleaseType ==
  ASSUME TypeOK, NEW r \in Request, NEW p \in Int, NEW n \in Int, ReleaseBalance(r, BalanceOf(r), p, n)
  PROVE  balance' \in [Account -> Balance]
<1> DEFINE a == AccountOf(r)
           b == [balance[a] EXCEPT !.pending = @ + p, !.used = @ + n]
<1>1. CASE UsesBalance(r) /\ a \in Account
  <2>1. balance[a] \in Balance
    BY <1>1 DEF TypeOK
  <2>2. b.pending = balance[a].pending + p /\ b.used = balance[a].used + n
    <3> HIDE DEF a
    <3> QED BY <2>1 DEF Balance
  <2>3. RowAccepted(b)
    BY <1>1 DEF ReleaseBalance, BalanceOf
  <2>4. balance[a].pending + p \in Nat /\ balance[a].used + n \in Nat
    <3> HIDE DEF a, b
    <3> QED BY <2>1, <2>2, <2>3 DEF RowAccepted, Balance
  <2>5. b \in Balance
    <3> HIDE DEF a
    <3> QED BY <2>1, <2>4 DEF Balance
  <2>6. balance' = [balance EXCEPT ![a] = b]
    BY <1>1 DEF ReleaseBalance, BalanceOf
  <2> QED
    BY <2>5, <2>6 DEF TypeOK
<1>2. CASE ~(UsesBalance(r) /\ a \in Account)
  BY <1>2 DEF ReleaseBalance, BalanceOf, TypeOK
<1> QED
  BY <1>1, <1>2

LEMMA DecidedType ==
  ASSUME TypeOK, NEW u \in User, NEW r \in Request, NEW d \in {"approved", "rejected"}
  PROVE  Decided(r, u, d) \in [Level -> Approval]
<1>1. \A c \in Approval : [c EXCEPT !.status = d, !.by = u] \in Approval
  BY DEF Approval, ApprovalStatus
<1>2. approval[r] \in [Level -> Approval]
  BY DEF TypeOK
<1> QED
  BY <1>1, <1>2 DEF Decided

LEMMA SkipType ==
  ASSUME NEW rows \in [Level -> Approval]
  PROVE  SkipRemaining(rows) \in [Level -> Approval]
<1>1. \A l \in Level : [rows[l] EXCEPT !.status = "skipped"] \in Approval
  BY DEF Approval, ApprovalStatus
<1> QED
  BY <1>1 DEF SkipRemaining

LEMMA SubmitType ==
  ASSUME TypeOK, NEW u \in User, NEW r \in Request, NEW t \in LeaveType, NEW s \in Day, NEW f \in Day,
         NEW k \in Key \cup {NoKey}, NEW p \in Policy, Submit(u, r, t, s, f, k, p)
  PROVE  TypeOK'
<1> DEFINE e == EmployeeOf[u]
           a == <<e, t, YearOf(s)>>
           days == WorkingDays(s, f)
           n == Cardinality(days)
<1>1. e \in Employee
  BY ConstantsAssumption DEF Submit, KeyTaken, BalanceCovers, StoreRequest
<1>2. days \subseteq Day /\ n \in Nat
  BY WorkingDaysFacts
<1>3. leaveType[t].levels \in Level
  BY DEF TypeOK, Config
<1>4. status' \in [Request -> RequestStatus]
  BY DEF Submit, KeyTaken, BalanceCovers, StoreRequest, TypeOK, RequestStatus
<1>5. row' \in [Request -> Row]
  <2>1. [employee |-> e, type |-> t, start |-> s, end |-> f, days |-> days,
         levels |-> leaveType[t].levels, key |-> k] \in Row
    BY <1>1, <1>2, <1>3, ConstantsAssumption DEF Row, Day, Level
  <2> QED
    BY <2>1 DEF Submit, KeyTaken, BalanceCovers, StoreRequest, TypeOK
<1>6. level' \in [Request -> 0..2]
  BY DEF Submit, KeyTaken, BalanceCovers, StoreRequest, TypeOK
<1>7. approval' \in [Request -> [Level -> Approval]]
  <2>1. \A l \in Level : [status |-> "pending", approver |-> Chain(e)[l], by |-> NoUser] \in Approval
    BY <1>1, ChainType DEF Approval, ApprovalStatus
  <2>2. NoApproval \in Approval
    BY DEF NoApproval, Approval, ApprovalStatus
  <2>3. [l \in Level |-> IF l <= leaveType[t].levels
                          THEN [status |-> "pending", approver |-> Chain(e)[l], by |-> NoUser]
                          ELSE NoApproval] \in [Level -> Approval]
    BY <2>1, <2>2
  <2> QED
    BY <2>3 DEF Submit, KeyTaken, BalanceCovers, StoreRequest, TypeOK
<1>8. balance' \in [Account -> Balance]
  <2>1. CASE t \in BalanceType
    <3>1. a \in Account
      BY <1>1, <2>1 DEF Account, Year
    <3>2. GetBalance(a, p) \in Balance
      BY <3>1, GetBalanceType
    <3>3. [GetBalance(a, p) EXCEPT !.pending = @ + n] \in Balance
      <4> HIDE DEF a, n
      <4> QED BY <1>2, <3>2 DEF Balance
    <3> QED
      BY <2>1, <3>3 DEF Submit, KeyTaken, BalanceCovers, StoreRequest, TypeOK
  <2> QED
    BY <2>1 DEF Submit, KeyTaken, BalanceCovers, StoreRequest, TypeOK
<1> QED
  BY <1>4, <1>5, <1>6, <1>7, <1>8 DEF Submit, KeyTaken, BalanceCovers, StoreRequest, TypeOK

LEMMA DecideType ==
  ASSUME TypeOK, NEW u \in User, NEW r \in Request,
         Reject(u, r) \/ ApproveLevel(u, r) \/ ApproveFinal(u, r) \/ Cancel(u, r)
  PROVE  TypeOK'
<1>1. Days(r) \in Nat /\ -Days(r) \in Int /\ Days(r) \in Int /\ 0 \in Int
  BY DaysIsNat
<1>2. CASE Reject(u, r)
  <2>1. balance' \in [Account -> Balance]
    BY <1>1, <1>2, ReleaseType DEF Reject, StoreRejection
  <2>2. approval' \in [Request -> [Level -> Approval]]
    BY <1>2, DecidedType, SkipType DEF Reject, StoreRejection, TypeOK
  <2> QED
    BY <1>2, <2>1, <2>2 DEF Reject, StoreRejection, TypeOK, RequestStatus
<1>3. CASE ApproveLevel(u, r)
  <2>1. approval' \in [Request -> [Level -> Approval]]
    BY <1>3, DecidedType DEF ApproveLevel, StoreLevelApproval, TypeOK
  <2>2. level[r] + 1 \in 0..2
    BY <1>3 DEF ApproveLevel, StoreLevelApproval, TypeOK, Row
  <2>3. level' \in [Request -> 0..2]
    BY <1>3, <2>2 DEF ApproveLevel, StoreLevelApproval, TypeOK
  <2> QED
    BY <1>3, <2>1, <2>3 DEF ApproveLevel, StoreLevelApproval, TypeOK
<1>4. CASE ApproveFinal(u, r)
  <2>1. balance' \in [Account -> Balance]
    BY <1>1, <1>4, ReleaseType DEF ApproveFinal, StoreApproval
  <2>2. approval' \in [Request -> [Level -> Approval]]
    BY <1>4, DecidedType DEF ApproveFinal, StoreApproval, TypeOK
  <2> QED
    BY <1>4, <2>1, <2>2 DEF ApproveFinal, StoreApproval, TypeOK, RequestStatus
<1>5. CASE Cancel(u, r)
  <2>1. balance' \in [Account -> Balance]
    BY <1>1, <1>5, ReleaseType DEF Cancel, MayCancel, StoreCancel
  <2>2. approval' \in [Request -> [Level -> Approval]]
    BY <1>5, SkipType DEF Cancel, MayCancel, StoreCancel, TypeOK
  <2> QED
    BY <1>5, <2>1, <2>2 DEF Cancel, MayCancel, StoreCancel, TypeOK, RequestStatus
<1> QED
  BY <1>2, <1>3, <1>4, <1>5

LEMMA BalanceStepType == TypeOK /\ BalanceStep => TypeOK'
<1> SUFFICES ASSUME TypeOK, BalanceStep PROVE TypeOK'
  OBVIOUS
<1> USE DEF TypeOK
<1>1. CASE \E u \in User, t \in LeaveType, s, f \in Day, p \in Policy : Validate(u, t, s, f, p)
  <2> PICK u \in User, t \in LeaveType, s \in Day, f \in Day, p \in Policy : Validate(u, t, s, f, p)
    BY <1>1
  <2> DEFINE a == <<EmployeeOf[u], t, YearOf(s)>>
  <2>1. a \in Account
    BY ConstantsAssumption DEF Validate, StoreBalance, Account, Year
  <2>2. GetBalance(a, p) \in Balance
    BY <2>1, GetBalanceType
  <2> QED
    BY <2>2 DEF Validate, StoreBalance
<1>2. CASE \E e \in Employee, y \in Year, p \in [BalanceType -> Policy] : ReadBalances(e, y, p)
  <2> PICK e \in Employee, y \in Year, p \in [BalanceType -> Policy] : ReadBalances(e, y, p)
    BY <1>2
  <2>1. \A a \in Account : GetBalance(a, p[a[2]]) \in Balance
    BY GetBalanceType DEF Account
  <2> QED
    BY <2>1 DEF ReadBalances
<1>3. CASE \E e \in Employee, t \in BalanceType, y \in Year, delta \in Delta, p \in Policy :
             AdjustBalance(e, t, y, delta, p)
  <2> PICK e \in Employee, t \in BalanceType, y \in Year, delta \in Delta, p \in Policy :
             AdjustBalance(e, t, y, delta, p)
    BY <1>3
  <2> DEFINE b == GetBalance(<<e, t, y>>, p)
  <2>1. <<e, t, y>> \in Account
    BY DEF Account
  <2>2. b \in Balance /\ delta \in Int
    BY <2>1, GetBalanceType, ConstantsAssumption
  <2>3. \A c \in Balance, n \in Int : [c EXCEPT !.adjusted = n] \in Balance
    BY DEF Balance
  <2>4. b.adjusted + delta \in Int
    BY <2>2 DEF Balance
  <2>5. [b EXCEPT !.adjusted = @ + delta] \in Balance
    BY <2>2, <2>3, <2>4
  <2> QED
    BY <2>5 DEF AdjustBalance, MayAdjust, StoreBalance
<1>4. CASE \E asOf \in 1..today, chunk \in SUBSET Employee :
             \E base, target \in [Employee \X BalanceType -> Policy] : Accrue(asOf, chunk, base, target)
  <2> PICK asOf \in 1..today, chunk \in SUBSET Employee,
           base \in [Employee \X BalanceType -> Policy], target \in [Employee \X BalanceType -> Policy] :
             Accrue(asOf, chunk, base, target)
    BY <1>4
  <2>1. \A a \in Account :
          Accrued(balance[a], a[3], Previous(a), base[<<a[1], a[2]>>], target[<<a[1], a[2]>>]) \in Balance
    <3> TAKE a \in Account
    <3>1. <<a[1], a[2]>> \in Employee \X BalanceType /\ a[3] \in Year
      BY DEF Account
    <3>2. Previous(a) \in Balance
      BY PreviousType
    <3> QED
      BY <3>1, <3>2, AccruedType
  <2> QED
    BY <2>1 DEF Accrue
<1>5. CASE \E asOf \in 1..today, chunk \in SUBSET Employee : ExpireCarryOver(asOf, chunk)
  <2> PICK asOf \in 1..today, chunk \in SUBSET Employee : ExpireCarryOver(asOf, chunk)
    BY <1>5
  <2>1. asOf \in Nat
    BY DEF Day
  <2>2. \A a \in Account : Expired(balance[a], asOf) \in Balance
    BY <2>1, ExpiredType
  <2> QED
    BY <2>2 DEF ExpireCarryOver
<1> QED
  BY <1>1, <1>2, <1>3, <1>4, <1>5 DEF BalanceStep

LEMMA ConfigStepType == TypeOK /\ ConfigStep => TypeOK'
<1> SUFFICES ASSUME TypeOK, ConfigStep PROVE TypeOK'
  OBVIOUS
<1> USE DEF TypeOK
<1>1. CASE \E t \in LeaveType, config \in LeaveTypeConfig : UpdateLeaveType(t, config)
  BY <1>1, ConstantsAssumption DEF UpdateLeaveType
<1>2. CASE \E d \in Holiday : CreateHoliday(d) \/ DeleteHoliday(d)
  BY <1>2, ConstantsAssumption DEF CreateHoliday, DeleteHoliday
<1>3. CASE \E c \in JobChange : ChangeJob(c)
  <2> PICK c \in JobChange : ChangeJob(c)
    BY <1>3
  <2>1. c.employee \in Employee /\ c.job \in Job
    BY ConstantsAssumption
  <2>2. [d \in Day |-> IF d \in c.from..c.to THEN c.job ELSE job[c.employee][d]] \in [Day -> Job]
    BY <2>1
  <2> QED
    BY <2>2 DEF ChangeJob
<1>4. CASE NextDay
  BY <1>4, ConstantsAssumption DEF NextDay, Day
<1> QED
  BY <1>1, <1>2, <1>3, <1>4 DEF ConfigStep

LEMMA TypeStep == TypeOK /\ [Next]_vars => TypeOK'
<1> SUFFICES ASSUME TypeOK, [Next]_vars PROVE TypeOK'
  OBVIOUS
<1>1. CASE RequestStep
  BY <1>1, SubmitType, DecideType DEF RequestStep
<1>2. CASE BalanceStep
  BY <1>2, BalanceStepType
<1>3. CASE ConfigStep
  BY <1>3, ConfigStepType
<1>4. CASE UNCHANGED vars
  BY <1>4 DEF vars, TypeOK
<1> QED
  BY <1>1, <1>2, <1>3, <1>4 DEF Next

(* Every column the services write keeps its type: no call stores a negative bucket, a *)
(* level outside the chain or a status the schema does not know.                       *)
THEOREM TypeCorrect == Spec => []TypeOK
<1>1. Init => TypeOK
  BY TypeInit
<1>2. TypeOK /\ [Next]_vars => TypeOK'
  BY TypeStep
<1> QED
  BY <1>1, <1>2, PTL DEF Spec


-----------------------------------------------------------------------------
(* The days that requests hold *)

LEMMA HeldFinite ==
  ASSUME TypeOK, NEW a, NEW st
  PROVE  /\ DaysHeld(a, st) \subseteq Day /\ IsFiniteSet(DaysHeld(a, st))
         /\ Cardinality(DaysHeld(a, st)) \in Nat
<1>1. DaysHeld(a, st) \subseteq Day
  BY DEF DaysHeld
<1> QED
  BY <1>1, DaysFinite

LEMMA RowDaysFinite ==
  ASSUME TypeOK, NEW r \in Request
  PROVE  /\ row[r].days \subseteq Day /\ IsFiniteSet(row[r].days)
         /\ Cardinality(row[r].days) \in Nat
<1>1. row[r].days \subseteq Day
  BY DEF TypeOK, Row
<1> QED
  BY <1>1, DaysFinite

(* Two active requests of one person have no day in common. *)
LEMMA DaysApart ==
  ASSUME TypeOK, RequestRowsOK, RequestsDisjoint, NEW q \in Request, NEW r \in Request, q # r,
         status[q] \in Active, status[r] \in Active, row[q].employee = row[r].employee
  PROVE  row[q].days \cap row[r].days = {}
<1>1. status[q] # "none" /\ status[r] # "none"
  BY DEF Active
<1>2. /\ row[q].days \subseteq row[q].start..row[q].end
      /\ row[r].days \subseteq row[r].start..row[r].end
      /\ row[q].start \in Int /\ row[q].end \in Int /\ row[r].start \in Int /\ row[r].end \in Int
  BY <1>1 DEF RequestRowsOK, Day
<1>3. ~(row[q].start <= row[r].end /\ row[r].start <= row[q].end)
  BY DEF RequestsDisjoint, RangesMeet
<1>4. \A d \in Int : ~(d \in row[q].start..row[q].end /\ d \in row[r].start..row[r].end)
  BY <1>2, <1>3
<1> QED
  BY <1>2, <1>4

(* A request that leaves an active status takes its own days with it, no other's. *)
LEMMA DaysLeave ==
  ASSUME TypeOK, RequestRowsOK, RequestsDisjoint,
         NEW r \in Request, NEW st \in Active, NEW new \in RequestStatus \ {st}, status[r] = st,
         status' = [status EXCEPT ![r] = new], row' = row, NEW a \in Account
  PROVE  Cardinality(DaysHeld(a, st)') =
           Cardinality(DaysHeld(a, st)) - (IF a = AccountOf(r) THEN Days(r) ELSE 0)
<1> USE DEF TypeOK
<1>1. CASE a = AccountOf(r)
  <2>1. a[1] = row[r].employee /\ a[2] = row[r].type /\ a[3] = YearOf(row[r].start)
    BY <1>1 DEF AccountOf
  <2>2. row[r].days \subseteq DaysHeld(a, st)
    BY <2>1, RowDaysFinite DEF DaysHeld
  <2>3. DaysHeld(a, st)' = DaysHeld(a, st) \ row[r].days
    <3>1. ASSUME NEW d \in DaysHeld(a, st)' PROVE d \in DaysHeld(a, st) /\ d \notin row[r].days
      <4>1. PICK q \in Request : /\ status'[q] = st /\ row[q].employee = a[1] /\ row[q].type = a[2]
                                 /\ YearOf(row[q].start) = a[3] /\ d \in row[q].days
        BY <3>1 DEF DaysHeld
      <4>2. q # r /\ status[q] = st
        BY <4>1
      <4>3. row[q].days \cap row[r].days = {}
        BY <2>1, <4>1, <4>2, DaysApart
      <4> QED
        BY <3>1, <4>1, <4>2, <4>3 DEF DaysHeld
    <3>2. ASSUME NEW d \in DaysHeld(a, st), d \notin row[r].days PROVE d \in DaysHeld(a, st)'
      <4>1. PICK q \in Request : /\ status[q] = st /\ row[q].employee = a[1] /\ row[q].type = a[2]
                                 /\ YearOf(row[q].start) = a[3] /\ d \in row[q].days
        BY <3>2 DEF DaysHeld
      <4>2. q # r /\ status'[q] = st
        BY <3>2, <4>1
      <4> QED
        BY <3>2, <4>1, <4>2 DEF DaysHeld
    <3> QED
      BY <3>1, <3>2
  <2>4. Cardinality(DaysHeld(a, st) \ row[r].days) =
          Cardinality(DaysHeld(a, st)) - Cardinality(DaysHeld(a, st) \cap row[r].days)
    BY HeldFinite, FS_Difference
  <2>5. DaysHeld(a, st) \cap row[r].days = row[r].days
    BY <2>2
  <2> QED
    BY <1>1, <2>3, <2>4, <2>5 DEF Days
<1>2. CASE a # AccountOf(r)
  <2>1. ~(row[r].employee = a[1] /\ row[r].type = a[2] /\ YearOf(row[r].start) = a[3])
    BY <1>2 DEF AccountOf, Account
  <2>2. DaysHeld(a, st)' = DaysHeld(a, st)
    BY <2>1 DEF DaysHeld
  <2> QED
    BY <1>2, <2>2, HeldFinite
<1> QED
  BY <1>1, <1>2

(* A request that enters an active status adds its own days and shares none of them. *)
LEMMA DaysEnter ==
  ASSUME TypeOK, TypeOK', RequestRowsOK', RequestsDisjoint',
         NEW r \in Request, NEW st \in Active, status[r] # st, status'[r] = st,
         \A q \in Request \ {r} : status'[q] = status[q] /\ row'[q] = row[q],
         NEW a \in Account
  PROVE  Cardinality(DaysHeld(a, st)') =
           Cardinality(DaysHeld(a, st)) + (IF a = AccountOf(r)' THEN Days(r)' ELSE 0)
<1>1. CASE a = AccountOf(r)'
  <2>1. a[1] = row'[r].employee /\ a[2] = row'[r].type /\ a[3] = YearOf(row'[r].start)
    BY <1>1 DEF AccountOf
  <2>2. row'[r].days \subseteq Day /\ IsFiniteSet(row'[r].days)
    <3>1. row'[r].days \subseteq Day
      BY DEF TypeOK, Row
    <3> QED
      BY <3>1, DaysFinite
  <2>3. DaysHeld(a, st)' = DaysHeld(a, st) \cup row'[r].days
    <3>1. ASSUME NEW d \in DaysHeld(a, st)' PROVE d \in DaysHeld(a, st) \/ d \in row'[r].days
      BY <3>1 DEF DaysHeld
    <3>2. ASSUME NEW d \in DaysHeld(a, st) PROVE d \in DaysHeld(a, st)'
      <4>1. PICK q \in Request : /\ status[q] = st /\ row[q].employee = a[1] /\ row[q].type = a[2]
                                 /\ YearOf(row[q].start) = a[3] /\ d \in row[q].days
        BY <3>2 DEF DaysHeld
      <4>2. q # r /\ status'[q] = st /\ row'[q] = row[q]
        BY <4>1
      <4> QED
        BY <3>2, <4>1, <4>2 DEF DaysHeld
    <3>3. ASSUME NEW d \in row'[r].days PROVE d \in DaysHeld(a, st)'
      BY <2>1, <2>2, <3>3 DEF DaysHeld
    <3> QED
      BY <3>1, <3>2, <3>3
  <2>4. DaysHeld(a, st) \cap row'[r].days = {}
    <3> SUFFICES ASSUME NEW d \in DaysHeld(a, st), d \in row'[r].days PROVE FALSE
      OBVIOUS
    <3>1. PICK q \in Request : status[q] = st /\ row[q].employee = a[1] /\ d \in row[q].days
      BY DEF DaysHeld
    <3>2. q # r /\ status'[q] = st /\ row'[q] = row[q]
      BY <3>1
    <3>3. RangesMeet(row'[q].start, row'[q].end, row'[r].start, row'[r].end)
      <4>1. d \in row'[q].start..row'[q].end /\ d \in row'[r].start..row'[r].end
        BY <3>1, <3>2 DEF RequestRowsOK, Active
      <4>2. d \in Int /\ row'[q].start \in Int /\ row'[q].end \in Int
              /\ row'[r].start \in Int /\ row'[r].end \in Int
        BY <2>2, <3>2 DEF RequestRowsOK, Active, Day
      <4> QED
        BY <4>1, <4>2 DEF RangesMeet
    <3> QED
      BY <2>1, <3>1, <3>2, <3>3 DEF RequestsDisjoint
  <2>5. Cardinality(DaysHeld(a, st) \cup row'[r].days) =
          Cardinality(DaysHeld(a, st)) + Cardinality(row'[r].days)
            - Cardinality(DaysHeld(a, st) \cap row'[r].days)
    BY <2>2, HeldFinite, FS_Union
  <2>6. Cardinality(row'[r].days) \in Nat
    BY <2>2, FS_CardinalityType
  <2>7. Cardinality(DaysHeld(a, st) \cup row'[r].days) =
          Cardinality(DaysHeld(a, st)) + Cardinality(row'[r].days)
    <3>1. Cardinality(DaysHeld(a, st) \cap row'[r].days) = 0
      BY <2>4, FS_EmptySet
    <3>2. Cardinality(DaysHeld(a, st)) \in Nat
      BY HeldFinite
    <3> QED
      BY <2>5, <2>6, <3>1, <3>2
  <2>8. Days(r)' = Cardinality(row'[r].days)
    BY DEF Days
  <2> QED
    BY <1>1, <2>3, <2>7, <2>8
<1>2. CASE a # AccountOf(r)'
  <2>1. ~(row'[r].employee = a[1] /\ row'[r].type = a[2] /\ YearOf(row'[r].start) = a[3])
    BY <1>2 DEF AccountOf, Account
  <2>2. DaysHeld(a, st)' = DaysHeld(a, st)
    BY <2>1 DEF DaysHeld
  <2> QED
    BY <1>2, <2>2, HeldFinite
<1> QED
  BY <1>1, <1>2

(* No other status notices. *)
LEMMA DaysElsewhere ==
  ASSUME TypeOK, NEW r \in Request, NEW st, status[r] # st, status'[r] # st,
         \A q \in Request \ {r} : status'[q] = status[q] /\ row'[q] = row[q],
         NEW a \in Account
  PROVE  DaysHeld(a, st)' = DaysHeld(a, st)
BY DEF DaysHeld

-----------------------------------------------------------------------------
(* The effect of _release_balance on every balance row *)

LEMMA ReleaseEffect ==
  ASSUME TypeOK, NEW r \in Request, NEW p \in Int, NEW n \in Int, ReleaseBalance(r, BalanceOf(r), p, n), NEW a \in Account
  PROVE  /\ balance'[a].pending = balance[a].pending + (IF a = AccountOf(r) THEN p ELSE 0)
         /\ balance'[a].used = balance[a].used + (IF a = AccountOf(r) THEN n ELSE 0)
         /\ balance'[a].entitled = balance[a].entitled /\ balance'[a].carried = balance[a].carried
         /\ balance'[a].adjusted = balance[a].adjusted /\ balance'[a].expired = balance[a].expired
         /\ balance'[a].open = balance[a].open /\ balance'[a].expiredAt = balance[a].expiredAt
         /\ a # AccountOf(r) => balance'[a] = balance[a]
<1>1. balance[a] \in Balance
  BY DEF TypeOK
<1>2. CASE a = AccountOf(r)
  <2>1. UsesBalance(r)
    BY <1>2 DEF AccountOf, Account, UsesBalance
  <2>2. balance'[a] = [balance[a] EXCEPT !.pending = @ + p, !.used = @ + n]
    BY <1>2, <2>1 DEF ReleaseBalance, BalanceOf, TypeOK
  <2> QED
    BY <1>1, <1>2, <2>2 DEF Balance
<1>3. CASE a # AccountOf(r)
  <2>1. balance'[a] = balance[a]
    BY <1>3 DEF ReleaseBalance, BalanceOf, TypeOK
  <2> QED
    BY <1>1, <1>3, <2>1 DEF Balance
<1> QED
  BY <1>2, <1>3

-----------------------------------------------------------------------------
(* The approval chain *)

(* A decision on the current level leaves the others as they stand. *)
LEMMA DecidedLevels ==
  ASSUME TypeOK, NEW u \in User, NEW r \in Request, NEW d \in {"approved", "rejected"}, NEW l \in Level
  PROVE  Decided(r, u, d)[l].status = IF l = level[r] THEN d ELSE approval[r][l].status
<1>1. approval[r] \in [Level -> Approval] /\ approval[r][l] \in Approval
  BY DEF TypeOK
<1>2. \A c \in Approval : [c EXCEPT !.status = d, !.by = u].status = d
  BY DEF Approval
<1> QED
  BY <1>1, <1>2 DEF Decided

LEMMA SkippedLevels ==
  ASSUME NEW rows \in [Level -> Approval], NEW l \in Level
  PROVE  SkipRemaining(rows)[l].status = IF rows[l].status = "pending" THEN "skipped" ELSE rows[l].status
BY DEF SkipRemaining, Approval

LEMMA ChainUnmoved ==
  ASSUME TypeOK, RequestRowsOK, ApprovalChain, NEW q \in Request,
         status'[q] = status[q], row'[q] = row[q], level'[q] = level[q], approval'[q] = approval[q]
  PROVE  /\ status'[q] # "none" => level'[q] \in 1..row'[q].levels
         /\ status'[q] = "pending" => ChainOf(q, "approved", "pending", "pending")'
         /\ status'[q] = "approved" =>
              level'[q] = row'[q].levels /\ ChainOf(q, "approved", "approved", "approved")'
         /\ status'[q] = "rejected" => ChainOf(q, "approved", "rejected", "skipped")'
         /\ status'[q] = "cancelled" => \/ ChainOf(q, "approved", "skipped", "skipped")'
                                        \/ ChainOf(q, "approved", "approved", "approved")'
BY DEF ApprovalChain, ChainOf

LEMMA SubmitChain ==
  ASSUME TypeOK, RequestRowsOK, ApprovalChain,
         NEW u \in User, NEW r \in Request, NEW t \in LeaveType, NEW s \in Day, NEW f \in Day,
         NEW k \in Key \cup {NoKey}, NEW p \in Policy, Submit(u, r, t, s, f, k, p)
  PROVE  ApprovalChain'
<1> USE DEF TypeOK
<1>1. leaveType[t].levels \in Level
  BY DEF Config
<1>2. status'[r] = "pending" /\ level'[r] = 1 /\ row'[r].levels = leaveType[t].levels
  BY DEF Submit, KeyTaken, BalanceCovers, StoreRequest
<1>3. \A l \in 1..leaveType[t].levels : approval'[r][l].status = "pending"
  BY <1>1 DEF Submit, KeyTaken, BalanceCovers, StoreRequest, Level
<1>4. ChainOf(r, "approved", "pending", "pending")'
  BY <1>1, <1>2, <1>3 DEF ChainOf, Level
<1>5. level'[r] \in 1..row'[r].levels
  BY <1>1, <1>2 DEF Level
<1>6. \A q \in Request \ {r} : /\ status'[q] = status[q] /\ row'[q] = row[q]
                              /\ level'[q] = level[q] /\ approval'[q] = approval[q]
  BY DEF Submit, KeyTaken, BalanceCovers, StoreRequest
<1> QED
  BY <1>2, <1>4, <1>5, <1>6, ChainUnmoved DEF ApprovalChain

LEMMA DecideChain ==
  ASSUME TypeOK, RequestRowsOK, ApprovalChain, NEW u \in User, NEW r \in Request,
         Reject(u, r) \/ ApproveLevel(u, r) \/ ApproveFinal(u, r) \/ Cancel(u, r)
  PROVE  ApprovalChain'
<1> USE DEF TypeOK
<1>1. row' = row /\ \A q \in Request \ {r} : /\ status'[q] = status[q] /\ level'[q] = level[q]
                                            /\ approval'[q] = approval[q]
  BY DEF Reject, StoreRejection, ApproveLevel, StoreLevelApproval, ApproveFinal, StoreApproval,
         Cancel, MayCancel, StoreCancel
<1>2. status[r] # "none" /\ level[r] \in 1..row[r].levels /\ row[r].levels \in Level
  BY DEF Reject, StoreRejection, ApproveLevel, StoreLevelApproval, ApproveFinal, StoreApproval,
         Cancel, MayCancel, StoreCancel, MayDecide, CanCancel, ApprovalChain, RequestRowsOK
<1>3. 1..row[r].levels \subseteq Level
  BY <1>2 DEF Level
<1>4. approval[r] \in [Level -> Approval]
  OBVIOUS
<1>5. CASE Reject(u, r)
  <2>1. ChainOf(r, "approved", "pending", "pending")
    BY <1>5 DEF Reject, StoreRejection, MayDecide, ApprovalChain
  <2>2. Decided(r, u, "rejected") \in [Level -> Approval]
    BY DecidedType
  <2>3. status'[r] = "rejected" /\ level'[r] = level[r]
        /\ approval'[r] = SkipRemaining(Decided(r, u, "rejected"))
    BY <1>5 DEF Reject, StoreRejection
  <2>4. \A l \in 1..row[r].levels :
          approval'[r][l].status = (IF l < level[r] THEN "approved" ELSE IF l = level[r] THEN "rejected" ELSE "skipped")
    <3> TAKE l \in 1..row[r].levels
    <3> DEFINE decided == Decided(r, u, "rejected")
    <3>1. l \in Level /\ l \in Int /\ level[r] \in Int
      BY <1>2, <1>3 DEF Level
    <3>2. decided[l].status = IF l = level[r] THEN "rejected" ELSE approval[r][l].status
      BY <3>1, DecidedLevels
    <3>3. approval'[r][l].status = IF decided[l].status = "pending" THEN "skipped" ELSE decided[l].status
      BY <2>2, <2>3, <3>1, SkippedLevels
    <3>4. approval[r][l].status = (IF l < level[r] THEN "approved" ELSE "pending")
      BY <2>1 DEF ChainOf
    <3> HIDE DEF decided
    <3> QED
      BY <3>1, <3>2, <3>3, <3>4
  <2>5. ChainOf(r, "approved", "rejected", "skipped")'
    BY <1>1, <2>3, <2>4 DEF ChainOf
  <2> QED
    BY <1>1, <1>2, <2>3, <2>5, ChainUnmoved DEF ApprovalChain
<1>6. CASE ApproveLevel(u, r)
  <2>1. status[r] = "pending" /\ ChainOf(r, "approved", "pending", "pending") /\ level[r] < row[r].levels
    BY <1>6 DEF ApproveLevel, StoreLevelApproval, MayDecide, ApprovalChain
  <2>2. status'[r] = "pending" /\ level'[r] = level[r] + 1 /\ approval'[r] = Decided(r, u, "approved")
    BY <1>6, <2>1 DEF ApproveLevel, StoreLevelApproval
  <2>3. \A l \in 1..row[r].levels :
          approval'[r][l].status = (IF l < level[r] + 1 THEN "approved" ELSE "pending")
    BY <1>2, <1>3, <2>1, <2>2, DecidedLevels DEF ChainOf, Level
  <2>4. ChainOf(r, "approved", "pending", "pending")'
    BY <1>1, <2>2, <2>3 DEF ChainOf
  <2>5. level'[r] \in 1..row[r].levels
    BY <1>2, <2>1, <2>2 DEF Level
  <2> QED
    BY <1>1, <2>2, <2>4, <2>5, ChainUnmoved DEF ApprovalChain
<1>7. CASE ApproveFinal(u, r)
  <2>1. ChainOf(r, "approved", "pending", "pending") /\ level[r] >= row[r].levels
    BY <1>7 DEF ApproveFinal, StoreApproval, MayDecide, ApprovalChain
  <2>2. level[r] = row[r].levels
    BY <1>2, <2>1 DEF Level
  <2>3. status'[r] = "approved" /\ level'[r] = level[r] /\ approval'[r] = Decided(r, u, "approved")
    BY <1>7 DEF ApproveFinal, StoreApproval
  <2>4. \A l \in 1..row[r].levels : approval'[r][l].status = "approved"
    BY <1>2, <1>3, <2>1, <2>2, <2>3, DecidedLevels DEF ChainOf, Level
  <2>5. ChainOf(r, "approved", "approved", "approved")'
    BY <1>1, <2>3, <2>4 DEF ChainOf
  <2> QED
    BY <1>1, <1>2, <2>2, <2>3, <2>5, ChainUnmoved DEF ApprovalChain
<1>8. CASE Cancel(u, r)
  <2>1. status'[r] = "cancelled" /\ level'[r] = level[r] /\ approval'[r] = SkipRemaining(approval[r])
    BY <1>8 DEF Cancel, MayCancel, StoreCancel
  <2>2. CASE status[r] = "pending"
    <3>1. ChainOf(r, "approved", "pending", "pending")
      BY <2>2 DEF ApprovalChain
    <3>2. \A l \in 1..row[r].levels : approval'[r][l].status = (IF l < level[r] THEN "approved" ELSE "skipped")
      BY <1>2, <1>3, <1>4, <2>1, <3>1, SkippedLevels DEF ChainOf, Level
    <3>3. ChainOf(r, "approved", "skipped", "skipped")'
      BY <1>1, <2>1, <3>2 DEF ChainOf
    <3> QED
      BY <1>1, <1>2, <2>1, <3>3, ChainUnmoved DEF ApprovalChain
  <2>3. CASE status[r] = "approved"
    <3>1. ChainOf(r, "approved", "approved", "approved")
      BY <2>3 DEF ApprovalChain
    <3>2. \A l \in 1..row[r].levels : approval'[r][l].status = "approved"
      BY <1>2, <1>3, <1>4, <2>1, <3>1, SkippedLevels DEF ChainOf, Level
    <3>3. ChainOf(r, "approved", "approved", "approved")'
      BY <1>1, <2>1, <3>2 DEF ChainOf
    <3> QED
      BY <1>1, <1>2, <2>1, <3>3, ChainUnmoved DEF ApprovalChain
  <2> QED
    BY <1>8, <2>2, <2>3 DEF Cancel, MayCancel, StoreCancel, CanCancel
<1> QED
  BY <1>5, <1>6, <1>7, <1>8

-----------------------------------------------------------------------------
(* One balance row: what every write to it preserves *)

RowInv(b) ==
  /\ ~b.open => b = BalanceRow(0, FALSE)
  /\ ~b.expiredAt => b.expired = 0
  /\ b.used + b.pending <= b.entitled + b.carried + b.adjusted
  /\ Available(b) >= 0 \/ Available(b) >= b.entitled + b.adjusted

SameBuckets(b, c) == c.pending = b.pending /\ c.used = b.used /\ (b.open => c.open)

LEMMA RowInvOfAll ==
  (RequestRowsOK /\ RequestsDisjoint /\ ApprovalChain /\ BucketsMatchRequests /\ (\A a \in Account : RowInv(balance[a]))
   /\ (\A r \in Request : (status[r] \in Active /\ UsesBalance(r)) => balance[AccountOf(r)].open))
  <=> LedgerInv
BY DEF LedgerInv, RowInv, BalanceRowsOK, NoOverspend, CarryOverFloor

LEMMA BalanceFields ==
  ASSUME NEW b \in Balance
  PROVE  /\ b.open \in BOOLEAN /\ b.applied \in BOOLEAN /\ b.expiredAt \in BOOLEAN /\ b.expires \in Nat
         /\ b.entitled \in Nat /\ b.carried \in Nat /\ b.adjusted \in Int
         /\ b.used \in Nat /\ b.pending \in Nat /\ b.expired \in Nat
BY DEF Balance

LEMMA NewRowInv ==
  ASSUME NEW n \in Nat
  PROVE  /\ BalanceRow(n, TRUE) \in Balance /\ BalanceRow(n, TRUE).open
         /\ RowInv(BalanceRow(n, TRUE)) /\ SameBuckets(BalanceRow(0, FALSE), BalanceRow(n, TRUE))
<1>1. BalanceRow(n, TRUE) \in Balance
  BY NewRowType
<1>2. RowInv(BalanceRow(n, TRUE))
  BY DEF RowInv, BalanceRow, Available
<1>3. SameBuckets(BalanceRow(0, FALSE), BalanceRow(n, TRUE)) /\ BalanceRow(n, TRUE).open
  BY DEF SameBuckets, BalanceRow
<1> QED
  BY <1>1, <1>2, <1>3

LEMMA RowInvGet ==
  ASSUME TypeOK, NEW a \in Account, RowInv(balance[a]), NEW p \in Policy
  PROVE  /\ GetBalance(a, p) \in Balance /\ GetBalance(a, p).open
         /\ RowInv(GetBalance(a, p)) /\ SameBuckets(balance[a], GetBalance(a, p))
<1>1. GetBalance(a, p) \in Balance
  BY GetBalanceType
<1>2. p.days \in Nat
  BY ConstantsAssumption
<1>3. CASE balance[a].open
  BY <1>1, <1>3 DEF GetBalance, SameBuckets
<1>4. CASE ~balance[a].open
  <2>1. balance[a] = BalanceRow(0, FALSE) /\ GetBalance(a, p) = BalanceRow(p.days, TRUE)
    BY <1>4 DEF RowInv, GetBalance
  <2> QED
    BY <1>2, <2>1, NewRowInv
<1> QED
  BY <1>3, <1>4

LEMMA RowInvReserve ==
  ASSUME NEW b \in Balance, b.open, RowInv(b), NEW n \in Nat, n <= Available(b)
  PROVE  RowInv([b EXCEPT !.pending = @ + n])
<1> DEFINE c == [b EXCEPT !.pending = @ + n]
<1>1. /\ c.pending = b.pending + n /\ c.open = b.open /\ c.expiredAt = b.expiredAt
      /\ c.entitled = b.entitled /\ c.carried = b.carried /\ c.adjusted = b.adjusted
      /\ c.used = b.used /\ c.expired = b.expired
  BY DEF Balance
<1> HIDE DEF c
<1> SUFFICES RowInv(c)
  BY DEF c
<1> QED
  BY <1>1, BalanceFields DEF RowInv, Available

LEMMA RowInvRelease ==
  ASSUME NEW b \in Balance, b.open, RowInv(b), NEW p \in Int, NEW n \in Int, p + n <= 0
  PROVE  RowInv([b EXCEPT !.pending = @ + p, !.used = @ + n])
<1> DEFINE c == [b EXCEPT !.pending = @ + p, !.used = @ + n]
<1>1. /\ c.pending = b.pending + p /\ c.open = b.open /\ c.expiredAt = b.expiredAt
      /\ c.entitled = b.entitled /\ c.carried = b.carried /\ c.adjusted = b.adjusted
      /\ c.used = b.used + n /\ c.expired = b.expired
  BY DEF Balance
<1> HIDE DEF c
<1> SUFFICES RowInv(c)
  BY DEF c
<1> QED
  BY <1>1, BalanceFields DEF RowInv, Available

LEMMA RowInvAdjust ==
  ASSUME NEW b \in Balance, b.open, RowInv(b), NEW delta \in Int, Available(b) + delta >= 0
  PROVE  RowInv([b EXCEPT !.adjusted = @ + delta]) /\ SameBuckets(b, [b EXCEPT !.adjusted = @ + delta])
<1> DEFINE c == [b EXCEPT !.adjusted = @ + delta]
<1>1. /\ c.pending = b.pending /\ c.open = b.open /\ c.expiredAt = b.expiredAt
      /\ c.entitled = b.entitled /\ c.carried = b.carried /\ c.adjusted = b.adjusted + delta
      /\ c.used = b.used /\ c.expired = b.expired
  BY DEF Balance
<1> HIDE DEF c
<1> SUFFICES RowInv(c) /\ SameBuckets(b, c)
  BY DEF c
<1> QED
  BY <1>1, BalanceFields DEF RowInv, Available, SameBuckets

LEMMA RowInvCarried ==
  ASSUME NEW b \in Balance, b.open, RowInv(b), NEW y, NEW carry \in Nat, NEW base
  PROVE  RowInv(Carried(b, y, carry, base)) /\ SameBuckets(b, Carried(b, y, carry, base))
<1> DEFINE c == Carried(b, y, carry, base)
<1>1. /\ c.pending = b.pending /\ c.open = b.open /\ c.expiredAt = b.expiredAt
      /\ c.entitled = b.entitled /\ c.adjusted = b.adjusted
      /\ c.used = b.used /\ c.expired = b.expired
  BY DEF Balance, Carried, CarriedInto
<1>2. c.carried \in {b.carried, b.carried + carry}
  BY DEF Balance, Carried, CarriedInto
<1> HIDE DEF c
<1> SUFFICES RowInv(c) /\ SameBuckets(b, c)
  BY DEF c
<1> QED
  BY <1>1, <1>2, BalanceFields DEF RowInv, Available, SameBuckets

LEMMA RowInvRaised ==
  ASSUME NEW b \in Balance, b.open, RowInv(b), NEW target, target.days \in Nat
  PROVE  /\ Raised(b, target) \in Balance /\ Raised(b, target).open
         /\ RowInv(Raised(b, target)) /\ SameBuckets(b, Raised(b, target))
<1> DEFINE c == Raised(b, target)
<1>1. /\ c \in Balance /\ c.pending = b.pending /\ c.open = b.open /\ c.expiredAt = b.expiredAt
      /\ c.carried = b.carried /\ c.adjusted = b.adjusted /\ c.used = b.used /\ c.expired = b.expired
  BY DEF Balance, Raised
<1>2. c.entitled >= b.entitled /\ c.entitled \in Nat
  BY DEF Balance, Raised
<1> HIDE DEF c
<1> SUFFICES c \in Balance /\ c.open /\ RowInv(c) /\ SameBuckets(b, c)
  BY DEF c
<1> QED
  BY <1>1, <1>2, BalanceFields DEF RowInv, Available, SameBuckets

LEMMA RowInvAccrued ==
  ASSUME NEW b \in Balance, RowInv(b), NEW y \in Year, NEW q \in Balance,
         NEW base \in Policy, NEW target \in Policy
  PROVE  RowInv(Accrued(b, y, q, base, target)) /\ SameBuckets(b, Accrued(b, y, q, base, target))
<1> DEFINE b0 == IF b.open THEN b ELSE BalanceRow(base.days, TRUE)
<1>1. base.days \in Nat /\ target.days \in Nat
  BY ConstantsAssumption
<1>2. b0 \in Balance /\ b0.open /\ RowInv(b0) /\ SameBuckets(b, b0)
  <2>1. CASE b.open
    BY <2>1 DEF SameBuckets
  <2>2. CASE ~b.open
    <3>1. b = BalanceRow(0, FALSE) /\ b0 = BalanceRow(base.days, TRUE)
      BY <2>2 DEF RowInv
    <3> QED
      BY <1>1, <3>1, NewRowInv
  <2> QED
    BY <2>1, <2>2
<1>3. /\ Raised(b0, target) \in Balance /\ Raised(b0, target).open
      /\ RowInv(Raised(b0, target)) /\ SameBuckets(b0, Raised(b0, target))
  <2> HIDE DEF b0
  <2> QED
    BY <1>1, <1>2, RowInvRaised
<1>4. CarryOver(q, base) \in Nat
  BY CarryOverIsNat
<1>5. /\ RowInv(Accrued(b, y, q, base, target))
      /\ SameBuckets(Raised(b0, target), Accrued(b, y, q, base, target))
  BY <1>2, <1>3, <1>4, RowInvCarried DEF Accrued
<1> QED
  BY <1>2, <1>3, <1>5 DEF SameBuckets

LEMMA ExpiredFields ==
  ASSUME NEW b \in Balance, NEW n
  PROVE  LET c == [b EXCEPT !.expired = n, !.expiredAt = TRUE]
         IN /\ c.pending = b.pending /\ c.open = b.open /\ c.expiredAt = TRUE
            /\ c.entitled = b.entitled /\ c.carried = b.carried /\ c.adjusted = b.adjusted
            /\ c.used = b.used /\ c.expired = n
BY DEF Balance

LEMMA RowInvExpired ==
  ASSUME NEW b \in Balance, RowInv(b), NEW asOf \in Nat
  PROVE  RowInv(Expired(b, asOf)) /\ SameBuckets(b, Expired(b, asOf))
<1>1. CASE b.expires # 0 /\ b.expires <= asOf /\ ~b.expiredAt
  <2>1. b.expired = 0 /\ b.open
    BY <1>1 DEF RowInv, BalanceRow
  <2> DEFINE n == Unused(b)
             c == [b EXCEPT !.expired = @ + n, !.expiredAt = TRUE]
  <2>2. /\ c.pending = b.pending /\ c.open = b.open /\ c.expiredAt = TRUE
        /\ c.entitled = b.entitled /\ c.carried = b.carried /\ c.adjusted = b.adjusted
        /\ c.used = b.used /\ c.expired = b.expired + n
    BY ExpiredFields
  <2>3. n = IF b.carried > b.used + b.pending THEN b.carried - b.used - b.pending ELSE 0
    BY DEF Unused
  <2>4. Expired(b, asOf) = c
    BY <1>1 DEF Expired
  <2>5. RowInv(c) /\ SameBuckets(b, c)
    <3> HIDE DEF c, n
    <3> QED
      BY <2>1, <2>2, <2>3, BalanceFields DEF RowInv, Available, SameBuckets
  <2> QED
    BY <2>4, <2>5
<1>2. CASE ~(b.expires # 0 /\ b.expires <= asOf /\ ~b.expiredAt)
  BY <1>2 DEF Expired, SameBuckets
<1> QED
  BY <1>1, <1>2

-----------------------------------------------------------------------------
(* The steps *)

LEMMA InvParts ==
  ASSUME LedgerInv
  PROVE  /\ RequestRowsOK /\ RequestsDisjoint /\ ApprovalChain /\ BucketsMatchRequests
         /\ \A a \in Account : RowInv(balance[a])
         /\ \A r \in Request : (status[r] \in Active /\ UsesBalance(r)) => balance[AccountOf(r)].open
BY RowInvOfAll

LEMMA SubmitRows ==
  ASSUME TypeOK, RequestRowsOK, RequestsDisjoint,
         NEW u \in User, NEW r \in Request, NEW t \in LeaveType, NEW s \in Day, NEW f \in Day,
         NEW k \in Key \cup {NoKey}, NEW p \in Policy, Submit(u, r, t, s, f, k, p)
  PROVE  RequestRowsOK' /\ RequestsDisjoint'
<1> USE DEF TypeOK
<1>1. row'[r] = [employee |-> EmployeeOf[u], type |-> t, start |-> s, end |-> f, days |-> WorkingDays(s, f),
                 levels |-> leaveType[t].levels, key |-> k]
  BY DEF Submit, KeyTaken, BalanceCovers, StoreRequest
<1>2. EmployeeOf[u] \in Employee
  BY ConstantsAssumption DEF Submit, KeyTaken, BalanceCovers, StoreRequest
<1>3. /\ s <= f /\ f - s + 1 <= MaxSpan /\ YearOf(s) = YearOf(f)
      /\ WorkingDays(s, f) \subseteq s..f /\ leaveType[t].levels \in Level
  BY WorkingDaysFacts DEF Submit, KeyTaken, BalanceCovers, StoreRequest, Admissible, HardRules, CheckRange,
         Config
<1>4. \A q \in Request \ {r} : status'[q] = status[q] /\ row'[q] = row[q]
  BY DEF Submit, KeyTaken, BalanceCovers, StoreRequest
<1>5. RequestRowsOK'
  BY <1>1, <1>2, <1>3, <1>4 DEF RequestRowsOK
<1>6. \A q \in Request \ {r} : (status[q] \in Active /\ row[q].employee = EmployeeOf[u])
         => ~RangesMeet(row[q].start, row[q].end, s, f)
  BY DEF Submit, KeyTaken, BalanceCovers, StoreRequest, Excluded, Active
<1>7. \A q \in Request \ {r} : (status[q] \in Active /\ row[q].employee = EmployeeOf[u])
         => ~RangesMeet(s, f, row[q].start, row[q].end)
  BY <1>6 DEF RangesMeet
<1>8. RequestsDisjoint'
  <2> SUFFICES ASSUME NEW q \in Request, NEW x \in Request, q # x, status'[q] \in Active, status'[x] \in Active,
                      row'[q].employee = row'[x].employee
               PROVE  ~RangesMeet(row'[q].start, row'[q].end, row'[x].start, row'[x].end)
    BY DEF RequestsDisjoint
  <2>1. CASE q = r
    BY <1>1, <1>4, <1>7, <2>1
  <2>2. CASE x = r
    BY <1>1, <1>4, <1>6, <2>2
  <2>3. CASE q # r /\ x # r
    BY <1>4, <2>3 DEF RequestsDisjoint
  <2> QED
    BY <2>1, <2>2, <2>3
<1> QED
  BY <1>5, <1>8

LEMMA SubmitInv ==
  ASSUME TypeOK, LedgerInv, TypeOK',
         NEW u \in User, NEW r \in Request, NEW t \in LeaveType, NEW s \in Day, NEW f \in Day,
         NEW k \in Key \cup {NoKey}, NEW p \in Policy, Submit(u, r, t, s, f, k, p)
  PROVE  LedgerInv'
<1> DEFINE e == EmployeeOf[u]
           a0 == <<e, t, YearOf(s)>>
           n == Cardinality(WorkingDays(s, f))
           b == GetBalance(a0, p)
<1>1. RequestRowsOK' /\ RequestsDisjoint' /\ ApprovalChain'
  BY InvParts, SubmitRows, SubmitChain
<1>2. /\ status[r] = "none" /\ status'[r] = "pending"
      /\ \A q \in Request \ {r} : status'[q] = status[q] /\ row'[q] = row[q]
      /\ row'[r].employee = e /\ row'[r].type = t /\ row'[r].start = s /\ row'[r].days = WorkingDays(s, f)
  BY DEF Submit, KeyTaken, BalanceCovers, StoreRequest, TypeOK
<1>3. AccountOf(r)' = a0 /\ Days(r)' = n /\ n \in Nat
  BY <1>2, WorkingDaysFacts DEF AccountOf, Days
<1>4. e \in Employee
  BY ConstantsAssumption DEF Submit, KeyTaken, BalanceCovers, StoreRequest
<1>5. \A a \in Account : /\ Cardinality(DaysHeld(a, "pending")') =
                             Cardinality(DaysHeld(a, "pending")) + (IF a = a0 THEN n ELSE 0)
                        /\ DaysHeld(a, "approved")' = DaysHeld(a, "approved")
  <2> TAKE a \in Account
  <2>1. "pending" \in Active /\ status[r] # "pending" /\ status[r] # "approved" /\ status'[r] # "approved"
    BY <1>2 DEF Active
  <2>2. Cardinality(DaysHeld(a, "pending")') =
          Cardinality(DaysHeld(a, "pending")) + (IF a = AccountOf(r)' THEN Days(r)' ELSE 0)
    BY <1>1, <1>2, <2>1, DaysEnter
  <2>3. DaysHeld(a, "approved")' = DaysHeld(a, "approved")
    BY <1>2, <2>1, DaysElsewhere
  <2> QED
    BY <1>3, <2>2, <2>3
<1>6. CASE t \in BalanceType
  <2>1. a0 \in Account
    BY <1>4, <1>6 DEF Account, Year
  <2>2. b \in Balance /\ b.open /\ RowInv(b) /\ SameBuckets(balance[a0], b)
    BY <2>1, InvParts, RowInvGet
  <2>3. n <= Available(b)
    BY <1>6 DEF Submit, KeyTaken, BalanceCovers, StoreRequest
  <2>4. RowInv([b EXCEPT !.pending = @ + n])
    BY <1>3, <2>2, <2>3, RowInvReserve
  <2>5. /\ [b EXCEPT !.pending = @ + n].pending = b.pending + n
        /\ [b EXCEPT !.pending = @ + n].used = b.used /\ [b EXCEPT !.pending = @ + n].open
    BY <2>2 DEF Balance
  <2>6. balance' = [balance EXCEPT ![a0] = [b EXCEPT !.pending = @ + n]]
    BY <1>6 DEF Submit, KeyTaken, BalanceCovers, StoreRequest
  <2>7. balance'[a0] = [b EXCEPT !.pending = @ + n] /\ \A a \in Account \ {a0} : balance'[a] = balance[a]
    BY <2>1, <2>6 DEF TypeOK
  <2>8. \A a \in Account : RowInv(balance'[a])
    BY <2>4, <2>7, InvParts
  <2>9. BucketsMatchRequests'
    <3> SUFFICES ASSUME NEW a \in Account
                 PROVE  /\ balance'[a].pending = Cardinality(DaysHeld(a, "pending")')
                        /\ balance'[a].used = Cardinality(DaysHeld(a, "approved")')
      BY DEF BucketsMatchRequests
    <3>1. balance[a].pending = Cardinality(DaysHeld(a, "pending"))
          /\ balance[a].used = Cardinality(DaysHeld(a, "approved"))
      BY InvParts DEF BucketsMatchRequests
    <3>2. CASE a = a0
      <4>1. b.pending = balance[a].pending /\ b.used = balance[a].used
        BY <2>2, <3>2 DEF SameBuckets
      <4> HIDE DEF b, n
      <4> QED
        BY <1>5, <2>5, <2>7, <3>1, <3>2, <4>1
    <3>3. CASE a # a0
      BY <1>5, <2>7, <3>1, <3>3, HeldFinite
    <3> QED
      BY <3>2, <3>3
  <2>10. \A q \in Request : (status'[q] \in Active /\ UsesBalance(q)') => balance'[AccountOf(q)'].open
    <3> TAKE q \in Request
    <3> HAVE status'[q] \in Active /\ UsesBalance(q)'
    <3>1. CASE q = r
      BY <1>3, <2>5, <2>7, <3>1
    <3>2. CASE q # r
      <4>1. status[q] \in Active /\ UsesBalance(q) /\ AccountOf(q)' = AccountOf(q)
        BY <1>2, <3>2 DEF UsesBalance, AccountOf
      <4>2. AccountOf(q) \in Account
        BY <4>1, InvParts DEF RequestRowsOK, UsesBalance, AccountOf, Account, Year, Active
      <4>3. balance[AccountOf(q)].open
        BY <4>1, InvParts
      <4> QED
        BY <2>5, <2>7, <4>1, <4>2, <4>3
    <3> QED
      BY <3>1, <3>2
  <2> QED
    BY <1>1, <2>8, <2>9, <2>10 DEF LedgerInv, RowInv, BalanceRowsOK, NoOverspend, CarryOverFloor
<1>7. CASE t \notin BalanceType
  <2>1. balance' = balance
    BY <1>7 DEF Submit, KeyTaken, BalanceCovers, StoreRequest
  <2>2. \A a \in Account : a # a0
    BY <1>7 DEF Account
  <2>3. BucketsMatchRequests'
    BY <1>5, <2>1, <2>2, InvParts, HeldFinite DEF BucketsMatchRequests
  <2>4. \A q \in Request : (status'[q] \in Active /\ UsesBalance(q)') => balance'[AccountOf(q)'].open
    BY <1>2, <1>7, <2>1, InvParts DEF UsesBalance, AccountOf
  <2> QED
    BY <1>1, <2>1, <2>3, <2>4, InvParts DEF LedgerInv, RowInv, BalanceRowsOK, NoOverspend,
           CarryOverFloor
<1> QED
  BY <1>6, <1>7

(* A request that moves on with its days leaves all balances right. *)
LEMMA MoveInv ==
  ASSUME TypeOK, LedgerInv, TypeOK', ApprovalChain', NEW r \in Request,
         NEW st \in Active, NEW new \in {"approved", "rejected", "cancelled"} \ {st},
         status[r] = st, status' = [status EXCEPT ![r] = new], row' = row,
         NEW p \in Int, NEW n \in Int, ReleaseBalance(r, BalanceOf(r), p, n),
         p = (IF st = "pending" THEN -Days(r) ELSE 0),
         n = (IF st = "approved" THEN -Days(r) ELSE IF new = "approved" THEN Days(r) ELSE 0)
  PROVE  LedgerInv'
<1>0. \A a \in Account :
        /\ balance'[a].pending = balance[a].pending + (IF a = AccountOf(r) THEN p ELSE 0)
        /\ balance'[a].used = balance[a].used + (IF a = AccountOf(r) THEN n ELSE 0)
        /\ a # AccountOf(r) => balance'[a] = balance[a]
  BY ONLY TypeOK, ReleaseBalance(r, BalanceOf(r), p, n), r \in Request, p \in Int, n \in Int, ReleaseEffect
<1>1. /\ RequestRowsOK /\ RequestsDisjoint /\ BucketsMatchRequests
      /\ \A a \in Account : RowInv(balance[a])
  BY InvParts
<1>2. status'[r] = new /\ \A q \in Request \ {r} : status'[q] = status[q] /\ row'[q] = row[q]
  BY DEF TypeOK
<1>3. \A q \in Request : status'[q] \in Active => status[q] \in Active
  BY <1>2
<1>4. RequestRowsOK'
  BY <1>1, <1>2 DEF RequestRowsOK, Active
<1>5. RequestsDisjoint'
  BY <1>1, <1>3 DEF RequestsDisjoint
<1>6. Days(r)' = Days(r) /\ AccountOf(r)' = AccountOf(r) /\ Days(r) \in Nat
  BY DaysIsNat DEF Days, AccountOf
<1>7. BucketsMatchRequests'
  <2> SUFFICES ASSUME NEW a \in Account
               PROVE  /\ balance'[a].pending = Cardinality(DaysHeld(a, "pending")')
                      /\ balance'[a].used = Cardinality(DaysHeld(a, "approved")')
    BY DEF BucketsMatchRequests
  <2> DEFINE here == IF a = AccountOf(r) THEN Days(r) ELSE 0
             hp == Cardinality(DaysHeld(a, "pending"))
             ha == Cardinality(DaysHeld(a, "approved"))
  <2>1. balance[a].pending = hp /\ balance[a].used = ha /\ hp \in Nat /\ ha \in Nat /\ here \in Nat
    BY <1>1, <1>6, HeldFinite DEF BucketsMatchRequests
  <2>2. /\ balance'[a].pending = balance[a].pending + (IF a = AccountOf(r) THEN p ELSE 0)
        /\ balance'[a].used = balance[a].used + (IF a = AccountOf(r) THEN n ELSE 0)
    BY <1>0
  <2>3. Cardinality(DaysHeld(a, st)') = Cardinality(DaysHeld(a, st)) - here
    <3>1. new \in RequestStatus \ {st}
      BY DEF RequestStatus
    <3> QED
      BY <1>1, <3>1, DaysLeave
  <2>4. CASE st = "pending" /\ new = "approved"
    <3>1. Cardinality(DaysHeld(a, "approved")') = ha + here
      <4>1. "approved" \in Active /\ status[r] # "approved" /\ status'[r] = "approved"
        BY <1>2, <2>4 DEF Active
      <4>2. Cardinality(DaysHeld(a, "approved")') =
              ha + (IF a = AccountOf(r)' THEN Days(r)' ELSE 0)
        BY <1>2, <1>4, <1>5, <4>1, DaysEnter
      <4> QED
        BY <1>6, <4>2
    <3>2. Cardinality(DaysHeld(a, "pending")') = hp - here
      BY <2>3, <2>4
    <3> HIDE DEF hp, ha
    <3> QED
      BY <1>6, <2>1, <2>2, <2>4, <3>1, <3>2
  <2>5. CASE st = "pending" /\ new # "approved"
    <3>1. DaysHeld(a, "approved")' = DaysHeld(a, "approved")
      BY <1>2, <2>5, DaysElsewhere
    <3>2. Cardinality(DaysHeld(a, "pending")') = hp - here
      BY <2>3, <2>5
    <3>3. Cardinality(DaysHeld(a, "approved")') = ha
      BY <3>1
    <3> HIDE DEF hp, ha
    <3> QED
      BY <1>6, <2>1, <2>2, <2>5, <3>2, <3>3
  <2>6. CASE st = "approved"
    <3>1. DaysHeld(a, "pending")' = DaysHeld(a, "pending")
      BY <1>2, <2>6, DaysElsewhere
    <3>2. Cardinality(DaysHeld(a, "approved")') = ha - here
      BY <2>3, <2>6
    <3>3. Cardinality(DaysHeld(a, "pending")') = hp
      BY <3>1
    <3> HIDE DEF hp, ha
    <3> QED
      BY <1>6, <2>1, <2>2, <2>6, <3>2, <3>3
  <2> QED
    BY <2>4, <2>5, <2>6 DEF Active
<1>8. \A a \in Account : RowInv(balance'[a])
  <2> TAKE a \in Account
  <2>1. CASE a = AccountOf(r)
    <3>1. UsesBalance(r)
      BY <2>1 DEF AccountOf, Account, UsesBalance
    <3>2. balance' = [balance EXCEPT ![a] = [balance[a] EXCEPT !.pending = @ + p, !.used = @ + n]]
      BY <2>1, <3>1 DEF ReleaseBalance, BalanceOf
    <3>3. balance[a].open /\ balance[a] \in Balance
      BY <2>1, <3>1, InvParts DEF TypeOK
    <3>4. p + n <= 0
      BY <1>6 DEF Active
    <3> QED
      BY <1>1, <3>2, <3>3, <3>4, RowInvRelease DEF TypeOK
  <2>2. CASE a # AccountOf(r)
    BY <1>1, <2>2, ReleaseEffect
  <2> QED
    BY <2>1, <2>2
<1>9. \A q \in Request : (status'[q] \in Active /\ UsesBalance(q)') => balance'[AccountOf(q)'].open
  <2> TAKE q \in Request
  <2> HAVE status'[q] \in Active /\ UsesBalance(q)'
  <2>1. status[q] \in Active /\ UsesBalance(q) /\ AccountOf(q)' = AccountOf(q)
    BY <1>3 DEF UsesBalance, AccountOf
  <2>2. AccountOf(q) \in Account
    BY <1>1, <2>1 DEF RequestRowsOK, UsesBalance, AccountOf, Account, Year, Active
  <2> QED
    BY <2>1, <2>2, InvParts, ReleaseEffect
<1> QED
  BY <1>4, <1>5, <1>7, <1>8, <1>9 DEF LedgerInv, RowInv, BalanceRowsOK, NoOverspend, CarryOverFloor

LEMMA DecideInv ==
  ASSUME TypeOK, LedgerInv, TypeOK', NEW u \in User, NEW r \in Request,
         Reject(u, r) \/ ApproveLevel(u, r) \/ ApproveFinal(u, r) \/ Cancel(u, r)
  PROVE  LedgerInv'
<1>1. ApprovalChain'
  BY InvParts, DecideChain
<1>2. Days(r) \in Nat /\ -Days(r) \in Int /\ Days(r) \in Int /\ 0 \in Int
  BY DaysIsNat
<1>3. "pending" \in Active /\ "approved" \in Active
  BY DEF Active
<1>4. CASE Reject(u, r)
  <2>1. /\ status[r] = "pending" /\ status' = [status EXCEPT ![r] = "rejected"] /\ row' = row
        /\ ReleaseBalance(r, BalanceOf(r), -Days(r), 0)
    BY <1>4 DEF Reject, StoreRejection, MayDecide
  <2>2. "rejected" \in {"approved", "rejected", "cancelled"} \ {"pending"}
    OBVIOUS
  <2> QED
    BY <1>1, <1>2, <1>3, <2>1, <2>2, MoveInv
<1>5. CASE ApproveLevel(u, r)
  <2>1. status' = status /\ row' = row /\ balance' = balance
    BY <1>5 DEF ApproveLevel, StoreLevelApproval
  <2>2. BucketsMatchRequests'
    BY <2>1, InvParts DEF BucketsMatchRequests, DaysHeld
  <2>3. RequestRowsOK' /\ RequestsDisjoint' /\ BalanceRowsOK'
    BY <2>1 DEF LedgerInv, RequestRowsOK, RequestsDisjoint, BalanceRowsOK, AccountOf, UsesBalance
  <2>4. NoOverspend' /\ CarryOverFloor'
    BY <2>1 DEF LedgerInv, NoOverspend, CarryOverFloor
  <2> QED
    BY <1>1, <2>2, <2>3, <2>4 DEF LedgerInv
<1>6. CASE ApproveFinal(u, r)
  BY <1>1, <1>2, <1>3, <1>6, MoveInv DEF ApproveFinal, StoreApproval, MayDecide
<1>7. CASE Cancel(u, r)
  <2>1. CASE status[r] = "pending"
    BY <1>1, <1>2, <1>3, <1>7, <2>1, MoveInv DEF Cancel, MayCancel, StoreCancel
  <2>2. CASE status[r] = "approved"
    BY <1>1, <1>2, <1>3, <1>7, <2>2, MoveInv DEF Cancel, MayCancel, StoreCancel
  <2> QED
    BY <1>7, <2>1, <2>2 DEF Cancel, MayCancel, StoreCancel, CanCancel
<1> QED
  BY <1>4, <1>5, <1>6, <1>7

(* A job chunk, a correction or a read writes balance rows and nothing else. *)
LEMMA BalanceOnlyInv ==
  ASSUME TypeOK, LedgerInv, UNCHANGED <<leaveType, holidays, job, status, row, level, approval>>,
         \A a \in Account : RowInv(balance'[a]) /\ SameBuckets(balance[a], balance'[a])
  PROVE  LedgerInv'
<1>1. RequestRowsOK' /\ RequestsDisjoint' /\ ApprovalChain'
  BY InvParts DEF RequestRowsOK, RequestsDisjoint, ApprovalChain, ChainOf
<1>2. BucketsMatchRequests'
  <2>1. \A a, st : DaysHeld(a, st)' = DaysHeld(a, st)
    BY DEF DaysHeld
  <2> QED
    BY <2>1, InvParts DEF BucketsMatchRequests, SameBuckets
<1>3. \A q \in Request : (status'[q] \in Active /\ UsesBalance(q)') => balance'[AccountOf(q)'].open
  <2> TAKE q \in Request
  <2> HAVE status'[q] \in Active /\ UsesBalance(q)'
  <2>1. status[q] \in Active /\ UsesBalance(q) /\ AccountOf(q)' = AccountOf(q)
    BY DEF UsesBalance, AccountOf
  <2>2. AccountOf(q) \in Account
    BY <2>1, InvParts DEF RequestRowsOK, UsesBalance, AccountOf, Account, Year, Active
  <2> QED
    BY <2>1, <2>2, InvParts DEF SameBuckets
<1> QED
  BY <1>1, <1>2, <1>3 DEF LedgerInv, RowInv, BalanceRowsOK, NoOverspend, CarryOverFloor

LEMMA SameRow == \A b : SameBuckets(b, b)
BY DEF SameBuckets

LEMMA BalanceStepInv == TypeOK /\ LedgerInv /\ BalanceStep => LedgerInv'
<1> SUFFICES ASSUME TypeOK, LedgerInv, BalanceStep PROVE LedgerInv'
  OBVIOUS
<1>0. \A a \in Account : RowInv(balance[a]) /\ balance[a] \in Balance
  BY InvParts DEF TypeOK
<1>1. ASSUME NEW e \in Employee, NEW t \in BalanceType, NEW y \in Year, NEW p \in Policy,
             balance' = [balance EXCEPT ![<<e, t, y>>] = GetBalance(<<e, t, y>>, p)],
             UNCHANGED <<leaveType, holidays, job, status, row, level, approval>>
      PROVE  LedgerInv'
  <2>1. <<e, t, y>> \in Account
    BY DEF Account
  <2>2. \A a \in Account : balance'[a] = IF a = <<e, t, y>> THEN GetBalance(a, p) ELSE balance[a]
    BY <1>1, <2>1 DEF TypeOK
  <2>3. \A a \in Account : RowInv(balance'[a]) /\ SameBuckets(balance[a], balance'[a])
    BY <1>0, <2>2, RowInvGet, SameRow
  <2> QED
    BY <1>1, <2>3, BalanceOnlyInv
<1>2. CASE \E u \in User, t \in LeaveType, s, f \in Day, p \in Policy : Validate(u, t, s, f, p)
  <2> PICK u \in User, t \in LeaveType, s \in Day, f \in Day, p \in Policy : Validate(u, t, s, f, p)
    BY <1>2
  <2>1. EmployeeOf[u] \in Employee /\ t \in BalanceType /\ YearOf(s) \in Year
    BY ConstantsAssumption DEF Validate, StoreBalance, Year
  <2> QED
    BY <1>1, <2>1 DEF Validate, StoreBalance
<1>3. CASE \E e \in Employee, y \in Year, p \in [BalanceType -> Policy] : ReadBalances(e, y, p)
  <2> PICK e \in Employee, y \in Year, p \in [BalanceType -> Policy] : ReadBalances(e, y, p)
    BY <1>3
  <2>1. ASSUME NEW a \in Account
        PROVE  RowInv(balance'[a]) /\ SameBuckets(balance[a], balance'[a])
    <3>1. a[2] \in BalanceType /\ p[a[2]] \in Policy
      BY DEF Account
    <3>2. balance'[a] \in {balance[a], GetBalance(a, p[a[2]])}
      BY DEF ReadBalances
    <3>3. RowInv(GetBalance(a, p[a[2]])) /\ SameBuckets(balance[a], GetBalance(a, p[a[2]]))
      BY <1>0, <3>1, RowInvGet
    <3> QED
      BY <1>0, <3>2, <3>3, SameRow
  <2> QED
    BY <2>1, BalanceOnlyInv DEF ReadBalances
<1>4. CASE \E e \in Employee, t \in BalanceType, y \in Year, delta \in Delta, p \in Policy :
             AdjustBalance(e, t, y, delta, p)
  <2> PICK e \in Employee, t \in BalanceType, y \in Year, delta \in Delta, p \in Policy :
             AdjustBalance(e, t, y, delta, p)
    BY <1>4
  <2> DEFINE a0 == <<e, t, y>>
             b == GetBalance(a0, p)
  <2>1. a0 \in Account /\ delta \in Int
    BY ConstantsAssumption DEF Account
  <2>2. b \in Balance /\ b.open /\ RowInv(b) /\ SameBuckets(balance[a0], b)
    BY <1>0, <2>1, RowInvGet
  <2>3. Available(b) + delta >= 0
    BY DEF AdjustBalance, MayAdjust, StoreBalance
  <2>4. RowInv([b EXCEPT !.adjusted = @ + delta]) /\ SameBuckets(b, [b EXCEPT !.adjusted = @ + delta])
    BY <2>1, <2>2, <2>3, RowInvAdjust
  <2>5. balance'[a0] = [b EXCEPT !.adjusted = @ + delta] /\ \A a \in Account \ {a0} : balance'[a] = balance[a]
    BY <2>1 DEF AdjustBalance, MayAdjust, StoreBalance, TypeOK
  <2>6. SameBuckets(balance[a0], balance'[a0])
    BY <2>2, <2>4, <2>5 DEF SameBuckets
  <2>7. \A a \in Account : RowInv(balance'[a]) /\ SameBuckets(balance[a], balance'[a])
    BY <1>0, <2>4, <2>5, <2>6, SameRow
  <2> QED
    BY <2>7, BalanceOnlyInv DEF AdjustBalance, MayAdjust, StoreBalance
<1>5. CASE \E asOf \in 1..today, chunk \in SUBSET Employee :
             \E base, target \in [Employee \X BalanceType -> Policy] : Accrue(asOf, chunk, base, target)
  <2> PICK asOf \in 1..today, chunk \in SUBSET Employee,
           base \in [Employee \X BalanceType -> Policy], target \in [Employee \X BalanceType -> Policy] :
             Accrue(asOf, chunk, base, target)
    BY <1>5
  <2>1. ASSUME NEW a \in Account
        PROVE  RowInv(balance'[a]) /\ SameBuckets(balance[a], balance'[a])
    <3> DEFINE b == base[<<a[1], a[2]>>]
               g == target[<<a[1], a[2]>>]
    <3>1. b \in Policy /\ g \in Policy /\ a[3] \in Year /\ Previous(a) \in Balance
      BY PreviousType DEF Account
    <3>2. balance'[a] \in {balance[a], Accrued(balance[a], a[3], Previous(a), b, g)}
      BY DEF Accrue
    <3>3. /\ RowInv(Accrued(balance[a], a[3], Previous(a), b, g))
          /\ SameBuckets(balance[a], Accrued(balance[a], a[3], Previous(a), b, g))
      BY <1>0, <3>1, RowInvAccrued
    <3> QED
      BY <1>0, <3>2, <3>3, SameRow
  <2> QED
    BY <2>1, BalanceOnlyInv DEF Accrue
<1>6. CASE \E asOf \in 1..today, chunk \in SUBSET Employee : ExpireCarryOver(asOf, chunk)
  <2> PICK asOf \in 1..today, chunk \in SUBSET Employee : ExpireCarryOver(asOf, chunk)
    BY <1>6
  <2>1. asOf \in Nat
    BY DEF TypeOK, Day
  <2>2. \A a \in Account : balance'[a] \in {balance[a], Expired(balance[a], asOf)}
    BY DEF ExpireCarryOver
  <2>3. \A a \in Account : RowInv(balance'[a]) /\ SameBuckets(balance[a], balance'[a])
    BY <1>0, <2>1, <2>2, RowInvExpired, SameRow
  <2> QED
    BY <2>3, BalanceOnlyInv DEF ExpireCarryOver
<1> QED
  BY <1>2, <1>3, <1>4, <1>5, <1>6 DEF BalanceStep

LEMMA ConfigStepInv == TypeOK /\ LedgerInv /\ ConfigStep => LedgerInv'
<1> SUFFICES ASSUME TypeOK, LedgerInv, ConfigStep PROVE LedgerInv'
  OBVIOUS
<1>1. UNCHANGED <<status, row, level, approval, balance>>
  BY DEF ConfigStep, UpdateLeaveType, CreateHoliday, DeleteHoliday, ChangeJob, NextDay
<1>2. RequestRowsOK' /\ RequestsDisjoint' /\ ApprovalChain'
  BY <1>1, InvParts DEF RequestRowsOK, RequestsDisjoint, ApprovalChain, ChainOf
<1>3. BucketsMatchRequests'
  BY <1>1, InvParts DEF BucketsMatchRequests, DaysHeld
<1>4. BalanceRowsOK' /\ NoOverspend' /\ CarryOverFloor'
  BY <1>1 DEF LedgerInv, BalanceRowsOK, NoOverspend, CarryOverFloor, AccountOf, UsesBalance
<1> QED
  BY <1>2, <1>3, <1>4 DEF LedgerInv

LEMMA InvInit == Init => LedgerInv
<1> SUFFICES ASSUME Init PROVE LedgerInv
  OBVIOUS
<1>1. TypeOK
  BY TypeInit
<1>2. \A r \in Request : status[r] = "none"
  BY DEF Init
<1>3. RequestRowsOK /\ RequestsDisjoint /\ ApprovalChain
  BY <1>2 DEF RequestRowsOK, RequestsDisjoint, ApprovalChain, Active
<1>4. \A a \in Account : balance[a] = BalanceRow(0, FALSE)
  BY DEF Init
<1>5. \A a \in Account, st \in Active : DaysHeld(a, st) = {}
  BY <1>2 DEF DaysHeld, Active
<1>6. BucketsMatchRequests
  BY <1>4, <1>5, FS_EmptySet DEF BucketsMatchRequests, BalanceRow, Active
<1>7. \A a \in Account : RowInv(balance[a])
  BY <1>4 DEF RowInv, BalanceRow, Available
<1> QED
  BY <1>2, <1>3, <1>6, <1>7 DEF LedgerInv, RowInv, BalanceRowsOK, NoOverspend, CarryOverFloor,
         Active

LEMMA InvStep == TypeOK /\ LedgerInv /\ [Next]_vars => LedgerInv'
<1> SUFFICES ASSUME TypeOK, LedgerInv, [Next]_vars PROVE LedgerInv'
  OBVIOUS
<1>1. TypeOK'
  BY TypeStep
<1>2. CASE RequestStep
  BY <1>1, <1>2, SubmitInv, DecideInv DEF RequestStep
<1>3. CASE BalanceStep
  BY <1>3, BalanceStepInv
<1>4. CASE ConfigStep
  BY <1>4, ConfigStepInv
<1>5. CASE UNCHANGED vars
  <2>1. RequestRowsOK' /\ RequestsDisjoint' /\ ApprovalChain'
    BY <1>5, InvParts DEF RequestRowsOK, RequestsDisjoint, ApprovalChain, ChainOf, vars
  <2>2. BucketsMatchRequests'
    BY <1>5, InvParts DEF BucketsMatchRequests, DaysHeld, vars
  <2>3. BalanceRowsOK' /\ NoOverspend' /\ CarryOverFloor'
    BY <1>5 DEF LedgerInv, BalanceRowsOK, NoOverspend, CarryOverFloor, AccountOf, UsesBalance, vars
  <2> QED
    BY <2>1, <2>2, <2>3 DEF LedgerInv
<1> QED
  BY <1>2, <1>3, <1>4, <1>5 DEF Next

-----------------------------------------------------------------------------
(* The theorems *)

(* The inductive invariant: the recount of the days held needs the active requests of  *)
(* one person to be disjoint, and that needs the columns of a request row.             *)
THEOREM LedgerInvariant == Spec => [](TypeOK /\ LedgerInv)
<1>1. Init => TypeOK /\ LedgerInv
  BY TypeInit, InvInit
<1>2. (TypeOK /\ LedgerInv) /\ [Next]_vars => (TypeOK /\ LedgerInv)'
  BY TypeStep, InvStep
<1> QED
  BY <1>1, <1>2, PTL DEF Spec

(* ADR 008.2: pending and used are at all times what a recount of the requests gives. *)
THEOREM BucketsCorrect == Spec => []BucketsMatchRequests
<1>1. LedgerInv => BucketsMatchRequests
  BY DEF LedgerInv
<1> QED
  BY <1>1, LedgerInvariant, PTL

(* Nobody takes or requests more leave than was granted. *)
THEOREM NeverOverspent == Spec => []NoOverspend
<1>1. LedgerInv => NoOverspend
  BY DEF LedgerInv
<1> QED
  BY <1>1, LedgerInvariant, PTL

(* Expiry alone never makes a balance negative. *)
THEOREM FloorHolds == Spec => []CarryOverFloor
<1>1. LedgerInv => CarryOverFloor
  BY DEF LedgerInv
<1> QED
  BY <1>1, LedgerInvariant, PTL

(* A request and its approval levels agree, however the chain is interrupted. *)
THEOREM ChainCorrect == Spec => []ApprovalChain
<1>1. LedgerInv => ApprovalChain
  BY DEF LedgerInv
<1> QED
  BY <1>1, LedgerInvariant, PTL

(* The bounded overlap query finds every request the exclusion constraint would. *)
THEOREM OverlapCorrect == Spec => []OverlapQueryExact
<1>1. TypeOK /\ LedgerInv => OverlapQueryExact
  <2> SUFFICES ASSUME TypeOK, LedgerInv, NEW e \in Employee, NEW s \in Day, NEW f \in Day, CheckRange(s, f)
               PROVE  Overlaps(e, s, f) <=> Excluded(e, s, f)
    BY DEF OverlapQueryExact
  <2>1. ASSUME NEW r \in Request, status[r] \in Active
        PROVE  RangesMeet(row[r].start, row[r].end, s, f)
                 <=> (row[r].start <= f /\ row[r].end >= s /\ row[r].start > s - MaxSpan)
    <3>1. /\ row[r].start \in Int /\ row[r].end \in Int
          /\ row[r].end - row[r].start + 1 <= MaxSpan
      BY <2>1, InvParts DEF RequestRowsOK, Active, Day
    <3>2. s \in Int /\ f \in Int /\ MaxSpan \in Int
      BY ConstantsAssumption DEF Day
    <3> QED
      BY <3>1, <3>2 DEF RangesMeet
  <2> QED
    BY <2>1 DEF Overlaps, Excluded, Active
<1> QED
  BY <1>1, LedgerInvariant, PTL

(* A request that was not submitted yet has no approval rows. *)
FreshRequests == \A r \in Request : status[r] = "none" => \A l \in Level : approval[r][l].status = "none"

LEMMA FreshInvariant == Spec => []FreshRequests
<1>1. Init => FreshRequests
  BY DEF Init, FreshRequests, NoApproval
<1>2. TypeOK /\ FreshRequests /\ [Next]_vars => FreshRequests'
  <2> SUFFICES ASSUME TypeOK, FreshRequests, [Next]_vars, NEW x \in Request, status'[x] = "none"
               PROVE  status[x] = "none" /\ approval'[x] = approval[x]
    BY DEF FreshRequests
  <2>1. ASSUME NEW u \in User, NEW r \in Request, NEW t \in LeaveType, NEW s \in Day, NEW f \in Day,
               NEW k \in Key \cup {NoKey}, NEW p \in Policy, Submit(u, r, t, s, f, k, p)
        PROVE  status[x] = "none" /\ approval'[x] = approval[x]
    BY <2>1 DEF Submit, KeyTaken, BalanceCovers, StoreRequest, TypeOK
  <2>2. ASSUME NEW u \in User, NEW r \in Request,
               Reject(u, r) \/ ApproveLevel(u, r) \/ ApproveFinal(u, r) \/ Cancel(u, r)
        PROVE  status[x] = "none" /\ approval'[x] = approval[x]
    BY <2>2 DEF Reject, StoreRejection, ApproveLevel, StoreLevelApproval, ApproveFinal,
           StoreApproval, Cancel, MayCancel, StoreCancel, MayDecide, CanCancel, TypeOK
  <2>3. CASE UNCHANGED <<status, approval>>
    BY <2>3
  <2>4. BalanceStep \/ ConfigStep \/ UNCHANGED vars => UNCHANGED <<status, approval>>
    BY DEF BalanceStep, Validate, StoreBalance, ReadBalances, AdjustBalance, MayAdjust, Accrue,
           ExpireCarryOver,
           ConfigStep, UpdateLeaveType, CreateHoliday, DeleteHoliday, ChangeJob, NextDay, vars
  <2> QED
    BY <2>1, <2>2, <2>3, <2>4 DEF Next, RequestStep
<1> QED
  BY <1>1, <1>2, TypeCorrect, PTL DEF Spec

(* A level that was decided is not touched by what follows. *)
LEMMA LevelsStand ==
  ASSUME TypeOK, ApprovalChain, RequestRowsOK, NEW u \in User, NEW r \in Request,
         Reject(u, r) \/ ApproveLevel(u, r) \/ ApproveFinal(u, r) \/ Cancel(u, r),
         NEW x \in Request, NEW l \in Level, approval[x][l].status \in {"approved", "rejected"}
  PROVE  approval'[x][l] = approval[x][l]
<1>1. CASE x # r
  BY <1>1 DEF Reject, StoreRejection, ApproveLevel, StoreLevelApproval, ApproveFinal,
         StoreApproval, Cancel, MayCancel, StoreCancel, TypeOK
<1>2. CASE x = r /\ Cancel(u, r)
  BY <1>2 DEF Cancel, MayCancel, StoreCancel, SkipRemaining, TypeOK
<1>3. CASE x = r /\ ~Cancel(u, r)
  <2>1. status[r] = "pending"
    BY <1>3 DEF Reject, StoreRejection, ApproveLevel, StoreLevelApproval, ApproveFinal,
           StoreApproval, MayDecide
  <2>2. approval[r][level[r]].status = "pending"
    BY <2>1 DEF ApprovalChain, ChainOf, RequestRowsOK, Level
  <2>3. l # level[r]
    BY <1>3, <2>2
  <2>4. approval[r] \in [Level -> Approval]
    BY DEF TypeOK
  <2>5. \A d : Decided(r, u, d)[l] = approval[r][l]
    BY <2>3, <2>4 DEF Decided
  <2>6. SkipRemaining(Decided(r, u, "rejected"))[l] = approval[r][l]
    BY <1>3, <2>5 DEF SkipRemaining
  <2>7. approval'[r] \in {Decided(r, u, "approved"), SkipRemaining(Decided(r, u, "rejected"))}
    BY <1>3 DEF Reject, StoreRejection, ApproveLevel, StoreLevelApproval, ApproveFinal,
           StoreApproval, TypeOK
  <2> QED
    BY <1>3, <2>5, <2>6, <2>7
<1> QED
  BY <1>1, <1>2, <1>3

(* Decisions stand: see DecisionsStand. *)
THEOREM DecisionsCorrect == Spec => DecisionsStand
<1>1. TypeOK /\ LedgerInv /\ FreshRequests /\ [Next]_vars =>
        [\A r \in Request :
           /\ status[r] \in {"rejected", "cancelled"} => UNCHANGED <<status[r], approval[r], level[r]>>
           /\ status[r] = "approved" /\ status'[r] # "approved" =>
                status'[r] = "cancelled" /\ row[r].start > today
           /\ \A l \in Level : approval[r][l].status \in {"approved", "rejected"} =>
                approval'[r][l] = approval[r][l]]_vars
  <2> SUFFICES ASSUME TypeOK, LedgerInv, FreshRequests, Next, NEW x \in Request
               PROVE  /\ status[x] \in {"rejected", "cancelled"} =>
                           UNCHANGED <<status[x], approval[x], level[x]>>
                      /\ status[x] = "approved" /\ status'[x] # "approved" =>
                           status'[x] = "cancelled" /\ row[x].start > today
                      /\ \A l \in Level : approval[x][l].status \in {"approved", "rejected"} =>
                           approval'[x][l] = approval[x][l]
    OBVIOUS
  <2>1. CASE UNCHANGED <<status, approval, level>>
    BY <2>1
  <2>2. ASSUME NEW u \in User, NEW r \in Request, NEW t \in LeaveType, NEW s \in Day, NEW f \in Day,
               NEW k \in Key \cup {NoKey}, NEW p \in Policy, Submit(u, r, t, s, f, k, p)
        PROVE  /\ x # r => UNCHANGED <<status[x], approval[x], level[x]>>
               /\ x = r => status[x] = "none" /\ \A l \in Level : approval[x][l].status = "none"
    BY <2>2 DEF Submit, KeyTaken, BalanceCovers, StoreRequest, TypeOK, FreshRequests
  <2>3. ASSUME NEW u \in User, NEW r \in Request,
               Reject(u, r) \/ ApproveLevel(u, r) \/ ApproveFinal(u, r) \/ Cancel(u, r)
        PROVE  /\ status[x] \in {"rejected", "cancelled"} => UNCHANGED <<status[x], approval[x], level[x]>>
               /\ status[x] = "approved" /\ status'[x] # "approved" =>
                    status'[x] = "cancelled" /\ row[x].start > today
               /\ \A l \in Level : approval[x][l].status \in {"approved", "rejected"} =>
                    approval'[x][l] = approval[x][l]
    <3>1. CASE x # r
      BY <2>3, <3>1 DEF Reject, StoreRejection, ApproveLevel, StoreLevelApproval, ApproveFinal,
             StoreApproval, Cancel, MayCancel, StoreCancel, TypeOK
    <3>2. CASE x = r
      <4>1. status[r] \notin {"rejected", "cancelled"}
        BY <2>3 DEF Reject, StoreRejection, ApproveLevel, StoreLevelApproval, ApproveFinal,
               StoreApproval, Cancel, MayCancel, StoreCancel, MayDecide, CanCancel
      <4>2. status[r] = "approved" => status'[r] = "cancelled" /\ row[r].start > today
        BY <2>3 DEF Reject, StoreRejection, ApproveLevel, StoreLevelApproval, ApproveFinal,
               StoreApproval, Cancel, MayCancel, StoreCancel, MayDecide, CanCancel, TypeOK
      <4>3. \A l \in Level : approval[r][l].status \in {"approved", "rejected"} =>
               approval'[r][l] = approval[r][l]
        BY <2>3, InvParts, LevelsStand
      <4> QED
        BY <3>2, <4>1, <4>2, <4>3
    <3> QED
      BY <3>1, <3>2
  <2>4. BalanceStep \/ ConfigStep => UNCHANGED <<status, approval, level>>
    BY DEF BalanceStep, Validate, StoreBalance, ReadBalances, AdjustBalance, MayAdjust, Accrue,
           ExpireCarryOver,
           ConfigStep, UpdateLeaveType, CreateHoliday, DeleteHoliday, ChangeJob, NextDay
  <2> QED
    BY <2>1, <2>2, <2>3, <2>4 DEF Next, RequestStep
<1> QED
  BY <1>1, LedgerInvariant, FreshInvariant, PTL DEF Spec, DecisionsStand

LEMMA AccruedSettles ==
  ASSUME NEW b \in Balance, NEW y \in Year, NEW q \in Balance, NEW base \in Policy, NEW target \in Policy
  PROVE  LET once == Accrued(b, y, q, base, target)
         IN once.open /\ once.applied /\ once.entitled >= target.days
<1> DEFINE b0 == IF b.open THEN b ELSE BalanceRow(base.days, TRUE)
<1>1. base.days \in Nat /\ target.days \in Nat
  BY ConstantsAssumption
<1>2. b0 \in Balance /\ b0.open
  BY <1>1, NewRowType DEF BalanceRow
<1>3. \A c \in Balance : /\ Raised(c, target) \in Balance /\ Raised(c, target).open = c.open
                        /\ Raised(c, target).entitled >= target.days
  BY <1>1 DEF Raised, Balance
<1>4. \A c \in Balance, n \in Nat : /\ Carried(c, y, n, base).applied
                                 /\ Carried(c, y, n, base).open = c.open
                                 /\ Carried(c, y, n, base).entitled = c.entitled
  BY DEF Carried, CarriedInto, Balance
<1>5. CarryOver(q, base) \in Nat
  BY CarryOverIsNat
<1> QED
  BY <1>2, <1>3, <1>4, <1>5 DEF Accrued

(* ADR 010.5: a leave job that runs again for the same date changes nothing. *)
THEOREM JobsAreIdempotent == Spec => []JobsIdempotent
<1>1. TypeOK => JobsIdempotent
  <2> SUFFICES ASSUME TypeOK, NEW a \in Account, NEW base \in Policy, NEW target \in Policy,
                      NEW asOf \in 1..today
               PROVE  /\ LET once == Accrued(balance[a], a[3], Previous(a), base, target)
                         IN \A q \in {balance[b] : b \in Account} :
                              Accrued(once, a[3], q, base, target) = once
                      /\ LET once == Expired(balance[a], asOf) IN Expired(once, asOf) = once
    BY DEF JobsIdempotent
  <2> DEFINE once == Accrued(balance[a], a[3], Previous(a), base, target)
  <2>1. balance[a] \in Balance /\ a[3] \in Year /\ Previous(a) \in Balance
    BY PreviousType DEF TypeOK, Account
  <2>2. once.open /\ once.applied /\ once.entitled >= target.days /\ once \in Balance
    BY <2>1, AccruedSettles, AccruedType
  <2>3. target.days \in Nat /\ once.entitled \in Nat
    BY <2>2, ConstantsAssumption, BalanceFields
  <2>4. \A q : Accrued(once, a[3], q, base, target) = once
    <3>1. ~(target.days > once.entitled)
      BY <2>2, <2>3
    <3> HIDE DEF once
    <3> QED
      BY <2>2, <3>1 DEF Accrued, Raised, Carried
  <2>5. LET last == Expired(balance[a], asOf) IN Expired(last, asOf) = last
    <3>1. CASE Expired(balance[a], asOf) = balance[a]
      BY <3>1
    <3>2. CASE Expired(balance[a], asOf) # balance[a]
      <4>1. Expired(balance[a], asOf).expiredAt
        BY <2>1, <3>2 DEF Expired, Balance
      <4> QED
        BY <4>1 DEF Expired
    <3> QED
      BY <3>1, <3>2
  <2> QED
    BY <2>4, <2>5
<1> QED
  BY <1>1, TypeCorrect, PTL

-----------------------------------------------------------------------------
(* What the screens show                                                    *)

(* A line of a list tells which request it is of. *)
LEMMA LineTells ==
  ASSUME NEW q, NEW r, Shown(q) = Shown(r)
  PROVE  q = r
<1>1. Shown(q).id = q /\ Shown(r).id = r
  BY DEF Shown
<1> QED
  BY <1>1

(* The level under decision of a stored request is one of its levels. *)
LEMMA CurrentLevel ==
  ASSUME TypeOK, LedgerInv, NEW r \in StoredRequest
  PROVE  level[r] \in 1..row[r].levels /\ level[r] \in Level
<1>1. status[r] # "none" /\ row[r].levels \in Level /\ level[r] \in 1..row[r].levels
  BY InvParts DEF StoredRequest, RequestRowsOK, ApprovalChain
<1> QED
  BY <1>1 DEF Level

(* Who may open a request finds it among what he has opened. *)
LEMMA ViewedIsOpened ==
  ASSUME NEW u \in User, NEW r \in StoredRequest, CanView(u, r)
  PROVE  Shown(r) \in {d.line : d \in GetRequest(u)}
<1>1. Detail(r) \in GetRequest(u) /\ Detail(r).line = Shown(r)
  BY DEF GetRequest, Detail
<1> QED
  BY <1>1

(* services/leave_requests.py: the queue, the detail and the decision agree. *)
THEOREM QueueIsDecidable == Spec => []QueueDecidable
<1>1. TypeOK /\ LedgerInv => QueueDecidable
  <2> SUFFICES ASSUME TypeOK, LedgerInv, NEW u \in User
               PROVE  LET details == GetRequest(u)
                          opened == {d.line : d \in details}
                      IN /\ Queue(u) \subseteq opened
                         /\ \A d \in details : d.line \in Queue(u) =>
                              /\ d.approvals[d.line.current].status = "pending"
                              /\ MayDecide(u, d.line.id) \/ d.line.employee = EmployeeOf[u]
                         /\ \A r \in Request : (MayDecide(u, r) /\ u \notin HrAdmin) => Shown(r) \in Queue(u)
                         /\ \A y \in Year : Mine(u, y) \subseteq opened /\ (u \in HrAdmin => All(y) \subseteq opened)
    BY DEF QueueDecidable
  <2> DEFINE opened == {d.line : d \in GetRequest(u)}
             Waits(q) == \/ EmployeeOf[u] # NoEmployee /\ Awaits(q, EmployeeOf[u])
                         \/ u \in HrAdmin /\ Awaits(q, NoEmployee)
  <2>1. ASSUME NEW q \in StoredRequest, Waits(q) PROVE CanView(u, q)
    BY <2>1, CurrentLevel DEF CanView, Awaits
  <2>2. Queue(u) \subseteq opened
    <3>1. ASSUME NEW q \in StoredRequest, Waits(q) PROVE Shown(q) \in opened
      BY <2>1, <3>1, ViewedIsOpened
    <3> QED
      BY <3>1 DEF Queue
  <2>3. ASSUME NEW d \in GetRequest(u), d.line \in Queue(u)
        PROVE  /\ d.approvals[d.line.current].status = "pending"
               /\ MayDecide(u, d.line.id) \/ d.line.employee = EmployeeOf[u]
    <3>1. PICK q \in StoredRequest : d = Detail(q)
      BY DEF GetRequest
    <3>2. d.line = Shown(q) /\ d.approvals = [l \in 1..row[q].levels |-> approval[q][l]]
      BY <3>1 DEF Detail
    <3>3. Waits(q)
      <4>1. PICK r \in StoredRequest : Waits(r) /\ Shown(q) = Shown(r)
        BY <2>3, <3>2 DEF Queue
      <4> QED
        BY <4>1, LineTells
    <3>4. d.line.id = q /\ d.line.current = level[q] /\ d.line.employee = row[q].employee
      BY <3>2 DEF Shown
    <3>5. d.approvals[level[q]] = approval[q][level[q]]
      BY <3>2, CurrentLevel
    <3> QED
      BY <3>3, <3>4, <3>5 DEF Awaits, MayDecide
  <2>4. ASSUME NEW r \in Request, MayDecide(u, r), u \notin HrAdmin PROVE Shown(r) \in Queue(u)
    <3>1. status[r] = "pending" /\ r \in StoredRequest
      BY <2>4 DEF MayDecide, StoredRequest
    <3>2. ChainOf(r, "approved", "pending", "pending")
      BY <3>1, InvParts DEF ApprovalChain
    <3>3. approval[r][level[r]].status = "pending"
      BY <3>1, <3>2, CurrentLevel DEF ChainOf
    <3>4. Waits(r)
      BY <2>4, <3>1, <3>3 DEF MayDecide, Awaits
    <3> QED
      BY <3>1, <3>4 DEF Queue
  <2>5. ASSUME NEW y \in Year PROVE Mine(u, y) \subseteq opened
    <3>1. \A q \in StoredRequest : EmployeeOf[u] = row[q].employee => Shown(q) \in opened
      BY ViewedIsOpened DEF CanView
    <3> QED
      BY <3>1 DEF Mine
  <2>6. ASSUME NEW y \in Year, u \in HrAdmin PROVE All(y) \subseteq opened
    <3>1. \A q \in StoredRequest : Shown(q) \in opened
      BY <2>6, ViewedIsOpened DEF CanView
    <3> QED
      BY <3>1 DEF All
  <2> QED
    BY <2>2, <2>3, <2>4, <2>5, <2>6
<1> QED
  BY <1>1, LedgerInvariant, PTL

(* The bounded overlap condition of the calendar finds all leave that meets the range. *)
LEMMA FoundMeets ==
  ASSUME TypeOK, LedgerInv, NEW s \in Day, NEW f \in Day, CheckRange(s, f)
  PROVE  Found(s, f) = {r \in Request : /\ status[r] \in {"pending", "approved"}
                                        /\ RangesMeet(row[r].start, row[r].end, s, f)}
<1>1. ASSUME NEW r \in Request, status[r] \in Active
      PROVE  RangesMeet(row[r].start, row[r].end, s, f)
               <=> (row[r].start <= f /\ row[r].end >= s /\ row[r].start > s - MaxSpan)
  <2>1. /\ row[r].start \in Int /\ row[r].end \in Int
        /\ row[r].end - row[r].start + 1 <= MaxSpan
    BY <1>1, InvParts DEF RequestRowsOK, Active, Day
  <2>2. s \in Int /\ f \in Int /\ MaxSpan \in Int
    BY ConstantsAssumption DEF Day
  <2> QED
    BY <2>1, <2>2 DEF RangesMeet
<1> QED
  BY <1>1 DEF Found, Active

(* The calendar and the warning tell of the same colleagues, and of all of them. *)
THEOREM CalendarTells == Spec => []CalendarTellsWarning
<1>1. TypeOK /\ LedgerInv => CalendarTellsWarning
  <2> SUFFICES ASSUME TypeOK, LedgerInv, NEW u \in User \ HrAdmin, NEW s \in Day, NEW f \in Day,
                      CheckRange(s, f), EmployeeOf[u] # NoEmployee
               PROVE  LET seen == {line.employee : line \in Calendar(u, s, f)}
                          absent == {e \in Employee : Excluded(e, s, f)}
                      IN /\ seen = absent \cap Team(EmployeeOf[u], today)
                         /\ s = today => \A e \in Team(EmployeeOf[u], today) :
                                           ColleaguesOnLeave(e, s, f) = seen \ {e}
    BY DEF CalendarTellsWarning
  <2> DEFINE x == EmployeeOf[u]
             team == Team(x, today)
             met == {row[r].employee : r \in Found(s, f)}
             seen == {line.employee : line \in Calendar(u, s, f)}
             absent == {e \in Employee : Excluded(e, s, f)}
  <2>1. \A e \in Employee : Excluded(e, s, f) <=> e \in met
    BY FoundMeets DEF Excluded
  <2>2. team \subseteq Employee
    BY DEF Team
  <2>3. seen = met \cap team
    <3>1. \A r : Shown(r).employee = row[r].employee
      BY DEF Shown
    <3>2. Calendar(u, s, f) = {Shown(r) : r \in {q \in Found(s, f) : row[q].employee \in team}}
      BY DEF Calendar
    <3> HIDE DEF team
    <3>3. seen = {row[r].employee : r \in {q \in Found(s, f) : row[q].employee \in team}}
      BY <3>1, <3>2
    <3> QED
      BY <3>3
  <2>4. seen = absent \cap team
    BY <2>1, <2>2, <2>3
  <2>5. ASSUME s = today, NEW e \in team PROVE ColleaguesOnLeave(e, s, f) = seen \ {e}
    <3>1. job[e][s].supervisor = x
      BY <2>5 DEF Team
    <3>2. ColleaguesOnLeave(e, s, f) = met \cap (team \ {e})
      BY <2>5, <3>1 DEF ColleaguesOnLeave
    <3> QED
      BY <2>3, <3>2
  <2> QED
    BY <2>4, <2>5
<1> QED
  BY <1>1, LedgerInvariant, PTL

-----------------------------------------------------------------------------
(* The carry-over                                                           *)

(* A later day is of no earlier year. *)
LEMMA YearsInOrder ==
  ASSUME NEW d \in Day, NEW t \in Day, d <= t
  PROVE  YearOf(d) \in Nat /\ YearOf(t) \in Nat /\ YearOf(d) <= YearOf(t)
<1> DEFINE n == YearLength
           x == d - 1
           z == t - 1
<1>1. x \in Nat /\ z \in Nat /\ n \in Nat /\ n > 0 /\ x <= z
  BY ConstantsAssumption DEF Day
<1> HIDE DEF n, x, z
<1>2. /\ x = n * (x \div n) + (x % n) /\ z = n * (z \div n) + (z % n)
      /\ x % n \in 0..(n - 1) /\ z % n \in 0..(n - 1) /\ x \div n \in Nat /\ z \div n \in Nat
  BY <1>1
<1>3. ASSUME x \div n > z \div n PROVE FALSE
  <2>1. x \div n >= (z \div n) + 1
    BY <1>2, <1>3
  <2>2. n * (x \div n) >= n * ((z \div n) + 1)
    BY <1>1, <1>2, <2>1
  <2> QED
    BY <1>1, <1>2, <2>2
<1>4. x \div n <= z \div n
  BY <1>2, <1>3
<1> QED
  BY <1>2, <1>4 DEF YearOf, n, x, z

(* From row b to row c nothing more is spent, nothing granted is taken back, and the *)
(* carry-over is as it was.                                                          *)
SameCarry(b, c) == c.carried = b.carried /\ c.applied = b.applied /\ c.entitled >= b.entitled
Milder(b, c) == SameCarry(b, c) /\ c.adjusted >= b.adjusted /\ c.used + c.pending <= b.used + b.pending

LEMMA SameIsMilder == \A b \in Balance : Milder(b, b)
BY DEF Milder, SameCarry, Balance

LEMMA NextAccount ==
  ASSUME NEW a \in Account, a[3] + 1 \in Year
  PROVE  /\ <<a[1], a[2], a[3] + 1>> \in Account /\ <<a[1], a[2], a[3] + 1>>[3] = a[3] + 1
         /\ a = <<a[1], a[2], a[3]>> /\ a[3] \in Nat /\ <<a[1], a[2], a[3] + 1>> # a
<1>1. a[1] \in Employee /\ a[2] \in BalanceType /\ a[3] \in Year /\ a = <<a[1], a[2], a[3]>>
  BY DEF Account
<1>2. a[3] \in Nat
  BY <1>1, YearsAreNat
<1>3. <<a[1], a[2], a[3] + 1>> \in Account /\ <<a[1], a[2], a[3] + 1>>[3] = a[3] + 1
  BY <1>1 DEF Account
<1>4. a[3] + 1 # a[3]
  BY <1>2
<1> QED
  BY <1>1, <1>2, <1>3, <1>4

(* Such steps of an account and of the next year's spend no day twice. *)
LEMMA MilderSpendsOnce ==
  ASSUME TypeOK, TypeOK', NEW a \in Account, SpentOnce(a), Milder(balance[a], balance'[a]),
         a[3] + 1 \in Year =>
           balance'[<<a[1], a[2], a[3] + 1>>].carried = balance[<<a[1], a[2], a[3] + 1>>].carried
  PROVE  SpentOnce(a)'
<1> SUFFICES ASSUME a[3] + 1 \in Year
             PROVE  balance'[a].used + balance'[a].pending + balance'[<<a[1], a[2], a[3] + 1>>].carried
                      <= balance'[a].entitled + balance'[a].carried + balance'[a].adjusted
  BY DEF SpentOnce
<1> DEFINE b == balance[a]
           c == balance'[a]
           n == balance[<<a[1], a[2], a[3] + 1>>].carried
<1>1. b \in Balance /\ c \in Balance /\ n \in Nat
  BY NextAccount DEF TypeOK, Balance
<1>2. b.used + b.pending + n <= b.entitled + b.carried + b.adjusted
  BY DEF SpentOnce
<1>3. /\ c.used + c.pending <= b.used + b.pending /\ c.entitled >= b.entitled
      /\ c.carried = b.carried /\ c.adjusted >= b.adjusted
  BY DEF Milder, SameCarry
<1>4. balance'[<<a[1], a[2], a[3] + 1>>].carried = n
  OBVIOUS
<1> HIDE DEF b, c, n
<1>5. c.used + c.pending + n <= c.entitled + c.carried + c.adjusted
  BY <1>1, <1>2, <1>3, BalanceFields
<1> QED
  BY <1>4, <1>5 DEF c

(* Where nothing has been carried on, no more is spent than was granted. *)
LEMMA NothingCarriedOn ==
  ASSUME TypeOK', LedgerInv', NEW a \in Account,
         a[3] + 1 \in Year => balance'[<<a[1], a[2], a[3] + 1>>].carried = 0
  PROVE  SpentOnce(a)'
<1> SUFFICES ASSUME a[3] + 1 \in Year
             PROVE  balance'[a].used + balance'[a].pending + 0
                      <= balance'[a].entitled + balance'[a].carried + balance'[a].adjusted
  BY DEF SpentOnce
<1>1. balance'[a].used + balance'[a].pending
        <= balance'[a].entitled + balance'[a].carried + balance'[a].adjusted
  BY DEF LedgerInv, NoOverspend
<1>2. balance'[a] \in Balance
  BY DEF TypeOK
<1> QED
  BY <1>1, <1>2, BalanceFields

-----------------------------------------------------------------------------
(* What each step does to the rows *)

LEMMA GetIsMilder ==
  ASSUME TypeOK, LedgerInv, NEW a \in Account, NEW p \in Policy
  PROVE  /\ GetBalance(a, p) \in Balance /\ Milder(balance[a], GetBalance(a, p))
         /\ GetBalance(a, p).pending = balance[a].pending
         /\ GetBalance(a, p).adjusted = balance[a].adjusted
<1>1. p.days \in Nat /\ balance[a] \in Balance /\ GetBalance(a, p) \in Balance
  BY GetBalanceType, ConstantsAssumption DEF TypeOK
<1>2. CASE balance[a].open
  BY <1>1, <1>2, SameIsMilder DEF GetBalance
<1>3. CASE ~balance[a].open
  <2>1. balance[a] = BalanceRow(0, FALSE) /\ GetBalance(a, p) = BalanceRow(p.days, TRUE)
    BY <1>3 DEF LedgerInv, BalanceRowsOK, GetBalance
  <2> QED
    BY <1>1, <2>1 DEF BalanceRow, Milder, SameCarry
<1> QED
  BY <1>2, <1>3

(* A submit: one row, by the days it reserves; of a past year only by a backdated type. *)
LEMMA SubmitSpends ==
  ASSUME TypeOK, LedgerInv, TypeOK',
         NEW u \in User, NEW r \in Request, NEW t \in LeaveType, NEW s \in Day, NEW f \in Day,
         NEW k \in Key \cup {NoKey}, NEW p \in Policy, Submit(u, r, t, s, f, k, p),
         NEW a \in Account
  PROVE  /\ SameCarry(balance[a], balance'[a])
         /\ \/ Milder(balance[a], balance'[a])
            \/ /\ balance'[a].pending > balance[a].pending
               /\ a[3] < YearOf(today) => leaveType[a[2]].backdated
<1> DEFINE A == <<EmployeeOf[u], t, YearOf(s)>>
           b == GetBalance(A, p)
           n == Cardinality(WorkingDays(s, f))
<1>1. /\ balance' = IF t \in BalanceType THEN [balance EXCEPT ![A] = [b EXCEPT !.pending = @ + n]] ELSE balance
      /\ EmployeeOf[u] # NoEmployee /\ (s < today => leaveType[t].backdated)
  BY DEF Submit, StoreRequest, Admissible, HardRules, CheckNotice
<1>2. n \in Nat /\ balance[a] \in Balance /\ balance \in [Account -> Balance]
  BY WorkingDaysFacts DEF TypeOK
<1>3. CASE t \in BalanceType /\ a = A
  <2>1. b \in Balance /\ Milder(balance[a], b) /\ b.pending = balance[a].pending
    BY <1>3, GetIsMilder
  <2> HIDE DEF b, n
  <2>2. balance'[a] = [b EXCEPT !.pending = @ + n]
    BY <1>1, <1>2, <1>3
  <2> DEFINE c == [b EXCEPT !.pending = @ + n]
  <2>3. /\ c.pending = b.pending + n /\ c.used = b.used /\ c.adjusted = b.adjusted
        /\ c.carried = b.carried /\ c.applied = b.applied /\ c.entitled = b.entitled
    BY <2>1 DEF Balance
  <2> HIDE DEF c
  <2>4. SameCarry(balance[a], c)
    BY <2>1, <2>3 DEF Milder, SameCarry
  <2>5. CASE n = 0
    <3>1. c.pending = b.pending
      BY <2>1, <2>3, <2>5, BalanceFields
    <3>2. Milder(balance[a], c)
      BY <2>1, <2>3, <2>4, <3>1 DEF Milder
    <3> QED
      BY <2>2, <2>4, <3>2 DEF c
  <2>6. CASE n # 0
    <3>1. c.pending > balance[a].pending
      BY <1>2, <2>1, <2>3, <2>6, BalanceFields
    <3>2. ASSUME a[3] < YearOf(today) PROVE leaveType[a[2]].backdated
      <4>1. a[2] = t /\ a[3] = YearOf(s)
        BY <1>3
      <4>2. ~(today <= s)
        <5>1. ASSUME today <= s PROVE FALSE
          <6>1. today \in Day /\ YearOf(today) <= YearOf(s) /\ YearOf(today) \in Nat /\ YearOf(s) \in Nat
            BY <5>1, YearsInOrder DEF TypeOK
          <6> QED
            BY <3>2, <4>1, <6>1
        <5> QED
          BY <5>1
      <4>3. s < today
        BY <4>2 DEF TypeOK, Day
      <4> QED
        BY <1>1, <4>1, <4>3
    <3> QED
      BY <2>2, <2>4, <3>1, <3>2 DEF c
  <2> QED
    BY <2>5, <2>6
<1>4. CASE ~(t \in BalanceType /\ a = A)
  <2>1. balance'[a] = balance[a]
    BY <1>1, <1>2, <1>4
  <2> QED
    BY <1>2, <2>1, SameIsMilder DEF Milder
<1> QED
  BY <1>3, <1>4

(* A decision or a cancel gives days back or takes them as used. *)
LEMMA DecideSpends ==
  ASSUME TypeOK, NEW u \in User, NEW r \in Request,
         Reject(u, r) \/ ApproveLevel(u, r) \/ ApproveFinal(u, r) \/ Cancel(u, r),
         NEW a \in Account
  PROVE  Milder(balance[a], balance'[a])
<1>1. Days(r) \in Nat /\ balance[a] \in Balance
  BY DaysIsNat DEF TypeOK
<1>2. ASSUME NEW p \in Int, NEW n \in Int, p + n <= 0, ReleaseBalance(r, BalanceOf(r), p, n)
      PROVE  Milder(balance[a], balance'[a])
  <2>1. /\ balance'[a].pending = balance[a].pending + (IF a = AccountOf(r) THEN p ELSE 0)
        /\ balance'[a].used = balance[a].used + (IF a = AccountOf(r) THEN n ELSE 0)
        /\ balance'[a].entitled = balance[a].entitled /\ balance'[a].carried = balance[a].carried
        /\ balance'[a].adjusted = balance[a].adjusted
        /\ a # AccountOf(r) => balance'[a] = balance[a]
    BY <1>2, ReleaseEffect
  <2>2. balance'[a].applied = balance[a].applied
    <3>1. CASE UsesBalance(r) /\ a = AccountOf(r)
      <4>1. balance'[a] = [balance[a] EXCEPT !.pending = @ + p, !.used = @ + n]
        BY <1>2, <3>1 DEF ReleaseBalance, BalanceOf, TypeOK
      <4> QED
        BY <1>1, <4>1 DEF Balance
    <3>2. CASE ~UsesBalance(r)
      BY <1>2, <3>2 DEF ReleaseBalance
    <3> QED
      BY <2>1, <3>1, <3>2
  <2> QED
    BY <1>1, <1>2, <2>1, <2>2, BalanceFields DEF Milder, SameCarry
<1>3. CASE Reject(u, r)
  BY <1>1, <1>2, <1>3 DEF Reject, StoreRejection
<1>4. CASE ApproveLevel(u, r)
  BY <1>1, <1>4, SameIsMilder DEF ApproveLevel, StoreLevelApproval
<1>5. CASE ApproveFinal(u, r)
  <2>1. -Days(r) \in Int /\ Days(r) \in Int /\ -Days(r) + Days(r) <= 0
    BY <1>1
  <2>2. ReleaseBalance(r, BalanceOf(r), -Days(r), Days(r))
    BY <1>5 DEF ApproveFinal, StoreApproval
  <2> QED
    BY <1>2, <2>1, <2>2
<1>6. CASE Cancel(u, r)
  BY <1>1, <1>2, <1>6 DEF Cancel, StoreCancel
<1> QED
  BY <1>3, <1>4, <1>5, <1>6

(* HR's correction adds what it says. *)
LEMMA AdjustSpends ==
  ASSUME TypeOK, LedgerInv, NEW e \in Employee, NEW t \in BalanceType, NEW y \in Year,
         NEW delta \in Delta, NEW p \in Policy, AdjustBalance(e, t, y, delta, p), NEW a \in Account
  PROVE  /\ SameCarry(balance[a], balance'[a])
         /\ \/ Milder(balance[a], balance'[a])
            \/ delta < 0 /\ balance'[a].adjusted = balance[a].adjusted + delta
<1> DEFINE A == <<e, t, y>>
           b == GetBalance(A, p)
<1>1. A \in Account /\ delta \in Int /\ balance[a] \in Balance
  BY ConstantsAssumption DEF Account, TypeOK
<1>2. b \in Balance /\ Milder(balance[A], b) /\ b.adjusted = balance[A].adjusted
  BY <1>1, GetIsMilder
<1>3. balance'[A] = [b EXCEPT !.adjusted = @ + delta] /\ \A x \in Account \ {A} : balance'[x] = balance[x]
  BY <1>1 DEF AdjustBalance, StoreBalance, TypeOK
<1>4. CASE a = A
  <2> HIDE DEF b
  <2> DEFINE c == [b EXCEPT !.adjusted = @ + delta]
  <2>1. /\ c.pending = b.pending /\ c.used = b.used /\ c.adjusted = b.adjusted + delta
        /\ c.carried = b.carried /\ c.applied = b.applied /\ c.entitled = b.entitled
    BY <1>2 DEF Balance
  <2>2. balance'[a] = c
    BY <1>3, <1>4
  <2> HIDE DEF c, A
  <2>3. SameCarry(balance[a], c)
    BY <1>2, <1>4, <2>1 DEF Milder, SameCarry
  <2>4. delta >= 0 => Milder(balance[a], c)
    <3>1. balance[a].adjusted \in Int /\ b.adjusted = balance[a].adjusted
      BY <1>1, <1>2, <1>4, BalanceFields
    <3>2. delta >= 0 => c.adjusted >= balance[a].adjusted
      BY <1>1, <2>1, <3>1
    <3>3. c.used + c.pending <= balance[a].used + balance[a].pending
      BY <1>2, <1>4, <2>1 DEF Milder
    <3> QED
      BY <2>3, <3>2, <3>3 DEF Milder
  <2>5. c.adjusted = balance[a].adjusted + delta
    BY <1>2, <1>4, <2>1
  <2> QED
    BY <1>1, <2>2, <2>3, <2>4, <2>5
<1>5. CASE a # A
  BY <1>1, <1>3, <1>5, SameIsMilder DEF Milder
<1> QED
  BY <1>4, <1>5

(* The accrual of a row carries over once, what the previous year has left at most. *)
ClosedIsEmpty(b) == ~b.open => b = BalanceRow(0, FALSE)
CarriedOnce(b, c, n) == /\ c.entitled >= b.entitled /\ c.adjusted = b.adjusted
                        /\ c.used = b.used /\ c.pending = b.pending /\ c.applied
                        /\ c.carried = IF b.applied THEN b.carried ELSE b.carried + n

LEMMA AccruedCarries ==
  ASSUME NEW b \in Balance, ClosedIsEmpty(b), NEW y \in Year, NEW q \in Balance,
         NEW base \in Policy, NEW target \in Policy
  PROVE  CarriedOnce(b, Accrued(b, y, q, base, target), CarryOver(q, base))
<1> DEFINE c == Accrued(b, y, q, base, target)
<1> DEFINE b0 == IF b.open THEN b ELSE BalanceRow(base.days, TRUE)
           b1 == Raised(b0, target)
           n == CarryOver(q, base)
<1>1. base.days \in Nat /\ target.days \in Nat /\ n \in Nat
  BY ConstantsAssumption, CarryOverIsNat
<1>2. /\ b0 \in Balance /\ b0.entitled >= b.entitled /\ b0.adjusted = b.adjusted
      /\ b0.used = b.used /\ b0.pending = b.pending /\ b0.applied = b.applied /\ b0.carried = b.carried
  <2>1. CASE b.open
    BY <2>1, BalanceFields
  <2>2. CASE ~b.open
    <3>1. b0 \in Balance
      BY <1>1, <2>2, NewRowType
    <3>2. b = BalanceRow(0, FALSE) /\ b0 = BalanceRow(base.days, TRUE)
      BY <2>2 DEF ClosedIsEmpty
    <3>3. base.days >= 0
      BY <1>1
    <3> HIDE DEF b0
    <3> QED
      BY <3>1, <3>2, <3>3 DEF BalanceRow
  <2> QED
    BY <2>1, <2>2
<1> HIDE DEF b0
<1>3. /\ b1 \in Balance /\ b1.entitled >= b0.entitled /\ b1.adjusted = b0.adjusted
      /\ b1.used = b0.used /\ b1.pending = b0.pending /\ b1.applied = b0.applied /\ b1.carried = b0.carried
  BY <1>1, <1>2 DEF Raised, Balance
<1> HIDE DEF b1, n
<1>4. c = Carried(b1, y, n, base)
  BY DEF Accrued, b0, b1, n
<1> HIDE DEF c
<1>5. /\ c.entitled = b1.entitled /\ c.adjusted = b1.adjusted /\ c.used = b1.used /\ c.pending = b1.pending
      /\ c.applied /\ c.carried = IF b1.applied THEN b1.carried ELSE b1.carried + n
  BY <1>1, <1>3, <1>4 DEF Carried, CarriedInto, Balance
<1>6. /\ c.entitled >= b.entitled /\ c.adjusted = b.adjusted
      /\ c.used = b.used /\ c.pending = b.pending /\ c.applied
      /\ c.carried = IF b.applied THEN b.carried ELSE b.carried + n
  BY <1>2, <1>3, <1>5, BalanceFields
<1> QED
  BY <1>6 DEF n, c, CarriedOnce

(* An accrual job: rows of one year, not of a later one than today's. *)
LEMMA AccrueSpends ==
  ASSUME TypeOK, LedgerInv, CarryInv, NEW asOf \in 1..today, NEW chunk \in SUBSET Employee,
         NEW base \in [Employee \X BalanceType -> Policy], NEW target \in [Employee \X BalanceType -> Policy],
         Accrue(asOf, chunk, base, target), NEW a \in Account
  PROVE  \/ balance'[a] = balance[a]
         \/ /\ a[3] = YearOf(asOf) /\ a[3] <= YearOf(today)
            /\ Milder(balance[a], [balance'[a] EXCEPT !.carried = balance[a].carried, !.applied = balance[a].applied])
            /\ balance'[a].applied
            /\ \/ balance'[a].carried = balance[a].carried
               \/ /\ ~balance[a].applied
                  /\ \E p \in Policy : balance'[a].carried = CarryOver(Previous(a), p)
<1> DEFINE b == balance[a]
           p == base[<<a[1], a[2]>>]
           g == target[<<a[1], a[2]>>]
           c == Accrued(b, a[3], Previous(a), p, g)
<1>1. p \in Policy /\ g \in Policy /\ a[3] \in Year /\ Previous(a) \in Balance /\ b \in Balance
  BY PreviousType DEF Account, TypeOK
<1>2. /\ balance'[a] \in {b, c}
      /\ balance'[a] # b => a[3] = YearOf(asOf)
  BY DEF Accrue
<1>3. CarriedOnce(b, c, CarryOver(Previous(a), p))
  <2>1. ClosedIsEmpty(b)
    BY DEF LedgerInv, BalanceRowsOK, ClosedIsEmpty
  <2> HIDE DEF b, p, g
  <2> QED
    BY <1>1, <2>1, AccruedCarries
<1>4. c \in Balance /\ CarryOver(Previous(a), p) \in Nat
  BY <1>1, AccruedType, CarryOverIsNat
<1>5. YearOf(asOf) <= YearOf(today)
  <2>1. asOf \in Day /\ today \in Day /\ asOf <= today
    BY ConstantsAssumption DEF TypeOK, Day
  <2> QED
    BY <2>1, YearsInOrder
<1>6. ~b.applied => b.carried = 0
  BY DEF CarryInv
<1> DEFINE x == CarryOver(Previous(a), p)
<1>7. x \in Nat /\ c.carried = IF b.applied THEN b.carried ELSE b.carried + x
  BY <1>3, <1>4 DEF CarriedOnce
<1> HIDE DEF b, c, x
<1>8. c.carried = b.carried \/ (~b.applied /\ c.carried = x)
  BY <1>6, <1>7
<1>9. Milder(b, [c EXCEPT !.carried = b.carried, !.applied = b.applied])
  BY <1>1, <1>3, <1>4, BalanceFields DEF Milder, SameCarry, Balance, CarriedOnce
<1>10. CASE balance'[a] = c /\ c # b
  BY <1>1, <1>2, <1>3, <1>5, <1>8, <1>9, <1>10 DEF b, x, CarriedOnce
<1> QED
  BY <1>2, <1>10 DEF b

(* What is carried over is left at the end of the previous year. *)
LEMMA CarryOverIsLeft ==
  ASSUME NEW q \in Balance, NEW p \in Policy
  PROVE  CarryOver(q, p) = 0 \/ CarryOver(q, p) <= Available(q)
<1>1. Available(q) \in Int /\ p.cap \in Nat
  BY ConstantsAssumption DEF Available, Balance
<1> QED
  BY <1>1 DEF CarryOver

LEMMA ExpirySpends ==
  ASSUME TypeOK, NEW asOf \in 1..today, NEW chunk \in SUBSET Employee,
         ExpireCarryOver(asOf, chunk), NEW a \in Account
  PROVE  Milder(balance[a], balance'[a])
<1> DEFINE b == balance[a]
           n == b.expired + Unused(b)
           c == [b EXCEPT !.expired = n, !.expiredAt = TRUE]
<1>1. b \in Balance
  BY DEF TypeOK
<1>2. balance'[a] \in {b, c}
  BY DEF ExpireCarryOver, Expired
<1>3. Milder(b, c)
  <2> HIDE DEF b, n
  <2>1. /\ c.pending = b.pending /\ c.used = b.used /\ c.adjusted = b.adjusted
        /\ c.carried = b.carried /\ c.applied = b.applied /\ c.entitled = b.entitled
    BY <1>1 DEF Balance
  <2> HIDE DEF c
  <2> QED
    BY <1>1, <2>1, BalanceFields DEF Milder, SameCarry
<1> QED
  BY <1>1, <1>2, <1>3, SameIsMilder

-----------------------------------------------------------------------------
(* The carry-over is not spent twice *)

LowersAdjusted(a) == \E delta \in Delta : delta < 0 /\ balance'[a].adjusted = balance[a].adjusted + delta
ReservesLate(a) == /\ balance'[a].pending > balance[a].pending
                   /\ a[3] < YearOf(today) /\ leaveType[a[2]].backdated

(* A step after which a day may be spent twice has lowered the corrections of the account, *)
(* or reserves days of a year that is over for a type that allows it.                      *)
BooksOnce == \A a \in Account : (SpentOnce(a) /\ ~SpentOnce(a)') => (LowersAdjusted(a) \/ ReservesLate(a))

(* An account whose carry-over and next year's stay as they are. *)
LEMMA SameCarryBooksOnce ==
  ASSUME TypeOK, TypeOK', LedgerInv', CarryInv, NEW a \in Account,
         \A x \in Account : SameCarry(balance[x], balance'[x]),
         \/ Milder(balance[a], balance'[a])
         \/ LowersAdjusted(a)
         \/ /\ balance'[a].pending > balance[a].pending
            /\ a[3] < YearOf(today) => leaveType[a[2]].backdated,
         SpentOnce(a), ~SpentOnce(a)', ~LowersAdjusted(a)
  PROVE  ReservesLate(a)
<1> DEFINE next == <<a[1], a[2], a[3] + 1>>
<1>1. a[3] + 1 \in Year => balance'[next].carried = balance[next].carried
  BY NextAccount DEF SameCarry
<1>2. ~Milder(balance[a], balance'[a])
  BY <1>1, MilderSpendsOnce
<1>3. a[3] + 1 \in Year /\ balance'[next].carried # 0
  BY NothingCarriedOn
<1>4. next \in Account /\ next[3] = a[3] + 1 /\ a[3] \in Nat
  BY <1>3, NextAccount
<1>5. balance[next].carried > 0
  <2>1. balance[next] \in Balance
    BY <1>4 DEF TypeOK
  <2>2. balance[next].carried \in Nat /\ balance[next].carried # 0
    BY <1>1, <1>3, <2>1, BalanceFields
  <2> QED
    BY <2>2
<1>6. a[3] + 1 <= YearOf(today)
  BY <1>4, <1>5 DEF CarryInv
<1>7. a[3] < YearOf(today)
  <2>1. YearOf(today) \in Nat
    BY YearIsNat DEF TypeOK
  <2> QED
    BY <1>4, <1>6, <2>1
<1> QED
  BY <1>2, <1>7 DEF ReservesLate

(* An accrual job: the carry-over is what the year before has left. *)
LEMMA AccrueBooksOnce ==
  ASSUME TypeOK, TypeOK', LedgerInv, LedgerInv', CarryInv, NEW asOf \in 1..today, NEW chunk \in SUBSET Employee,
         NEW base \in [Employee \X BalanceType -> Policy], NEW target \in [Employee \X BalanceType -> Policy],
         Accrue(asOf, chunk, base, target), NEW a \in Account, SpentOnce(a)
  PROVE  SpentOnce(a)'
<1> SUFFICES ASSUME a[3] + 1 \in Year PROVE SpentOnce(a)'
  BY DEF SpentOnce
<1> DEFINE next == <<a[1], a[2], a[3] + 1>>
<1>1. next \in Account /\ next[3] = a[3] + 1 /\ a = <<a[1], a[2], a[3]>> /\ a[3] \in Nat
  BY NextAccount
<1>2. balance[a] \in Balance /\ balance[next] \in Balance /\ balance'[a] \in Balance /\ balance'[next] \in Balance
  BY <1>1 DEF TypeOK
<1>3. balance'[next].carried = balance[next].carried
      \/ /\ balance'[a] = balance[a]
         /\ \E p \in Policy : balance'[next].carried = CarryOver(balance[a], p)
  <2>1. CASE balance'[next].carried # balance[next].carried
    <3>1. /\ next[3] = YearOf(asOf) /\ ~balance[next].applied
          /\ \E p \in Policy : balance'[next].carried = CarryOver(Previous(next), p)
      BY <1>1, <2>1, AccrueSpends
    <3>2. a[3] # YearOf(asOf)
      BY <1>1, <3>1
    <3>3. balance'[a] = balance[a]
      BY <3>2, AccrueSpends
    <3>4. Previous(next) = balance[a]
      <4>1. next[1] = a[1] /\ next[2] = a[2] /\ next[3] - 1 = a[3] /\ a[3] \in Year
        BY <1>1 DEF Account
      <4> HIDE DEF next
      <4> QED
        BY <1>1, <4>1 DEF Previous
    <3> QED
      BY <3>1, <3>3, <3>4
  <2> QED
    BY <2>1
<1>4. CASE balance'[next].carried = balance[next].carried
  <2> DEFINE b == balance[a]
             c == balance'[a]
             n == balance[next].carried
  <2>1. /\ c.entitled >= b.entitled /\ c.adjusted >= b.adjusted /\ c.used + c.pending <= b.used + b.pending
        /\ c.carried >= b.carried
    <3>1. CASE c = b
      BY <1>2, <3>1, BalanceFields
    <3>2. CASE c # b
      <4>1. /\ Milder(b, [c EXCEPT !.carried = b.carried, !.applied = b.applied])
            /\ c.carried = b.carried \/ (~b.applied /\ c.carried \in Nat)
        BY <1>2, <3>2, AccrueSpends, BalanceFields
      <4>2. b.carried = 0 \/ b.applied
        BY DEF CarryInv
      <4> HIDE DEF b, c
      <4>3. c.carried >= b.carried
        BY <1>2, <4>1, <4>2, BalanceFields DEF b
      <4>4. c \in Balance
        BY <1>2 DEF c
      <4>5. /\ c.entitled >= b.entitled /\ c.adjusted >= b.adjusted /\ c.used + c.pending <= b.used + b.pending
        BY <4>1, <4>4 DEF Milder, SameCarry, Balance
      <4> QED
        BY <4>3, <4>5
    <3> QED
      BY <3>1, <3>2
  <2>2. b.used + b.pending + n <= b.entitled + b.carried + b.adjusted
    BY DEF SpentOnce
  <2>3. b \in Balance /\ c \in Balance /\ n \in Nat
    BY <1>2, BalanceFields
  <2> HIDE DEF b, c, n
  <2>4. c.used + c.pending + n <= c.entitled + c.carried + c.adjusted
    BY <2>1, <2>2, <2>3, BalanceFields
  <2> QED
    BY <1>4, <2>4 DEF c, n, SpentOnce
<1>5. CASE /\ balance'[a] = balance[a]
           /\ \E p \in Policy : balance'[next].carried = CarryOver(balance[a], p)
  <2>1. balance'[next].carried = 0 \/ balance'[next].carried <= Available(balance[a])
    BY <1>2, <1>5, CarryOverIsLeft
  <2>2. CASE balance'[next].carried = 0
    BY <2>2, NothingCarriedOn
  <2>3. CASE balance'[next].carried <= Available(balance[a])
    <3> DEFINE b == balance[a]
               m == balance'[next].carried
    <3>1. b \in Balance /\ m \in Nat /\ m <= Available(b)
      BY <1>2, <2>3, BalanceFields
    <3> HIDE DEF b, m
    <3>2. b.used + b.pending + m <= b.entitled + b.carried + b.adjusted
      BY <3>1, BalanceFields DEF Available
    <3> QED
      BY <1>5, <3>2 DEF b, m, SpentOnce
  <2> QED
    BY <2>1, <2>2, <2>3
<1> QED
  BY <1>3, <1>4, <1>5

(* Every step, by kind: an accrual, or one that leaves the carry-over as it is. *)
LEMMA StepCarries ==
  ASSUME TypeOK, LedgerInv, TypeOK', CarryInv, [Next]_vars
  PROVE  \/ \E asOf \in 1..today, chunk \in SUBSET Employee :
              \E base, target \in [Employee \X BalanceType -> Policy] : Accrue(asOf, chunk, base, target)
         \/ \A a \in Account :
              /\ SameCarry(balance[a], balance'[a])
              /\ \/ Milder(balance[a], balance'[a])
                 \/ LowersAdjusted(a)
                 \/ /\ balance'[a].pending > balance[a].pending
                    /\ a[3] < YearOf(today) => leaveType[a[2]].backdated
<1>0. ASSUME \A a \in Account : Milder(balance[a], balance'[a])
      PROVE  \A a \in Account : SameCarry(balance[a], balance'[a]) /\ Milder(balance[a], balance'[a])
  BY <1>0 DEF Milder
<1>1. CASE RequestStep
  <2>1. CASE \E u \in User, r \in Request, t \in LeaveType, s, f \in Day, k \in Key \cup {NoKey}, p \in Policy :
               Submit(u, r, t, s, f, k, p)
    BY <2>1, SubmitSpends
  <2>2. CASE \E u \in User, r \in Request : Reject(u, r) \/ ApproveLevel(u, r) \/ ApproveFinal(u, r) \/ Cancel(u, r)
    BY <1>0, <2>2, DecideSpends
  <2> QED
    BY <1>1, <2>1, <2>2 DEF RequestStep
<1>2. CASE \E u \in User, t \in LeaveType, s, f \in Day, p \in Policy : Validate(u, t, s, f, p)
  <2> PICK u \in User, t \in LeaveType, s \in Day, f \in Day, p \in Policy : Validate(u, t, s, f, p)
    BY <1>2
  <2> DEFINE A == <<EmployeeOf[u], t, YearOf(s)>>
  <2>1. A \in Account
    BY ConstantsAssumption DEF Validate, Year, Account
  <2>2. \A a \in Account : balance'[a] = IF a = A THEN GetBalance(a, p) ELSE balance[a]
    BY <2>1 DEF Validate, StoreBalance, TypeOK
  <2>3. \A a \in Account : Milder(balance[a], balance'[a])
    BY <2>2, GetIsMilder, SameIsMilder DEF TypeOK
  <2> QED
    BY <1>0, <2>3
<1>3. CASE \E e \in Employee, y \in Year, p \in [BalanceType -> Policy] : ReadBalances(e, y, p)
  <2> PICK e \in Employee, y \in Year, p \in [BalanceType -> Policy] : ReadBalances(e, y, p)
    BY <1>3
  <2>1. ASSUME NEW a \in Account PROVE Milder(balance[a], balance'[a])
    <3>1. a[2] \in BalanceType /\ p[a[2]] \in Policy /\ balance[a] \in Balance
      BY DEF Account, TypeOK
    <3>2. balance'[a] \in {balance[a], GetBalance(a, p[a[2]])}
      BY DEF ReadBalances
    <3> QED
      BY <3>1, <3>2, GetIsMilder, SameIsMilder
  <2> QED
    BY <1>0, <2>1
<1>4. CASE \E e \in Employee, t \in BalanceType, y \in Year, delta \in Delta, p \in Policy :
             AdjustBalance(e, t, y, delta, p)
  BY <1>4, AdjustSpends DEF LowersAdjusted
<1>5. CASE \E asOf \in 1..today, chunk \in SUBSET Employee : ExpireCarryOver(asOf, chunk)
  BY <1>0, <1>5, ExpirySpends
<1>6. CASE ConfigStep \/ UNCHANGED vars
  <2>1. balance' = balance
    BY <1>6 DEF ConfigStep, UpdateLeaveType, CreateHoliday, DeleteHoliday, ChangeJob, NextDay, vars
  <2> QED
    BY <1>0, <2>1, SameIsMilder DEF TypeOK
<1> QED
  BY <1>1, <1>2, <1>3, <1>4, <1>5, <1>6 DEF Next, BalanceStep

LEMMA StepBooksOnce == TypeOK /\ LedgerInv /\ TypeOK' /\ LedgerInv' /\ CarryInv /\ [Next]_vars => BooksOnce
<1> SUFFICES ASSUME TypeOK, LedgerInv, TypeOK', LedgerInv', CarryInv, [Next]_vars,
                    NEW a \in Account, SpentOnce(a), ~SpentOnce(a)', ~LowersAdjusted(a)
             PROVE  ReservesLate(a)
  BY DEF BooksOnce
<1>1. CASE \E asOf \in 1..today, chunk \in SUBSET Employee :
             \E base, target \in [Employee \X BalanceType -> Policy] : Accrue(asOf, chunk, base, target)
  BY <1>1, AccrueBooksOnce
<1>2. CASE \A x \in Account :
             /\ SameCarry(balance[x], balance'[x])
             /\ \/ Milder(balance[x], balance'[x])
                \/ LowersAdjusted(x)
                \/ /\ balance'[x].pending > balance[x].pending
                   /\ x[3] < YearOf(today) => leaveType[x[2]].backdated
  BY <1>2, SameCarryBooksOnce
<1> QED
  BY <1>1, <1>2, StepCarries

(* Days pass one by one, and leave types take values HR may give them. *)
LEMMA DayAndTypes ==
  ASSUME [Next]_vars
  PROVE  /\ today' \in {today, today + 1}
         /\ \/ leaveType' = leaveType
            \/ \E t \in LeaveType, config \in LeaveTypeConfig : leaveType' = [leaveType EXCEPT ![t] = config]
<1>1. CASE RequestStep
  <2>1. \A u \in User, r \in Request, t \in LeaveType, s, f \in Day, k \in Key \cup {NoKey}, p \in Policy :
          Submit(u, r, t, s, f, k, p) => UNCHANGED <<today, leaveType>>
    BY DEF Submit, StoreRequest
  <2>2. \A u \in User, r \in Request :
          Reject(u, r) \/ ApproveLevel(u, r) \/ ApproveFinal(u, r) \/ Cancel(u, r) =>
            UNCHANGED <<today, leaveType>>
    BY DEF Reject, StoreRejection, ApproveLevel, StoreLevelApproval, ApproveFinal, StoreApproval,
      Cancel, StoreCancel
  <2> QED
    BY <1>1, <2>1, <2>2 DEF RequestStep
<1>2. CASE BalanceStep
  BY <1>2 DEF BalanceStep, Validate, StoreBalance, ReadBalances, AdjustBalance, Accrue, ExpireCarryOver
<1>3. CASE ConfigStep
  BY <1>3 DEF ConfigStep, UpdateLeaveType, CreateHoliday, DeleteHoliday, ChangeJob, NextDay
<1>4. CASE UNCHANGED vars
  BY <1>4 DEF vars
<1> QED
  BY <1>1, <1>2, <1>3, <1>4 DEF Next

LEMMA StepCarryInv == TypeOK /\ LedgerInv /\ TypeOK' /\ CarryInv /\ [Next]_vars => CarryInv'
<1> SUFFICES ASSUME TypeOK, LedgerInv, TypeOK', CarryInv, [Next]_vars, NEW a \in Account
             PROVE  /\ ~balance'[a].applied => balance'[a].carried = 0
                    /\ balance'[a].carried > 0 => a[3] <= YearOf(today)'
  BY DEF CarryInv
<1>1. /\ ~balance[a].applied => balance[a].carried = 0
      /\ balance[a].carried > 0 => a[3] <= YearOf(today)
  BY DEF CarryInv
<1>2. YearOf(today) <= YearOf(today)' /\ YearOf(today) \in Nat /\ YearOf(today)' \in Nat /\ a[3] \in Nat
  <2>1. today \in Day /\ today' \in Day /\ today <= today'
    <3>1. today \in Day /\ today' \in Day /\ today \in Nat
      BY DEF TypeOK, Day
    <3>2. today' \in {today, today + 1}
      BY DayAndTypes
    <3> QED
      BY <3>1, <3>2
  <2>2. YearOf(today)' = YearOf(today')
    BY DEF YearOf
  <2> QED
    BY <2>1, <2>2, YearsInOrder, YearsAreNat DEF Account
<1>3. CASE SameCarry(balance[a], balance'[a])
  BY <1>1, <1>2, <1>3 DEF SameCarry
<1>4. CASE \E asOf \in 1..today, chunk \in SUBSET Employee :
             \E base, target \in [Employee \X BalanceType -> Policy] : Accrue(asOf, chunk, base, target)
  <2>1. \/ balance'[a] = balance[a]
        \/ a[3] <= YearOf(today) /\ balance'[a].applied
    BY <1>4, AccrueSpends
  <2> QED
    BY <1>1, <1>2, <2>1
<1> QED
  BY <1>3, <1>4, StepCarries

(* The inductive invariant of the carry-over. *)
THEOREM CarryInvariant == Spec => []CarryInv
<1>1. Init => CarryInv
  BY DEF Init, CarryInv, BalanceRow
<1>2. TypeOK /\ LedgerInv /\ (TypeOK /\ LedgerInv)' /\ CarryInv /\ [Next]_vars => CarryInv'
  BY StepCarryInv
<1> QED
  BY <1>1, <1>2, LedgerInvariant, PTL DEF Spec

(* services/leave_accrual.py: whatever happens in whatever order, only a correction downward or a *)
(* late request of a type that allows backdating lets a day that was carried over be taken again. *)
THEOREM BookedOnce == Spec => [][BooksOnce]_vars
<1>1. TypeOK /\ LedgerInv /\ (TypeOK /\ LedgerInv)' /\ CarryInv /\ [Next]_vars => BooksOnce
  BY StepBooksOnce
<1> QED
  BY <1>1, LedgerInvariant, CarryInvariant, PTL DEF Spec

(* So it never is, where no type allows backdating and corrections only add. *)
THEOREM CarryOverOnce ==
  ASSUME NeverBackdated, Delta \subseteq Nat
  PROVE  Spec => []CarryOverNotSpentTwice
<1> DEFINE NoneBackdated == \A t \in LeaveType : ~leaveType[t].backdated
<1>1. Init => NoneBackdated /\ CarryOverNotSpentTwice
  <2> SUFFICES ASSUME Init PROVE NoneBackdated /\ CarryOverNotSpentTwice
    OBVIOUS
  <2>1. \A a \in Account : balance[a] = BalanceRow(0, FALSE)
    BY DEF Init
  <2>2. \A a \in Account : SpentOnce(a)
    BY <2>1, NextAccount DEF SpentOnce, BalanceRow
  <2> QED
    BY <2>2 DEF Init, NeverBackdated, CarryOverNotSpentTwice
<1>2. TypeOK /\ NoneBackdated /\ [Next]_vars => NoneBackdated'
  <2> SUFFICES ASSUME TypeOK, NoneBackdated, [Next]_vars PROVE NoneBackdated'
    OBVIOUS
  <2>1. ASSUME NEW t \in LeaveType, NEW config \in LeaveTypeConfig,
               leaveType' = [leaveType EXCEPT ![t] = config]
        PROVE  NoneBackdated'
    BY <2>1 DEF NeverBackdated, TypeOK
  <2> QED
    BY <2>1, DayAndTypes
<1>3. NoneBackdated /\ CarryOverNotSpentTwice /\ [BooksOnce]_vars => CarryOverNotSpentTwice'
  <2> SUFFICES ASSUME NoneBackdated, CarryOverNotSpentTwice, [BooksOnce]_vars PROVE CarryOverNotSpentTwice'
    OBVIOUS
  <2>1. CASE BooksOnce
    <3>1. ASSUME NEW a \in Account PROVE ~LowersAdjusted(a) /\ ~ReservesLate(a)
      <4>1. a[2] \in LeaveType
        BY ConstantsAssumption DEF Account
      <4>2. \A delta \in Delta : ~(delta < 0)
        OBVIOUS
      <4> QED
        BY <4>1, <4>2 DEF LowersAdjusted, ReservesLate
    <3> QED
      BY <2>1, <3>1 DEF BooksOnce, CarryOverNotSpentTwice
  <2>2. CASE UNCHANGED vars
    BY <2>2 DEF vars, CarryOverNotSpentTwice, SpentOnce
  <2> QED
    BY <2>1, <2>2
<1> QED
  BY <1>1, <1>2, <1>3, BookedOnce, TypeCorrect, PTL DEF Spec
=============================================================================
