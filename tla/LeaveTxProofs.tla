----------------------------- MODULE LeaveTxProofs -----------------------------
(* Proofs about LeaveTx, for every value of its constants: concurrent calls of leave *)
(* management do what they would do one after the other.                             *)
EXTENDS LeaveTx, LeaveLedgerProofs

LEMMA OperationFacts ==
  ASSUME NEW o \in Operation
  PROVE  /\ o.kind \in Kind /\ o.user \in User /\ o.request \in Request
         /\ o.employee \in Employee /\ o.type \in LeaveType
         /\ o.start \in Day /\ o.end \in Day /\ YearOf(o.start) \in Year
         /\ o.key \in Key \cup {NoKey} /\ o.delta \in Delta /\ o.policy \in Policy
         /\ o.kind = "submit" => o.employee = EmployeeOf[o.user]
         /\ o.kind = "adjust" => o.type \in BalanceType
<1>1. o \in AnyOperation
  BY OperationAssumption
<1>2. /\ o.kind = "submit" => o.employee = EmployeeOf[o.user]
      /\ o.kind = "adjust" => o.type \in BalanceType
  BY OperationAssumption
<1> QED
  BY <1>1, <1>2 DEF AnyOperation, Year

(* The balance a call uses is one of the ledger's. *)
LEMMA BucketIsAccount ==
  ASSUME TypeOK, RequestRowsOK, TxTypeOK, NEW c \in Call, UsesBucket(c),
         Decides(c) => status[op[c].request] # "none"
  PROVE  Bucket(c) \in Account
<1>1. op[c] \in Operation
  BY DEF TxTypeOK
<1>2. CASE Decides(c)
  <2> DEFINE r == op[c].request
  <2>1. r \in Request /\ status[r] # "none"
    BY <1>1, <1>2, OperationFacts
  <2>2. row[r].employee \in Employee /\ row[r].start \in Day
    BY <2>1 DEF RequestRowsOK
  <2>3. row[r].type \in BalanceType
    BY <1>2 DEF UsesBucket, Bucket, AccountOf
  <2> QED
    BY <1>2, <2>2, <2>3 DEF Bucket, AccountOf, Account, Year
<1>3. CASE ~Decides(c)
  BY <1>1, <1>3, OperationFacts DEF UsesBucket, Bucket, Account
<1> QED
  BY <1>2, <1>3

-----------------------------------------------------------------------------
(* Statements that change no row *)

LEMMA LedgerFrame ==
  ASSUME UNCHANGED vars, NEW e, NEW t, NEW s, NEW f, NEW k, NEW p
  PROVE  /\ KeyTaken(e, k)' <=> KeyTaken(e, k)
         /\ Excluded(e, s, f)' <=> Excluded(e, s, f)
         /\ HardRules(e, t, s, f)' <=> HardRules(e, t, s, f)
         /\ BalanceCovers(e, t, s, f, p)' <=> BalanceCovers(e, t, s, f, p)
<1>1. WorkingDays(s, f)' = WorkingDays(s, f)
  BY DEF WorkingDays, vars
<1>2. KeyTaken(e, k)' <=> KeyTaken(e, k)
  BY DEF KeyTaken, vars
<1>3. Excluded(e, s, f)' <=> Excluded(e, s, f)
  BY DEF Excluded, vars
<1>4. HardRules(e, t, s, f)' <=> HardRules(e, t, s, f)
  BY <1>1 DEF HardRules, CheckNotice, CheckMaxDays, vars
<1>5. BalanceCovers(e, t, s, f, p)' <=> BalanceCovers(e, t, s, f, p)
  BY <1>1 DEF BalanceCovers, GetBalance, vars
<1> QED
  BY <1>2, <1>3, <1>4, <1>5

LEMMA CallFrame ==
  ASSUME UNCHANGED vars, UNCHANGED op, NEW c \in Call
  PROVE  /\ Submits(c)' <=> Submits(c)
         /\ Decides(c)' <=> Decides(c)
         /\ Bucket(c)' = Bucket(c)
         /\ UsesBucket(c)' <=> UsesBucket(c)
         /\ Current(c)' = Current(c)
         /\ Allowed(c)' <=> Allowed(c)
         /\ LevelOnly(c)' <=> LevelOnly(c)
<1>1. (Submits(c)' <=> Submits(c)) /\ (Decides(c)' <=> Decides(c))
  BY DEF Submits, Decides
<1>2. Bucket(c)' = Bucket(c)
  BY DEF Bucket, Decides, AccountOf, vars
<1>3. UsesBucket(c)' <=> UsesBucket(c)
  BY <1>2 DEF UsesBucket
<1>4. Current(c)' = Current(c)
  BY <1>1, <1>2 DEF Current, GetBalance, vars
<1>5. Allowed(c)' <=> Allowed(c)
  BY DEF Allowed, MayDecide, MayCancel, CanCancel, vars
<1>6. LevelOnly(c)' <=> LevelOnly(c)
  BY DEF LevelOnly, vars
<1> QED
  BY <1>1, <1>2, <1>3, <1>4, <1>5, <1>6

LEMMA TxInvParts ==
  ASSUME TxInv, NEW c \in Call
  PROVE  /\ TxTypeOK /\ SeenIsCurrent(c) /\ DecisionStages(c)
         /\ \A o \in Operation : (op[c] = o /\ o.kind = "submit") => SubmitStages(c, o)
         /\ \A d \in Call \ {c} : LocksExclude(c, d) /\ SubmitsApart(c, d)
         /\ op[c] \in Operation
BY DEF TxInv, TxTypeOK

(* A statement of c that changes no row must answer for c alone. *)
LEMMA MoveStep ==
  ASSUME TxInv, NEW c \in Call, NEW q \in {"idle"} \cup Running \cup Ended, NEW b \in Balance \cup {NoBalance},
         UNCHANGED vars, UNCHANGED op, pc' = [pc EXCEPT ![c] = q], seen' = [seen EXCEPT ![c] = b],
         SeenIsCurrent(c)', DecisionStages(c)',
         \A o \in Operation : (op[c] = o /\ o.kind = "submit") => SubmitStages(c, o)',
         \A d \in Call \ {c} : LocksExclude(c, d)' /\ SubmitsApart(c, d)'
  PROVE  TxInv'
<1>1. TxTypeOK'
  BY TxInvParts DEF TxInv, TxTypeOK
<1>2. ASSUME NEW d \in Call, d # c
      PROVE  pc'[d] = pc[d] /\ seen'[d] = seen[d] /\ (HoldsBalance(d)' <=> HoldsBalance(d))
             /\ (HoldsRequest(d)' <=> HoldsRequest(d)) /\ (InFlight(d)' <=> InFlight(d))
  BY <1>2, CallFrame DEF TxInv, TxTypeOK, HoldsBalance, HoldsRequest, InFlight
<1>3. ASSUME NEW d \in Call, d # c
      PROVE  SeenIsCurrent(d)' /\ DecisionStages(d)'
  <2>1. SeenIsCurrent(d) /\ DecisionStages(d)
    BY DEF TxInv
  <2>2. SeenIsCurrent(d)'
    BY <1>2, <1>3, <2>1, CallFrame DEF SeenIsCurrent
  <2>3. DecisionStages(d)'
    BY <1>2, <1>3, <2>1, CallFrame DEF DecisionStages
  <2> QED
    BY <2>2, <2>3
<1>4. ASSUME NEW d \in Call, d # c, NEW o \in Operation, op[d] = o, o.kind = "submit"
      PROVE  SubmitStages(d, o)'
  <2>1. SubmitStages(d, o)
    BY <1>4 DEF TxInv
  <2>2. status'[o.request] = status[o.request]
    BY DEF vars
  <2> QED
    BY <1>2, <1>4, <2>1, <2>2, LedgerFrame DEF SubmitStages
<1>5. ASSUME NEW d \in Call, NEW e \in Call, d # c, e # c, d # e
      PROVE  LocksExclude(d, e)' /\ SubmitsApart(d, e)'
  <2>1. LocksExclude(d, e) /\ SubmitsApart(d, e)
    BY <1>5 DEF TxInv
  <2> QED
    BY <1>2, <1>5, <2>1, CallFrame DEF LocksExclude, SubmitsApart
<1>6. ASSUME NEW d \in Call, d # c
      PROVE  LocksExclude(d, c)' /\ SubmitsApart(d, c)'
  <2>1. LocksExclude(c, d)' /\ SubmitsApart(c, d)'
    BY <1>6
  <2> QED
    BY <2>1 DEF LocksExclude, SubmitsApart, SameKey, DatesMeet, RangesMeet
<1> QED
  BY <1>1, <1>3, <1>4, <1>5, <1>6 DEF TxInv

LEMMA MovedValues ==
  ASSUME TxTypeOK, NEW c \in Call, NEW q, NEW b, pc' = [pc EXCEPT ![c] = q], seen' = [seen EXCEPT ![c] = b]
  PROVE  pc'[c] = q /\ seen'[c] = b /\ (HoldsBalance(c)' <=> b # NoBalance)
BY DEF TxTypeOK, HoldsBalance

(* A call that ends without a commit holds nothing. *)
LEMMA EndStep ==
  ASSUME TxInv, NEW c \in Call, NEW q \in Ended \ {"stored"}, pc[c] # "stored", End(c, q)
  PROVE  TxInv'
<1>1. UNCHANGED vars /\ UNCHANGED op /\ pc' = [pc EXCEPT ![c] = q] /\ seen' = [seen EXCEPT ![c] = NoBalance]
  BY DEF End
<1>2. pc'[c] = q /\ ~HoldsBalance(c)'
  BY <1>1, MovedValues DEF TxInv
<1>3. SeenIsCurrent(c)'
  BY <1>2 DEF SeenIsCurrent
<1>4. ~HoldsRequest(c)' /\ ~InFlight(c)'
  BY <1>2 DEF HoldsRequest, InFlight, Ended, Running
<1>5. DecisionStages(c)'
  BY <1>2, <1>4 DEF DecisionStages, Ended
<1>6. ASSUME NEW o \in Operation, op[c] = o, o.kind = "submit"
      PROVE  SubmitStages(c, o)'
  <2>1. status[o.request] = "none"
    BY <1>6, TxInvParts DEF SubmitStages
  <2> QED
    BY <1>1, <1>2, <2>1 DEF SubmitStages, Ended, vars
<1>7. ASSUME NEW d \in Call \ {c}
      PROVE  LocksExclude(c, d)' /\ SubmitsApart(c, d)'
  <2>1. SubmitsApart(c, d)
    BY <1>7, TxInvParts
  <2>2. LocksExclude(c, d)'
    BY <1>2, <1>4 DEF LocksExclude
  <2>3. SubmitsApart(c, d)'
    BY <1>1, <1>2, <1>4, <2>1 DEF SubmitsApart, Submits, Ended
  <2> QED
    BY <2>2, <2>3
<1> QED
  BY <1>1, <1>3, <1>5, <1>6, <1>7, MoveStep

-----------------------------------------------------------------------------
(* The statements of a submit *)

(* What the row of a submit is, for the ledger. *)
LEMMA SubmitBucket ==
  ASSUME TxInv, NEW c \in Call, Submits(c)
  PROVE  /\ op[c].kind = "submit" /\ ~Decides(c) /\ ~HoldsRequest(c)
         /\ Bucket(c) = <<op[c].employee, op[c].type, YearOf(op[c].start)>>
         /\ UsesBucket(c) <=> op[c].type \in BalanceType
         /\ Current(c) = GetBalance(Bucket(c), op[c].policy)
BY DEF Submits, Decides, HoldsRequest, Bucket, UsesBucket, Current

(* A submit may go on to statement q, holding b, if q's stage is justified. *)
LEMMA SubmitStep ==
  ASSUME TxInv, NEW c \in Call, NEW o \in Operation, op[c] = o, o.kind = "submit",
         NEW q \in {"keyed", "evaluated", "checked", "inserted", "ready"}, NEW b \in Balance \cup {NoBalance},
         pc[c] # "stored",
         UNCHANGED vars, UNCHANGED op, pc' = [pc EXCEPT ![c] = q], seen' = [seen EXCEPT ![c] = b],
         q = "evaluated" => o.type \in BalanceType,
         q # "keyed" => HardRules(o.employee, o.type, o.start, o.end),
         q \in {"checked", "inserted", "ready"} =>
           /\ o.type \in BalanceType => b # NoBalance
           /\ BalanceCovers(o.employee, o.type, o.start, o.end, o.policy),
         q \in {"inserted", "ready"} =>
           /\ ~KeyTaken(o.employee, o.key)
           /\ \A d \in Call \ {c} : InFlight(d) => ~SameKey(o, op[d]),
         q = "ready" =>
           /\ ~Excluded(o.employee, o.start, o.end)
           /\ \A d \in Call \ {c} : InFlight(d) => ~DatesMeet(o, op[d]),
         b # NoBalance =>
           /\ o.type \in BalanceType /\ b = Current(c) /\ q \in {"checked", "inserted", "ready"}
           /\ \A d \in Call \ {c} : HoldsBalance(d) => Bucket(d) # Bucket(c)
  PROVE  TxInv'
<1>1. pc'[c] = q /\ seen'[c] = b /\ (HoldsBalance(c)' <=> b # NoBalance)
  BY MovedValues DEF TxInv
<1>2. /\ Submits(c) /\ ~Decides(c) /\ (UsesBucket(c) <=> o.type \in BalanceType)
      /\ Submits(c)' /\ ~Decides(c)' /\ (UsesBucket(c)' <=> o.type \in BalanceType)
      /\ Current(c)' = Current(c) /\ Bucket(c)' = Bucket(c)
  BY SubmitBucket, CallFrame DEF Submits
<1>3. SeenIsCurrent(c)'
  BY <1>1, <1>2 DEF SeenIsCurrent
<1>4. DecisionStages(c)'
  BY <1>2 DEF DecisionStages, Decides, HoldsRequest
<1>5. SubmitStages(c, o)'
  <2>1. status'[o.request] = "none"
    BY TxInvParts DEF SubmitStages, vars
  <2> QED
    BY <1>1, <2>1, LedgerFrame DEF SubmitStages
<1>6. ASSUME NEW d \in Call \ {c}
      PROVE  LocksExclude(c, d)' /\ SubmitsApart(c, d)'
  <2>1. SubmitsApart(c, d) /\ pc'[d] = pc[d] /\ seen'[d] = seen[d]
    BY <1>6, TxInvParts DEF TxInv, TxTypeOK
  <2>2. LocksExclude(c, d)'
    BY <1>1, <1>2, <2>1, CallFrame DEF LocksExclude, HoldsRequest, HoldsBalance
  <2>3. (InFlight(d)' <=> InFlight(d)) /\ (InFlight(c)' => q \in {"inserted", "ready"})
    BY <1>1, <2>1, CallFrame DEF InFlight
  <2>4. (pc[d] = "ready" /\ Submits(d)) => InFlight(d)
    BY DEF InFlight
  <2> QED
    BY <1>1, <1>2, <2>1, <2>2, <2>3, <2>4, CallFrame DEF SubmitsApart
<1> QED
  BY <1>3, <1>4, <1>5, <1>6, MoveStep DEF Running

LEMMA FindKeyStep == ASSUME TxInv, NEW c \in Call, FindKey(c) PROVE TxInv'
<1>1. op[c] \in Operation /\ op[c].kind = "submit" /\ pc[c] = "idle" /\ SeenIsCurrent(c)
  BY TxInvParts DEF FindKey, Submits
<1>2. CASE End(c, "returned")
  BY <1>1, <1>2, EndStep DEF Ended
<1>3. CASE Goto(c, "keyed")
  <2>1. seen[c] = NoBalance
    BY <1>1 DEF SeenIsCurrent, HoldsBalance
  <2>2. /\ UNCHANGED vars /\ UNCHANGED op
        /\ pc' = [pc EXCEPT ![c] = "keyed"] /\ seen' = [seen EXCEPT ![c] = NoBalance]
    BY <1>3, <2>1 DEF Goto, TxInv, TxTypeOK
  <2> QED
    BY <1>1, <2>2, SubmitStep
<1> QED
  BY <1>2, <1>3 DEF FindKey

LEMMA EvaluateStep == ASSUME TxInv, NEW c \in Call, Evaluate(c) PROVE TxInv'
<1>1. op[c] \in Operation /\ op[c].kind = "submit" /\ pc[c] = "keyed" /\ SeenIsCurrent(c) /\ Submits(c)
  BY TxInvParts DEF Evaluate, Submits
<1>2. CASE End(c, "refused")
  BY <1>1, <1>2, EndStep DEF Ended
<1>3. ASSUME Goto(c, IF UsesBucket(c) THEN "evaluated" ELSE "checked"),
             Admissible(op[c].employee, op[c].type, op[c].start, op[c].end)
      PROVE  TxInv'
  <2> DEFINE q == IF UsesBucket(c) THEN "evaluated" ELSE "checked"
             o == op[c]
  <2>1. seen[c] = NoBalance
    BY <1>1 DEF SeenIsCurrent, HoldsBalance
  <2>2. /\ UNCHANGED vars /\ UNCHANGED op
        /\ pc' = [pc EXCEPT ![c] = q] /\ seen' = [seen EXCEPT ![c] = NoBalance]
    BY <1>3, <2>1 DEF Goto, TxInv, TxTypeOK
  <2>3. HardRules(o.employee, o.type, o.start, o.end)
    BY <1>3 DEF Admissible
  <2>4. (UsesBucket(c) <=> o.type \in BalanceType) /\ q \in {"evaluated", "checked"}
        /\ (q = "evaluated" => o.type \in BalanceType)
        /\ (q # "evaluated" => o.type \notin BalanceType)
    BY <1>1, SubmitBucket
  <2>5. o.type \notin BalanceType => BalanceCovers(o.employee, o.type, o.start, o.end, o.policy)
    BY DEF BalanceCovers
  <2> HIDE DEF q
  <2> QED
    BY <1>1, <2>2, <2>3, <2>4, <2>5, SubmitStep
<1> QED
  BY <1>2, <1>3 DEF Evaluate

(* Waiting for nobody means that no lock and no index entry is in the way. *)
LEMMA NothingInTheWay ==
  ASSUME NEW c \in Call, WaitsFor(c) = {}, NEW d \in Call \ {c}
  PROVE  /\ (WantsRequest(c) /\ HoldsRequest(d)) => op[d].request # op[c].request
         /\ (WantsBalance(c) /\ HoldsBalance(d)) => Bucket(d) # Bucket(c)
         /\ (Submits(c) /\ pc[c] = "checked" /\ InFlight(d)) => ~SameKey(op[c], op[d])
         /\ (Submits(c) /\ pc[c] = "inserted" /\ InFlight(d)) => ~DatesMeet(op[c], op[d])
BY DEF WaitsFor, ChecksDates, Checked

LEMMA CurrentType ==
  ASSUME TypeOK, LedgerInv, TxInv, NEW c \in Call, UsesBucket(c),
         Decides(c) => status[op[c].request] # "none"
  PROVE  Current(c) \in Balance /\ Current(c) # NoBalance
<1>1. RequestRowsOK
  BY DEF LedgerInv
<1>2. Bucket(c) \in Account /\ op[c].policy \in Policy
  BY <1>1, BucketIsAccount, TxInvParts, OperationFacts
<1>3. GetBalance(Bucket(c), op[c].policy) \in Balance
  BY <1>2, GetBalanceType
<1>4. balance[Bucket(c)] \in Balance
  BY <1>2 DEF TypeOK
<1> QED
  BY <1>3, <1>4, OperationAssumption DEF Current

LEMMA CheckBalanceStep ==
  ASSUME TypeOK, LedgerInv, TxInv, NEW c \in Call, WaitsFor(c) = {}, CheckBalance(c)
  PROVE  TxInv'
<1> DEFINE o == op[c]
<1>1. o \in Operation /\ o.kind = "submit" /\ pc[c] = "evaluated" /\ Submits(c) /\ SubmitStages(c, o)
  BY TxInvParts DEF CheckBalance, Submits
<1>2. CASE End(c, "refused")
  BY <1>1, <1>2, EndStep DEF Ended
<1>3. ASSUME Lock(c, Current(c), "checked"), BalanceCovers(o.employee, o.type, o.start, o.end, o.policy)
      PROVE  TxInv'
  <2>1. UsesBucket(c) /\ ~Decides(c) /\ o.type \in BalanceType
    BY <1>1, SubmitBucket DEF SubmitStages
  <2>2. Current(c) \in Balance /\ Current(c) # NoBalance
    BY <2>1, CurrentType
  <2>3. \A d \in Call \ {c} : HoldsBalance(d) => Bucket(d) # Bucket(c)
    BY <1>1, <2>1, NothingInTheWay DEF WantsBalance
  <2>4. /\ UNCHANGED vars /\ UNCHANGED op
        /\ pc' = [pc EXCEPT ![c] = "checked"] /\ seen' = [seen EXCEPT ![c] = Current(c)]
    BY <1>3 DEF Lock
  <2>5. HardRules(o.employee, o.type, o.start, o.end)
    BY <1>1 DEF SubmitStages
  <2> QED
    BY <1>1, <1>3, <2>1, <2>2, <2>3, <2>4, <2>5, SubmitStep
<1> QED
  BY <1>2, <1>3 DEF CheckBalance

LEMMA InsertStep ==
  ASSUME TxInv, NEW c \in Call, WaitsFor(c) = {}, Insert(c)
  PROVE  TxInv'
<1> DEFINE o == op[c]
<1>1. /\ o \in Operation /\ o.kind = "submit" /\ pc[c] = "checked" /\ Submits(c)
      /\ SubmitStages(c, o) /\ SeenIsCurrent(c) /\ TxTypeOK
  BY TxInvParts DEF Insert, Submits
<1>2. CASE End(c, "conflict")
  BY <1>1, <1>2, EndStep DEF Ended
<1>3. ASSUME Goto(c, "inserted"), ~KeyTaken(o.employee, o.key)
      PROVE  TxInv'
  <2>1. /\ UNCHANGED vars /\ UNCHANGED op /\ seen[c] \in Balance \cup {NoBalance}
        /\ pc' = [pc EXCEPT ![c] = "inserted"] /\ seen' = [seen EXCEPT ![c] = seen[c]]
    BY <1>1, <1>3 DEF Goto, TxTypeOK
  <2>2. \A d \in Call \ {c} : InFlight(d) => ~SameKey(o, op[d])
    BY <1>1, NothingInTheWay
  <2>3. seen[c] # NoBalance =>
          /\ o.type \in BalanceType /\ seen[c] = Current(c)
          /\ \A d \in Call \ {c} : HoldsBalance(d) => Bucket(d) # Bucket(c)
    BY <1>1, TxInvParts, SubmitBucket DEF SeenIsCurrent, HoldsBalance, LocksExclude
  <2>4. /\ HardRules(o.employee, o.type, o.start, o.end)
        /\ o.type \in BalanceType => seen[c] # NoBalance
        /\ BalanceCovers(o.employee, o.type, o.start, o.end, o.policy)
    BY <1>1 DEF SubmitStages, HoldsBalance
  <2> QED
    BY <1>1, <1>3, <2>1, <2>2, <2>3, <2>4, SubmitStep
<1> QED
  BY <1>2, <1>3 DEF Insert

LEMMA CheckDatesStep ==
  ASSUME TxInv, NEW c \in Call, WaitsFor(c) = {}, CheckDates(c)
  PROVE  TxInv'
<1> DEFINE o == op[c]
<1>1. /\ o \in Operation /\ o.kind = "submit" /\ pc[c] = "inserted" /\ Submits(c) /\ InFlight(c)
      /\ SubmitStages(c, o) /\ SeenIsCurrent(c) /\ TxTypeOK
  BY TxInvParts DEF CheckDates, Submits, InFlight
<1>2. CASE End(c, "conflict")
  BY <1>1, <1>2, EndStep DEF Ended
<1>3. ASSUME Goto(c, "ready"), ~Excluded(o.employee, o.start, o.end)
      PROVE  TxInv'
  <2>1. /\ UNCHANGED vars /\ UNCHANGED op /\ seen[c] \in Balance \cup {NoBalance}
        /\ pc' = [pc EXCEPT ![c] = "ready"] /\ seen' = [seen EXCEPT ![c] = seen[c]]
    BY <1>1, <1>3 DEF Goto, TxTypeOK
  <2>2. \A d \in Call \ {c} : InFlight(d) => ~DatesMeet(o, op[d]) /\ ~SameKey(o, op[d])
    BY <1>1, NothingInTheWay, TxInvParts DEF SubmitsApart, InFlight
  <2>3. seen[c] # NoBalance =>
          /\ o.type \in BalanceType /\ seen[c] = Current(c)
          /\ \A d \in Call \ {c} : HoldsBalance(d) => Bucket(d) # Bucket(c)
    BY <1>1, TxInvParts, SubmitBucket DEF SeenIsCurrent, HoldsBalance, LocksExclude
  <2>4. /\ HardRules(o.employee, o.type, o.start, o.end)
        /\ o.type \in BalanceType => seen[c] # NoBalance
        /\ BalanceCovers(o.employee, o.type, o.start, o.end, o.policy)
        /\ ~KeyTaken(o.employee, o.key)
    BY <1>1 DEF SubmitStages, HoldsBalance
  <2> QED
    BY <1>1, <1>3, <2>1, <2>2, <2>3, <2>4, SubmitStep
<1> QED
  BY <1>2, <1>3 DEF CheckDates

-----------------------------------------------------------------------------
(* The statements of a decision and of a correction *)

(* A decision may go on to statement q, holding b, if it still may decide. *)
LEMMA DecisionStep ==
  ASSUME TxInv, NEW c \in Call, Decides(c), Allowed(c),
         NEW q \in {"loaded", "written", "updated", "balanced", "ready"}, NEW b \in Balance \cup {NoBalance},
         UNCHANGED vars, UNCHANGED op, pc' = [pc EXCEPT ![c] = q], seen' = [seen EXCEPT ![c] = b],
         \A d \in Call \ {c} : HoldsRequest(d) => op[d].request # op[c].request,
         (op[c].kind = "approve" /\ q \in {"written", "updated"}) => ~LevelOnly(c),
         (q \in {"balanced", "ready"} /\ UsesBucket(c) /\ ~LevelOnly(c)) => b # NoBalance,
         b # NoBalance =>
           /\ UsesBucket(c) /\ b = Current(c) /\ q \in {"balanced", "ready"}
           /\ \A d \in Call \ {c} : HoldsBalance(d) => Bucket(d) # Bucket(c)
  PROVE  TxInv'
<1>1. pc'[c] = q /\ seen'[c] = b /\ (HoldsBalance(c)' <=> b # NoBalance)
  BY MovedValues DEF TxInv
<1>2. /\ ~Submits(c) /\ ~Submits(c)' /\ Decides(c)' /\ op[c].kind # "adjust"
      /\ (UsesBucket(c)' <=> UsesBucket(c)) /\ (LevelOnly(c)' <=> LevelOnly(c))
      /\ Current(c)' = Current(c) /\ Bucket(c)' = Bucket(c) /\ Allowed(c)'
  BY CallFrame DEF Submits, Decides
<1>3. SeenIsCurrent(c)'
  BY <1>1, <1>2 DEF SeenIsCurrent
<1>4. DecisionStages(c)'
  BY <1>1, <1>2 DEF DecisionStages
<1>5. \A o \in Operation : ~(op[c] = o /\ o.kind = "submit")
  BY <1>2 DEF Submits
<1>6. ASSUME NEW d \in Call \ {c}
      PROVE  LocksExclude(c, d)' /\ SubmitsApart(c, d)'
  <2>1. pc'[d] = pc[d] /\ seen'[d] = seen[d]
    BY <1>6 DEF TxInv, TxTypeOK
  <2>2. LocksExclude(c, d)'
    BY <1>1, <1>2, <2>1, CallFrame DEF LocksExclude, HoldsRequest, HoldsBalance
  <2> QED
    BY <1>2, <2>2 DEF SubmitsApart
<1> QED
  BY <1>3, <1>4, <1>5, <1>6, MoveStep DEF Running

(* What a decision that has loaded its request keeps. *)
LEMMA LoadedFacts ==
  ASSUME TxInv, NEW c \in Call, Decides(c), pc[c] \in Running
  PROVE  /\ HoldsRequest(c) /\ Allowed(c) /\ status[op[c].request] # "none"
         /\ \A d \in Call \ {c} : HoldsRequest(d) => op[d].request # op[c].request
<1>1. HoldsRequest(c)
  BY DEF HoldsRequest, Running
<1>2. Allowed(c)
  BY <1>1, TxInvParts DEF DecisionStages
<1>3. status[op[c].request] # "none"
  BY <1>2 DEF Allowed, MayDecide
<1> QED
  BY <1>1, <1>2, <1>3, TxInvParts DEF LocksExclude

LEMMA LoadStep ==
  ASSUME TxInv, NEW c \in Call, WaitsFor(c) = {}, Load(c)
  PROVE  TxInv'
<1>1. Decides(c) /\ pc[c] = "idle" /\ SeenIsCurrent(c) /\ WantsRequest(c)
  BY TxInvParts DEF Load, WantsRequest
<1>2. CASE End(c, "refused")
  BY <1>1, <1>2, EndStep DEF Ended
<1>3. ASSUME Goto(c, "loaded"), Allowed(c)
      PROVE  TxInv'
  <2>1. seen[c] = NoBalance
    BY <1>1 DEF SeenIsCurrent, HoldsBalance
  <2>2. /\ UNCHANGED vars /\ UNCHANGED op
        /\ pc' = [pc EXCEPT ![c] = "loaded"] /\ seen' = [seen EXCEPT ![c] = NoBalance]
    BY <1>3, <2>1 DEF Goto, TxInv, TxTypeOK
  <2>3. \A d \in Call \ {c} : HoldsRequest(d) => op[d].request # op[c].request
    BY <1>1, NothingInTheWay
  <2> QED
    BY <1>1, <1>3, <2>2, <2>3, DecisionStep
<1> QED
  BY <1>2, <1>3 DEF Load

LEMMA WriteStep ==
  ASSUME TxInv, NEW c \in Call, Write(c)
  PROVE  TxInv'
<1> DEFINE q == IF op[c].kind = "reject" THEN "updated" ELSE IF LevelOnly(c) THEN "ready" ELSE "written"
<1>1. Decides(c) /\ pc[c] = "loaded" /\ SeenIsCurrent(c) /\ op[c].kind \in {"approve", "reject"}
  BY TxInvParts DEF Write, Decides
<1>2. seen[c] = NoBalance
  BY <1>1 DEF SeenIsCurrent, HoldsBalance
<1>3. /\ UNCHANGED vars /\ UNCHANGED op
      /\ pc' = [pc EXCEPT ![c] = q] /\ seen' = [seen EXCEPT ![c] = NoBalance]
  BY <1>2 DEF Write, Goto, TxInv, TxTypeOK
<1>4. /\ q \in {"written", "updated", "ready"}
      /\ (op[c].kind = "approve" /\ q \in {"written", "updated"}) => ~LevelOnly(c)
      /\ q = "ready" => LevelOnly(c)
  BY <1>1
<1> HIDE DEF q
<1> QED
  BY <1>1, <1>3, <1>4, LoadedFacts, DecisionStep DEF Running

LEMMA CheckWrittenStep ==
  ASSUME TxInv, NEW c \in Call, CheckWritten(c)
  PROVE  TxInv'
<1>1. Decides(c) /\ pc[c] = "written" /\ SeenIsCurrent(c) /\ DecisionStages(c) /\ op[c].kind = "approve"
  BY TxInvParts DEF CheckWritten, Decides
<1>2. seen[c] = NoBalance
  BY <1>1 DEF SeenIsCurrent, HoldsBalance
<1>3. /\ UNCHANGED vars /\ UNCHANGED op
      /\ pc' = [pc EXCEPT ![c] = "updated"] /\ seen' = [seen EXCEPT ![c] = NoBalance]
  BY <1>2 DEF CheckWritten, Goto, TxInv, TxTypeOK
<1>4. ~LevelOnly(c)
  BY <1>1 DEF DecisionStages
<1> QED
  BY <1>1, <1>3, <1>4, LoadedFacts, DecisionStep DEF Running

LEMMA LockReleasedStep ==
  ASSUME TypeOK, LedgerInv, TxInv, NEW c \in Call, WaitsFor(c) = {}, LockReleased(c)
  PROVE  TxInv'
<1> DEFINE next == IF op[c].kind = "cancel" THEN "balanced" ELSE "ready"
<1>1. Decides(c) /\ pc[c] \in {"updated", "loaded"} /\ SeenIsCurrent(c) /\ next \in {"balanced", "ready"}
  BY TxInvParts DEF LockReleased, Decides
<1>2. /\ Allowed(c) /\ status[op[c].request] # "none"
      /\ \A d \in Call \ {c} : HoldsRequest(d) => op[d].request # op[c].request
  BY <1>1, LoadedFacts DEF Running
<1>3. CASE UsesBucket(c)
  <2>1. Current(c) \in Balance /\ Current(c) # NoBalance
    BY <1>2, <1>3, CurrentType
  <2>2. \A d \in Call \ {c} : HoldsBalance(d) => Bucket(d) # Bucket(c)
    BY <1>3, NothingInTheWay DEF WantsBalance, LockReleased
  <2>3. /\ UNCHANGED vars /\ UNCHANGED op
        /\ pc' = [pc EXCEPT ![c] = next] /\ seen' = [seen EXCEPT ![c] = Current(c)]
    BY <1>3 DEF LockReleased, Lock
  <2> HIDE DEF next
  <2> QED
    BY <1>1, <1>2, <1>3, <2>1, <2>2, <2>3, DecisionStep
<1>4. CASE ~UsesBucket(c)
  <2>1. seen[c] = NoBalance
    BY <1>4, <1>1 DEF SeenIsCurrent, HoldsBalance
  <2>2. /\ UNCHANGED vars /\ UNCHANGED op
        /\ pc' = [pc EXCEPT ![c] = next] /\ seen' = [seen EXCEPT ![c] = NoBalance]
    BY <1>4, <2>1 DEF LockReleased, Goto, TxInv, TxTypeOK
  <2> HIDE DEF next
  <2> QED
    BY <1>1, <1>2, <1>4, <2>2, DecisionStep
<1> QED
  BY <1>3, <1>4

LEMMA WriteCancelStep ==
  ASSUME TxInv, NEW c \in Call, WriteCancel(c)
  PROVE  TxInv'
<1>1. /\ Decides(c) /\ pc[c] = "balanced" /\ SeenIsCurrent(c) /\ DecisionStages(c) /\ TxTypeOK
      /\ op[c].kind = "cancel"
  BY TxInvParts DEF WriteCancel, Decides
<1>2. /\ UNCHANGED vars /\ UNCHANGED op /\ seen[c] \in Balance \cup {NoBalance}
      /\ pc' = [pc EXCEPT ![c] = "ready"] /\ seen' = [seen EXCEPT ![c] = seen[c]]
  BY <1>1 DEF WriteCancel, Goto, TxTypeOK
<1>3. UsesBucket(c) /\ ~LevelOnly(c) => seen[c] # NoBalance
  BY <1>1 DEF DecisionStages, HoldsBalance
<1>4. seen[c] # NoBalance =>
        /\ UsesBucket(c) /\ seen[c] = Current(c)
        /\ \A d \in Call \ {c} : HoldsBalance(d) => Bucket(d) # Bucket(c)
  BY <1>1, TxInvParts DEF SeenIsCurrent, HoldsBalance, LocksExclude
<1> QED
  BY <1>1, <1>2, <1>3, <1>4, LoadedFacts, DecisionStep DEF Running

LEMMA AdjustStep ==
  ASSUME TypeOK, LedgerInv, TxInv, NEW c \in Call, WaitsFor(c) = {}, Adjust(c)
  PROVE  TxInv'
<1>1. /\ op[c].kind = "adjust" /\ pc[c] = "idle" /\ ~Submits(c) /\ ~Decides(c)
      /\ op[c].type \in BalanceType /\ UsesBucket(c)
  BY TxInvParts, OperationFacts DEF Adjust, Submits, Decides, UsesBucket, Bucket
<1>2. CASE End(c, "refused")
  BY <1>1, <1>2, EndStep DEF Ended
<1>3. ASSUME Lock(c, Current(c), "ready"), MayAdjust(Current(c), op[c].delta)
      PROVE  TxInv'
  <2>1. Current(c) \in Balance /\ Current(c) # NoBalance
    BY <1>1, CurrentType
  <2>2. \A d \in Call \ {c} : HoldsBalance(d) => Bucket(d) # Bucket(c)
    BY <1>1, NothingInTheWay DEF WantsBalance
  <2>3. /\ UNCHANGED vars /\ UNCHANGED op
        /\ pc' = [pc EXCEPT ![c] = "ready"] /\ seen' = [seen EXCEPT ![c] = Current(c)]
    BY <1>3 DEF Lock
  <2>4. pc'[c] = "ready" /\ seen'[c] = Current(c) /\ HoldsBalance(c)'
    BY <2>1, <2>3, MovedValues DEF TxInv
  <2>5. /\ ~Submits(c)' /\ ~Decides(c)' /\ UsesBucket(c)' /\ Current(c)' = Current(c) /\ Bucket(c)' = Bucket(c)
    BY <1>1, <2>3, CallFrame
  <2>6. SeenIsCurrent(c)'
    BY <2>4, <2>5 DEF SeenIsCurrent
  <2>7. ~HoldsRequest(c)' /\ ~InFlight(c)'
    BY <2>5 DEF HoldsRequest, InFlight, Running
  <2>8. MayAdjust(Current(c), op[c].delta)
    BY <1>3
  <2>9. DecisionStages(c)'
    BY <1>1, <2>3, <2>4, <2>5, <2>7, <2>8 DEF DecisionStages
  <2>10. ASSUME NEW d \in Call \ {c}
         PROVE  LocksExclude(c, d)' /\ SubmitsApart(c, d)'
    <3>1. pc'[d] = pc[d] /\ seen'[d] = seen[d] /\ Bucket(d)' = Bucket(d)
      BY <2>3, <2>10, CallFrame DEF TxInv, TxTypeOK
    <3>2. HoldsBalance(d)' => HoldsBalance(d)
      BY <3>1 DEF HoldsBalance
    <3> QED
      BY <2>2, <2>5, <2>7, <3>1, <3>2 DEF LocksExclude, SubmitsApart
  <2>11. \A o \in Operation : ~(op[c] = o /\ o.kind = "submit")
    BY <1>1
  <2> QED
    BY <2>1, <2>3, <2>6, <2>9, <2>10, <2>11, MoveStep DEF Running
<1> QED
  BY <1>2, <1>3 DEF Adjust

-----------------------------------------------------------------------------
(* Commits *)

(* What a call that is ready to commit has established. *)
LEMMA ReadySubmit ==
  ASSUME TypeOK, TxInv, NEW c \in Call, pc[c] = "ready", NEW o \in Operation, op[c] = o, o.kind = "submit"
  PROVE  /\ status[o.request] = "none" /\ ~KeyTaken(o.employee, o.key)
         /\ Admissible(o.employee, o.type, o.start, o.end)
         /\ BalanceCovers(o.employee, o.type, o.start, o.end, o.policy)
         /\ ~Excluded(o.employee, o.start, o.end)
         /\ o.type \in BalanceType =>
              /\ HoldsBalance(c) /\ Bucket(c) = <<o.employee, o.type, YearOf(o.start)>>
              /\ seen[c] = GetBalance(<<o.employee, o.type, YearOf(o.start)>>, o.policy)
<1>1. SubmitStages(c, o) /\ SeenIsCurrent(c)
  BY TxInvParts
<1>2. ~Excluded(o.employee, o.start, o.end) /\ HardRules(o.employee, o.type, o.start, o.end)
  BY <1>1 DEF SubmitStages
<1>3. ~Overlaps(o.employee, o.start, o.end)
  <2> SUFFICES ASSUME Overlaps(o.employee, o.start, o.end) PROVE FALSE
    OBVIOUS
  <2>1. PICK r \in Request : /\ status[r] \in Active /\ row[r].employee = o.employee
                             /\ row[r].start <= o.end /\ row[r].end >= o.start
    BY DEF Overlaps
  <2>2. row[r].end \in Int /\ o.start \in Int
    BY OperationFacts DEF TypeOK, Row, Day
  <2>3. RangesMeet(row[r].start, row[r].end, o.start, o.end)
    BY <2>1, <2>2 DEF RangesMeet
  <2> QED
    BY <1>2, <2>1, <2>3 DEF Excluded, Active
<1>4. o.type \in BalanceType =>
        /\ HoldsBalance(c) /\ Bucket(c) = <<o.employee, o.type, YearOf(o.start)>>
        /\ seen[c] = GetBalance(<<o.employee, o.type, YearOf(o.start)>>, o.policy)
  BY <1>1, SubmitBucket DEF SubmitStages, SeenIsCurrent, Submits
<1> QED
  BY <1>1, <1>2, <1>3, <1>4 DEF SubmitStages, Admissible

LEMMA ReadyDecision ==
  ASSUME TxInv, NEW c \in Call, pc[c] = "ready", NEW r \in Request, op[c].request = r, Decides(c)
  PROVE  /\ HoldsRequest(c) /\ Allowed(c) /\ status[r] # "none"
         /\ UsesBucket(c) <=> UsesBalance(r)
         /\ Bucket(c) = AccountOf(r)
         /\ (UsesBalance(r) /\ ~LevelOnly(c)) => HoldsBalance(c) /\ seen[c] = BalanceOf(r)
<1>1. DecisionStages(c) /\ SeenIsCurrent(c)
  BY TxInvParts
<1>2. Bucket(c) = AccountOf(r) /\ Current(c) = BalanceOf(r) /\ (UsesBucket(c) <=> UsesBalance(r))
  BY DEF Bucket, Current, BalanceOf, UsesBucket, UsesBalance, AccountOf
<1>3. HoldsRequest(c) /\ Allowed(c) /\ status[r] # "none"
  BY LoadedFacts DEF Running
<1> QED
  BY <1>1, <1>2, <1>3 DEF DecisionStages, SeenIsCurrent

(* The commit of a call is one step of the ledger. *)
LEMMA CommitIsStep ==
  ASSUME TypeOK, LedgerInv, TxInv, NEW c \in Call, Commit(c)
  PROVE  Next
<1>1. PICK o \in Operation : op[c] = o
  BY TxInvParts
<1>2. /\ o.kind \in Kind /\ o.user \in User /\ o.request \in Request /\ o.employee \in Employee
      /\ o.type \in LeaveType /\ o.start \in Day /\ o.end \in Day /\ YearOf(o.start) \in Year
      /\ o.key \in Key \cup {NoKey} /\ o.delta \in Delta /\ o.policy \in Policy
  BY OperationFacts
<1> DEFINE r == o.request
           u == o.user
<1>3. pc[c] = "ready" /\ Stored(c)
  BY DEF Commit
<1>4. CASE o.kind = "submit"
  <2> DEFINE a == <<o.employee, o.type, YearOf(o.start)>>
  <2>1. StoreRequest(r, o.employee, o.type, o.start, o.end, o.key, seen[c])
    BY <1>1, <1>3, <1>4 DEF Stored
  <2>2. StoreRequest(r, o.employee, o.type, o.start, o.end, o.key, GetBalance(a, o.policy))
    BY <1>1, <1>3, <1>4, <2>1, ReadySubmit DEF StoreRequest
  <2>3. o.employee = EmployeeOf[u] /\ o.employee # NoEmployee
    BY <1>2, <1>4, OperationFacts, ConstantsAssumption
  <2>4. Submit(u, r, o.type, o.start, o.end, o.key, o.policy)
    BY <1>1, <1>3, <1>4, <2>2, <2>3, ReadySubmit DEF Submit
  <2> QED
    BY <1>2, <2>4 DEF Next, RequestStep
<1>5. CASE Decides(c)
  <2>1. /\ Allowed(c) /\ status[r] # "none" /\ (LevelOnly(c) <=> o.kind = "approve" /\ level[r] < row[r].levels)
        /\ (UsesBalance(r) /\ ~LevelOnly(c)) => seen[c] = BalanceOf(r)
    BY <1>1, <1>2, <1>3, <1>5, ReadyDecision DEF LevelOnly
  <2>2. CASE o.kind = "approve" /\ level[r] < row[r].levels
    <3>1. MayDecide(u, r) /\ StoreLevelApproval(u, r)
      BY <1>1, <1>3, <2>1, <2>2 DEF Stored, Allowed
    <3> QED
      BY <1>2, <2>2, <3>1 DEF Next, RequestStep, ApproveLevel
  <2>3. CASE o.kind = "approve" /\ ~(level[r] < row[r].levels)
    <3>1. MayDecide(u, r) /\ StoreApproval(u, r, seen[c])
      BY <1>1, <1>3, <2>1, <2>3 DEF Stored, Allowed
    <3>2. StoreApproval(u, r, BalanceOf(r))
      BY <2>1, <2>3, <3>1 DEF StoreApproval, ReleaseBalance
    <3>3. level[r] >= row[r].levels
      BY <1>2, <2>3 DEF TypeOK, Row
    <3> QED
      BY <1>2, <3>1, <3>2, <3>3 DEF Next, RequestStep, ApproveFinal
  <2>4. CASE o.kind = "reject"
    <3>1. MayDecide(u, r) /\ StoreRejection(u, r, seen[c])
      BY <1>1, <1>3, <2>1, <2>4 DEF Stored, Allowed
    <3>2. StoreRejection(u, r, BalanceOf(r))
      BY <2>1, <2>4, <3>1 DEF StoreRejection, ReleaseBalance
    <3> QED
      BY <1>2, <3>1, <3>2 DEF Next, RequestStep, Reject
  <2>5. CASE o.kind = "cancel"
    <3>1. MayCancel(u, r) /\ StoreCancel(r, seen[c])
      BY <1>1, <1>3, <2>1, <2>5 DEF Stored, Allowed
    <3>2. StoreCancel(r, BalanceOf(r))
      BY <2>1, <2>5, <3>1 DEF StoreCancel, ReleaseBalance
    <3> QED
      BY <1>2, <3>1, <3>2 DEF Next, RequestStep, Cancel
  <2> QED
    BY <1>1, <1>5, <2>2, <2>3, <2>4, <2>5 DEF Decides
<1>6. CASE o.kind = "adjust"
  <2> DEFINE a == <<o.employee, o.type, YearOf(o.start)>>
  <2>1. Bucket(c) = a /\ Current(c) = GetBalance(a, o.policy)
    BY <1>1, <1>6 DEF Bucket, Current, Decides
  <2>2. HoldsBalance(c) /\ MayAdjust(seen[c], o.delta) /\ seen[c] = GetBalance(a, o.policy)
    BY <1>1, <1>3, <1>6, <2>1, TxInvParts DEF DecisionStages, SeenIsCurrent
  <2>3. StoreBalance(a, [seen[c] EXCEPT !.adjusted = @ + o.delta])
    BY <1>1, <1>3, <1>6, <2>1 DEF Stored
  <2>4. AdjustBalance(o.employee, o.type, YearOf(o.start), o.delta, o.policy)
    BY <2>2, <2>3 DEF AdjustBalance
  <2>5. o.type \in BalanceType
    BY <1>6, OperationFacts
  <2> QED
    BY <1>2, <2>4, <2>5 DEF Next, BalanceStep
<1> QED
  BY <1>1, <1>2, <1>4, <1>5, <1>6 DEF Kind, Decides

(* ... and touches only the rows that the call holds or creates. *)
LEMMA CommitEffect ==
  ASSUME TypeOK, LedgerInv, TxInv, NEW c \in Call, Commit(c)
  PROVE  /\ UNCHANGED <<op, today, leaveType, holidays, job>> /\ pc[c] = "ready"
         /\ pc' = [pc EXCEPT ![c] = "stored"] /\ seen' = [seen EXCEPT ![c] = NoBalance]
         /\ \A q \in Request : (op[c].kind = "adjust" \/ q # op[c].request) =>
              /\ status'[q] = status[q] /\ row'[q] = row[q]
              /\ level'[q] = level[q] /\ approval'[q] = approval[q]
         /\ \A q \in Request : row'[q] = row[q] \/ (Submits(c) /\ q = op[c].request)
         /\ \A q \in Request : (status'[q] = "none" <=> status[q] = "none") \/ (Submits(c) /\ q = op[c].request)
         /\ \A q \in Request : (status'[q] \in Active => status[q] \in Active) \/ (Submits(c) /\ q = op[c].request)
         /\ Submits(c) => /\ status[op[c].request] = "none" /\ status'[op[c].request] = "pending"
                          /\ DatesMeet(row'[op[c].request], op[c]) /\ row'[op[c].request].key = op[c].key
                          /\ row'[op[c].request].employee = op[c].employee
                          /\ row'[op[c].request].start = op[c].start /\ row'[op[c].request].end = op[c].end
         /\ \A a \in Account : balance'[a] = balance[a] \/ (HoldsBalance(c) /\ a = Bucket(c))
<1>1. PICK o \in Operation : op[c] = o
  BY TxInvParts
<1>2. o.kind \in Kind /\ o.request \in Request /\ o.start \in Day /\ o.end \in Day
  BY OperationFacts
<1> DEFINE r == o.request
<1>3. /\ pc[c] = "ready" /\ Stored(c) /\ UNCHANGED op
      /\ pc' = [pc EXCEPT ![c] = "stored"] /\ seen' = [seen EXCEPT ![c] = NoBalance]
  BY DEF Commit
<1>4. CASE o.kind = "submit"
  <2>1. StoreRequest(r, o.employee, o.type, o.start, o.end, o.key, seen[c])
    BY <1>1, <1>3, <1>4 DEF Stored
  <2>2. /\ Submits(c) /\ status[r] = "none"
        /\ o.type \in BalanceType => HoldsBalance(c) /\ Bucket(c) = <<o.employee, o.type, YearOf(o.start)>>
    BY <1>1, <1>3, <1>4, ReadySubmit DEF Submits
  <2>3. /\ status'[r] = "pending" /\ row'[r].key = o.key /\ row'[r].employee = o.employee
        /\ row'[r].start = o.start /\ row'[r].end = o.end
    BY <1>2, <2>1 DEF StoreRequest, TypeOK
  <2>4. \A q \in Request \ {r} : /\ status'[q] = status[q] /\ row'[q] = row[q]
                                 /\ level'[q] = level[q] /\ approval'[q] = approval[q]
    BY <2>1 DEF StoreRequest, TypeOK
  <2>5. \A a \in Account : balance'[a] = balance[a] \/ (HoldsBalance(c) /\ a = Bucket(c))
    BY <2>1, <2>2 DEF StoreRequest, TypeOK
  <2>6. UNCHANGED <<today, leaveType, holidays, job>>
    BY <2>1 DEF StoreRequest
  <2>7. o.start <= o.end
    BY <1>1, <1>3, <1>4, ReadySubmit DEF Admissible, HardRules, CheckRange
  <2>8. DatesMeet(row'[r], o)
    BY <2>3, <2>7 DEF DatesMeet, RangesMeet
  <2> QED
    BY <1>1, <1>3, <1>4, <2>2, <2>3, <2>4, <2>5, <2>6, <2>8
<1>5. CASE Decides(c)
  <2>1. /\ status[r] # "none" /\ Bucket(c) = AccountOf(r)
        /\ (UsesBalance(r) /\ ~LevelOnly(c)) => HoldsBalance(c)
    BY <1>1, <1>2, <1>3, <1>5, ReadyDecision
  <2>2. /\ Allowed(c) /\ ~Submits(c) /\ o.kind \in {"approve", "reject", "cancel"}
    BY <1>1, <1>2, <1>3, <1>5, ReadyDecision DEF Decides, Submits
  <2>3. \/ StoreLevelApproval(o.user, r) /\ LevelOnly(c)
        \/ StoreApproval(o.user, r, seen[c]) /\ ~LevelOnly(c) /\ status[r] = "pending"
        \/ StoreRejection(o.user, r, seen[c]) /\ ~LevelOnly(c)
        \/ StoreCancel(r, seen[c]) /\ ~LevelOnly(c)
    BY <1>1, <1>3, <2>2 DEF Stored, LevelOnly, Allowed, MayDecide
  <2>4. /\ UNCHANGED <<today, leaveType, holidays, job, row>>
        /\ \A q \in Request \ {r} : /\ status'[q] = status[q] /\ level'[q] = level[q]
                                    /\ approval'[q] = approval[q]
    BY <2>3 DEF StoreLevelApproval, StoreApproval, StoreRejection, StoreCancel, TypeOK
  <2>5. status'[r] # "none" /\ (status'[r] \in Active => status[r] \in Active)
    BY <1>2, <2>1, <2>3 DEF StoreLevelApproval, StoreApproval, StoreRejection, StoreCancel, TypeOK, Active
  <2>6. \A a \in Account : balance'[a] = balance[a] \/ (HoldsBalance(c) /\ a = Bucket(c))
    <3>1. CASE StoreLevelApproval(o.user, r)
      BY <3>1 DEF StoreLevelApproval
    <3>2. CASE ~LevelOnly(c) /\ \E p, n \in Int : ReleaseBalance(r, seen[c], p, n)
      BY <2>1, <3>2 DEF ReleaseBalance, TypeOK
    <3>3. Days(r) \in Int /\ -Days(r) \in Int /\ 0 \in Int
      BY <1>2, DaysIsNat
    <3> QED
      BY <2>3, <3>1, <3>2, <3>3 DEF StoreApproval, StoreRejection, StoreCancel
  <2> QED
    BY <1>1, <1>3, <2>1, <2>2, <2>4, <2>5, <2>6
<1>6. CASE o.kind = "adjust"
  <2>1. HoldsBalance(c) /\ ~Submits(c)
    BY <1>1, <1>3, <1>6, TxInvParts DEF DecisionStages, Submits
  <2>2. StoreBalance(Bucket(c), [seen[c] EXCEPT !.adjusted = @ + o.delta])
    BY <1>1, <1>3, <1>6 DEF Stored
  <2>3. \A a \in Account : balance'[a] = balance[a] \/ (HoldsBalance(c) /\ a = Bucket(c))
    BY <2>1, <2>2 DEF StoreBalance, TypeOK
  <2> QED
    BY <1>1, <1>3, <1>6, <2>1, <2>2, <2>3 DEF StoreBalance
<1> QED
  BY <1>1, <1>2, <1>4, <1>5, <1>6 DEF Kind, Decides

(* What another call relies on stays as it is. *)
LEMMA CommitKeeps ==
  ASSUME TypeOK, LedgerInv, TxInv, NEW c \in Call, Commit(c),
         NEW d \in Call \ {c}, Decides(d) => HoldsRequest(d)
  PROVE  /\ (Submits(d)' <=> Submits(d)) /\ (Decides(d)' <=> Decides(d))
         /\ Bucket(d)' = Bucket(d) /\ (UsesBucket(d)' <=> UsesBucket(d))
         /\ (HoldsBalance(d) => Current(d)' = Current(d))
         /\ (Decides(d) => ((Allowed(d)' <=> Allowed(d)) /\ (LevelOnly(d)' <=> LevelOnly(d))))
<1> DEFINE r == op[d].request
<1>1. op' = op /\ op[d] \in Operation /\ r \in Request
  BY CommitEffect, TxInvParts, OperationFacts
<1>2. (Submits(d)' <=> Submits(d)) /\ (Decides(d)' <=> Decides(d))
  BY <1>1 DEF Submits, Decides
<1>3. Decides(d) => /\ status[r] # "none" /\ status'[r] = status[r] /\ row'[r] = row[r]
                    /\ level'[r] = level[r] /\ approval'[r] = approval[r]
  <2> SUFFICES ASSUME Decides(d)
               PROVE  /\ status[r] # "none" /\ status'[r] = status[r] /\ row'[r] = row[r]
                      /\ level'[r] = level[r] /\ approval'[r] = approval[r]
    OBVIOUS
  <2>1. HoldsRequest(d) /\ status[r] # "none"
    BY LoadedFacts DEF HoldsRequest, Running
  <2>2. CASE Submits(c)
    <3>1. status[op[c].request] = "none"
      BY <2>2, CommitEffect
    <3> QED
      BY <1>1, <2>1, <3>1, CommitEffect
  <2>3. CASE Decides(c)
    <3>1. HoldsRequest(c)
      BY <2>3, CommitEffect DEF HoldsRequest, Running
    <3>2. op[c].request # r
      BY <2>1, <3>1, TxInvParts DEF LocksExclude
    <3> QED
      BY <1>1, <2>1, <3>2, CommitEffect
  <2>4. CASE op[c].kind = "adjust"
    BY <1>1, <2>1, <2>4, CommitEffect
  <2> QED
    BY <2>2, <2>3, <2>4, TxInvParts, OperationFacts DEF Kind, Submits, Decides
<1>4. Bucket(d)' = Bucket(d)
  BY <1>1, <1>2, <1>3 DEF Bucket, AccountOf, Decides
<1>5. UsesBucket(d)' <=> UsesBucket(d)
  BY <1>4 DEF UsesBucket
<1>6. HoldsBalance(d) => Current(d)' = Current(d)
  <2> SUFFICES ASSUME HoldsBalance(d) PROVE Current(d)' = Current(d)
    OBVIOUS
  <2>1. UsesBucket(d) /\ RequestRowsOK /\ TxTypeOK
    BY TxInvParts DEF SeenIsCurrent, LedgerInv
  <2>2. Bucket(d) \in Account
    BY <1>3, <2>1, BucketIsAccount
  <2>3. HoldsBalance(c) => Bucket(c) # Bucket(d)
    BY TxInvParts DEF LocksExclude
  <2>4. balance'[Bucket(d)] = balance[Bucket(d)]
    BY <2>2, <2>3, CommitEffect
  <2> QED
    BY <1>1, <1>2, <1>4, <2>4 DEF Current, GetBalance
<1>7. Decides(d) => (Allowed(d)' <=> Allowed(d))
  <2>1. today' = today
    BY CommitEffect
  <2> QED
    BY <1>1, <1>3, <2>1 DEF Allowed, MayDecide, MayCancel, CanCancel
<1>8. Decides(d) => (LevelOnly(d)' <=> LevelOnly(d))
  BY <1>1, <1>3 DEF LevelOnly
<1> QED
  BY <1>2, <1>4, <1>5, <1>6, <1>7, <1>8

(* What another submit has checked stays true. *)
LEMMA CommitKeepsSubmit ==
  ASSUME TypeOK, LedgerInv, TxInv, NEW c \in Call, Commit(c),
         NEW d \in Call \ {c}, NEW o \in Operation, op[d] = o, o.kind = "submit"
  PROVE  SubmitStages(d, o)'
<1>1. /\ pc'[d] = pc[d] /\ seen'[d] = seen[d] /\ SubmitStages(d, o) /\ SeenIsCurrent(d)
      /\ SubmitsApart(c, d) /\ TxTypeOK
  BY CommitEffect, TxInvParts DEF TxTypeOK
<1>2. Submits(d) /\ ~Decides(d) /\ Bucket(d) = <<o.employee, o.type, YearOf(o.start)>>
      /\ Current(d) = GetBalance(Bucket(d), o.policy)
  BY SubmitBucket DEF Submits
<1>3. pc'[d] # "stored" => status'[o.request] = "none"
  <2>1. o.request \in Request
    BY OperationFacts
  <2>2. Submits(c) => op[c].request # o.request
    BY <1>1, <1>2 DEF SubmitsApart
  <2> QED
    BY <1>1, <2>1, <2>2, CommitEffect DEF SubmitStages
<1>4. HardRules(o.employee, o.type, o.start, o.end)' <=> HardRules(o.employee, o.type, o.start, o.end)
  <2>1. UNCHANGED <<today, leaveType, holidays, job>>
    BY CommitEffect
  <2> QED
    BY <2>1 DEF HardRules, CheckNotice, CheckMaxDays, WorkingDays
<1>5. (o.type \in BalanceType => HoldsBalance(d)) /\ BalanceCovers(o.employee, o.type, o.start, o.end, o.policy)
        => BalanceCovers(o.employee, o.type, o.start, o.end, o.policy)'
  <2>1. CASE o.type \notin BalanceType
    BY <2>1 DEF BalanceCovers
  <2>2. CASE o.type \in BalanceType /\ HoldsBalance(d)
    <3>1. RequestRowsOK /\ UsesBucket(d)
      BY <1>2, <2>2 DEF LedgerInv, UsesBucket
    <3>2. Bucket(d) \in Account
      BY <1>1, <1>2, <3>1, BucketIsAccount
    <3>3. HoldsBalance(c) => Bucket(c) # Bucket(d)
      BY <2>2, TxInvParts DEF LocksExclude
    <3>4. balance'[Bucket(d)] = balance[Bucket(d)]
      BY <3>2, <3>3, CommitEffect
    <3>5. WorkingDays(o.start, o.end)' = WorkingDays(o.start, o.end)
      <4>1. UNCHANGED holidays
        BY CommitEffect
      <4> QED
        BY <4>1 DEF WorkingDays
    <3> QED
      BY <1>2, <3>4, <3>5 DEF BalanceCovers, GetBalance
  <2> QED
    BY <2>1, <2>2
<1>6. (pc[d] \in {"inserted", "ready"} /\ ~KeyTaken(o.employee, o.key)) => ~KeyTaken(o.employee, o.key)'
  <2> SUFFICES ASSUME pc[d] \in {"inserted", "ready"}, KeyTaken(o.employee, o.key)'
               PROVE  KeyTaken(o.employee, o.key)
    OBVIOUS
  <2>1. PICK q \in Request : /\ o.key # NoKey /\ status'[q] # "none"
                             /\ row'[q].employee = o.employee /\ row'[q].key = o.key
    BY DEF KeyTaken
  <2>2. CASE Submits(c) /\ q = op[c].request
    <3>1. InFlight(c) /\ InFlight(d)
      BY <1>2, <2>2, CommitEffect DEF InFlight
    <3>2. ~SameKey(op[c], o)
      BY <1>1, <1>2, <2>2, <3>1 DEF SubmitsApart
    <3> QED
      BY <2>1, <2>2, <3>2, CommitEffect DEF SameKey
  <2>3. CASE ~(Submits(c) /\ q = op[c].request)
    <3>1. status[q] # "none" /\ row'[q] = row[q]
      BY <2>1, <2>3, CommitEffect
    <3> QED
      BY <2>1, <3>1 DEF KeyTaken
  <2> QED
    BY <2>2, <2>3
<1>7. (pc[d] = "ready" /\ ~Excluded(o.employee, o.start, o.end)) => ~Excluded(o.employee, o.start, o.end)'
  <2> SUFFICES ASSUME pc[d] = "ready", Excluded(o.employee, o.start, o.end)'
               PROVE  Excluded(o.employee, o.start, o.end)
    OBVIOUS
  <2>1. PICK q \in Request : /\ status'[q] \in Active /\ row'[q].employee = o.employee
                             /\ RangesMeet(row'[q].start, row'[q].end, o.start, o.end)
    BY DEF Excluded, Active
  <2>2. CASE Submits(c) /\ q = op[c].request
    <3>1. ~DatesMeet(op[c], o)
      BY <1>1, <1>2, <2>2, CommitEffect DEF SubmitsApart
    <3> QED
      BY <2>1, <2>2, <3>1, CommitEffect DEF DatesMeet
  <2>3. CASE ~(Submits(c) /\ q = op[c].request)
    <3>1. status[q] \in Active /\ row'[q] = row[q]
      BY <2>1, <2>3, CommitEffect
    <3> QED
      BY <2>1, <3>1 DEF Excluded, Active
  <2> QED
    BY <2>2, <2>3
<1>8. HoldsBalance(d)' <=> HoldsBalance(d)
  BY <1>1 DEF HoldsBalance
<1> QED
  BY <1>1, <1>3, <1>4, <1>5, <1>6, <1>7, <1>8 DEF SubmitStages

LEMMA CommitInv ==
  ASSUME TypeOK, LedgerInv, TxInv, NEW c \in Call, Commit(c)
  PROVE  TxInv'
<1>1. /\ op' = op /\ pc[c] = "ready"
      /\ pc' = [pc EXCEPT ![c] = "stored"] /\ seen' = [seen EXCEPT ![c] = NoBalance] /\ TxTypeOK
  BY CommitEffect, TxInvParts
<1>2. TxTypeOK'
  BY <1>1 DEF TxTypeOK, Ended
<1>3. pc'[c] = "stored" /\ ~HoldsBalance(c)' /\ ~HoldsRequest(c)' /\ ~InFlight(c)'
  BY <1>1, MovedValues DEF HoldsRequest, InFlight, Running
<1>4. ASSUME NEW d \in Call \ {c}
      PROVE  /\ pc'[d] = pc[d] /\ seen'[d] = seen[d] /\ (HoldsBalance(d)' <=> HoldsBalance(d))
             /\ (HoldsRequest(d)' <=> HoldsRequest(d)) /\ (InFlight(d)' <=> InFlight(d))
             /\ (Submits(d)' <=> Submits(d)) /\ (Decides(d)' <=> Decides(d))
  BY <1>1, <1>4 DEF TxTypeOK, HoldsBalance, HoldsRequest, InFlight, Submits, Decides
<1>5. SeenIsCurrent(c)' /\ DecisionStages(c)'
  BY <1>3 DEF SeenIsCurrent, DecisionStages
<1>6. \A o \in Operation : SubmitStages(c, o)'
  BY <1>3 DEF SubmitStages
<1>7. ASSUME NEW d \in Call \ {c}
      PROVE  SeenIsCurrent(d)' /\ DecisionStages(d)'
  <2>1. SeenIsCurrent(d) /\ DecisionStages(d)
    BY <1>7, TxInvParts
  <2>2. HoldsBalance(d) => (Decides(d) => HoldsRequest(d))
    BY <2>1 DEF SeenIsCurrent, HoldsRequest, Running
  <2>3. SeenIsCurrent(d)'
    BY <1>4, <1>7, <2>1, <2>2, CommitKeeps DEF SeenIsCurrent
  <2>4. CASE Decides(d) /\ HoldsRequest(d)
    <3>1. /\ Allowed(d)' <=> Allowed(d)
          /\ LevelOnly(d)' <=> LevelOnly(d)
          /\ UsesBucket(d)' <=> UsesBucket(d)
      BY <1>7, <2>4, CommitKeeps
    <3>2. op'[d] = op[d] /\ op[d].kind # "adjust"
      BY <1>1, <2>4 DEF Decides
    <3> QED
      BY <1>4, <1>7, <2>1, <2>3, <2>4, <3>1, <3>2 DEF DecisionStages
  <2>5. CASE ~HoldsRequest(d) \/ ~Decides(d)
    <3>1. ~HoldsRequest(d)
      BY <2>5 DEF HoldsRequest
    <3>2. op'[d] = op[d] /\ (Decides(d) => pc[d] \notin Running)
      BY <1>1, <3>1 DEF HoldsRequest
    <3>3. op[d].kind = "approve" => Decides(d)
      BY DEF Decides
    <3> QED
      BY <1>4, <1>7, <2>1, <2>3, <3>1, <3>2, <3>3 DEF DecisionStages, Running, MayAdjust
  <2> QED
    BY <2>3, <2>4, <2>5
<1>8. ASSUME NEW d \in Call \ {c}, NEW e \in Call \ {c}, d # e
      PROVE  LocksExclude(d, e)' /\ SubmitsApart(d, e)'
  <2>1. /\ LocksExclude(d, e) /\ SubmitsApart(d, e)
        /\ SeenIsCurrent(d) /\ SeenIsCurrent(e)
    BY <1>8, TxInvParts
  <2>2. (HoldsBalance(d) => Bucket(d)' = Bucket(d)) /\ (HoldsBalance(e) => Bucket(e)' = Bucket(e))
    <3>1. /\ HoldsBalance(d) => (Decides(d) => HoldsRequest(d))
          /\ HoldsBalance(e) => (Decides(e) => HoldsRequest(e))
      BY <2>1 DEF SeenIsCurrent, HoldsRequest, Running
    <3> QED
      BY <1>8, <3>1, CommitKeeps
  <2>3. LocksExclude(d, e)'
    BY <1>1, <1>4, <1>8, <2>1, <2>2 DEF LocksExclude
  <2>4. SubmitsApart(d, e)'
    BY <1>1, <1>4, <1>8, <2>1 DEF SubmitsApart
  <2> QED
    BY <2>3, <2>4
<1>9. ASSUME NEW d \in Call \ {c}
      PROVE  /\ LocksExclude(c, d)' /\ SubmitsApart(c, d)'
             /\ LocksExclude(d, c)' /\ SubmitsApart(d, c)'
  <2>1. SubmitsApart(c, d) /\ (Submits(c)' <=> Submits(c))
    BY <1>1, <1>9, TxInvParts DEF Submits
  <2> QED
    BY <1>1, <1>3, <1>4, <1>9, <2>1 DEF LocksExclude, SubmitsApart
<1>10. ASSUME NEW d \in Call, NEW o \in Operation, op[d] = o, o.kind = "submit"
       PROVE  SubmitStages(d, o)'
  BY <1>6, <1>10, CommitKeepsSubmit
<1> QED
  BY <1>1, <1>2, <1>5, <1>7, <1>8, <1>9, <1>10 DEF TxInv

-----------------------------------------------------------------------------
(* The theorems *)

LEMMA StatementStep ==
  ASSUME TypeOK, LedgerInv, TxInv, NEW c \in Call,
         Statement(c) \/ MeetSettled(c) \/ Abort(c) \/ BreakDeadlock(c)
  PROVE  TxInv' /\ [Next]_vars
<1>1. CASE Statement(c) /\ ~Commit(c)
  <2>1. TxInv'
    BY <1>1, FindKeyStep, EvaluateStep, CheckBalanceStep, InsertStep, CheckDatesStep, LoadStep,
       WriteStep, CheckWrittenStep, LockReleasedStep, WriteCancelStep, AdjustStep DEF Statement
  <2>2. UNCHANGED vars
    BY <1>1 DEF Statement, FindKey, Evaluate, CheckBalance, Insert, CheckDates, Load, Write,
           CheckWritten, LockReleased, WriteCancel, Adjust, Goto, End, Lock
  <2> QED
    BY <2>1, <2>2
<1>2. CASE Commit(c)
  BY <1>2, CommitIsStep, CommitInv
<1>3. CASE MeetSettled(c) \/ Abort(c)
  <2>1. PICK q \in Ended \ {"stored"} : End(c, q) /\ pc[c] # "stored"
    BY <1>3 DEF MeetSettled, Abort, Ended, Running
  <2> QED
    BY <2>1, EndStep DEF End
<1>4. CASE BreakDeadlock(c)
  <2>1. WaitsFor(c) # {} /\ End(c, "deadlocked")
    BY <1>4 DEF BreakDeadlock, WaitCycle
  <2>2. pc[c] # "stored"
    BY <2>1 DEF WaitsFor, WantsRequest, WantsBalance, ChecksDates
  <2> QED
    BY <2>1, <2>2, EndStep DEF End, Ended
<1> QED
  BY <1>1, <1>2, <1>3, <1>4

LEMMA TxInvInit == TxInit => TxInv
<1> SUFFICES ASSUME TxInit PROVE TxInv
  OBVIOUS
<1>1. TxTypeOK
  BY DEF TxInit, TxTypeOK
<1>2. \A c \in Call : /\ pc[c] = "idle" /\ ~HoldsBalance(c) /\ ~HoldsRequest(c) /\ ~InFlight(c)
  BY DEF TxInit, HoldsBalance, HoldsRequest, InFlight, Running
<1>3. \A r \in Request : status[r] = "none"
  BY DEF TxInit, Init
<1>4. \A c \in Call : SeenIsCurrent(c) /\ DecisionStages(c)
  BY <1>2 DEF SeenIsCurrent, DecisionStages
<1>5. \A c \in Call, o \in Operation : SubmitStages(c, o)
  BY <1>2, <1>3, OperationFacts DEF SubmitStages
<1>6. \A c, d \in Call : c # d => LocksExclude(c, d) /\ SubmitsApart(c, d)
  BY <1>2 DEF LocksExclude, SubmitsApart, TxInit
<1> QED
  BY <1>1, <1>4, <1>5, <1>6 DEF TxInv

LEMMA TxStep == TypeOK /\ LedgerInv /\ TxInv /\ [TxNext]_txVars => TxInv' /\ [Next]_vars
<1> SUFFICES ASSUME TypeOK, LedgerInv, TxInv, [TxNext]_txVars PROVE TxInv' /\ [Next]_vars
  OBVIOUS
<1>1. CASE \E c \in Call : Statement(c) \/ MeetSettled(c) \/ Abort(c) \/ BreakDeadlock(c)
  BY <1>1, StatementStep
<1>2. CASE UNCHANGED txVars
  <2>1. UNCHANGED vars /\ UNCHANGED op /\ UNCHANGED pc /\ UNCHANGED seen
    BY <1>2 DEF txVars
  <2>2. CASE Call = {}
    BY <2>1, <2>2 DEF TxInv, TxTypeOK
  <2>3. ASSUME NEW c \in Call PROVE TxInv'
    <3>1. /\ pc[c] \in {"idle"} \cup Running \cup Ended /\ seen[c] \in Balance \cup {NoBalance}
          /\ pc' = [pc EXCEPT ![c] = pc[c]] /\ seen' = [seen EXCEPT ![c] = seen[c]]
      BY <2>1, <2>3 DEF TxInv, TxTypeOK
    <3>2. pc'[c] = pc[c] /\ (HoldsBalance(c)' <=> HoldsBalance(c)) /\ seen'[c] = seen[c]
          /\ \A d \in Call : /\ (HoldsBalance(d)' <=> HoldsBalance(d))
                             /\ (HoldsRequest(d)' <=> HoldsRequest(d)) /\ (InFlight(d)' <=> InFlight(d))
      BY <2>1, CallFrame DEF HoldsBalance, HoldsRequest, InFlight, Submits, Decides
    <3>3. SeenIsCurrent(c)' /\ DecisionStages(c)'
      BY <2>1, <2>3, <3>2, TxInvParts, CallFrame DEF SeenIsCurrent, DecisionStages
    <3>4. ASSUME NEW o \in Operation, op[c] = o, o.kind = "submit" PROVE SubmitStages(c, o)'
      <4>1. SubmitStages(c, o) /\ status'[o.request] = status[o.request]
        BY <2>1, <2>3, <3>4, TxInvParts DEF vars
      <4> QED
        BY <2>1, <3>2, <4>1, LedgerFrame DEF SubmitStages
    <3>5. ASSUME NEW d \in Call \ {c} PROVE LocksExclude(c, d)' /\ SubmitsApart(c, d)'
      <4>1. LocksExclude(c, d) /\ SubmitsApart(c, d)
        BY <2>3, <3>5, TxInvParts
      <4> QED
        BY <2>1, <2>3, <3>2, <3>5, <4>1, CallFrame DEF LocksExclude, SubmitsApart
    <3> QED
      BY <2>1, <2>3, <3>1, <3>3, <3>4, <3>5, MoveStep
  <2> QED
    BY <2>1, <2>2, <2>3
<1> QED
  BY <1>1, <1>2 DEF TxNext, AllEnded

(* Locks exclude one another and what was read under them is current, whatever calls run. *)
THEOREM TxInvariant == TxSpec => [](TypeOK /\ LedgerInv /\ TxInv)
<1>1. TxInit => TypeOK /\ LedgerInv /\ TxInv
  BY TypeInit, InvInit, TxInvInit DEF TxInit
<1>2. (TypeOK /\ LedgerInv /\ TxInv) /\ [TxNext]_txVars => (TypeOK /\ LedgerInv /\ TxInv)'
  BY TxStep, TypeStep, InvStep
<1> QED
  BY <1>1, <1>2, PTL DEF TxSpec

(* Concurrent calls, statement by statement, implement the ledger, where each call is one *)
(* step: no update of a balance is lost, no two requests overlap, nothing is decided twice. *)
THEOREM TransactionsImplementLedger == TxSpec => ImplementsLedger
<1>1. TxInit => Init
  BY DEF TxInit
<1>2. TypeOK /\ LedgerInv /\ TxInv /\ [TxNext]_txVars => [Next]_vars
  BY TxStep
<1> QED
  BY <1>1, <1>2, TxInvariant, PTL DEF TxSpec, Spec, ImplementsLedger
=============================================================================
