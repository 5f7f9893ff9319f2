\* Three calls at once: submits for the same days, with one key or none, of two types,
\* decisions and a correction on one request and balance; no call is left waiting.
SPECIFICATION FairTxSpec
CONSTANTS
  NoEmployee = NoEmployee
  NoUser = NoUser
  NoType = NoType
  NoKey = NoKey
  NoBalance = NoBalance
  e1 = e1
  e2 = e2
  u1 = u1
  u2 = u2
  hr = hr
  annual = annual
  sick = sick
  r1 = r1
  r2 = r2
  r3 = r3
  k1 = k1
  c1 = c1
  c2 = c2
  c3 = c3
  Employee = {e1, e2}
  User = {u1, u2, hr}
  EmployeeOf <- LinkedUsers
  HrAdmin = {hr}
  LeaveType = {annual, sick}
  BalanceType = {annual}
  LeaveTypeConfig <- Types
  InitialConfig <- MixedTypes
  JobRecord <- Jobs
  InitialJob <- Supervised
  JobChange = {}
  Policy <- Policies
  Delta <- Corrections
  MaxAdjust = 2
  Request = {r1, r2, r3}
  Key = {k1}
  LastDay = 3
  YearLength = 3
  Weekend = {}
  Holiday = {}
  MaxSpan = 2
  Call = {c1, c2, c3}
  Operation <- Calls
INVARIANT TxInv
PROPERTIES ImplementsLedger CallsEnd
