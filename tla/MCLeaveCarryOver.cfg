\* One person over a year end, no type backdated: carry-over, its expiry, corrections, a holiday
\* declared and undeclared under pending requests, and both jobs rerun.
SPECIFICATION Spec
CONSTANTS
  NoEmployee = NoEmployee
  NoUser = NoUser
  NoType = NoType
  NoKey = NoKey
  e1 = e1
  e2 = e2
  e3 = e3
  u1 = u1
  u2 = u2
  hr = hr
  annual = annual
  sick = sick
  r1 = r1
  r2 = r2
  k1 = k1
  Employee = {e1}
  User = {u1, hr}
  EmployeeOf <- LinkedUsersOne
  HrAdmin = {hr}
  LeaveType = {annual}
  BalanceType = {annual}
  LeaveTypeConfig = {}
  InitialConfig <- OneLevelTypes
  JobRecord <- JobsOne
  InitialJob <- Unsupervised
  JobChange = {}
  Policy <- Capped
  Delta = {1}
  MaxAdjust = 1
  Request = {r1, r2}
  Key = {}
  LastDay = 4
  YearLength = 2
  Weekend = {}
  Holiday = {2}
  MaxSpan = 2
INVARIANTS CarryOverNotSpentTwice JobsIdempotent BucketsMatchRequests OverlapQueryExact NoOverspend CarryOverFloor
SYMMETRY SymmetricRequests
CHECK_DEADLOCK FALSE
