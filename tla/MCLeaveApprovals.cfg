\* Three people in a line of reporting, one of them HR, and a two-level chain; HR makes the type
\* stricter, and moves or ends e1's job, while requests are pending.
SPECIFICATION Spec
CONSTANTS
  NoEmployee = NoEmployee
  NoUser = NoUser
  NoType = NoType
  NoKey = NoKey
  e1 = e1
  e2 = e2
  e3 = e3
  u1 = u1
  u2 = u2
  hr = hr
  annual = annual
  sick = sick
  r1 = r1
  r2 = r2
  k1 = k1
  Employee = {e1, e2, e3}
  User = {u1, u2, hr}
  EmployeeOf <- LinkedUsers
  HrAdmin = {hr}
  LeaveType = {annual}
  BalanceType = {}
  LeaveTypeConfig <- LevelChanges
  InitialConfig <- TwoLevelTypes
  JobRecord <- Jobs
  InitialJob <- Supervised
  JobChange <- OneReorganisation
  Policy <- Fixed
  Delta = {}
  MaxAdjust = 0
  Request = {r1, r2}
  Key = {}
  LastDay = 3
  YearLength = 3
  Weekend = {}
  Holiday = {}
  MaxSpan = 2
INVARIANTS ApprovalChain QueueDecidable CalendarTellsWarning
PROPERTY DecisionsStand
SYMMETRY SymmetricRequests
CHECK_DEADLOCK FALSE
