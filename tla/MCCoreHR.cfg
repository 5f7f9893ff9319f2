\* Two callers at once in a tree of three units and a new one, with three people; they stop
\* when their calls are used up.
SPECIFICATION Spec
CONSTANTS
  NoUnit = NoUnit
  NoEmployee = NoEmployee
  NoEmail = NoEmail
  head = head
  sales = sales
  west = west
  new = new
  ann = ann
  ben = ben
  cy = cy
  kh = kh
  ks = ks
  kw = kw
  kn = kn
  na = na
  nb = nb
  nc = nc
  m1 = m1
  c1 = c1
  c2 = c2
  Unit = {head, sales, west, new}
  Employee = {ann, ben, cy}
  Code = {kh, ks, kw, kn}
  Number = {na, nb, nc}
  Email = {m1}
  LastDay = 3
  Caller = {c1, c2}
  Operation <- Operations
  InitialUnit <- Tree
  InitialEmployee <- People
  InitialHistory <- Histories
  MaxCalls = 4
INVARIANTS CyclesComeFromOverlap InactiveAboveActive HistoryInOrder ShortcutLosesNobody
PROPERTIES PastStays
CHECK_DEADLOCK FALSE
