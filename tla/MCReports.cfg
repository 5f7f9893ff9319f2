\* Two callers save, rename, change and delete templates while a third reads the list one row
\* at a time.
SPECIFICATION Spec
CONSTANTS
  NoKey = NoKey
  NoColumn = NoColumn
  t1 = t1
  t2 = t2
  t3 = t3
  t4 = t4
  k1 = k1
  c1 = c1
  c2 = c2
  grade = grade
  days = days
  start = start
  dropped = dropped
  Template = {t1, t2, t3, t4}
  Name = {1, 2, 3, 4}
  Key = {k1}
  Caller = {c1, c2}
  Column = {grade, days, start, dropped}
  TypeOf <- Types
  PeriodColumn = start
  Catalog = {grade, days, start}
  Query <- Queries
  Operation <- Operations
  Year = {1, 2}
  MaxLines = 3
  InitialTemplate <- Templates
  PreviewLimit = 1
  ExportLimit = 2
  PageSize = 1
  MaxCalls = 3
INVARIANTS ChangesAudited NothingCutUnsaid WalkMissesNothing
CHECK_DEADLOCK FALSE
