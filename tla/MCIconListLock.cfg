SPECIFICATION Spec
CONSTANTS
  NoTask = NoTask
  Own = Own
  Task = {Own, t2, t3}
  Relapse = FALSE
  Poppers = {Own, t2, t3}
  MaxPopups = 2
  MaxLocks = 3
  MaxVersion = 2
SYMMETRY Symmetry
INVARIANTS TypeOK CountersMatch ExclusiveIsAlone ListStableUnderLock
CHECK_DEADLOCK FALSE
