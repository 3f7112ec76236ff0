SPECIFICATION FairSpec
CONSTANTS
  NoTask = NoTask
  Own = Own
  Task = {Own, t2}
  Relapse = FALSE
  Poppers = {Own}
  MaxPopups = 1
  MaxLocks = 3
  MaxVersion = 1
PROPERTIES LockReturns
