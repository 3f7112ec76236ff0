SPECIFICATION Spec
CONSTANTS
  NoTask = NoTask
  Task = {t1, t2}
  Update = Update
  Icon = Icon
  Window = Window
  Sema <- MCSema
  AttemptLists <- MCAttemptLists
  ObtainLists <- MCObtainLists
  MaxNest = 2
INVARIANTS TypeOK Balanced WaitsEmptyHanded
PROPERTIES NoNestNeverNests
