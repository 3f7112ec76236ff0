CONSTANTS
  desk = desk
  w1 = w1
  d1 = d1
  d2 = d2
  none = none
  Window <- MCWindow
  Desk = desk
  Dir <- MCDir
  NoDir = none
  MaxUndoSteps = 2
  ULongs = 8
  MayFail = TRUE
  MaxSteps = 4
  MaxLate = 1
SYMMETRY MCSymmetry
SPECIFICATION Spec
INVARIANTS TypeOK CountMatches InOrder  NothingAfterCleanup
           LateTasksAreSafe
PROPERTY StepsLiveOnce
CHECK_DEADLOCK FALSE
