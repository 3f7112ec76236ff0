CONSTANTS
  mw = mw
  w1 = w1
  w2 = w2
  a1 = a1
  a2 = a2
  o1 = o1
  Main = Main
  NoWindow = NoWindow
  NoTask = NoTask
  Task <- MCTask
  Window = {mw, w1, w2}
  MainWindow = mw
  Open = {mw, w1}
  Ticking = {w1}
  Asker = {a1, a2}
  Opener = {o1}
  MayFail = FALSE
SPECIFICATION Spec
INVARIANTS TypeOK CountMatches TimerAccounted NobodyOversleeps NeverAstray
CHECK_DEADLOCK FALSE
