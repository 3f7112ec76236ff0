CONSTANTS
  s1 = s1
  s2 = s2
  e1 = e1
  h1 = h1
  p1 = p1
  p2 = p2
  Standard <- MCStandard
  Emulation <- MCEmulation
  Hard <- MCHard
  MayBeTooOld = {s2}
  Program <- MCProgram
SPECIFICATION Spec
INVARIANTS TypeOK CallsGetThrough FailedQuitRestores GoneIsUnpatched
PROPERTY QuitsAtLast
CHECK_DEADLOCK FALSE
