SPECIFICATION Spec
CONSTANTS
  NoTask = NoTask
  Own = Own
  c1 = c1
  c2 = c2
  g1 = g1
  Task <- MCTask
  Child <- MCChild
  Guest = {g1}
  Kinds = {"thumb", "backfill"}
  EnvMsgs = {"CloseWindow", "IDCMP_CLOSEWINDOW"}
  MayFail = TRUE
  MayAbort = FALSE
  Roles = {"main", "replacement"}
  MaxMsgs = 3
  MaxDepth = 2
  ULongs = 4
SYMMETRY Symmetry
INVARIANT NothingLeftLocked
