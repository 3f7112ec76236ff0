SPECIFICATION Spec
CONSTANTS
  NoTask = NoTask
  Own = Own
  c1 = c1
  c2 = c2
  g1 = g1
  Task <- MCTask
  Child <- MCChild
  Guest = {}
  Kinds = {"wait", "alone", "thumb", "backfill"}
  EnvMsgs = {"IDCMP_CLOSEWINDOW", "CloseWindow", "RunMenuCmd", "NewPattern"}
  MayFail = TRUE
  MayAbort = TRUE
  Roles = {"drawer"}
  MaxMsgs = 3
  MaxDepth = 2
  ULongs = 4
SYMMETRY Symmetry
INVARIANTS TypeOK ChildInsideWindow QuitWaitsForAll HandshakeCompletes NothingLeftLocked
