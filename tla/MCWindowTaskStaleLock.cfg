SPECIFICATION Spec
CONSTANTS
  NoTask = NoTask
  Own = Own
  c1 = c1
  c2 = c2
  g1 = g1
  Task <- MCTask
  Child <- MCChild
  Guest = {}
  Kinds = {"alone", "backfill"}
  EnvMsgs = {"IDCMP_CLOSEWINDOW", "RunMenuCmd", "NewPattern"}
  MayFail = FALSE
  MayAbort = FALSE
  Roles = {"drawer"}
  MaxMsgs = 3
  MaxDepth = 1
  ULongs = 4
INVARIANTS NoAlert
