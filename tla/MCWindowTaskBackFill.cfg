SPECIFICATION FairSpec
CONSTANTS
  NoTask = NoTask
  Own = Own
  c1 = c1
  c2 = c2
  g1 = g1
  Task <- MCTask
  Child <- MCChild
  Guest = {}
  Kinds = {"wait", "alone", "backfill"}
  EnvMsgs = {"CloseWindow", "RunMenuCmd", "NewPattern"}
  MayFail = FALSE
  MayAbort = TRUE
  Roles = {"drawer"}
  MaxMsgs = 3
  MaxDepth = 2
  ULongs = 4
INVARIANTS PendingHasCause RequestsKept
PROPERTY WindowCloses
