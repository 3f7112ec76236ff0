CONSTANTS
  d1 = d1
  d2 = d2
  null = null
  Key <- MCKey
  Data <- MCData
  Contents <- MCContents
  NoData = null
  Sizes = 16
  MaxShort = 1
SPECIFICATION Spec
INVARIANTS TypeOK AVL FindsWhatBelongs
CHECK_DEADLOCK FALSE
