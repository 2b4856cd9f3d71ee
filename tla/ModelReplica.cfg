SPECIFICATION FairSpec
CONSTANTS
  a = a
  b = b
  c = c
  d = d
  k1 = k1
  k2 = k2
  k3 = k3
  InitialRows <- MCInitialRows
  Spare = {d}
  WithChild = a
  Child = c
  InitialColumns <- MCInitialColumns
  SpareColumn = k3
  CacheSize = 3
  SmallCacheSize = 1
  MaxChanges = 2
  MaxReads = 2
  MaxEvents = 3
INVARIANTS
  TypeOK
  RowsAgree
  CellsFresh
  Defined
PROPERTIES
  Repaints
CHECK_DEADLOCK FALSE
