SPECIFICATION FairSpec
CONSTANTS
  a = a
  b = b
  c = c
  Name = {a, b, c}
  Size <- MCSize
  Filters <- MCFilters
  Page = 1
  Unknown = Unknown
  MaxEntries = 3
  MaxWrites = 2
  MaxLost = 1
CHECK_DEADLOCK FALSE
INVARIANTS TypeOK ListIsWhole HandlesAccounted NothingStale
PROPERTY LoadEnds
