SPECIFICATION Spec
CONSTANTS
  a = a
  b = b
  c = c
  run32 = run32
  run64 = run64
  Uninstall = Uninstall
  RunKeys <- MCRunKeys
  Name = {a, b, c}
  NameLen <- MCNameLen
  Data <- MCData
  VersionData <- MCVersionData
  MultiData <- MCMultiData
  Nul = Nul
  Null = Null
  Dword = 12
  MaxString = 8
  MaxEntries = 2
  MaxWrites = 2
  MaxLost = 0
CHECK_DEADLOCK FALSE
INVARIANTS TypeOK UndisturbedComplete NothingInvented HandlesAccounted
