SPECIFICATION Spec
CONSTANTS
  Char = {"/", ".", "a"}
  MaxString = 5
  MaxOther = 3
  SmallString = 2
  DefaultSize = 2
  MaxSize = 2
  MaxUInt = 4095
  Bytes = 256
  MaxPrefix = 1
  MaxNumber = 600
  MaxAlign = 4
CHECK_DEADLOCK FALSE
INVARIANTS TokensJoin TokenIsEnclosed ParentAndName LinkResolves RoundTrip
