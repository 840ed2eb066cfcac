\* Five labels in a table of two slots; every allocation may fail.
SPECIFICATION FairSpec
CONSTANTS
  Labels <- MCLabels
  Values <- MCValues
  Hash <- MCHash
  Size = 2
  MemoryMayFail = TRUE
INVARIANTS SearchFindsAll CountIsHonest
PROPERTIES ImplementsMap CallsReturn
CHECK_DEADLOCK FALSE
