\* Nine branches, each of which pushes the next out of range when it grows.
SPECIFICATION Spec
CONSTANTS
  L1 = L1
  L2 = L2
  NoLabel = NoLabel
  Running = Running
  PageSize = 4096
  TextBase = 1048576
  DataBase = 2097152
  Labels <- CascadeLabels
  HalfMod = 1048576
  Source <- CascadeNine
  UndefinedAlign <- MCUndefinedAlign
  MemoryMayFail = FALSE
  WritesMayFail = FALSE
  OutputMayFail = FALSE
  ResizeAt = 27
  UserOptions <- CascadeOptions
INVARIANTS LayoutSettles
CHECK_DEADLOCK FALSE
