\* A datum out of range, then a valid one.
SPECIFICATION Spec
CONSTANTS
  L1 = L1
  L2 = L2
  NoLabel = NoLabel
  Running = Running
  PageSize = 4096
  TextBase = 1048576
  DataBase = 2097152
  Labels <- MCLabels
  HalfMod = 1048576
  Source <- RangeSource
  UndefinedAlign <- MCUndefinedAlign
  MemoryMayFail = FALSE
  WritesMayFail = FALSE
  OutputMayFail = FALSE
  ResizeAt = 27
  UserOptions <- ClaimOptions
INVARIANTS ErrorsReachExitCode
CHECK_DEADLOCK FALSE
