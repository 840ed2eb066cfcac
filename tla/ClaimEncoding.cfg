\* One instruction of test10.s at a time, on RV64.
SPECIFICATION Spec
CONSTANTS
  L1 = L1
  L2 = L2
  NoLabel = NoLabel
  Running = Running
  PageSize = 4096
  TextBase = 1048576
  DataBase = 2097152
  Labels <- MCLabels
  HalfMod = 1048576
  Source <- CSource
  UndefinedAlign <- MCUndefinedAlign
  MemoryMayFail = FALSE
  WritesMayFail = FALSE
  OutputMayFail = FALSE
  ResizeAt = 27
  UserOptions <- RV64C
INVARIANTS EncodingsDecode
CHECK_DEADLOCK FALSE
