\* One instruction behind a label, on RV32 and RV64, auto-compression on.
SPECIFICATION Spec
CONSTANTS
  L1 = L1
  L2 = L2
  NoLabel = NoLabel
  Running = Running
  PageSize = 4096
  TextBase = 1048576
  DataBase = 2097152
  Labels <- MCLabels
  HalfMod = 536870912
  Source <- SelectionSource
  UndefinedAlign <- MCUndefinedAlign
  MemoryMayFail = FALSE
  WritesMayFail = FALSE
  OutputMayFail = FALSE
  ResizeAt = 27
  UserOptions <- CompressOptions
INVARIANTS ChoiceMeansSame CompressionIsSafe EncodingIsFaithful
CHECK_DEADLOCK FALSE
