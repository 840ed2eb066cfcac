\* Programs of up to three statements; memory, writes and the output file may fail.
SPECIFICATION FairSpec
CONSTANTS
  L1 = L1
  L2 = L2
  NoLabel = NoLabel
  Running = Running
  PageSize = 16
  TextBase = 32
  DataBase = 48
  Labels <- MCLabels
  HalfMod = 1048576
  Source <- FailureSource
  UndefinedAlign <- MCUndefinedAlign
  MemoryMayFail = TRUE
  WritesMayFail = TRUE
  OutputMayFail = TRUE
  ResizeAt = 1
  UserOptions <- AllOptions
INVARIANTS TypeOK ExitZeroIsComplete RvcFlagIsExact ReadsBack MemoryIsImage
PROPERTIES ImplementsDelivery Terminates
CHECK_DEADLOCK FALSE
