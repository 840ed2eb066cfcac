\* Programs of up to four statements around one label, whose address may be
\* negative as an int of ten bits; no I/O fails.
SPECIFICATION Spec
CONSTANTS
  L1 = L1
  L2 = L2
  NoLabel = NoLabel
  Running = Running
  PageSize = 4096
  TextBase = 1048576
  DataBase = 2097152
  Labels <- MCLabels
  HalfMod = 512
  Source <- BranchSource
  UndefinedAlign <- MCUndefinedAlign
  MemoryMayFail = FALSE
  WritesMayFail = FALSE
  OutputMayFail = FALSE
  ResizeAt = 27
  UserOptions <- BranchOptions
INVARIANTS LayoutMatchesEmission BranchesReachLabels RelayoutProgress LabelsMatchOutput
CHECK_DEADLOCK FALSE
