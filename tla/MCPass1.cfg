\* Every source file of up to five statements; counters of six bits wrap, memory may
\* run out, the table may grow from two labels on.
SPECIFICATION Spec1
CONSTANTS
  L1 = L1
  L2 = L2
  NoLabel = NoLabel
  Labels <- MCLabels
  HalfMod = 32
  Source <- MCSource
  UndefinedAlign <- MCUndefinedAlign
  MemoryMayFail = TRUE
  ResizeAt = 2
  UserOptions <- MCOptions
INVARIANTS TypeOK1 NoGaps LabelsMarkEntries
PROPERTIES FirstDefinitionWins
CHECK_DEADLOCK FALSE
