SPECIFICATION FairSpec
CONSTANTS
  Lines <- MCLines
  Files <- MCFiles
  Statuses = {0, 1}
  PipeCap = 1
  MaxLines = 2
  MaxFails = 1
INVARIANT TypeOK
INVARIANT NothingOutlives
INVARIANT RanWhatTheLineMeans
INVARIANT PipeDelivers
PROPERTY LineEnds
CHECK_DEADLOCK FALSE
