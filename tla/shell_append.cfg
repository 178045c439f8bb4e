SPECIFICATION Spec
CONSTANTS
  Lines <- AppendLines
  Files <- MCFiles
  Statuses = {0, 1}
  PipeCap = 1
  MaxLines = 1
  MaxFails = 0
PROPERTY AppendKeepsContents
CHECK_DEADLOCK FALSE
