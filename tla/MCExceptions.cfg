SPECIFICATION Spec
CONSTANTS
  Vectors <- MCVectors
  ErrorCodes = {0, 2}
  Depth = 26
  MaxNMI = 1
INVARIANTS
  MainIntact
  ReportShown
PROPERTY
  HandlersEnd
