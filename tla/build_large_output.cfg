SPECIFICATION Spec
CONSTANTS
  FileCount = 2
  SourceSize = 1
  OutputSize = 3
  PipeSize = 2
  SystemFails = FALSE
PROPERTY BuildEnds
CHECK_DEADLOCK FALSE
