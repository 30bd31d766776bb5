SPECIFICATION Spec
CONSTANTS
  FileCount = 2
  SourceSize = 3
  OutputSize = 2
  PipeSize = 2
  SystemFails = TRUE
INVARIANTS
  TypeOK
  FilesComplete
PROPERTY BuildEnds
CHECK_DEADLOCK FALSE
