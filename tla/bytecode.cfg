SPECIFICATION MCSpec
CONSTANTS
  Controls <- ControlPrograms
  ControlNames <- ControlGlobals
  Observed <- ObservedNames
  Sources <- Programs
  Leftovers <- NothingOrOldRun
  Symbols <- GlobalNames
  Primitives <- PrimitiveNumbers
  Codes <- AllCodes
  Following <- Afterwards
  Builds <- AllBuilds
  FloatBits = 4
  InverseEpsilon = 200
  Precision = 15
  TagSpan = 65536
  WordSpan = 1048576
  SumSpan = 1073741824
  Depth = 63
INVARIANTS
  TypeOK
  DictionariesAgree
  ProgramKept
  CodeKept
  FloatKept
  ExtentsKept
PROPERTY ProgramDelivered
CHECK_DEADLOCK FALSE
