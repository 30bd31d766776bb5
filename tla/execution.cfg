SPECIFICATION ExecSpec
CONSTANTS
  Programs <- NoPrograms
  MaxCells = 900
  LoadedCells = 136
  LiveCells = 24
  Symbols <- GlobalNames
  Primitives <- PrimitiveNumbers
  Operators <- SchemeOperators
  Variables <- VariableNames
  Expressions <- Everything
  MachineOnly <- OnlyRun
INVARIANTS
  TypeOK
  HeapClosed
  MeaningKept
  ConstantSpace
PROPERTIES
  StacksKept
  Ends
CHECK_DEADLOCK FALSE
