CONSTANTS
  Programs <- NoPrograms
  MaxCells = 600
  Symbols <- GlobalNames
  Primitives <- PrimitiveNumbers
  Operators <- SchemeOperators
  LoadedCells = 136
  LiveCells = 24
  Variables <- VariableNames
  MachineOnly <- NoPrograms
  Expressions <- ReenteringLet
SPECIFICATION ExecSpec
INVARIANT MeaningKept
CHECK_DEADLOCK FALSE
