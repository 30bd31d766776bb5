SPECIFICATION ProfilerSpec
CONSTANTS
  Names = {"f"}
  Continuations = {"escape", "reenter"}
  MaxRecords = 11
INVARIANTS
  DurationsExact
  NeverMissing
  FlamegraphAdds
CHECK_DEADLOCK FALSE
