SPECIFICATION MCSpec
CONSTANTS
  WordBits = 9
  TagBits = 2
  Literals <- SomeNumbers
  Indices = {0, 5}
  TagsSet = {0, 1, 3}
  Limit = 300
  Debug = TRUE
  DataNumbers = {0, 1}
  MaxData = 6
  CommandLines <- SomeCommandLines
  Environments <- SomeEnvironments
  Arguments <- SomeArguments
  IntegerBits = 4
  Capacity = 2
  MaxMade = 6
  Forged = {0, 2}
  Functions <- SomeFunctions
  MaxPushed = 2
INVARIANT BooleansCross
CHECK_DEADLOCK FALSE
