SPECIFICATION ByteSpec
CONSTANTS
  Codes <- AllCodes
  Following <- Afterwards
  Builds <- ReleaseBuild
  FloatBits = 4
  InverseEpsilon = 200
  Precision = 15
  TagSpan = 65536
  WordSpan = 1048576
  SumSpan = 1073741824
  Depth = 70
INVARIANT FloatKept
CHECK_DEADLOCK FALSE
