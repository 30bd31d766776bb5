SPECIFICATION MCSpec
CONSTANTS
  Paths = {"a", "b"}
  LongPaths = {"b"}
  ByteBase = 2
  Capacity = 2
  MaxOpens = 3
  Inodes = {1, 2, 3, 4}
  Slots = {p1, p2, p3}
  Numbers = {3}
  Disks <- FirstDisks
  Systems <- AnySystem
  StaleUse <- ButMemory
  MaxLength = 2
  DeviceKinds = {"fixed", "buffer", "std", "libc", "void"}
  Inputs <- SlicedInputs
  Room <- SmallRoom
  Base = 2
  Outputs = {1, 2}
  MaxReads = 6
  MaxWrites = 3
SYMMETRY Symmetry
VIEW WithoutResult
INVARIANTS
  PortsOwnFiles
  InputInOrder
  OutputKept
PROPERTY CursorPromise
CHECK_DEADLOCK FALSE
