SPECIFICATION NamedSpec
CONSTANTS
  HeapSize = 12
  Tags = {0, 1}
  PairTag = 0
  NeverTag = 9
  Atoms = {n0}
  Zero = n0
  Poison = Poison
  ClientRoots = {}
  ClientFields = {0, 1}
  MaxHeld = 1
  GcAlways = FALSE
  Unnamed = Unnamed
PROPERTY
  StorePromise
