SPECIFICATION Spec
CONSTANTS
  HeapSize = 16
  Tags = {0}
  PairTag = 0
  NeverTag = 9
  Atoms = {n0}
  Zero = n0
  Poison = Poison
  ClientRoots = {4}
  ClientFields = {0}
  MaxHeld = 1
  GcAlways = FALSE
INVARIANTS
  TypeOK
  HeapInvariant
  NoDanglingReference
  HalfCopied
  AllocationFits
PROPERTIES
  CollectionSucceeds
  CollectionEnds
