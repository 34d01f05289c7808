\* Bytes are told apart by their values only.
SPECIFICATION Spec
CONSTANTS
  Capacity = 5
  Bytes = {0, 1}
INVARIANTS
  RegionsDisjoint
  InFlightIntact
  EmptyHasSpace
PROPERTIES
  ImplementsByteQueue
