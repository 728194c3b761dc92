SPECIFICATION Spec
CONSTANTS
  HeapSize = 24
  Header = 2
  MinSplit = 4
  Sizes = {1, 4, 6}
  IrqPoints = {"user"}
INVARIANTS
  HeapConsistent
PROPERTIES
  AllocatorSpec
CHECK_DEADLOCK FALSE
