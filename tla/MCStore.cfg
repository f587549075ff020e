\* Seven locks in seven cells of the heap, whose order is not that of the locks;
\* one of the locks learns the others as its predecessors.
CONSTANTS
  Locks = {1, 2, 3, 4, 5, 6, 7}
  Cells = {1, 2, 3, 4, 5, 6, 7}
  Targets = {3}
  Placement <- Scattered
SPECIFICATION Spec
INVARIANTS
  RedBlack
  LookupsComplete
  ArraysSorted
PROPERTIES
  ImplementsRegistry
CHECK_DEADLOCK FALSE
