SPECIFICATION Spec
CONSTANTS
  Owned = {a, b}
  Foreign = Foreign
  Shapes <- FewShapes
  MaxHeight = 2
  MaxReorgs = 2
  MaxOpaque = 1
SYMMETRY Symmetry
INVARIANTS TypeOK IndexedBelowFork ExactForBlocksRead
