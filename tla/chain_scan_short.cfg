SPECIFICATION Spec
CONSTANTS
  Owned = {a, b}
  Foreign = Foreign
  Shapes <- FewShapes
  MaxHeight = 2
  MaxReorgs = 0
  MaxOpaque = 0
INVARIANTS ScanReachesEnd
