SPECIFICATION Spec
CONSTANTS
  Objects = {o1, o2, o3}
  Handles = {h1, h2, h3, h4}
  Classes <- CopyableOnly
  Null = null
  NoObject = none
  MaxRefs = 3
  MaxDangling = 1
SYMMETRY Symmetry
INVARIANT NothingFreedTwice
