SPECIFICATION Spec
CONSTANTS
  Objects = {o1, o2, o3}
  Blocks = {b1, b2, b3}
  Sizes = {0, 1, 2}
  Data = {x, y}
  Null = null
  NoObject = none
SYMMETRY Symmetry
INVARIANTS TypeOK BlockHasOneOwner NoFault
PROPERTY ImplementsBufferValues
