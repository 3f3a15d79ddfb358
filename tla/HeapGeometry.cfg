SPECIFICATION Spec
CONSTANTS
  Block = {1, 2, 3, 4, 5}
  Var = {x, y, z}
  Key = {k}
  Kind = {"geometry"}
  MaxLen = 2
SYMMETRY Symmetry
INVARIANT
  NoLeak
CHECK_DEADLOCK FALSE
