SPECIFICATION Spec
CONSTANTS
  Ids = {n1, n2, n3, n4}
  MaxOut = 2
SYMMETRY AnyNode
INVARIANTS
  DetectsExactly
  ParentsFirst
