CONSTANTS
  Node = {1, 2, 3, 4, 5, 6}
  Nil = 0
  Doc = 1
  Documents <- AllDocuments
SPECIFICATION Spec
INVARIANTS
  TypeOK
  AxisExact
  Contained
PROPERTY WalkEnds
