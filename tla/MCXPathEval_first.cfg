CONSTANTS
  Node = {1, 2, 3, 4, 5}
  Nil = Nil
  Doc = 1
  Documents <- AllDocuments
  Expressions <- ShortCut
SPECIFICATION Spec
INVARIANTS
  FirstInDocumentOrder
