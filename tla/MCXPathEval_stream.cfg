CONSTANTS
  Node = {1, 2, 3, 4, 5}
  Nil = Nil
  Doc = 1
  Documents <- AllDocuments
  Expressions <- Streamed
SPECIFICATION Spec
INVARIANTS
  StreamedAsEvaluated
