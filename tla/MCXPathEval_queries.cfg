CONSTANTS
  Node = {1, 2, 3, 4, 5, 6}
  Nil = Nil
  Doc = 1
  Documents <- AllDocuments
  Expressions <- AllExpressions
SPECIFICATION Spec
INVARIANTS
  TypeOK
  Answer
  ContextKept
  StackEmptied
