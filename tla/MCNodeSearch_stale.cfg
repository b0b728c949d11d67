CONSTANTS
  Nil = Nil
  Node = {d, f, a, b, c}
  Movable = {a, b, c}
  Document = d
  Frag = f
  SelectorList <- Lists
  MaxMembers = 2
  Nested = FALSE
  Unordered = FALSE
  Moves = TRUE
  Raises = FALSE
SPECIFICATION AnySpec
INVARIANTS
  MovedResultsInDocumentOrder
