CONSTANTS
  Nil = Nil
  Node = {d, f, a, b, c}
  Movable = {a, b, c}
  Document = d
  Frag = f
  SelectorList <- Lists
  MaxMembers = 2
  Nested = FALSE
  Unordered = TRUE
  Moves = TRUE
  Raises = TRUE
SPECIFICATION MCSpec
INVARIANTS
  TypeOK
  TreeRestored
  Complete
  ResultsInDocumentOrder
PROPERTIES
  SearchReturns
