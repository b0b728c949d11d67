CONSTANTS
  Nil = Nil
  Node = {d, f, a, b, c}
  Movable = {a, b, c}
  Document = d
  Frag = f
  SelectorList <- Lists
  MaxMembers = 2
  Nested = TRUE
  Unordered = FALSE
  Moves = FALSE
  Raises = FALSE
SPECIFICATION MCSpec
INVARIANTS
  Complete
