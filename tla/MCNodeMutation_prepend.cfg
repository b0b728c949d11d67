CONSTANTS
  Nil = Nil
  Node = {a, b}
  Document = {}
  Fragment = {}
  Fresh = {}
  Remark = {}
  MaxArg = 1
  MaxParsed = 0
  PrependOwnFirst = TRUE
SPECIFICATION Spec
INVARIANTS
  PrependedComesFirst
