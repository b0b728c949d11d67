CONSTANTS
  Nil = Nil
  Node = {a, b, c, f}
  Document = {}
  Fragment = {f}
  Fresh = {}
  Remark = {}
  MaxArg = 3
  MaxParsed = 0
  PrependOwnFirst = FALSE
SPECIFICATION Spec
SYMMETRY Alike
INVARIANTS
  LinksOfForest
PROPERTIES
  KeepsPromise
