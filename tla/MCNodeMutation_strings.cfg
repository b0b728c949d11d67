CONSTANTS
  Nil = Nil
  Node = {d, u, v, w}
  Document = {d}
  Fragment = {}
  Fresh = {u, v, w}
  Remark = {w}
  MaxArg = 1
  MaxParsed = 2
  PrependOwnFirst = FALSE
SPECIFICATION FairSpec
INVARIANTS
  TypeOK
  UnusedUnreachable
PROPERTIES
  KeepsPromise
  CallsReturn
