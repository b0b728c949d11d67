----------------------------- MODULE MCXPathEval -----------------------------
(* XPathEval on small documents and a list of expressions.                 *)
EXTENDS XPathEval

Size == Cardinality(Node)

\* Shapes: the parent of every node but the document.  Nodes are numbered in
\* document order and the document has one child.
Shapes ==
  {p \in [2 .. Size -> 1 .. Size] :
     /\ p[2] = 1
     /\ \A n \in 3 .. Size :
          LET up[x \in 1 .. Size] == IF x <= 2 THEN {2} ELSE {x} \cup up[p[x]]
          IN p[n] \in up[n - 1]}

Leaf(p, n) == \A m \in 2 .. Size : p[m] # n

\* All elements, or one of them a text or an attribute.
Typings(p) ==
  LET plain == [n \in Node |-> IF n = 1 THEN "document" ELSE "element"]
      leaves == {n \in 3 .. Size : Leaf(p, n)}
  IN {plain} \cup {[plain EXCEPT ![n] = "text"] : n \in leaves}
     \cup {[plain EXCEPT ![n] = "attribute"] : n \in {x \in leaves : p[x] = x - 1}}

\* Names: elements are "a" and "b" in turn; where there are only elements, also
\* all "a", and "a" before "b".
Namings(ty) ==
  LET name(n, f(_)) == IF ty[n] = "attribute" THEN "id" ELSE f(n)
  IN {[n \in Node |-> name(n, LAMBDA x : IF x % 2 = 0 THEN "a" ELSE "b")]}
     \cup IF \E n \in Node : ty[n] \in {"text", "attribute"} THEN {}
          ELSE {[n \in Node |-> "a"], [n \in Node |-> IF n <= 4 THEN "a" ELSE "b"]}

DocumentOf(p, ty, nm) ==
  LET grow[k \in 1 .. Size] ==
        IF k = 1 THEN Scattered
        ELSE IF ty[k] = "attribute" THEN grow[k - 1]
        ELSE InsertChild(grow[k - 1], p[k], k)
      t == grow[Size]
      isAttr(n) == ty[n] = "attribute"
  IN [parent |-> t.parent, prev |-> t.prev, next |-> t.next,
      first |-> t.first, last |-> t.last, type |-> ty, name |-> nm,
      firstAttr |-> [n \in Node |-> IF n < Size /\ ty[n] = "element" /\ isAttr(n + 1)
                                      THEN n + 1 ELSE Nil],
      nextAttr |-> [n \in Node |-> IF n < Size /\ isAttr(n) /\ isAttr(n + 1)
                                     THEN n + 1 ELSE Nil],
      owner |-> [n \in Node |-> IF isAttr(n) THEN p[n] ELSE Nil]]

AllDocuments ==
  UNION {UNION {{DocumentOf(p, ty, nm) : nm \in Namings(ty)} : ty \in Typings(p)} :
           p \in Shapes}

-----------------------------------------------------------------------------
(* What an expression means, said with sets.                               *)

Up(n) == IF IsAttribute(dom, n) THEN dom.owner[n] ELSE dom.parent[n]

Ancestors(n) ==
  LET up[x \in Link] == IF x = Nil THEN {} ELSE {x} \cup up[Up(x)] IN up[Up(n)]

Proper == {m \in Node : ~IsAttribute(dom, m)}

AxisSet(ax, n) ==
  CASE ax \in {"self", "dot"} -> {n}
    [] ax = "child" -> {m \in Proper : dom.parent[m] = n}
    [] ax = "descendant" -> {m \in Proper : n \in Ancestors(m)}
    [] ax = "descendant-or-self" -> {n} \cup {m \in Proper : n \in Ancestors(m)}
    [] ax = "parent" -> {m \in Node : m = Up(n)}
    [] ax = "ancestor" -> Ancestors(n)
    [] ax = "ancestor-or-self" -> {n} \cup Ancestors(n)
    [] ax = "following-sibling" ->
         {m \in Proper : m > n /\ Up(m) = Up(n) /\ n \in Proper}
    [] ax = "preceding-sibling" ->
         {m \in Proper : m < n /\ Up(m) = Up(n) /\ n \in Proper}
    [] ax = "following" -> {m \in Proper : m > n /\ n \notin Ancestors(m)}
    [] ax = "preceding" -> {m \in Proper : m < n /\ m \notin Ancestors(n)}
    [] ax = "attribute" -> {m \in Node \ Proper : dom.owner[m] = n}
    [] ax = "namespace" -> {}

Ascending(S) == SetToSortSeq(S, LAMBDA m, n : m < n)

Ordered(ax, S) ==
  IF ax \in {"ancestor", "ancestor-or-self", "preceding", "preceding-sibling"}
    THEN Reverse(Ascending(S)) ELSE Ascending(S)

RECURSIVE Meaning(_, _, _, _)

\* The members of s of which predicate e is true.
Kept(s, e) ==
  LET true(i) == LET v == Meaning(e, s[i], i, Len(s))
                 IN IF v.type = "number" THEN v.num = i ELSE CastToBoolean(v)
      add(t, i) == IF true(i) THEN Append(t, s[i]) ELSE t
  IN FoldLeft(add, <<>>, [i \in DOMAIN s |-> i])

StepMeaning(S, st) ==
  UNION {ToSet(FoldLeft(Kept, Ordered(st.axis,
                                      {m \in AxisSet(st.axis, n) : Passes(st.axis, st.test, m)}),
                        st.preds)) : n \in S}

\* The value of e at node n, the pos-th of size.
Meaning(e, n, pos, size) ==
  LET of(f) == Meaning(f, n, pos, size)
      set(f) == ToSet(of(f).nodes)
      steps(S) == NodeSet(Ascending(FoldLeft(StepMeaning, S, e.steps)))
      arg == of(e.args[1])
  IN CASE e.kind = "or"  -> Boolean(CastToBoolean(of(e.l)) \/ CastToBoolean(of(e.r)))
       [] e.kind = "and" -> Boolean(CastToBoolean(of(e.l)) /\ CastToBoolean(of(e.r)))
       [] e.kind = "equal" -> Boolean(EqualValues(of(e.l), of(e.r)) = e.eq)
       [] e.kind = "compare" ->
            Boolean(LET a == CastToNumber(of(e.l))
                        b == CastToNumber(of(e.r))
                    IN (a = b /\ ~e.strict) \/ (e.inf /\ a < b) \/ (~e.inf /\ a > b))
       [] e.kind = "plus"  -> Number(CastToNumber(of(e.l)) + CastToNumber(of(e.r)))
       [] e.kind = "minus" -> Number(CastToNumber(of(e.l)) - CastToNumber(of(e.r)))
       [] e.kind = "mult"  -> Number(CastToNumber(of(e.l)) * CastToNumber(of(e.r)))
       [] e.kind = "negate" ->
            Number(IF e.twice THEN CastToNumber(of(e.expr)) ELSE -CastToNumber(of(e.expr)))
       [] e.kind = "union"  -> NodeSet(Ascending(set(e.l) \cup set(e.r)))
       [] e.kind = "path"   -> steps(IF e.abs THEN {Doc} ELSE {n})
       [] e.kind = "filter" ->
            IF e.preds = <<>> /\ e.steps = <<>> THEN of(e.prim)
            ELSE steps(ToSet(FoldLeft(Kept, of(e.prim).nodes, e.preds)))
       [] e.kind = "paren"  -> of(e.expr)
       [] e.kind = "number" -> Number(e.num)
       [] e.kind = "call"   ->
            CASE e.name = "last"     -> Number(size)
              [] e.name = "position" -> Number(pos)
              [] e.name = "count"    -> Number(Len(arg.nodes))
              [] e.name = "not"      -> Boolean(~CastToBoolean(arg))
              [] e.name = "boolean"  -> Boolean(CastToBoolean(arg))
              [] e.name = "true"     -> Boolean(TRUE)
              [] e.name = "false"    -> Boolean(FALSE)

-----------------------------------------------------------------------------
(* The expressions.                                                        *)

Path(steps) == [kind |-> "path", abs |-> FALSE, steps |-> steps]
Abs(steps)  == [kind |-> "path", abs |-> TRUE, steps |-> steps]
Paren(e)    == [kind |-> "paren", expr |-> e]
Call0(f)    == [kind |-> "call", name |-> f, args |-> <<>>]
Call1(f, e) == [kind |-> "call", name |-> f, args |-> <<e>>]
Filter(prim, preds, steps) ==
  [kind |-> "filter", prim |-> prim, preds |-> preds, steps |-> steps]
Group(e, preds) == Filter(Paren(e), preds, <<>>)
Value(prim) == Filter(prim, <<>>, <<>>)
Num(n)      == Value([kind |-> "number", num |-> n])
Two(kind, l, r) == [kind |-> kind, l |-> l, r |-> r]
Union(l, r) == Two("union", l, r)
Equal(l, r) == [kind |-> "equal", l |-> l, r |-> r, eq |-> TRUE]
Unequal(l, r) == [kind |-> "equal", l |-> l, r |-> r, eq |-> FALSE]
Compare(l, r, inf, strict) ==
  [kind |-> "compare", l |-> l, r |-> r, inf |-> inf, strict |-> strict]
Less(l, r)  == Compare(l, r, TRUE, TRUE)

A(preds)   == Step("child", "a", preds)
B(preds)   == Step("child", "b", preds)
Elem(preds) == Step("child", "*", preds)
On(ax, test, preds) == Step(ax, test, preds)
Every(ax)  == On(ax, "*", <<>>)
Lst == Value(Call0("last"))
Pos == Value(Call0("position"))
Count(e) == Value(Call1("count", e))
Not(e)   == Value(Call1("not", e))
One(s)  == Path(<<s>>)
All(s)   == Abs(<<Slashes, s>>)

Positions ==
  { One(A(<<Num(1)>>)), One(Elem(<<Num(2)>>)), One(B(<<Lst>>)),
    One(Elem(<<One(B(<<>>))>>)), One(A(<<One(B(<<>>)), Num(1)>>)),
    One(Elem(<<Num(2), One(Elem(<<>>))>>)), One(Elem(<<Not(One(B(<<>>))), Lst>>)),
    One(Elem(<<Equal(Pos, Num(2))>>)), One(Elem(<<Less(Pos, Lst)>>)),
    Path(<<B(<<Num(1)>>), Parents>>), One(Elem(<<Compare(Pos, Num(2), FALSE, FALSE), Num(1)>>)),
    One(Elem(<<Num(3), Num(1)>>)), One(Elem(<<Num(0)>>)) }

Descents ==
  { All(A(<<Num(1)>>)), All(B(<<Num(2)>>)), All(Elem(<<Lst>>)), All(A(<<One(B(<<>>))>>)),
    Abs(<<Slashes, A(<<>>), B(<<Num(1)>>)>>),
    Abs(<<Slashes, A(<<>>), Slashes, Elem(<<Num(1)>>)>>),
    Path(<<Dot, Slashes, B(<<Lst>>)>>), All(On("self", "a", <<>>)),
    All(On("descendant", "b", <<>>)), All(On("descendant-or-self", "*", <<Num(1)>>)),
    All(Elem(<<Path(<<Dot, Slashes, B(<<>>)>>), Num(2)>>)),
    Abs(<<On("descendant-or-self", "node()", <<One(B(<<>>))>>), A(<<>>)>>) }

Axes ==
  { One(On("ancestor", "*", <<Num(1)>>)), One(On("ancestor-or-self", "*", <<Num(2)>>)),
    One(On("preceding", "*", <<Num(1)>>)), One(On("preceding-sibling", "*", <<Lst>>)),
    One(On("following", "*", <<Num(1)>>)), One(On("following-sibling", "*", <<Lst>>)),
    One(On("parent", "a", <<>>)), One(On("descendant", "b", <<Num(2)>>)),
    One(On("ancestor", "node()", <<Lst>>)),
    Path(<<Every("preceding"), Every("ancestor")>>),
    Abs(<<Slashes, B(<<>>), Every("ancestor")>>),
    Path(<<Every("following"), On("preceding", "a", <<Num(1)>>)>>),
    All(On("following-sibling", "*", <<Num(1)>>)),
    All(On("preceding-sibling", "*", <<Num(1)>>)),
    One(On("namespace", "*", <<>>)) }

Unions ==
  { Union(One(A(<<Num(1)>>)), One(B(<<Num(1)>>))),
    Group(Union(One(B(<<>>)), One(A(<<>>))), <<Num(1)>>),
    Group(Union(One(B(<<>>)), One(A(<<>>))), <<Lst>>),
    Group(Union(All(B(<<>>)), All(A(<<>>))), <<Num(1)>>),
    Group(Union(All(B(<<>>)), One(Every("ancestor"))), <<Lst>>),
    Group(Union(One(Every("ancestor")), One(Every("preceding"))), <<Lst>>),
    Group(Union(One(Every("following")), One(Every("descendant"))), <<Num(1)>>),
    Group(Union(One(Every("preceding")), One(Every("following"))), <<Num(2)>>),
    Group(Union(Union(One(B(<<>>)), One(A(<<>>))), One(Every("following"))), <<Num(1)>>),
    Group(Union(One(Elem(<<Num(2)>>)), One(Elem(<<Num(1)>>))), <<Num(1)>>),
    One(Elem(<<Group(Union(One(B(<<>>)), One(A(<<>>))), <<Num(1)>>)>>)),
    All(Elem(<<Filter(Paren(Union(One(Every("descendant")), One(B(<<>>)))), <<Num(1)>>,
                     <<B(<<>>)>>)>>)) }

Filters ==
  { Group(All(A(<<>>)), <<Num(1)>>), Group(All(B(<<>>)), <<Lst>>), Group(All(A(<<>>)), <<Num(2)>>),
    Group(All(Elem(<<>>)), <<One(B(<<>>)), Num(1)>>),
    Group(All(A(<<>>)), <<Less(Num(1), Pos), Num(1)>>),
    Group(Group(All(A(<<>>)), <<Lst>>), <<Num(1)>>), Group(All(A(<<>>)), <<Lst, Num(1)>>),
    Group(All(A(<<>>)), <<Num(1), Lst>>), Group(All(A(<<>>)), <<Num(2), Num(1)>>),
    Group(One(Every("ancestor")), <<Num(1)>>), Group(One(Every("ancestor")), <<Lst>>),
    Group(One(Every("preceding")), <<Num(1)>>),
    Group(Union(Group(All(B(<<>>)), <<Lst>>), All(A(<<>>))), <<Num(1)>>),
    Filter(Paren(All(B(<<>>))), <<Num(1)>>, <<Elem(<<>>)>>),
    Filter(Paren(All(A(<<>>))), <<Lst>>, <<Every("ancestor")>>) }

Values ==
  { Count(All(A(<<>>))), Count(Union(All(A(<<>>)), All(Elem(<<>>)))),
    Count(Path(<<Slashes, B(<<>>), Parents>>)),
    All(Elem(<<Equal(Count(One(Elem(<<>>))), Num(1))>>)), All(Elem(<<Unequal(Pos, Lst)>>)),
    Not(One(A(<<>>))), Two("and", One(A(<<>>)), One(B(<<>>))),
    Two("or", One(A(<<>>)), One(B(<<>>))), All(Elem(<<Two("and", One(A(<<>>)), Not(One(B(<<>>))))>>)),
    Two("plus", Count(One(A(<<>>))), Two("mult", Num(2), Count(One(B(<<>>))))),
    Two("minus", Num(1), [kind |-> "negate", expr |-> Count(One(Elem(<<>>))), twice |-> FALSE]),
    All(Elem(<<[kind |-> "negate", expr |-> Count(One(Elem(<<>>))), twice |-> TRUE]>>)),
    Compare(Count(One(A(<<>>))), Count(One(B(<<>>))), FALSE, TRUE),
    Equal(One(A(<<>>)), Value(Call0("true"))),
    All(Elem(<<Equal(Count(One(Every("preceding-sibling"))),
                    Count(One(Every("following-sibling"))))>>)) }

Kinds ==
  { One(On("child", "text()", <<>>)), All(On("child", "text()", <<Num(1)>>)),
    One(On("child", "node()", <<Num(2)>>)), All(On("child", "node()", <<Lst>>)),
    One(On("attribute", "id", <<>>)), One(Elem(<<One(On("attribute", "id", <<>>))>>)),
    Abs(<<Slashes, On("attribute", "id", <<>>), Parents>>),
    All(Elem(<<Not(One(Every("attribute")))>>)), All(On("attribute", "*", <<Num(1)>>)) }

Names(ns) == [i \in DOMAIN ns |-> Step("child", ns[i], <<>>)]

\* Streaming patterns, the last row those that turn out not to be one.
Patterns ==
  { Path(Names(<<"a">>)), Path(Names(<<"*", "b">>)), Path(Names(<<"a", "b", "*">>)), All(A(<<>>)),
    Path(<<Dot, Slashes, B(<<>>)>>), Path(<<Dot, Slashes, B(<<>>), Elem(<<>>)>>), Path(<<Dot, A(<<>>)>>),
    Path(<<A(<<>>), Slashes, B(<<>>)>>), Path(<<Elem(<<>>), Dot, B(<<>>)>>), Path(<<Dot>>),
    Abs(Names(<<"a">>)), Abs(Names(<<"b">>)), Abs(Names(<<"*", "a">>)), Abs(Names(<<"*", "a", "b">>)),
    Abs(<<Slashes, A(<<>>), Slashes, A(<<>>)>>), Abs(<<Slashes, A(<<>>), B(<<>>)>>),
    Abs(<<Slashes, Elem(<<>>), Elem(<<>>), Slashes, B(<<>>)>>), Abs(<<Slashes, Dot>>),
    Abs(<<Slashes, B(<<>>), Slashes, Dot>>), Path(<<Elem(<<>>), Slashes, Dot>>),
    Abs(<<Slashes, Dot, Slashes, B(<<>>)>>),
    Union(Path(<<Dot>>), One(A(<<>>))), Union(One(A(<<>>)), Path(Names(<<"b", "a">>))),
    Union(All(A(<<>>)), Abs(Names(<<"*", "b">>))), Union(One(B(<<>>)), Path(<<A(<<>>), Slashes, Dot>>)),
    Union(Union(Path(Names(<<"*", "*", "b">>)), One(A(<<>>))), Path(Names(<<"a", "b">>))),
    Union(One(A(<<>>)), All(B(<<>>))), Abs(<<>>), Path(<<Parents>>), Path(<<A(<<>>), Parents>>),
    Path(<<Dot, Dot>>), Abs(<<Dot>>) }

Regular ==
  Patterns \cup Positions \cup Descents \cup Axes \cup Unions \cup Filters \cup Values \cup Kinds

\* These are in error whatever the document.
Faulty ==
  { Lst, Value(Call0("count")), Count(Num(1)), Value(Call1("unheard", Num(1))),
    Filter(Paren(Count(One(A(<<>>)))), <<>>, <<A(<<>>)>>),
    Union(One(A(<<Num(1)>>)), Count(One(B(<<>>)))) }

\* These are in error when they come to ask a node.
Risky ==
  { One(Elem(<<Count(Num(1))>>)), All(Elem(<<One(B(<<>>)), Value(Call0("unheard"))>>)),
    All(Elem(<<One(Elem(<<Less(Count(Lst), Pos)>>))>>)) }

AllExpressions == Regular \cup Faulty \cup Risky

\* The short cuts ("optimizer", xml_xpath.c:12683, "()[1]", 13258, "()[last()]",
\* 13303; "[n]", 12190) and the rewriting of "//" (14159) change nothing: a query
\* returns the value of its expression, a node set in document order and each
\* node once.
Answer ==
  phase = "run" =>
    /\ query \in Regular /\ ~IsAttribute(dom, xctx.node) =>
         run.error = "ok" /\ Top(run) = Meaning(query, xctx.node, 0, 0)
    /\ query \in Faulty => run.error # "ok"

-----------------------------------------------------------------------------
(* What "only the first element" leaves out.                               *)

\* (*[2] | *[last()])[1]
ShortCut ==
  { Group(Union(One(Elem(<<Num(2)>>)), One(Elem(<<Lst>>))), <<Num(1)>>) }

\* "searching only the first element in document order" (xml_xpath.c:12607): what
\* an operation run for its first node finds is the first one of its value.  The
\* step of the second arm ends at the node that the first arm has found, before
\* its predicates are asked, and last() is counted on what it has met.
FirstInDocumentOrder ==
  phase = "run" => Top(run) = Meaning(query, xctx.node, 0, 0)

-----------------------------------------------------------------------------
(* What the walk of a streaming pattern leaves out.                        *)

\* .//.
Streamed == { Path(<<Dot, Slashes, Dot>>) }

\* "Optimization: use streaming patterns when the XPath expression can be compiled
\* to a stream lookup" (xml_xpath.c:14073): the result is that of the expression.
\* The walk begins below the context node, which .//. contains.
StreamedAsEvaluated ==
  phase = "run" => Top(run) = Meaning(query, xctx.node, 0, 0)
=============================================================================
