------------------------------ MODULE XPathEval ------------------------------
(***************************************************************************)
(* An XPath query: the expression is compiled to an array of operations,   *)
(* the array is optimised, and the operations are run on a value stack     *)
(* (xml_xpath.c:1115-1215, 10377-11533, 11645-13647, 13893-14215,          *)
(* 14424-14505), or it becomes a streaming pattern (XPathStream).          *)
(*                                                                         *)
(* An expression is taken as parsed: a record per production of the        *)
(* grammar.  Values are node sets, booleans and numbers; numbers are       *)
(* integers.  A step is a record of axis, test and predicates: "//" is the *)
(* step descendant-or-self::node() that the code makes of it, "." is Dot.  *)
(* The owner of an attribute, which its axis notes when it returns it      *)
(* (8465-8469), is there from the start.                                   *)
(***************************************************************************)
EXTENDS XPathStream

CONSTANTS
  Documents,     \* the documents that can be queried
  Expressions    \* the expressions that can be asked

VARIABLES
  dom,      \* the document: its links, types and names
  xctx,     \* what outlives an evaluation: the context node, size and position
  query,    \* the expression, Nil between two evaluations
  comp,     \* the operations it is compiled to: ctxt->comp
  streams,  \* or the streams of its pattern, <<>> for none: ctxt->comp->stream
  run,      \* the evaluation: value stack, frame, error, context
  phase

vars == <<dom, xctx, query, comp, streams, run, phase>>

-----------------------------------------------------------------------------
(* Compiling.  k is ctxt->comp: the operations so far, and the last one.   *)

NoComp == [steps |-> <<>>, last |-> 0]

\* An operation; 0 for no child.
PushExpr(k, op, ch1, ch2, arg) ==
  [steps |-> Append(k.steps, [op |-> op, ch1 |-> ch1, ch2 |-> ch2, arg |-> arg]),
   last  |-> Len(k.steps) + 1]

PushLeaf(k, op) == PushExpr(k, op, 0, 0, 0)
Alone(k) == [k EXCEPT !.last = 0]

RECURSIVE Comp(_, _)

CompileExpr(k, e, sort) ==
  LET k1 == Comp(k, e)
  IN IF sort /\ k1.steps[k1.last].op # "VALUE"
       THEN PushExpr(k1, "SORT", k1.last, 0, 0) ELSE k1

CompPredicate(k, e, filter) ==
  LET k1 == CompileExpr(Alone(k), e, filter)
  IN PushExpr(k1, IF filter THEN "FILTER" ELSE "PREDICATE", k.last, k1.last, 0)

\* Variant of CompStep: the predicates start from the operation before the step.
CompStepKeepsLast(k, s) ==
  IF s.axis = "dot" THEN k
  ELSE LET k1 == FoldLeft(LAMBDA q, e : CompPredicate(q, e, FALSE), k, s.preds)
       IN PushExpr(k1, "COLLECT", k.last, k1.last, [axis |-> s.axis, test |-> s.test])

CompStep(k, s) ==
  IF s.axis = "dot" THEN k
  ELSE LET k1 == FoldLeft(LAMBDA q, e : CompPredicate(q, e, FALSE),
                          Alone(k), s.preds)
       IN PushExpr(k1, "COLLECT", k.last, k1.last, [axis |-> s.axis, test |-> s.test])

CompLocationPath(k, steps) == FoldLeft(CompStep, k, steps)

CompFunctionCall(k, e) ==
  LET arg(q, a) == LET q1 == CompileExpr(Alone(q), a, e.name # "count")
                   IN PushExpr(q1, "ARG", q.last, q1.last, 0)
      k1 == FoldLeft(arg, Alone(k), e.args)
  IN PushExpr(k1, "FUNCTION", k1.last, 0, [name |-> e.name, nargs |-> Len(e.args)])

CompFilterExpr(k, e) ==
  FoldLeft(LAMBDA q, p : CompPredicate(q, p, TRUE), Comp(k, e.prim), e.preds)

CompBinary(k, op, e, arg) ==
  LET k1 == Comp(k, e.l)
      k2 == Comp(k1, e.r)
  IN PushExpr(k2, op, k1.last, k2.last, arg)

CompUnionExpr(k, e) ==
  LET k1 == Comp(k, e.l)
      k2 == Comp(PushLeaf(k1, "NODE"), e.r)
  IN PushExpr(k2, "UNION", k1.last, k2.last, 0)

Comp(k, e) ==
  CASE e.kind = "or"     -> CompBinary(k, "OR", e, 0)
    [] e.kind = "and"    -> CompBinary(k, "AND", e, 0)
    [] e.kind = "equal"  -> CompBinary(k, "EQUAL", e, e.eq)
    [] e.kind = "compare" ->
         CompBinary(k, "CMP", e, [inf |-> e.inf, strict |-> e.strict])
    [] e.kind = "plus"   -> CompBinary(k, "PLUS", e, 1)
    [] e.kind = "minus"  -> CompBinary(k, "PLUS", e, 0)
    [] e.kind = "mult"   -> CompBinary(k, "MULT", e, 0)
    [] e.kind = "negate" ->
         LET k1 == Comp(k, e.expr)
         IN PushExpr(k1, "PLUS", k1.last, 0, IF e.twice THEN 3 ELSE 2)
    [] e.kind = "union"  -> CompUnionExpr(k, e)
    [] e.kind = "path"   ->
         CompLocationPath(PushLeaf(k, IF e.abs THEN "ROOT" ELSE "NODE"), e.steps)
    [] e.kind = "filter" -> CompLocationPath(CompFilterExpr(k, e), e.steps)
    [] e.kind = "paren"  -> CompileExpr(k, e.expr, TRUE)
    [] e.kind = "number" -> PushExpr(k, "VALUE", k.last, 0, e.num)
    [] e.kind = "call"   -> CompFunctionCall(k, e)

-----------------------------------------------------------------------------
(* Optimising: "descendant-or-self::node()/child::x" and its like.         *)

Merged(ax) == IF ax \in {"child", "descendant"} THEN "descendant"
              ELSE "descendant-or-self"

\* Variant of Foldable: it does not ask whether the step has predicates.
FoldableAlways(steps, i) ==
  /\ steps[i].op = "COLLECT" /\ steps[i].ch1 # 0
  /\ steps[i].arg.axis \in {"child", "descendant", "self", "descendant-or-self"}
  /\ LET prev == steps[steps[i].ch1]
     IN /\ prev.op = "COLLECT" /\ prev.ch2 = 0
        /\ prev.arg = [axis |-> "descendant-or-self", test |-> "node()"]

\* Operation i is a step without predicates on a bare descendant-or-self::node().
Foldable(steps, i) ==
  /\ steps[i].op = "COLLECT" /\ steps[i].ch1 # 0 /\ steps[i].ch2 = 0
  /\ steps[i].arg.axis \in {"child", "descendant", "self", "descendant-or-self"}
  /\ LET prev == steps[steps[i].ch1]
     IN /\ prev.op = "COLLECT" /\ prev.ch2 = 0
        /\ prev.arg = [axis |-> "descendant-or-self", test |-> "node()"]

RECURSIVE OptimizeExpression(_, _)
OptimizeExpression(steps, i) ==
  IF i = 0 THEN steps
  ELSE LET s == IF Foldable(steps, i)
                  THEN [steps EXCEPT ![i].ch1 = steps[steps[i].ch1].ch1,
                                     ![i].arg.axis = Merged(steps[i].arg.axis)]
                  ELSE steps
       IN IF s[i].op = "VALUE" THEN s
          ELSE OptimizeExpression(OptimizeExpression(s, s[i].ch1), s[i].ch2)

-----------------------------------------------------------------------------
(* The value stack.  c is the parser context: ctxt with ctxt->context.     *)
(* n, hit and set are what an operator hands back besides: the nodes it    *)
(* examined, the truth it found and the node set it filtered.              *)

Begun(k, x) == [steps |-> k.steps, stack |-> <<>>, frame |-> 0, error |-> "ok",
                node |-> x.node, size |-> x.size, pos |-> x.pos,
                first |-> Nil, last |-> Nil, n |-> 0, hit |-> FALSE, set |-> <<>>]

NodeSet(s) == [type |-> "nodeset", nodes |-> s]
Boolean(b) == [type |-> "boolean", bool |-> b]
Number(x)  == [type |-> "number", num |-> x]

Failed(c) == c.error # "ok"
Fail(c, e) == [c EXCEPT !.error = e, !.n = 0]

\* CHECK_ERROR: what comes next is done only without an error.
Checked(c, then(_)) == IF Failed(c) THEN c ELSE then(c)

\* n more nodes were examined.
More(c, n) == [c EXCEPT !.n = @ + n]

Push(c, v) == [c EXCEPT !.stack = Append(@, v)]
Pop(c) == IF Len(c.stack) <= c.frame THEN Fail(c, "stack")
          ELSE [c EXCEPT !.stack = Front(@)]
Top(c) == Last(c.stack)
TopIs(c, type) == c.stack # <<>> /\ Top(c).type = type
SetTop(c, v) == [c EXCEPT !.stack = Append(Front(@), v)]

CastToBoolean(v) == CASE v.type = "nodeset" -> v.nodes # <<>>
                      [] v.type = "boolean" -> v.bool
                      [] v.type = "number"  -> v.num # 0

CastToNumber(v) ==
  IF v.type = "boolean" THEN IF v.bool THEN 1 ELSE 0 ELSE v.num

\* A number as a predicate asks for a position.
EvaluatePredicateResult(c, v) ==
  IF v.type = "number" THEN v.num = c.pos ELSE CastToBoolean(v)

\* The top two values replaced by one.
Binary(c, op(_, _)) ==
  LET with(c1, w) == Checked(Pop(c1), LAMBDA c2 : Push(c2, op(Top(c1), w)))
  IN Checked(Pop(c), LAMBDA c1 : with(c1, Top(c)))

\* nl_xmlXPathEqualValues, of booleans and numbers.
EqualValues(v, w) ==
  IF "boolean" \in {v.type, w.type} THEN CastToBoolean(v) = CastToBoolean(w)
  ELSE v.num = w.num

\* nl_xmlXPathCompareValues, of booleans and numbers.
CompareValues(v, w, how) ==
  LET a == CastToNumber(v)
      b == CastToNumber(w)
  IN CASE how.inf /\ how.strict   -> a < b
       [] how.inf /\ ~how.strict  -> a <= b
       [] ~how.inf /\ how.strict  -> a > b
       [] OTHER                   -> a >= b

Functions == {"last", "position", "count", "not", "boolean", "true", "false"}
Arity(f) == IF f \in {"count", "not", "boolean"} THEN 1 ELSE 0

Call(c, f, nargs) ==
  CASE f \notin Functions   -> Fail(c, "unknown function")
    [] f \in Functions /\ nargs # Arity(f) -> Fail(c, "arity")
    [] f = "last" /\ nargs = 0 ->
         IF c.size >= 0 THEN Push(c, Number(c.size)) ELSE Fail(c, "size")
    [] f = "position" /\ nargs = 0 ->
         IF c.pos >= 0 THEN Push(c, Number(c.pos)) ELSE Fail(c, "position")
    [] f = "count" /\ nargs = 1 ->
         IF TopIs(c, "nodeset") THEN SetTop(c, Number(Len(Top(c).nodes)))
         ELSE Fail(c, "type")
    [] f = "not" /\ nargs = 1 -> SetTop(c, Boolean(~CastToBoolean(Top(c))))
    [] f = "boolean" /\ nargs = 1 -> SetTop(c, Boolean(CastToBoolean(Top(c))))
    [] f = "true" /\ nargs = 0 -> Push(c, Boolean(TRUE))
    [] f = "false" /\ nargs = 0 -> Push(c, Boolean(FALSE))

SortTop(c) ==
  IF TopIs(c, "nodeset") THEN SetTop(c, NodeSet(NodeSetSort(dom, Top(c).nodes)))
  ELSE c

-----------------------------------------------------------------------------
(* One step of a path: xmlXPathNodeCollectAndTest.                         *)

\* Operation i is run, for its value, its first or its last node in document order,
\* or its truth.
RECURSIVE Eval(_, _, _)

\* The axis of n, as the iterator is called until it returns Nil.
AxisNodes(ax, n) ==
  LET walk[k \in 0 .. 2 * Cardinality(Node), w \in Walk] ==
        LET v == NextOf(dom, w)
        IN IF k = 0 \/ v.at = "end" THEN <<>>
           ELSE (IF v.at = "out" THEN <<v.cur>> ELSE <<>>) \o walk[k - 1, v]
  IN walk[2 * Cardinality(Node),
          [axis |-> ax, ctx |-> n, cur |-> Nil, anc |-> Nil, at |-> "out"]]

\* The namespace axis is empty, and no node is of its type.
Passes(ax, test, n) ==
  CASE test = "node()" -> dom.type[n] \in {"document", "element", "attribute", "text"}
    [] test = "text()" -> dom.type[n] = "text"
    [] OTHER -> /\ dom.type[n] = IF ax = "attribute" THEN "attribute" ELSE "element"
                /\ test \in {"*", dom.name[n]}

\* The axes along which the search stops at the first node found so far, and at
\* the last one.
FirstAxes == {"child", "descendant", "descendant-or-self", "following",
              "following-sibling"}
LastAxes == {"ancestor", "ancestor-or-self", "parent", "preceding",
             "preceding-sibling"}
NoDuplsAxes == {"attribute", "child", "namespace", "self"}

\* The step stops before n: a node not before the first one found, or not after
\* the last one, is of no interest.
Stops(ask, n, total) ==
  \/ /\ ask.first # Nil
     /\ \/ ask.first = n
        \/ total % 256 = 0 /\ CmpNodesExt(dom, ask.first, n) >= 0
  \/ /\ ask.last # Nil
     /\ \/ ask.last = n
        \/ total % 256 = 0 /\ CmpNodesExt(dom, n, ask.last) >= 0

\* The axis from context node n, total nodes having been examined before.  t: the
\* nodes collected, how many were examined, the position among those that pass,
\* whether it is over, and whether the predicates are settled.
Traverse(ask, n, total) ==
  LET visit(t, cur) ==
        LET u  == [t EXCEPT !.total = @ + 1]
            at == t.pos + 1
        IN IF t.over THEN t
           ELSE IF Stops(ask, cur, t.total) THEN [t EXCEPT !.over = TRUE]
           ELSE IF ~Passes(ask.axis, ask.test, cur) THEN u
           ELSE IF ask.axisRange /\ at # ask.maxPos THEN [u EXCEPT !.pos = at]
           ELSE [u EXCEPT !.seq = Append(@, cur),
                          !.over = ask.axisRange \/ ask.breakOnFirstHit,
                          !.settled = ask.axisRange \/ ask.breakOnFirstHit]
  IN FoldLeft(visit, [seq |-> <<>>, total |-> total, pos |-> 0,
                      over |-> FALSE, settled |-> FALSE],
              AxisNodes(ask.iterator, n))

\* Predicate f asked of every node of s: of those of which it holds, the min-th to
\* the max-th are kept in c.set.
Asked(c, s, f, min, max) ==
  LET answered(q, n, c1) ==
        IF Failed(c1) THEN [q EXCEPT !.c = c1, !.over = TRUE]
        ELSE IF ~c1.hit THEN [q EXCEPT !.c = [c1 EXCEPT !.set = q.c.set]]
        ELSE [c |-> [c1 EXCEPT !.set = IF q.at \in min .. max
                                         THEN Append(q.c.set, n) ELSE q.c.set],
              at |-> q.at + 1, over |-> q.at = max]
      ask(q, i) ==
        IF q.over THEN q
        ELSE answered(q, s[i], Eval([q.c EXCEPT !.node = s[i], !.pos = i], f, "truth"))
  IN FoldLeft(ask, [c |-> [c EXCEPT !.size = Len(s), !.set = <<>>],
                    at |-> 1, over |-> FALSE],
              [i \in DOMAIN s |-> i]).c

\* Variant of NodeSetFilter: the context is left as the last predicate had it.
NodeSetFilterLeaving(c, s, f, min, max) ==
  IF s = <<>> \/ Len(s) < min THEN [c EXCEPT !.set = <<>>]
  ELSE Asked(c, s, f, min, max)

\* The nodes of s that satisfy predicate f, and of these the min-th to the max-th.
NodeSetFilter(c, s, f, min, max) ==
  IF s = <<>> \/ Len(s) < min THEN [c EXCEPT !.set = <<>>]
  ELSE [Asked(c, s, f, min, max)
          EXCEPT !.node = c.node, !.size = c.size, !.pos = c.pos]

\* The predicates that operation i chains, the inner ones first.
Chain(c, i) ==
  LET chain[j \in 0 .. i] ==
        IF j = 0 THEN <<>> ELSE Append(chain[c.steps[j].ch1], c.steps[j].ch2)
  IN chain[i]

\* min and max are for the last one.
OpEvalPredicate(c, i, s, min, max) ==
  LET filter(d, f) ==
        Checked(d, LAMBDA e : NodeSetFilter(e, e.set, f, 1, Len(e.set)))
      last(d) == Checked(d, LAMBDA e : NodeSetFilter(e, e.set, Last(Chain(c, i)), min, max))
  IN last(FoldLeft(filter, [c EXCEPT !.set = s], Front(Chain(c, i))))

\* A predicate that is a number.
IsPositionalPredicate(c, i) == c.steps[c.steps[i].ch2].op = "VALUE"

\* The step from each of the context nodes.  r: the nodes found, how many were
\* examined, and whether the truth that was asked for is known.
ContextNodes(ask, c, nodes) ==
  LET tested(t, d) ==
        IF t.settled \/ ask.pred = 0 THEN [d EXCEPT !.set = t.seq]
        ELSE OpEvalPredicate(d, ask.pred, t.seq,
                             IF ask.predRange THEN ask.maxPos ELSE 1,
                             IF ask.predRange THEN ask.maxPos ELSE Len(t.seq))
      added(r, t, d) ==
        IF Failed(d) THEN [r EXCEPT !.c = d, !.over = TRUE]
        ELSE [c |-> d, total |-> t.total, over |-> ask.toBool /\ d.set # <<>>,
              out |-> IF ask.axis \in NoDuplsAxes THEN NodeSetMergeNoDupls(r.out, d.set)
                      ELSE NodeSetMerge(r.out, d.set)]
      walked(r, n, t) == added(r, t, tested(t, [r.c EXCEPT !.node = n]))
      from(r, n) == IF r.over THEN r ELSE walked(r, n, Traverse(ask, n, r.total))
      result(r) == Checked(r.c, LAMBDA d : [d EXCEPT !.set = r.out, !.n = r.total])
  IN result(FoldLeft(from, [c |-> c, total |-> 0, over |-> FALSE, out |-> <<>>], nodes))

\* How step o is asked.  Its last predicate is applied while the axis is walked if
\* it is a number: the position on the axis if there is no other one, the position
\* in what the others leave if there is.
Asking(c, o, first, last, toBool) ==
  LET ax == o.arg.axis
      positional == o.ch2 # 0 /\ IsPositionalPredicate(c, o.ch2)
      inner == IF positional THEN c.steps[o.ch2].ch1 ELSE o.ch2
  IN [axis |-> ax, test |-> o.arg.test,
      iterator |-> IF ax = "child" /\ o.arg.test \notin {"node()", "text()"}
                     THEN "child element" ELSE ax,
      first |-> IF ax \in FirstAxes THEN first ELSE Nil,
      last |-> IF ax \in LastAxes THEN last ELSE Nil,
      maxPos |-> IF positional THEN c.steps[c.steps[o.ch2].ch2].arg ELSE 0,
      axisRange |-> positional /\ inner = 0,
      predRange |-> positional /\ inner # 0,
      pred |-> inner, toBool |-> toBool,
      breakOnFirstHit |-> toBool /\ inner = 0]

\* Operation i, a step, on the node set on the stack.
CollectAndTest(c, i, first, last, toBool) ==
  LET done(d) == Push([d EXCEPT !.node = c.node], NodeSet(d.set))
  IN IF ~TopIs(c, "nodeset") THEN Fail(c, "type")
     ELSE done(ContextNodes(Asking(c, c.steps[i], first, last, toBool),
                            Pop(c), Top(c).nodes))

-----------------------------------------------------------------------------
(* Running the operations.                                                 *)

\* A step after what leads to it.
Collect(c, i, first, last, toBool) ==
  Checked(Eval(c, c.steps[i].ch1, "value"),
          LAMBDA c1 : More(CollectAndTest(c1, i, first, last, toBool), c1.n))

\* The two operands of o, one after the other.
Both(c, o) ==
  Checked(Eval(c, o.ch1, "value"),
          LAMBDA c1 : More(Eval(c1, o.ch2, "value"), c1.n))

\* Variant of EvalLogic: the first operand stays on the stack.
EvalLogicUnpopped(c, o, settled) ==
  LET asBoolean(d) == SetTop(d, Boolean(CastToBoolean(Top(d))))
      second(c1) == Checked(Eval(c1, o.ch2, "value"),
                            LAMBDA c2 : More(asBoolean(c2), c1.n))
  IN Checked(Eval(c, o.ch1, "value"),
             LAMBDA c1 : IF CastToBoolean(Top(c1)) = settled THEN asBoolean(c1)
                         ELSE second(c1))

\* "and" is settled by FALSE, "or" by TRUE.
EvalLogic(c, o, settled) ==
  LET asBoolean(d) == SetTop(d, Boolean(CastToBoolean(Top(d))))
      second(c1) == Checked(Eval(Pop(c1), o.ch2, "value"),
                            LAMBDA c2 : More(asBoolean(c2), c1.n))
  IN Checked(Eval(c, o.ch1, "value"),
             LAMBDA c1 : IF CastToBoolean(Top(c1)) = settled THEN asBoolean(c1)
                         ELSE second(c1))

\* The two node sets on the stack become one.
Unite(c) ==
  IF TopIs(c, "nodeset") /\ TopIs(Pop(c), "nodeset")
    THEN Binary(c, LAMBDA v, w : NodeSet(NodeSetMerge(v.nodes, w.nodes)))
    ELSE Fail(c, "type")

EvalFunction(c, o) ==
  LET left(d) == IF Len(d.stack) # d.frame + 1 THEN Fail(d, "stack")
                 ELSE [d EXCEPT !.frame = c.frame]
      call(d) == IF Len(d.stack) < d.frame + o.arg.nargs THEN Fail(d, "operand")
                 ELSE Checked(Call(d, o.arg.name, o.arg.nargs), left)
  IN Checked(Eval([c EXCEPT !.frame = Len(c.stack)], o.ch1, "value"), call)

\* "()[1]" and "()[last()]"
PicksFirst(c, o) ==
  /\ c.steps[o.ch1].op \in {"SORT", "FILTER"}
  /\ c.steps[o.ch2].op = "VALUE" /\ c.steps[o.ch2].arg = 1
PicksLast(c, o) ==
  /\ c.steps[o.ch1].op = "SORT" /\ c.steps[o.ch2].op = "SORT"
  /\ LET f == c.steps[c.steps[o.ch2].ch1]
     IN f.op = "FUNCTION" /\ f.arg = [name |-> "last", nargs |-> 0]

\* The node set on the stack cut down by keep.
Cut(c, keep(_)) ==
  IF TopIs(c, "nodeset") THEN SetTop(c, NodeSet(keep(Top(c).nodes))) ELSE c

\* The node set on the stack filtered by predicate f; only the first hit is kept
\* if only one is asked for.
FilterTop(c, f, one) ==
  LET s == Top(c).nodes
      done(d) == [SetTop(d, NodeSet(d.set)) EXCEPT !.n = c.n]
  IN IF ~TopIs(c, "nodeset") THEN Fail(c, "type")
     ELSE Checked(NodeSetFilter(c, s, f, 1, IF one THEN 1 ELSE Len(s)), done)

EvalFilter(c, o) ==
  IF PicksFirst(c, o)
    THEN [Checked(Eval([c EXCEPT !.first = Nil], o.ch1, "first"),
                  LAMBDA d : Cut(d, NodeSetKeepFirst)) EXCEPT !.first = c.first]
  ELSE IF PicksLast(c, o)
    THEN [Checked(Eval([c EXCEPT !.last = Nil], o.ch1, "last"),
                  LAMBDA d : Cut(d, NodeSetKeepLast)) EXCEPT !.last = c.last]
  ELSE Checked(Eval(c, o.ch1, "value"), LAMBDA d : FilterTop(d, o.ch2, FALSE))

\* A filter searched for its first node, which is noted.
FilterFirst(c, o) ==
  LET noted(d) == IF Failed(d) \/ Top(d).nodes = <<>> THEN d
                  ELSE [d EXCEPT !.first = Top(d).nodes[1]]
      lastOf(d) == IF TopIs(d, "nodeset") /\ Len(Top(d).nodes) > 1
                     THEN noted(Cut(d, NodeSetKeepLast)) ELSE d
  IN IF PicksLast(c, o)
       THEN [Checked(Eval([c EXCEPT !.last = Nil], o.ch1, "last"), lastOf)
               EXCEPT !.last = c.last]
     ELSE Checked(Eval(c, o.ch1, "value"),
                  LAMBDA d : noted(FilterTop(d, o.ch2, TRUE)))

Arithmetic(c, o) ==
  LET num(x) == SetTop(c, Number(x))
      of(op(_, _)) ==
        Binary(c, LAMBDA v, w : Number(op(CastToNumber(v), CastToNumber(w))))
  IN CASE o.op = "PLUS" /\ o.arg = 0 -> of(LAMBDA x, y : x - y)
       [] o.op = "PLUS" /\ o.arg = 1 -> of(LAMBDA x, y : x + y)
       [] o.op = "PLUS" /\ o.arg = 2 -> num(-CastToNumber(Top(c)))
       [] o.op = "PLUS" /\ o.arg = 3 -> num(CastToNumber(Top(c)))
       [] o.op = "MULT"               -> of(LAMBDA x, y : x * y)

\* xmlXPathCompOpEval: operation i run for its value.
EvalValue(c, i) ==
  LET o == c.steps[i]
      pushed(v) == [Push(c, v) EXCEPT !.n = 0]
      truth(op(_, _)) == Checked(Both(c, o),
        LAMBDA d : Binary(d, LAMBDA v, w : Boolean(op(v, w))))
  IN CASE o.op = "AND" -> EvalLogic(c, o, FALSE)
       [] o.op = "OR"  -> EvalLogic(c, o, TRUE)
       [] o.op = "EQUAL" -> truth(LAMBDA v, w : EqualValues(v, w) = o.arg)
       [] o.op = "CMP" -> truth(LAMBDA v, w : CompareValues(v, w, o.arg))
       [] o.op \in {"PLUS", "MULT"} ->
            Checked(Both(c, o), LAMBDA d : Arithmetic(d, o))
       [] o.op = "UNION" -> Checked(Both(c, o), Unite)
       [] o.op = "ROOT" -> pushed(NodeSet(<<Doc>>))
       [] o.op = "NODE" -> pushed(NodeSet(<<c.node>>))
       [] o.op = "COLLECT" -> Collect(c, i, Nil, Nil, FALSE)
       [] o.op = "VALUE" -> pushed(Number(o.arg))
       [] o.op = "FUNCTION" -> EvalFunction(c, o)
       [] o.op = "ARG" -> Both(c, o)
       [] o.op = "FILTER" -> EvalFilter(c, o)
       [] o.op = "SORT" -> Checked(Eval(c, o.ch1, "value"), SortTop)

\* The operands of operation i change places.
CompSwap(c, i) ==
  [c EXCEPT !.steps[i].ch1 = c.steps[i].ch2, !.steps[i].ch2 = c.steps[i].ch1]

\* The two arms of a union, searched for the first or the last node; note tells the
\* second one what the first has found.  Next time an arm that examined more
\* nodes comes second.
UniteSearching(c, i, how, note(_)) ==
  LET o == c.steps[i]
      told(d) == IF TopIs(d, "nodeset") /\ Top(d).nodes # <<>>
                   THEN note(SortTop(d)) ELSE d
      united(d, n) == Checked(Unite(d),
        LAMBDA u : [IF n > d.n THEN CompSwap(u, i) ELSE u EXCEPT !.n = n + d.n])
  IN Checked(Eval(c, o.ch1, how),
             LAMBDA c1 : Checked(Eval(told(c1), o.ch2, how),
                                 LAMBDA c2 : united(c2, c1.n)))

\* xmlXPathCompOpEvalFirst: operation i run for its first node in document order;
\* c.first is the first one found so far.
EvalFirst(c, i) ==
  LET o == c.steps[i]
  IN CASE o.op = "UNION" ->
            UniteSearching(c, i, "first",
                           LAMBDA d : [d EXCEPT !.first = Top(d).nodes[1]])
       [] o.op = "COLLECT" -> Collect(c, i, c.first, Nil, FALSE)
       [] o.op = "SORT" -> Checked(Eval(c, o.ch1, "first"), SortTop)
       [] o.op = "FILTER" -> FilterFirst(c, o)
       [] OTHER -> Eval(c, i, "value")

\* xmlXPathCompOpEvalLast: operation i run for its last node in document order;
\* c.last is the last one found so far.
EvalLast(c, i) ==
  LET o == c.steps[i]
  IN CASE o.op = "UNION" ->
            UniteSearching(c, i, "last",
                           LAMBDA d : [d EXCEPT !.last = Last(Top(d).nodes)])
       [] o.op = "COLLECT" -> Collect(c, i, Nil, c.last, FALSE)
       [] o.op = "SORT" -> Checked(Eval(c, o.ch1, "last"), SortTop)
       [] OTHER -> Eval(c, i, "value")

\* xmlXPathCompOpEvalToBoolean, of a predicate: c.hit tells whether it holds.
EvalToBoolean(c, i) ==
  LET o == c.steps[i]
      answer(d) == [Pop(d) EXCEPT !.hit = EvaluatePredicateResult(d, Top(d))]
  IN CASE o.op = "VALUE" -> [c EXCEPT !.hit = EvaluatePredicateResult(c, Number(o.arg))]
       [] o.op = "SORT" -> Eval(c, o.ch1, "truth")
       [] o.op = "COLLECT" -> Checked(Collect(c, i, Nil, Nil, TRUE), answer)
       [] OTHER -> Checked(Eval(c, i, "value"), answer)

Eval(c, i, how) ==
  CASE Failed(c) \/ i = 0 -> [c EXCEPT !.n = 0]
    [] ~Failed(c) /\ i # 0 /\ how = "value" -> EvalValue(c, i)
    [] ~Failed(c) /\ i # 0 /\ how = "first" -> EvalFirst(c, i)
    [] ~Failed(c) /\ i # 0 /\ how = "last"  -> EvalLast(c, i)
    [] ~Failed(c) /\ i # 0 /\ how = "truth" -> EvalToBoolean(c, i)

-----------------------------------------------------------------------------
(* A query.                                                                *)

\* What the text of an expression must not contain to be tried as a streaming
\* pattern: "[", "(", "@" and "::"; of the rest, only paths and unions are patterns.
\* "//" stands between two steps, or before all of them.
RECURSIVE TriesStream(_)
TriesStream(e) ==
  IF e.kind = "union" THEN TriesStream(e.l) /\ TriesStream(e.r)
  ELSE /\ e.kind = "path"
       /\ \A i \in DOMAIN e.steps :
            LET s == e.steps[i]
            IN \/ s \in {Parents, Dot}
               \/ s = Slashes /\ (i > 1 \/ e.abs)
               \/ s.axis = "child" /\ s.test \notin {"node()", "text()"}
                  /\ s.preds = <<>>

TryStreamCompile(e) == IF TriesStream(e) THEN PatternCompile(e) ELSE <<>>

Init ==
  /\ dom \in Documents
  /\ xctx \in [node : Node, size : {-1}, pos : {-1}]
  /\ dom.type[xctx.node] = "attribute" => dom.owner[xctx.node] # Nil
  /\ query = Nil /\ comp = NoComp /\ streams = <<>> /\ run = Nil /\ phase = "idle"

\* nl_xmlXPathEvalExpr compiles the expression; a result set is always sorted.
Compile ==
  /\ phase = "idle"
  /\ \E e \in Expressions :
       /\ query' = e
       /\ streams' = TryStreamCompile(e)
       /\ comp' = IF streams' = <<>> THEN CompileExpr(NoComp, e, TRUE) ELSE NoComp
  /\ phase' = "compiled"
  /\ UNCHANGED <<dom, xctx, run>>

Optimize ==
  /\ phase = "compiled"
  /\ comp' = IF Len(comp.steps) > 1
               THEN [comp EXCEPT !.steps = OptimizeExpression(@, comp.last)]
               ELSE comp
  /\ phase' = "optimized"
  /\ UNCHANGED <<dom, xctx, query, streams, run>>

\* One call, in which nothing else runs.
RunEval ==
  /\ phase = "optimized"
  /\ run' = IF streams = <<>> THEN Eval(Begun(comp, xctx), comp.last, "value")
            ELSE Push(Begun(comp, xctx), NodeSet(RunStreamEval(dom, streams, Doc, xctx.node)))
  /\ phase' = "run"
  /\ UNCHANGED <<dom, xctx, query, comp, streams>>

\* nl_xmlXPathEval takes the result and drops the parser context; what is left of
\* the evaluation is what it has written to the XPath context.
Return ==
  /\ phase = "run"
  /\ xctx' = [node |-> run.node, size |-> run.size, pos |-> run.pos]
  /\ query' = Nil /\ comp' = NoComp /\ streams' = <<>> /\ run' = Nil /\ phase' = "idle"
  /\ UNCHANGED dom

Next == Compile \/ Optimize \/ RunEval \/ Return

Spec == Init /\ [][Next]_vars
-----------------------------------------------------------------------------
(* What a query never does.                                                *)

\* "OP_VALUE has invalid ch1."
ChildrenOf(o) == IF o.op = "VALUE" THEN {} ELSE {o.ch1, o.ch2}

Earlier(steps) == \A i \in DOMAIN steps : ChildrenOf(steps[i]) \subseteq 0 .. i - 1

\* An operation comes after its children, whatever is optimised and swapped, and
\* as compiled no operation is shared ("ctxt->comp->last = -1",
\* xml_xpath.c:10418, 11032, 11415).
TypeOK ==
  /\ xctx \in [node : Node, size : Int, pos : Int]
  /\ phase \in {"idle", "compiled", "optimized", "run"}
  /\ comp.last \in 0 .. Len(comp.steps)
  /\ Earlier(comp.steps)
  /\ phase = "run" => Earlier(run.steps)
  /\ phase = "compiled" =>
       \A i, j \in DOMAIN comp.steps : i # j => ChildrenOf(comp.steps[i]) \cap ChildrenOf(comp.steps[j]) \subseteq {0}

\* An evaluation leaves the context node, size and position as it has found them,
\* also when it fails in the middle of a predicate: the next one starts from them
\* (oldnode, oldcs and oldpp, xml_xpath.c:11671-11674, 11759-11762).
ContextKept ==
  phase = "run" =>
    run.node = xctx.node /\ run.size = xctx.size /\ run.pos = xctx.pos

\* Without an error there is one value on the stack, the result, and no frame is
\* left open ("No result on the stack.", "%d object(s) left on the stack.",
\* xml_xpath.c:14492-14499).
StackEmptied ==
  phase = "run" /\ run.error = "ok" => Len(run.stack) = 1 /\ run.frame = 0
=============================================================================
