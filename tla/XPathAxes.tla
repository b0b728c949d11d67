------------------------------ MODULE XPathAxes ------------------------------
(***************************************************************************)
(* An iterator at work: one axis is walked from one context node at a      *)
(* time, as xmlXPathNodeCollectAndTest does (xml_xpath.c:12225-12252), and *)
(* what the iterator returns is collected.  One step is one turn of a loop *)
(* inside an iterator.                                                     *)
(***************************************************************************)
EXTENDS AxisIterators

CONSTANT Documents   \* the documents a query may be asked of

ASSUME DocumentsAssumption ==
  \A d \in Documents :
    /\ d \in Document
    /\ d.type[Doc] = "document"
    /\ WellLinked(d) /\ Acyclic(d)
    /\ \A n \in Node : d.type[n] = "attribute" => Isolated(d, n)

VARIABLES
  dom,    \* the links of the nodes, their types and their attributes
  walk,   \* the iterator: its axis, context node, place and remembered ancestor
  seen    \* what it has returned

vars == <<dom, walk, seen>>

TypeOK ==
  /\ dom \in Document
  /\ walk \in Walk
  /\ seen \in Seq(Node)

-----------------------------------------------------------------------------
(* Walking.                                                                *)

NoWalk == [axis |-> "self", ctx |-> Doc, cur |-> Nil, anc |-> Nil, at |-> "idle"]

Init == dom \in Documents /\ walk = NoWalk /\ seen = <<>>

\* Ruby gets hold of an attribute, from a query or Node#attribute, only with
\* its owner noted (nl_node.c:170, 196).
MayBeContext(d, n) == IsAttribute(d, n) => d.owner[n] # Nil

SetOut(ax, n) ==
  /\ walk.at = "idle"
  /\ MayBeContext(dom, n)
  /\ walk' = [axis |-> ax, ctx |-> n, cur |-> Nil, anc |-> Nil, at |-> "out"]
  /\ seen' = <<>>
  /\ UNCHANGED dom

\* The list is taken; the next context node can follow.
Finish == walk.at = "end" /\ walk' = NoWalk /\ seen' = <<>> /\ UNCHANGED dom

Walking(ax) == walk.axis = ax /\ walk.at \in {"out", "in", "down"}

\* Variant of Turn: the NULL at the end is collected too.
TurnAtEnd(w) == walk' = w /\ seen' = Append(seen, w.cur)

\* The iterator goes on to w; what it returns is collected.
Turn(w) ==
  /\ walk' = w
  /\ seen' = IF w.at = "out" THEN Append(seen, w.cur) ELSE seen

Self == Walking("self") /\ Turn(NextSelf(dom, walk)) /\ UNCHANGED dom
Child == Walking("child") /\ Turn(NextChild(dom, walk)) /\ UNCHANGED dom
ChildElement ==
  Walking("child element") /\ Turn(NextChildElement(dom, walk)) /\ UNCHANGED dom
Descendant ==
  Walking("descendant") /\ Turn(NextDescendant(dom, walk)) /\ UNCHANGED dom
DescendantOrSelf ==
  /\ Walking("descendant-or-self")
  /\ Turn(NextDescendantOrSelf(dom, walk))
  /\ UNCHANGED dom
Parent == Walking("parent") /\ Turn(NextParent(dom, walk)) /\ UNCHANGED dom
Ancestor ==
  Walking("ancestor") /\ Turn(NextAncestor(dom, walk)) /\ UNCHANGED dom
AncestorOrSelf ==
  /\ Walking("ancestor-or-self")
  /\ Turn(NextAncestorOrSelf(dom, walk))
  /\ UNCHANGED dom
FollowingSibling ==
  /\ Walking("following-sibling")
  /\ Turn(NextFollowingSibling(dom, walk))
  /\ UNCHANGED dom
PrecedingSibling ==
  /\ Walking("preceding-sibling")
  /\ Turn(NextPrecedingSibling(dom, walk))
  /\ UNCHANGED dom
Following ==
  Walking("following") /\ Turn(NextFollowing(dom, walk)) /\ UNCHANGED dom
Preceding ==
  Walking("preceding") /\ Turn(NextPreceding(dom, walk)) /\ UNCHANGED dom
Namespace ==
  Walking("namespace") /\ Turn(NextNamespace(dom, walk)) /\ UNCHANGED dom

\* lexbor leaves attr->owner unset: the axis sets it on the attributes it
\* returns.
Attribute ==
  LET w == NextAttribute(dom, walk)
  IN /\ Walking("attribute")
     /\ Turn(w)
     /\ dom' = IF w.cur # Nil /\ dom.owner[w.cur] = Nil
                 THEN [dom EXCEPT !.owner[w.cur] = walk.ctx] ELSE dom

Iterate ==
  \/ Self \/ Child \/ ChildElement \/ Descendant \/ DescendantOrSelf
  \/ Parent \/ Ancestor \/ AncestorOrSelf
  \/ FollowingSibling \/ PrecedingSibling \/ Following \/ Preceding
  \/ Attribute \/ Namespace

Next == Iterate \/ Finish \/ \E ax \in Axis, n \in Node : SetOut(ax, n)

\* An evaluation that has begun runs to its end: nothing in the process
\* interrupts it.
Spec == Init /\ [][Next]_vars /\ WF_vars(Iterate)
-----------------------------------------------------------------------------
(* What the iterators never do.                                            *)

\* a is n or an ancestor of n.
IsAbove(d, a, n) == ~NoneAbove(d, {a}, n)

\* The node in hand is where its axis may lead from the context node, as far as
\* the links tell.
Within(d, w) ==
  /\ w.axis \in {"child", "child element"} => d.parent[w.cur] = w.ctx
  /\ w.axis = "descendant" =>
       d.parent[w.cur] # Nil /\ IsAbove(d, w.ctx, d.parent[w.cur])
  /\ w.axis = "descendant-or-self" => IsAbove(d, w.ctx, w.cur)
  /\ w.axis \in {"ancestor", "ancestor-or-self"} =>
       w.cur \in {w.ctx, Doc} \/ IsAbove(d, w.cur, Origin(d, w))
  /\ w.axis \in {"following-sibling", "preceding-sibling"} =>
       d.parent[w.cur] = d.parent[w.ctx]
  /\ w.axis = "attribute" => d.owner[w.cur] # Nil

\* No iterator strays: the climb of the descendant axes stops below the context
\* node ("if (cur == ctxt->context->node) return(NULL)", xml_xpath.c:7918), the
\* ancestors are those of the context node, siblings keep to one parent, and no
\* attribute is returned without its owner (8465-8469).
Contained ==
  walk.at = "out" /\ walk.cur # Nil => Within(dom, walk)
=============================================================================
