----------------------------- MODULE MCXPathAxes -----------------------------
(* XPathAxes on every tree of a few nodes.                                 *)
EXTENDS XPathAxes, SequencesExt

Size == Cardinality(Node)

\* Shapes: the parent of every node but the document, 0 for none.  Nodes are
\* numbered as they are met, a tree after the other, the document's first.
Shapes ==
  {p \in [2 .. Size -> 0 .. Size] :
     \A n \in 2 .. Size :
       p[n] < n /\ \A m \in 2 .. n - 1 : p[n] < m => p[n] <= p[m]}

Plain(p) == [n \in Node |-> IF n = 1 THEN "document" ELSE "element"]

\* At most one node that is no element, where the parser or the API can put it.
Typings(p) ==
  LET leaf(n) == \A m \in 2 .. Size : p[m] # n
  IN {Plain(p)}
     \cup {[Plain(p) EXCEPT ![n] = "text"] : n \in {x \in 2 .. Size : leaf(x)}}
     \cup {[Plain(p) EXCEPT ![n] = "attribute"] :
             n \in {x \in 2 .. Size : leaf(x) /\ p[x] > 1}}
     \cup {[Plain(p) EXCEPT ![n] = "fragment"] : n \in {x \in 2 .. Size : p[x] = 0}}
     \cup {[Plain(p) EXCEPT ![n] = "doctype"] :
             n \in {x \in 2 .. Size : leaf(x) /\ p[x] <= 1}}

\* The links of a shape: its nodes appended one after the other.
Links(p, ty) ==
  LET grow[k \in 1 .. Size] ==
        IF k = 1 THEN Scattered
        ELSE IF p[k] = 0 \/ ty[k] = "attribute" THEN grow[k - 1]
        ELSE InsertChild(grow[k - 1], p[k], k)
  IN grow[Size]

\* The attribute of a node, if it has one: there is only one in these trees.
FirstAttrs(p, ty) ==
  [n \in Node |-> IF \E a \in 2 .. Size : ty[a] = "attribute" /\ p[a] = n
                    THEN CHOOSE a \in 2 .. Size : ty[a] = "attribute" ELSE Nil]

DocumentOf(p, ty) ==
  LET t == Links(p, ty)
  IN [parent |-> t.parent, prev |-> t.prev, next |-> t.next,
      first |-> t.first, last |-> t.last, type |-> ty,
      firstAttr |-> FirstAttrs(p, ty), nextAttr |-> NoLinks, owner |-> NoLinks]

AllDocuments == UNION {{DocumentOf(p, ty) : ty \in Typings(p)} : p \in Shapes}

-----------------------------------------------------------------------------
(* The axes, told by the tree alone.                                       *)

\* The parent in the sense of XPath: that of an attribute is its element.
Above(n) == IF IsAttribute(dom, n) THEN dom.owner[n] ELSE dom.parent[n]

\* The ancestors of n, nearest first.
Ancestors(n) ==
  LET up[k \in 0 .. Size, x \in Link] ==
        IF k = 0 \/ x = Nil THEN <<>> ELSE <<x>> \o up[k - 1, Above(x)]
  IN up[Size, Above(n)]

\* n and what is below it, in document order.
Subtree(n) ==
  LET flatten[k \in 0 .. 2 * Size, s \in Seq(Node)] ==
        IF k = 0 \/ s = <<>> THEN <<>>
        ELSE <<Head(s)>> \o flatten[k - 1, Children(dom, Head(s))]
                         \o flatten[k - 1, Tail(s)]
  IN flatten[2 * Size, <<n>>]

\* The tree n is in, in document order.
Whole(n) ==
  LET up == Ancestors(n) IN Subtree(IF up = <<>> THEN n ELSE Last(up))

\* The node whose place in document order n has.
Anchor(n) == IF IsAttribute(dom, n) THEN dom.owner[n] ELSE n

\* What the comment above each iterator says the axis of n contains, in the
\* order it says it comes in.
Contents(ax, n) ==
  LET a == Anchor(n)
      all == Whole(n)
      at == CHOOSE i \in DOMAIN all : all[i] = a
      without(s, ms) == SelectSeq(s, LAMBDA m : m \notin ms)
  IN CASE ax = "self" -> <<n>>
       [] ax = "child" -> Children(dom, n)
       [] ax = "child element" ->
            SelectSeq(Children(dom, n), LAMBDA m : dom.type[m] = "element")
       [] ax = "descendant" -> Tail(Subtree(n))
       [] ax = "descendant-or-self" -> Subtree(n)
       [] ax = "parent" ->
            IF Ancestors(n) = <<>> THEN <<>> ELSE <<Head(Ancestors(n))>>
       [] ax = "ancestor" -> Ancestors(n)
       [] ax = "ancestor-or-self" -> <<n>> \o Ancestors(n)
       [] ax = "following-sibling" -> ChainFrom(dom, dom.next[n])
       [] ax = "preceding-sibling" ->
            LET go[k \in 0 .. Size, x \in Link] ==
                  IF k = 0 \/ x = Nil THEN <<>> ELSE <<x>> \o go[k - 1, dom.prev[x]]
            IN go[Size, dom.prev[n]]
       [] ax = "following" ->
            without(SubSeq(all, at + 1, Len(all)), ToSet(Subtree(a)))
       [] ax = "preceding" ->
            Reverse(without(SubSeq(all, 1, at - 1), ToSet(Ancestors(n))))
       [] ax = "attribute" ->
            LET go[k \in 0 .. Size, x \in Link] ==
                  IF k = 0 \/ x = Nil THEN <<>>
                  ELSE <<x>> \o go[k - 1, dom.nextAttr[x]]
            IN go[Size, dom.firstAttr[n]]
       [] ax = "namespace" -> <<>>

Upward == {"parent", "ancestor", "ancestor-or-self"}

\* Where the iterators do something else:
\*  - the document is the parent of a node without one (7991, 8061), while the
\*    ancestors of a node further down a detached tree end at its root;
\*  - a doctype has no parent (8004, 8074), and its ancestor-or-self axis goes
\*    on to the document only when it is the first node there (8090);
\*  - the ancestor-or-self axis of an attribute ends with itself (8120);
\*  - the preceding axis stops at the first child of the document (8381), which
\*    it should pass when that is no ancestor of the context node.
Regular(ax, n) ==
  /\ ax \in Upward /\ HasParent(dom, n) => dom.parent[n] # Nil
  /\ ax \in Upward => dom.type[n] # "doctype"
  /\ ax = "ancestor-or-self" => ~IsAttribute(dom, n)
  /\ ax = "preceding" /\ Last(<<n>> \o Ancestors(n)) = Doc =>
       LET f == dom.first[Doc]
       IN f \in ToSet(<<n>> \o Ancestors(n)) \/ f = Nil \/ dom.first[f] = Nil

\* An iterator called until it returns NULL has gone through its axis, from its
\* first node to its last, each once, whatever the tree and the node: "ordered
\* in reverse document order", "excluding any ancestors and excluding attribute
\* nodes" (xml_xpath.c:8343-8346) and so on.
AxisExact ==
  walk.at = "end" /\ Regular(walk.axis, walk.ctx) =>
    seen = Contents(walk.axis, walk.ctx)

\* Every axis comes to an end.
WalkEnds == walk.at # "idle" ~> walk.at = "end"
=============================================================================
