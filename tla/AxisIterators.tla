--------------------------- MODULE AxisIterators ---------------------------
(***************************************************************************)
(* The iterators of the XPath axes (xml_xpath.c:7650-8471).                *)
(*                                                                         *)
(* An iterator is called with the node it returned last, Nil at first, and *)
(* returns the next node of the axis or Nil.  It keeps no list: where to   *)
(* go next is worked out from the links of the node in hand, and the       *)
(* preceding axis alone remembers an ancestor between calls.  One turn of  *)
(* a loop inside an iterator is one value of w, a record of Walk.          *)
(*                                                                         *)
(* Comments, processing instructions and CDATA sections take the branches  *)
(* of "text" in every iterator.                                            *)
(***************************************************************************)
EXTENDS DomTree

CONSTANT Doc   \* the document of the evaluation, ctxt->context->doc

ASSUME DocAssumption == Doc \in Node

Type == {"document", "doctype", "element", "text", "attribute", "fragment"}

Axis == {"self", "child", "child element", "descendant", "descendant-or-self",
         "parent", "ancestor", "ancestor-or-self", "following-sibling",
         "preceding-sibling", "following", "preceding", "attribute",
         "namespace"}

\* Where an iterator can be: "out" between two calls, "in" and "down" in one of
\* its loops, "end" once it has returned Nil.
Place == {"idle", "out", "in", "down", "end"}

Document == [parent : [Node -> Link], prev : [Node -> Link],
             next : [Node -> Link], first : [Node -> Link],
             last : [Node -> Link], type : [Node -> Type],
             firstAttr : [Node -> Link], nextAttr : [Node -> Link],
             owner : [Node -> Link]]

Walk == [axis : Axis, ctx : Node, cur : Link, anc : Link, at : Place]

-----------------------------------------------------------------------------
(* What the iterators have in common.                                      *)

Fresh(w) == w.cur = Nil

\* The iterator returns n.
Out(w, n) == [w EXCEPT !.cur = n, !.at = IF n = Nil THEN "end" ELSE "out"]

\* Its loop goes on from n.
In(w, n) == [w EXCEPT !.cur = n, !.at = "in"]

IsAttribute(d, n) == d.type[n] = "attribute"

\* The types under which the iterators look for a parent.
HasParent(d, n) == d.type[n] \in {"element", "text"}

\* Variant of Climb: the loop does not know the node to stop at.
ClimbPastTop(d, w, n, top) ==
  LET p == d.parent[n]
  IN IF p = Nil THEN Out(w, Nil)
     ELSE IF d.next[p] # Nil THEN Out(w, d.next[p])
     ELSE In(w, p)

\* Variant of Climb: the loop tests the parent and stays where it is.
ClimbInPlace(d, w, n, top) ==
  LET p == d.parent[n]
  IN IF p \in {Nil, top} THEN Out(w, Nil)
     ELSE IF d.next[p] # Nil THEN Out(w, d.next[p])
     ELSE In(w, n)

\* One turn of "do cur = cur->parent ... while": from n to its parent, and on to
\* what follows that; nothing is left when the parent is top.
Climb(d, w, n, top) ==
  LET p == d.parent[n]
  IN IF p \in {Nil, top} THEN Out(w, Nil)
     ELSE IF d.next[p] # Nil THEN Out(w, d.next[p])
     ELSE In(w, p)

\* One turn of the loop that skips what is no element.
Scan(d, w, n) ==
  IF n = Nil \/ d.type[n] = "element" THEN Out(w, n) ELSE In(w, n)

\* Where the walks of the nodes after and before the context node set out.
Origin(d, w) == IF IsAttribute(d, w.ctx) THEN d.owner[w.ctx] ELSE w.ctx

-----------------------------------------------------------------------------
(* The iterators.                                                          *)

NextSelf(d, w) == Out(w, IF Fresh(w) THEN w.ctx ELSE Nil)

NextChild(d, w) ==
  Out(w, IF ~Fresh(w) THEN d.next[w.cur]
         ELSE IF IsAttribute(d, w.ctx) THEN Nil ELSE d.first[w.ctx])

NextChildElement(d, w) ==
  IF ~Fresh(w) THEN Scan(d, w, d.next[w.cur])
  ELSE IF d.type[w.ctx] \in {"element", "fragment", "document"}
    THEN Scan(d, w, d.first[w.ctx])
  ELSE Out(w, Nil)

\* Variant of NextDescendant: it does not ask whether it is at the context node.
NextDescendantNoTop(d, w) ==
  IF Fresh(w) THEN Out(w, IF IsAttribute(d, w.ctx) THEN Nil ELSE d.first[w.ctx])
  ELSE IF w.at = "in" THEN Climb(d, w, w.cur, w.ctx)
  ELSE IF d.first[w.cur] # Nil THEN Out(w, d.first[w.cur])
  ELSE IF d.next[w.cur] # Nil THEN Out(w, d.next[w.cur])
  ELSE Climb(d, w, w.cur, w.ctx)

NextDescendant(d, w) ==
  IF Fresh(w) THEN Out(w, IF IsAttribute(d, w.ctx) THEN Nil ELSE d.first[w.ctx])
  ELSE IF w.at = "in" THEN Climb(d, w, w.cur, w.ctx)
  ELSE IF d.first[w.cur] # Nil THEN Out(w, d.first[w.cur])
  ELSE IF w.cur = w.ctx THEN Out(w, Nil)
  ELSE IF d.next[w.cur] # Nil THEN Out(w, d.next[w.cur])
  ELSE Climb(d, w, w.cur, w.ctx)

NextDescendantOrSelf(d, w) ==
  IF Fresh(w) THEN Out(w, w.ctx)
  ELSE IF IsAttribute(d, w.ctx) THEN Out(w, Nil)
  ELSE NextDescendant(d, w)

\* A node without a parent has the document for one, in or out of its tree.
FirstParent(d, n) ==
  IF HasParent(d, n) THEN IF d.parent[n] = Nil THEN Doc ELSE d.parent[n]
  ELSE IF IsAttribute(d, n) THEN d.owner[n]
  ELSE Nil

NextParent(d, w) == Out(w, IF Fresh(w) THEN FirstParent(d, w.ctx) ELSE Nil)

NextAncestor(d, w) ==
  Out(w, IF Fresh(w) THEN FirstParent(d, w.ctx)
         ELSE IF w.cur = d.first[Doc] THEN Doc
         ELSE IF w.cur # Doc /\ (HasParent(d, w.cur) \/ IsAttribute(d, w.cur))
           THEN d.parent[w.cur]
         ELSE Nil)

NextAncestorOrSelf(d, w) ==
  IF Fresh(w) THEN Out(w, w.ctx) ELSE NextAncestor(d, w)

NextSibling(d, w, side) ==
  Out(w, IF IsAttribute(d, w.ctx) \/ w.cur = Doc THEN Nil
         ELSE IF Fresh(w) THEN side[w.ctx] ELSE side[w.cur])

NextFollowingSibling(d, w) == NextSibling(d, w, d.next)
NextPrecedingSibling(d, w) == NextSibling(d, w, d.prev)

NextFollowing(d, w) ==
  LET onward(n) == IF n = Nil THEN Out(w, Nil)
                   ELSE IF d.next[n] # Nil THEN Out(w, d.next[n])
                   ELSE Climb(d, w, n, Doc)
  IN IF Fresh(w) THEN onward(Origin(d, w))
     ELSE IF w.at = "in" THEN Climb(d, w, w.cur, Doc)
     ELSE IF d.first[w.cur] # Nil THEN Out(w, d.first[w.cur])
     ELSE onward(w.cur)

\* "while (cur->last_child != NULL) cur = cur->last_child"
Deepest(d, w, n) ==
  IF d.last[n] = Nil THEN Out(w, n) ELSE [In(w, d.last[n]) EXCEPT !.at = "down"]

\* anc is ctxt->ancestor: the nearest ancestor of the context node that the walk
\* has not passed.
NextPreceding(d, w) ==
  LET back(n, anc) ==
        LET p == d.parent[n]
        IN IF d.prev[n] # Nil THEN Deepest(d, [w EXCEPT !.anc = anc], d.prev[n])
           ELSE IF p \in {Nil, d.first[Doc]} THEN Out([w EXCEPT !.anc = anc], Nil)
           ELSE IF p # anc THEN Out([w EXCEPT !.anc = anc], p)
           ELSE In([w EXCEPT !.anc = d.parent[p]], p)
  IN IF Fresh(w) THEN back(Origin(d, w), d.parent[Origin(d, w)])
     ELSE IF w.at = "down" THEN Deepest(d, w, w.cur)
     ELSE back(w.cur, w.anc)

NextAttribute(d, w) ==
  Out(w, IF d.type[w.ctx] # "element" THEN Nil
         ELSE IF Fresh(w) THEN d.firstAttr[w.ctx] ELSE d.nextAttr[w.cur])

NextNamespace(d, w) == Out(w, Nil)

\* The function xmlXPathNodeCollectAndTest chooses for the axis.
NextOf(d, w) ==
  CASE w.axis = "self"               -> NextSelf(d, w)
    [] w.axis = "child"              -> NextChild(d, w)
    [] w.axis = "child element"      -> NextChildElement(d, w)
    [] w.axis = "descendant"         -> NextDescendant(d, w)
    [] w.axis = "descendant-or-self" -> NextDescendantOrSelf(d, w)
    [] w.axis = "parent"             -> NextParent(d, w)
    [] w.axis = "ancestor"           -> NextAncestor(d, w)
    [] w.axis = "ancestor-or-self"   -> NextAncestorOrSelf(d, w)
    [] w.axis = "following-sibling"  -> NextFollowingSibling(d, w)
    [] w.axis = "preceding-sibling"  -> NextPrecedingSibling(d, w)
    [] w.axis = "following"          -> NextFollowing(d, w)
    [] w.axis = "preceding"          -> NextPreceding(d, w)
    [] w.axis = "attribute"          -> NextAttribute(d, w)
    [] w.axis = "namespace"          -> NextNamespace(d, w)
=============================================================================
