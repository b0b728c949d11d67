----------------------------- MODULE XPathProofs -----------------------------
(***************************************************************************)
(* XPathAxes, for any documents: no iterator of an axis strays.            *)
(*                                                                         *)
(* XPathContext, for any objects, variables, constants, stacks and         *)
(* exceptions:                                                             *)
(*  - every object has one owner, and the cache holds only empty ones;     *)
(*  - an evaluation without a result has an error to raise, and its errors *)
(*    go to its own array.                                                 *)
(*                                                                         *)
(* The first of these is proved of the operators of XPathObjects:          *)
(* HeapOK(h, S) says that S are the objects of heap h that are in use, and *)
(* a lemma for each operator how S changes.                                *)
(***************************************************************************)
EXTENDS XPathAxes, XPathContext, SequenceTheorems, TLAPS

-----------------------------------------------------------------------------
(* Ancestors.                                                              *)

\* A node is above itself.
LEMMA AboveSelf ==
  ASSUME NEW d, NEW n \in Node
  PROVE  IsAbove(d, n, n)
  BY DEF IsAbove, NoneAbove

\* What is above a node other than itself is above its parent.
LEMMA AboveParent ==
  ASSUME NEW d \in Document, NEW a \in Node, NEW n \in Node,
         IsAbove(d, a, n), a # n
  PROVE  d.parent[n] \in Node /\ IsAbove(d, a, d.parent[n])
<1>0. d.parent[n] \in Node \cup {Nil}
  BY DEF Document, Link
<1>1. d.parent[n] # Nil
  <2>1. SUFFICES ASSUME d.parent[n] = Nil PROVE FALSE
    OBVIOUS
  <2>2. NoneAbove(d, {a}, n)
    <3> DEFINE A == {n}
    <3>1. A \in SUBSET Node /\ n \in A /\ A \cap {a} = {}
      OBVIOUS
    <3>2. \A z \in A : d.parent[z] \in A \cup {Nil}
      BY <2>1
    <3> QED BY <3>1, <3>2 DEF NoneAbove
  <2> QED BY <2>2 DEF IsAbove
<1>2. ASSUME NoneAbove(d, {a}, d.parent[n]) PROVE FALSE
  <2>1. PICK A \in SUBSET Node :
          /\ d.parent[n] \in A /\ A \cap {a} = {}
          /\ \A z \in A : d.parent[z] \in A \cup {Nil}
    BY <1>2 DEF NoneAbove
  <2> DEFINE B == A \cup {n}
  <2>2. B \in SUBSET Node /\ n \in B /\ B \cap {a} = {}
    BY <2>1
  <2>3. \A z \in B : d.parent[z] \in B \cup {Nil}
    BY <2>1
  <2>4. NoneAbove(d, {a}, n)
    BY <2>2, <2>3 DEF NoneAbove
  <2> QED BY <2>4 DEF IsAbove
<1> QED BY <1>0, <1>1, <1>2 DEF IsAbove

\* What is above the parent of a node is above the node.
LEMMA AboveChild ==
  ASSUME NEW d, NEW a \in Node, NEW n \in Node,
         d.parent[n] \in Node, d.parent[n] # Nil, IsAbove(d, a, d.parent[n])
  PROVE  IsAbove(d, a, n)
<1>1. SUFFICES ASSUME NoneAbove(d, {a}, n) PROVE NoneAbove(d, {a}, d.parent[n])
  BY DEF IsAbove
<1>2. PICK A \in SUBSET Node :
        /\ n \in A /\ A \cap {a} = {}
        /\ \A z \in A : d.parent[z] \in A \cup {Nil}
  BY <1>1 DEF NoneAbove
<1>3. d.parent[n] \in A
  BY <1>2
<1> QED BY <1>2, <1>3 DEF NoneAbove

\* The parent of a node above n is above n.
LEMMA AboveUp ==
  ASSUME NEW d, NEW a \in Node, NEW n \in Node,
         d.parent[a] # Nil, IsAbove(d, a, n)
  PROVE  IsAbove(d, d.parent[a], n)
<1>1. SUFFICES ASSUME NoneAbove(d, {d.parent[a]}, n) PROVE NoneAbove(d, {a}, n)
  BY DEF IsAbove
<1>2. PICK A \in SUBSET Node :
        /\ n \in A /\ A \cap {d.parent[a]} = {}
        /\ \A z \in A : d.parent[z] \in A \cup {Nil}
  BY <1>1 DEF NoneAbove
<1>3. a \notin A
  BY <1>2
<1>4. A \cap {a} = {}
  BY <1>3
<1> QED BY <1>2, <1>4 DEF NoneAbove

-----------------------------------------------------------------------------
(* One turn of an iterator.                                                *)

\* What the links of a document satisfy in every evaluation.
SoundDocument(d) ==
  /\ d \in Document
  /\ WellLinked(d)
  /\ \A n \in Node : d.type[n] = "attribute" => Isolated(d, n)

LEMMA LinksLead ==
  ASSUME NEW d, SoundDocument(d), NEW n \in Node
  PROVE  /\ d.first[n] \in Link /\ d.next[n] \in Link /\ d.prev[n] \in Link
         /\ d.parent[n] \in Link
         /\ d.first[n] # Nil => d.parent[d.first[n]] = n
         /\ d.next[n] # Nil => d.parent[d.next[n]] = d.parent[n]
         /\ d.prev[n] # Nil => d.parent[d.prev[n]] = d.parent[n]
<1>1. /\ d.first[n] \in Link /\ d.next[n] \in Link /\ d.prev[n] \in Link
      /\ d.parent[n] \in Link
  BY DEF SoundDocument, Document
<1>2. d.first[n] # Nil => d.parent[d.first[n]] = n
  BY <1>1 DEF SoundDocument, WellLinked, Link
<1>3. d.next[n] # Nil => d.parent[d.next[n]] = d.parent[n]
  BY <1>1 DEF SoundDocument, WellLinked, Link
<1>4. d.prev[n] # Nil => d.parent[d.prev[n]] = d.parent[n]
  <2>1. SUFFICES ASSUME d.prev[n] # Nil PROVE d.parent[d.prev[n]] = d.parent[n]
    OBVIOUS
  <2>2. d.prev[n] \in Node /\ d.next[d.prev[n]] = n
    BY <1>1, <2>1 DEF SoundDocument, WellLinked, Link
  <2>3. d.next[d.prev[n]] # Nil
    BY <2>2, NilAssumption
  <2> QED BY <2>2, <2>3 DEF SoundDocument, WellLinked
<1> QED BY <1>1, <1>2, <1>3, <1>4

Down == {"descendant", "descendant-or-self"}

\* What holds of an iterator between two turns.
Good(d, w) ==
  /\ w \in Walk
  /\ w.at # "idle"
  /\ MayBeContext(d, w.ctx)
  /\ w.cur # Nil => Within(d, w)
  /\ w.axis \in Down /\ w.at = "in" => w.cur # w.ctx

\* v is an iterator that w turned into.
Turned(d, w, v) ==
  /\ Good(d, v)
  /\ v.axis = w.axis
  /\ v.at = "out" => v.cur # Nil

USE NilAssumption, DocAssumption

LEMMA OutTurned ==
  ASSUME NEW d, NEW w, SoundDocument(d), Good(d, w), NEW n \in Link,
         n # Nil => Within(d, [w EXCEPT !.cur = n, !.at = "out"])
  PROVE  Turned(d, w, Out(w, n))
<1>1. CASE n = Nil
  BY <1>1 DEF Turned, Good, Out, Walk, Place, MayBeContext, Link, Down
<1>2. CASE n # Nil
  <2>1. Out(w, n) = [w EXCEPT !.cur = n, !.at = "out"]
    BY <1>2 DEF Out
  <2> QED BY <1>2, <2>1 DEF Turned, Good, Walk, Place, MayBeContext, Link, Down
<1> QED BY <1>1, <1>2

LEMMA InTurned ==
  ASSUME NEW d, NEW w, SoundDocument(d), Good(d, w), NEW n \in Node,
         Within(d, [w EXCEPT !.cur = n, !.at = "in"]),
         w.axis \in Down => n # w.ctx
  PROVE  Turned(d, w, In(w, n))
  BY DEF Turned, Good, In, Walk, Place, MayBeContext, Link, Down

Loose == {"self", "parent", "following", "preceding", "namespace"}

\* The axes of which Within asks nothing.
LEMMA LooseOut ==
  ASSUME NEW d, NEW w, SoundDocument(d), Good(d, w), w.axis \in Loose, NEW n \in Link
  PROVE  Turned(d, w, Out(w, n))
<1>1. Within(d, [w EXCEPT !.cur = n, !.at = "out"])
  BY DEF Good, Walk, Within, Loose
<1> QED BY <1>1, OutTurned

LEMMA LooseIn ==
  ASSUME NEW d, NEW w, SoundDocument(d), Good(d, w), w.axis \in Loose, NEW n \in Node
  PROVE  Turned(d, w, In(w, n))
<1>1. Within(d, [w EXCEPT !.cur = n, !.at = "in"])
  BY DEF Good, Walk, Within, Loose
<1> QED BY <1>1, InTurned DEF Loose, Down

LEMMA OriginNode ==
  ASSUME NEW d, NEW w, SoundDocument(d), Good(d, w)
  PROVE  Origin(d, w) \in Node
  BY DEF SoundDocument, Good, Walk, MayBeContext, Origin, IsAttribute, Document, Link

LEMMA SelfTurned ==
  ASSUME NEW d, NEW w, SoundDocument(d), Good(d, w), w.axis = "self"
  PROVE  Turned(d, w, NextSelf(d, w))
  BY LooseOut DEF NextSelf, Fresh, Loose, Good, Walk, Link

LEMMA ParentTurned ==
  ASSUME NEW d, NEW w, SoundDocument(d), Good(d, w), w.axis = "parent"
  PROVE  Turned(d, w, NextParent(d, w))
<1>1. FirstParent(d, w.ctx) \in Link
  BY DEF SoundDocument, Good, Walk, Document, FirstParent, HasParent, IsAttribute, Link
<1> QED BY <1>1, LooseOut DEF NextParent, Loose, Link

LEMMA NamespaceTurned ==
  ASSUME NEW d, NEW w, SoundDocument(d), Good(d, w), w.axis = "namespace"
  PROVE  Turned(d, w, NextNamespace(d, w))
  BY LooseOut DEF NextNamespace, Loose, Link

LEMMA FollowingTurned ==
  ASSUME NEW d, NEW w, SoundDocument(d), Good(d, w), w.axis = "following"
  PROVE  Turned(d, w, NextFollowing(d, w))
<1>1. w.axis \in Loose
  BY DEF Loose
<1>2. ASSUME NEW n \in Node PROVE Turned(d, w, Climb(d, w, n, Doc))
  <2>1. d.parent[n] \in Link /\ (d.parent[n] # Nil => d.next[d.parent[n]] \in Link)
    BY DEF SoundDocument, Document, Link
  <2>2. Nil \in Link
    BY DEF Link
  <2>3. CASE d.parent[n] \in {Nil, Doc}
    BY <1>1, <2>2, <2>3, LooseOut DEF Climb
  <2>4. CASE d.parent[n] \notin {Nil, Doc}
    BY <1>1, <2>1, <2>4, LooseOut, LooseIn DEF Climb, Link
  <2> QED BY <2>3, <2>4
<1>3. ASSUME NEW n \in Node
      PROVE  /\ Turned(d, w, Out(w, d.next[n]))
             /\ Turned(d, w, Out(w, d.first[n]))
  BY <1>1, LooseOut DEF SoundDocument, Document
<1>4. Origin(d, w) \in Node /\ (~Fresh(w) => w.cur \in Node)
  BY OriginNode DEF Fresh, Good, Walk, Link
<1> QED BY <1>2, <1>3, <1>4 DEF NextFollowing

LEMMA PrecedingTurned ==
  ASSUME NEW d, NEW w, SoundDocument(d), Good(d, w), w.axis = "preceding"
  PROVE  Turned(d, w, NextPreceding(d, w))
<1> DEFINE with(anc) == [w EXCEPT !.anc = anc]
<1>1. ASSUME NEW anc \in Link
      PROVE  Good(d, with(anc)) /\ with(anc).axis \in Loose /\ with(anc).axis = w.axis
  BY DEF Good, Walk, MayBeContext, Within, Loose, Down
<1>2. ASSUME NEW anc \in Link, NEW n \in Link
      PROVE  Turned(d, w, Out(with(anc), n))
  <2>1. Turned(d, with(anc), Out(with(anc), n))
    BY <1>1, LooseOut
  <2> QED BY <1>1, <2>1 DEF Turned
<1>3. ASSUME NEW anc \in Link, NEW n \in Node
      PROVE  Turned(d, w, In(with(anc), n))
  <2>1. Turned(d, with(anc), In(with(anc), n))
    BY <1>1, LooseIn
  <2> QED BY <1>1, <2>1 DEF Turned
<1>4. ASSUME NEW anc \in Link, NEW n \in Node
      PROVE  Turned(d, w, Deepest(d, with(anc), n))
  <2>1. CASE d.last[n] = Nil
    BY <1>2, <2>1 DEF Deepest, Link
  <2>2. CASE d.last[n] # Nil
    <3>1. d.last[n] \in Node
      BY <2>2 DEF SoundDocument, Document, Link
    <3>2. Turned(d, w, In(with(anc), d.last[n]))
      BY <1>3, <3>1
    <3>3. Turned(d, w, [In(with(anc), d.last[n]) EXCEPT !.at = "down"])
      BY <3>2 DEF Turned, Good, Walk, Place, MayBeContext, Within, Down
    <3> QED BY <2>2, <3>3 DEF Deepest
  <2> QED BY <2>1, <2>2
<1> DEFINE back(n, anc) ==
      LET p == d.parent[n]
      IN IF d.prev[n] # Nil THEN Deepest(d, with(anc), d.prev[n])
         ELSE IF p \in {Nil, d.first[Doc]} THEN Out(with(anc), Nil)
         ELSE IF p # anc THEN Out(with(anc), p)
         ELSE In(with(d.parent[p]), p)
<1>5. ASSUME NEW anc \in Link, NEW n \in Node
      PROVE  Turned(d, w, back(n, anc))
  <2>1. /\ d.parent[n] \in Link /\ d.prev[n] \in Link
        /\ d.parent[n] # Nil => d.parent[n] \in Node /\ d.parent[d.parent[n]] \in Link
    BY DEF SoundDocument, Document, Link
  <2>2. CASE d.prev[n] # Nil
    BY <1>4, <2>1, <2>2 DEF Link
  <2>3. CASE d.prev[n] = Nil /\ d.parent[n] \in {Nil, d.first[Doc]}
    BY <1>2, <2>3 DEF Link
  <2>4. CASE d.prev[n] = Nil /\ d.parent[n] \notin {Nil, d.first[Doc]}
    <3>1. CASE d.parent[n] # anc
      BY <1>2, <2>1, <2>4, <3>1
    <3>2. CASE d.parent[n] = anc
      BY <1>3, <2>1, <2>4, <3>2
    <3> QED BY <3>1, <3>2
  <2> QED BY <2>2, <2>3, <2>4
<1>6. NextPreceding(d, w) =
        IF Fresh(w) THEN back(Origin(d, w), d.parent[Origin(d, w)])
        ELSE IF w.at = "down" THEN Deepest(d, w, w.cur)
        ELSE back(w.cur, w.anc)
  BY DEF NextPreceding
<1>7. CASE Fresh(w)
  <2>1. Origin(d, w) \in Node /\ d.parent[Origin(d, w)] \in Link
    BY OriginNode DEF SoundDocument, Document
  <2> QED BY <1>5, <1>6, <1>7, <2>1
<1>8. CASE ~Fresh(w)
  <2>1. w.cur \in Node /\ w.anc \in Link /\ with(w.anc) = w
    BY <1>8 DEF Fresh, Good, Walk, Link
  <2>2. Turned(d, w, Deepest(d, w, w.cur))
    <3> HIDE DEF with
    <3> QED BY <1>4, <2>1
  <2>3. Turned(d, w, back(w.cur, w.anc))
    BY <1>5, <2>1
  <2> QED BY <1>6, <1>8, <2>2, <2>3
<1> QED BY <1>7, <1>8

LEMMA ChildTurned ==
  ASSUME NEW d, NEW w, SoundDocument(d), Good(d, w), w.axis = "child"
  PROVE  Turned(d, w, NextChild(d, w))
<1>1. ASSUME NEW n \in Link, n # Nil => d.parent[n] = w.ctx
      PROVE  Turned(d, w, Out(w, n))
  <2>1. n # Nil => Within(d, [w EXCEPT !.cur = n, !.at = "out"])
    BY <1>1 DEF Good, Walk, Within
  <2> QED BY <2>1, OutTurned
<1>2. ~Fresh(w) => w.cur \in Node /\ d.parent[w.cur] = w.ctx
  BY DEF Fresh, Good, Walk, Within, Link
<1>3. /\ d.first[w.ctx] \in Link
      /\ d.first[w.ctx] # Nil => d.parent[d.first[w.ctx]] = w.ctx
  BY LinksLead DEF Good, Walk
<1>4. ~Fresh(w) => /\ d.next[w.cur] \in Link
                   /\ d.next[w.cur] # Nil => d.parent[d.next[w.cur]] = w.ctx
  BY <1>2, LinksLead
<1>5. Turned(d, w, Out(w, Nil))
  BY <1>1 DEF Link
<1>6. Turned(d, w, Out(w, d.first[w.ctx]))
  BY <1>1, <1>3
<1>7. ~Fresh(w) => Turned(d, w, Out(w, d.next[w.cur]))
  BY <1>1, <1>4
<1> QED BY <1>5, <1>6, <1>7 DEF NextChild

LEMMA ChildElementTurned ==
  ASSUME NEW d, NEW w, SoundDocument(d), Good(d, w), w.axis = "child element"
  PROVE  Turned(d, w, NextChildElement(d, w))
<1>1. ASSUME NEW n \in Link, n # Nil => d.parent[n] = w.ctx
      PROVE  Turned(d, w, Out(w, n)) /\ Turned(d, w, Scan(d, w, n))
  <2>1. n # Nil => /\ Within(d, [w EXCEPT !.cur = n, !.at = "out"])
                   /\ Within(d, [w EXCEPT !.cur = n, !.at = "in"])
    BY <1>1 DEF Good, Walk, Within
  <2>2. Turned(d, w, Out(w, n))
    BY <2>1, OutTurned
  <2>3. CASE n = Nil
    BY <2>2, <2>3 DEF Scan
  <2>4. CASE n # Nil
    BY <2>1, <2>2, <2>4, InTurned DEF Scan, Link, Down
  <2> QED BY <2>2, <2>3, <2>4
<1>2. ~Fresh(w) => w.cur \in Node /\ d.parent[w.cur] = w.ctx
  BY DEF Fresh, Good, Walk, Within, Link
<1>3. /\ d.first[w.ctx] \in Link
      /\ d.first[w.ctx] # Nil => d.parent[d.first[w.ctx]] = w.ctx
  BY LinksLead DEF Good, Walk
<1>4. ~Fresh(w) => /\ d.next[w.cur] \in Link
                   /\ d.next[w.cur] # Nil => d.parent[d.next[w.cur]] = w.ctx
  BY <1>2, LinksLead
<1> QED BY <1>1, <1>3, <1>4 DEF NextChildElement, Link

\* The walk of the descendants, which two axes share.  What is below the context
\* node stays below it: a child or a sibling of such a node is, and so is the
\* parent the climb comes to, unless it is the context node itself.
LEMMA BelowTurned ==
  ASSUME NEW d, NEW w, SoundDocument(d), Good(d, w),
         w.axis \in Down, ~Fresh(w)
  PROVE  Turned(d, w, NextDescendant(d, w))
<1> DEFINE c == w.ctx
<1>1. c \in Node /\ w.cur \in Node /\ d \in Document /\ Nil \in Link
  BY DEF SoundDocument, Good, Walk, Fresh, Link
<1>2. IsAbove(d, c, w.cur)
  <2>1. CASE w.axis = "descendant"
    <3>1. d.parent[w.cur] \in Node /\ IsAbove(d, c, d.parent[w.cur])
      BY <1>1, <2>1 DEF Good, Within, Fresh, Document, Link
    <3> QED BY <1>1, <3>1, AboveChild
  <2>2. CASE w.axis = "descendant-or-self"
    BY <1>1, <2>2 DEF Good, Within, Fresh
  <2> QED BY <2>1, <2>2 DEF Down
<1>3. ASSUME NEW n \in Node, d.parent[n] \in Node, IsAbove(d, c, d.parent[n])
      PROVE  Turned(d, w, Out(w, n)) /\ (n # c => Turned(d, w, In(w, n)))
  <2>1. IsAbove(d, c, n)
    BY <1>1, <1>3, AboveChild
  <2>2. /\ Within(d, [w EXCEPT !.cur = n, !.at = "out"])
        /\ Within(d, [w EXCEPT !.cur = n, !.at = "in"])
    BY <1>1, <1>3, <2>1 DEF Good, Walk, Within, Down
  <2> QED BY <2>2, OutTurned, InTurned DEF Link
<1>4. Turned(d, w, Out(w, Nil))
  BY <1>1, OutTurned
<1>5. w.cur # c => d.parent[w.cur] \in Node /\ IsAbove(d, c, d.parent[w.cur])
  BY <1>1, <1>2, AboveParent
<1>6. ASSUME NEW n \in Node, n # c, IsAbove(d, c, n), d.next[n] # Nil
      PROVE  Turned(d, w, Out(w, d.next[n]))
  <2>1. d.parent[n] \in Node /\ IsAbove(d, c, d.parent[n])
    BY <1>1, <1>6, AboveParent
  <2>2. d.next[n] \in Node /\ d.parent[d.next[n]] = d.parent[n]
    BY <1>1, <1>6 DEF SoundDocument, WellLinked, Document, Link
  <2> QED BY <1>3, <2>1, <2>2
<1>7. CASE w.cur # c
  <2> DEFINE p == d.parent[w.cur]
  <2>1. Turned(d, w, Climb(d, w, w.cur, c))
    <3>1. CASE p \in {Nil, c}
      BY <1>4, <3>1 DEF Climb
    <3>2. CASE p \notin {Nil, c}
      <4>1. p \in Node /\ IsAbove(d, c, p)
        BY <1>5, <1>7
      <4>2. d.parent[p] \in Node /\ IsAbove(d, c, d.parent[p])
        BY <1>1, <3>2, <4>1, AboveParent
      <4>3. Turned(d, w, In(w, p))
        BY <1>3, <3>2, <4>1, <4>2
      <4>4. d.next[p] # Nil => Turned(d, w, Out(w, d.next[p]))
        BY <1>6, <3>2, <4>1
      <4> QED BY <3>2, <4>3, <4>4 DEF Climb
    <3> QED BY <3>1, <3>2
  <2>2. d.next[w.cur] # Nil => Turned(d, w, Out(w, d.next[w.cur]))
    BY <1>1, <1>2, <1>6, <1>7
  <2>3. d.first[w.cur] # Nil => Turned(d, w, Out(w, d.first[w.cur]))
    <3>1. d.first[w.cur] # Nil =>
            d.first[w.cur] \in Node /\ d.parent[d.first[w.cur]] = w.cur
      BY <1>1 DEF SoundDocument, WellLinked, Document, Link
    <3> QED BY <1>1, <1>2, <1>3, <3>1
  <2> QED BY <1>4, <2>1, <2>2, <2>3 DEF NextDescendant
<1>8. CASE w.cur = c
  <2>1. d.first[c] # Nil => Turned(d, w, Out(w, d.first[c]))
    <3>1. d.first[c] # Nil => d.first[c] \in Node /\ d.parent[d.first[c]] = c
      BY <1>1 DEF SoundDocument, WellLinked, Document, Link
    <3> QED BY <1>1, <1>3, <3>1, AboveSelf
  <2>2. w.at # "in"
    BY <1>8 DEF Good
  <2> QED BY <1>4, <1>8, <2>1, <2>2 DEF NextDescendant
<1> QED BY <1>7, <1>8

LEMMA DescendantTurned ==
  ASSUME NEW d, NEW w, SoundDocument(d), Good(d, w), w.axis = "descendant"
  PROVE  Turned(d, w, NextDescendant(d, w))
<1>1. CASE ~Fresh(w)
  BY <1>1, BelowTurned DEF Down
<1>2. CASE Fresh(w)
  <2>1. w.ctx \in Node
    BY DEF Good, Walk
  <2>2. ASSUME NEW n \in Link, n # Nil => d.parent[n] = w.ctx
        PROVE  Turned(d, w, Out(w, n))
    <3>1. n # Nil => Within(d, [w EXCEPT !.cur = n, !.at = "out"])
      BY <2>1, <2>2, AboveSelf DEF Good, Walk, Within
    <3> QED BY <3>1, OutTurned
  <2>3. Turned(d, w, Out(w, Nil)) /\ Turned(d, w, Out(w, d.first[w.ctx]))
    BY <2>1, <2>2, LinksLead DEF Link
  <2> QED BY <1>2, <2>3 DEF NextDescendant
<1> QED BY <1>1, <1>2

LEMMA DescendantOrSelfTurned ==
  ASSUME NEW d, NEW w, SoundDocument(d), Good(d, w), w.axis = "descendant-or-self"
  PROVE  Turned(d, w, NextDescendantOrSelf(d, w))
<1>1. w.ctx \in Node
  BY DEF Good, Walk
<1>2. Turned(d, w, Out(w, w.ctx))
  <2>1. Within(d, [w EXCEPT !.cur = w.ctx, !.at = "out"])
    BY <1>1, AboveSelf DEF Good, Walk, Within
  <2> QED BY <1>1, <2>1, OutTurned DEF Link
<1>3. Turned(d, w, Out(w, Nil))
  BY OutTurned DEF Link
<1>4. CASE ~Fresh(w)
  BY <1>2, <1>3, <1>4, BelowTurned DEF Down, NextDescendantOrSelf
<1>5. CASE Fresh(w)
  BY <1>2, <1>5 DEF NextDescendantOrSelf
<1> QED BY <1>4, <1>5

\* One call of the two ancestor axes after the first: to the parent of the node
\* in hand, which is an ancestor of the context node, or to the document.
LEMMA AncestorTurned ==
  ASSUME NEW d, NEW w, SoundDocument(d), Good(d, w),
         w.axis \in {"ancestor", "ancestor-or-self"}
  PROVE  Turned(d, w, NextAncestor(d, w))
<1> DEFINE o == Origin(d, w)
<1>1. w.ctx \in Node /\ o \in Node /\ Nil \in Link
  BY OriginNode DEF Good, Walk, Link
<1>2. ASSUME NEW n \in Link, n # Nil => n = Doc \/ IsAbove(d, n, o)
      PROVE  Turned(d, w, Out(w, n))
  <2>1. Origin(d, [w EXCEPT !.cur = n, !.at = "out"]) = o
    BY DEF Origin, Good, Walk
  <2>2. n # Nil => Within(d, [w EXCEPT !.cur = n, !.at = "out"])
    BY <1>2, <2>1 DEF Good, Walk, Within
  <2> QED BY <2>2, OutTurned
<1>3. ASSUME NEW n \in Node, IsAbove(d, n, o)
      PROVE  Turned(d, w, Out(w, d.parent[n]))
  <2>1. d.parent[n] \in Link
    BY LinksLead
  <2>2. d.parent[n] # Nil => IsAbove(d, d.parent[n], o)
    BY <1>1, <1>3, AboveUp
  <2> QED BY <1>2, <2>1, <2>2
<1>4. Turned(d, w, Out(w, Nil)) /\ Turned(d, w, Out(w, Doc))
  BY <1>1, <1>2 DEF Link
<1>5. IsAbove(d, o, o)
  BY <1>1, AboveSelf
<1>6. CASE Fresh(w)
  <2>1. CASE IsAttribute(d, w.ctx)
    <3>1. Turned(d, w, Out(w, o))
      BY <1>1, <1>2, <1>5 DEF Link
    <3> QED BY <1>6, <2>1, <3>1
              DEF NextAncestor, FirstParent, Origin, HasParent, IsAttribute
  <2>2. CASE ~IsAttribute(d, w.ctx)
    <3>1. o = w.ctx
      BY <2>2 DEF Origin
    <3>2. Turned(d, w, Out(w, d.parent[w.ctx]))
      BY <1>1, <1>3, <1>5, <3>1
    <3> QED BY <1>4, <1>6, <2>2, <3>2 DEF NextAncestor, FirstParent
  <2> QED BY <2>1, <2>2
<1>7. CASE ~Fresh(w)
  <2>1. w.cur \in Node /\ (w.cur \in {w.ctx, Doc} \/ IsAbove(d, w.cur, o))
    BY <1>7 DEF Fresh, Good, Walk, Within, Link
  <2>2. CASE w.cur = Doc
    BY <1>4, <1>7, <2>2 DEF NextAncestor
  <2>3. CASE w.cur # Doc /\ IsAbove(d, w.cur, o)
    BY <1>3, <1>4, <1>7, <2>1, <2>3 DEF NextAncestor
  <2>4. CASE w.cur # Doc /\ w.cur = w.ctx /\ ~IsAttribute(d, w.ctx)
    <3>1. IsAbove(d, w.cur, o)
      BY <1>5, <2>4 DEF Origin
    <3> QED BY <2>3, <2>4, <3>1
  <2>5. CASE w.cur # Doc /\ w.cur = w.ctx /\ IsAttribute(d, w.ctx)
    <3>1. d.parent[w.cur] = Nil
      BY <1>1, <2>5 DEF SoundDocument, IsAttribute, Isolated
    <3> QED BY <1>4, <1>7, <2>5, <3>1 DEF NextAncestor
  <2> QED BY <2>1, <2>2, <2>3, <2>4, <2>5
<1> QED BY <1>6, <1>7

LEMMA AncestorOrSelfTurned ==
  ASSUME NEW d, NEW w, SoundDocument(d), Good(d, w), w.axis = "ancestor-or-self"
  PROVE  Turned(d, w, NextAncestorOrSelf(d, w))
<1>1. w.ctx \in Link
  BY DEF Good, Walk, Link
<1>2. Within(d, [w EXCEPT !.cur = w.ctx, !.at = "out"])
  BY DEF Good, Walk, Within
<1> QED BY <1>1, <1>2, OutTurned, AncestorTurned DEF NextAncestorOrSelf

\* Both sibling axes, which follow next or prev.
LEMMA SiblingTurned ==
  ASSUME NEW d, NEW w, SoundDocument(d), Good(d, w),
         w.axis \in {"following-sibling", "preceding-sibling"},
         NEW side \in {d.next, d.prev}
  PROVE  Turned(d, w, NextSibling(d, w, side))
<1>1. ASSUME NEW n \in Node, d.parent[n] = d.parent[w.ctx]
      PROVE  Turned(d, w, Out(w, side[n]))
  <2>1. side[n] \in Link /\ (side[n] # Nil => d.parent[side[n]] = d.parent[n])
    BY LinksLead
  <2>2. side[n] # Nil => Within(d, [w EXCEPT !.cur = side[n], !.at = "out"])
    BY <1>1, <2>1 DEF Good, Walk, Within
  <2> QED BY <2>1, <2>2, OutTurned
<1>2. Turned(d, w, Out(w, Nil))
  BY OutTurned DEF Link
<1>3. Turned(d, w, Out(w, side[w.ctx]))
  BY <1>1 DEF Good, Walk
<1>4. ~Fresh(w) => Turned(d, w, Out(w, side[w.cur]))
  <2>1. ~Fresh(w) => w.cur \in Node /\ d.parent[w.cur] = d.parent[w.ctx]
    BY DEF Fresh, Good, Walk, Within, Link
  <2> QED BY <1>1, <2>1
<1> QED BY <1>2, <1>3, <1>4 DEF NextSibling

-----------------------------------------------------------------------------
(* The specification.                                                      *)

Inv ==
  /\ SoundDocument(dom)
  /\ walk \in Walk
  /\ seen \in Seq(Node)
  /\ walk.at # "idle" => Good(dom, walk)

LEMMA InvInit == Init => Inv
<1> SUFFICES ASSUME Init PROVE Inv
  OBVIOUS
<1>1. SoundDocument(dom)
  BY DocumentsAssumption DEF Init, SoundDocument
<1>2. walk \in Walk
  BY DEF Init, NoWalk, Walk, Axis, Place, Link
<1> QED BY <1>1, <1>2 DEF Init, NoWalk, Inv

LEMMA BeginKeeps ==
  ASSUME Inv, NEW ax \in Axis, NEW n \in Node, SetOut(ax, n)
  PROVE  Inv'
<1>1. walk' \in Walk
  BY DEF SetOut, Walk, Place, Link
<1>2. Good(dom, walk)'
  <2>1. walk'.cur = Nil /\ walk'.at = "out" /\ walk'.ctx = n
    BY DEF SetOut
  <2>2. MayBeContext(dom', walk'.ctx)
    BY <2>1 DEF SetOut, MayBeContext, IsAttribute
  <2> QED BY <1>1, <2>1, <2>2 DEF Good
<1> QED BY <1>1, <1>2 DEF SetOut, Inv, SoundDocument, WellLinked, Isolated

\* A turn of an iterator over an unchanged document.
LEMMA TurnKeeps ==
  ASSUME Inv, NEW v, Turned(dom, walk, v), Turn(v), UNCHANGED dom
  PROVE  Inv'
<1>1. walk' = v /\ v \in Walk /\ v.at # "idle" /\ Good(dom, v)
  BY DEF Turned, Good, Turn
<1>2. seen' \in Seq(Node)
  <2>1. v.at = "out" => v.cur \in Node
    BY <1>1 DEF Turned, Walk, Link
  <2> QED BY <2>1 DEF Turn, Inv
<1>3. Good(dom', walk')
  BY <1>1
<1>4. SoundDocument(dom')
  BY DEF Inv
<1> QED BY <1>1, <1>2, <1>3, <1>4 DEF Inv

\* The attribute axis, which may note the owner of what it returns.
LEMMA AttributeKeeps ==
  ASSUME Inv, Attribute
  PROVE  Inv'
<1> DEFINE v == NextAttribute(dom, walk)
<1>1. /\ Good(dom, walk) /\ SoundDocument(dom) /\ walk.axis = "attribute"
      /\ Turn(v)
  BY DEF Inv, Attribute, Walking
<1>2. v \in Walk /\ v.at # "idle" /\ v.axis = "attribute" /\ v.ctx = walk.ctx
      /\ (v.at = "out" => v.cur \in Node) /\ (v.cur # Nil => v.at = "out")
  <2>1. ASSUME NEW n \in Link
        PROVE  LET u == Out(walk, n)
               IN /\ u \in Walk /\ u.at # "idle" /\ u.axis = "attribute"
                  /\ u.ctx = walk.ctx /\ (u.at = "out" => u.cur \in Node)
                  /\ (u.cur # Nil => u.at = "out")
    BY <1>1 DEF Out, Walk, Inv, Place, Link
  <2>2. dom.firstAttr[walk.ctx] \in Link
    BY <1>1 DEF SoundDocument, Document, Good, Walk
  <2>3. ~Fresh(walk) => dom.nextAttr[walk.cur] \in Link
    BY <1>1 DEF SoundDocument, Document, Good, Walk, Fresh, Link
  <2> QED BY <2>1, <2>2, <2>3 DEF NextAttribute, Link
<1>3. seen' \in Seq(Node)
  BY <1>1, <1>2 DEF Turn, Inv
<1>4. /\ dom' \in Document
      /\ dom'.parent = dom.parent /\ dom'.prev = dom.prev /\ dom'.next = dom.next
      /\ dom'.first = dom.first /\ dom'.last = dom.last /\ dom'.type = dom.type
      /\ \A n \in Node : dom.owner[n] # Nil => dom'.owner[n] # Nil
      /\ v.cur # Nil => dom'.owner[v.cur] # Nil
  <2>1. CASE v.cur # Nil /\ dom.owner[v.cur] = Nil
    <3>1. dom' = [dom EXCEPT !.owner[v.cur] = walk.ctx]
      BY <2>1 DEF Attribute
    <3>2. walk.ctx \in Node /\ v.cur \in Node /\ dom \in Document
      BY <1>1, <1>2, <2>1 DEF SoundDocument, Good, Walk, Link
    <3> QED BY <3>1, <3>2 DEF Document, Link
  <2>2. CASE ~(v.cur # Nil /\ dom.owner[v.cur] = Nil)
    <3>1. dom' = dom
      BY <2>2 DEF Attribute
    <3> QED BY <1>1, <2>2, <3>1 DEF SoundDocument
  <2> QED BY <2>1, <2>2
<1>5. SoundDocument(dom')
  <2>1. WellLinked(dom')
    BY <1>1, <1>4 DEF SoundDocument, WellLinked
  <2>2. \A n \in Node : dom'.type[n] = "attribute" => Isolated(dom', n)
    BY <1>1, <1>4 DEF SoundDocument, Isolated
  <2> QED BY <1>4, <2>1, <2>2 DEF SoundDocument
<1>6. Good(dom', walk')
  <2>1. walk' = v
    BY <1>1 DEF Turn
  <2>2. MayBeContext(dom', v.ctx)
    BY <1>1, <1>2, <1>4 DEF Good, Walk, MayBeContext, IsAttribute
  <2>3. v.cur # Nil => Within(dom', v)
    BY <1>2, <1>4 DEF Within
  <2> QED BY <1>2, <2>1, <2>2, <2>3 DEF Good, Down
<1> QED BY <1>1, <1>2, <1>3, <1>5, <1>6 DEF Inv, Turn

LEMMA InvNext == Inv /\ [Next]_vars => Inv'
<1> SUFFICES ASSUME Inv, [Next]_vars PROVE Inv'
  OBVIOUS
<1>0. ASSUME NEW ax \in Axis, Walking(ax)
      PROVE  SoundDocument(dom) /\ Good(dom, walk) /\ walk.axis = ax
  BY <1>0 DEF Walking, Inv
<1>1. CASE Self
  BY <1>0, <1>1, SelfTurned, TurnKeeps DEF Self, Axis
<1>2. CASE Child
  BY <1>0, <1>2, ChildTurned, TurnKeeps DEF Child, Axis
<1>3. CASE ChildElement
  BY <1>0, <1>3, ChildElementTurned, TurnKeeps DEF ChildElement, Axis
<1>4. CASE Descendant
  BY <1>0, <1>4, DescendantTurned, TurnKeeps DEF Descendant, Axis
<1>5. CASE DescendantOrSelf
  BY <1>0, <1>5, DescendantOrSelfTurned, TurnKeeps DEF DescendantOrSelf, Axis
<1>6. CASE Parent
  BY <1>0, <1>6, ParentTurned, TurnKeeps DEF Parent, Axis
<1>7. CASE Ancestor
  BY <1>0, <1>7, AncestorTurned, TurnKeeps DEF Ancestor, Axis
<1>8. CASE AncestorOrSelf
  BY <1>0, <1>8, AncestorOrSelfTurned, TurnKeeps DEF AncestorOrSelf, Axis
<1>9. CASE FollowingSibling
  BY <1>0, <1>9, SiblingTurned, TurnKeeps
     DEF FollowingSibling, NextFollowingSibling, Axis
<1>10. CASE PrecedingSibling
  BY <1>0, <1>10, SiblingTurned, TurnKeeps
     DEF PrecedingSibling, NextPrecedingSibling, Axis
<1>11. CASE Following
  BY <1>0, <1>11, FollowingTurned, TurnKeeps DEF Following, Axis
<1>12. CASE Preceding
  BY <1>0, <1>12, PrecedingTurned, TurnKeeps DEF Preceding, Axis
<1>13. CASE Namespace
  BY <1>0, <1>13, NamespaceTurned, TurnKeeps DEF Namespace, Axis
<1>14. CASE Attribute
  BY <1>14, AttributeKeeps
<1>15. CASE Finish
  <2>1. walk' \in Walk
    BY <1>15 DEF Finish, NoWalk, Walk, Axis, Place, Link
  <2> QED BY <1>15, <2>1 DEF Finish, Inv, NoWalk, SoundDocument, WellLinked, Isolated
<1>16. CASE \E ax \in Axis, n \in Node : SetOut(ax, n)
  BY <1>16, BeginKeeps
<1>17. CASE UNCHANGED vars
  <2>1. dom' = dom /\ walk' = walk /\ seen' = seen
    BY <1>17 DEF vars
  <2> QED BY <2>1 DEF Inv
<1> QED BY <1>1, <1>2, <1>3, <1>4, <1>5, <1>6, <1>7, <1>8, <1>9, <1>10, <1>11,
           <1>12, <1>13, <1>14, <1>15, <1>16, <1>17 DEF Next, Iterate

LEMMA InvAlways == Spec => []Inv
<1>1. Init => Inv
  BY InvInit
<1>2. Inv /\ [Next]_vars => Inv'
  BY InvNext
<1> QED BY <1>1, <1>2, PTL DEF Spec

\* The iterator, what it has returned and the document keep their types.
THEOREM TypeCorrect == Spec => []TypeOK
<1>1. Inv => TypeOK
  BY DEF Inv, SoundDocument, TypeOK
<1> QED BY <1>1, InvAlways, PTL

\* Whatever the document, the axis and the node, no iterator strays: the
\* descendant axes stay below the context node, the ancestor axes above it, the
\* sibling axes at its side, and every attribute returned has its owner.
THEOREM NoIteratorStrays == Spec => []Contained
<1>1. Inv => Contained
  BY DEF Inv, Good, Contained
<1> QED BY <1>1, InvAlways, PTL
-----------------------------------------------------------------------------
(* Sequences without duplicates.                                           *)

Distinct(s) == s \in Seq(Obj) /\ IsInjective(s)

LEMMA DistinctEmpty == Distinct(<<>>) /\ ToSet(<<>>) = {}
  BY DEF Distinct, IsInjective, ToSet

LEMMA DistinctOne == ASSUME NEW o \in Obj PROVE Distinct(<<o>>) /\ ToSet(<<o>>) = {o}
<1>1. <<o>> \in Seq(Obj) /\ Len(<<o>>) = 1 /\ DOMAIN <<o>> = {1} /\ <<o>>[1] = o
  OBVIOUS
<1> QED
  BY <1>1 DEF Distinct, IsInjective, ToSet

LEMMA DistinctAppend ==
  ASSUME NEW s, Distinct(s), NEW o \in Obj, o \notin ToSet(s)
  PROVE  Distinct(Append(s, o)) /\ ToSet(Append(s, o)) = ToSet(s) \cup {o}
<1> DEFINE t == Append(s, o)
<1>1. /\ s \in Seq(Obj) /\ Len(s) \in Nat /\ DOMAIN s = 1 .. Len(s)
      /\ t \in Seq(Obj) /\ Len(t) = Len(s) + 1 /\ DOMAIN t = 1 .. Len(s) + 1
      /\ \A i \in 1 .. Len(s) : t[i] = s[i]
      /\ t[Len(s) + 1] = o
  BY DEF Distinct
<1> HIDE DEF t
<1>2. IsInjective(t)
  BY <1>1 DEF Distinct, IsInjective, ToSet
<1>3. ToSet(t) \subseteq ToSet(s) \cup {o}
  BY <1>1 DEF ToSet
<1>4. ToSet(s) \cup {o} \subseteq ToSet(t)
  <2>1. ToSet(s) \subseteq ToSet(t)
    BY <1>1 DEF ToSet
  <2>2. o \in ToSet(t)
    BY <1>1 DEF ToSet
  <2> QED
    BY <2>1, <2>2
<1> QED
  BY <1>1, <1>2, <1>3, <1>4 DEF Distinct, t

LEMMA DistinctFront ==
  ASSUME NEW s, Distinct(s), s # <<>>
  PROVE  /\ Distinct(Front(s)) /\ Len(Front(s)) = Len(s) - 1
         /\ \A i \in 1 .. Len(s) - 1 : Front(s)[i] = s[i]
         /\ Last(s) \in ToSet(s) /\ Last(s) \in Obj
         /\ ToSet(Front(s)) = ToSet(s) \ {Last(s)}
<1> DEFINE t == SubSeq(s, 1, Len(s) - 1)
<1>1. s \in Seq(Obj) /\ Len(s) \in Nat /\ Len(s) > 0 /\ DOMAIN s = 1 .. Len(s)
  BY EmptySeq DEF Distinct
<1>2. \A i \in 1 .. Len(s) : s[i] \in Obj
  BY <1>1
<1>3. /\ t \in Seq(Obj) /\ Len(t) = Len(s) - 1 /\ DOMAIN t = 1 .. Len(s) - 1
      /\ \A i \in 1 .. Len(s) - 1 : t[i] = s[i]
  BY <1>1, <1>2, SubSeqProperties, LenProperties
<1> HIDE DEF t
<1>4. IsInjective(t)
  BY <1>1, <1>3 DEF Distinct, IsInjective
<1>5. Last(s) \in ToSet(s) /\ Last(s) \in Obj
  BY <1>1, <1>2 DEF Last, ToSet
<1>6. ToSet(t) \subseteq ToSet(s) \ {Last(s)}
  BY <1>1, <1>3 DEF Distinct, IsInjective, ToSet, Last
<1>7. ToSet(s) \ {Last(s)} \subseteq ToSet(t)
  <2>1. SUFFICES ASSUME NEW i \in 1 .. Len(s), s[i] # Last(s) PROVE s[i] \in ToSet(t)
    BY <1>1 DEF ToSet
  <2>2. i \in 1 .. Len(s) - 1
    BY <1>1, <2>1 DEF Last
  <2> QED
    BY <1>3, <2>2 DEF ToSet
<1> QED
  BY <1>3, <1>4, <1>5, <1>6, <1>7 DEF Distinct, Front, t

LEMMA DistinctTail ==
  ASSUME NEW s, Distinct(s), s # <<>>
  PROVE  /\ Distinct(Tail(s))
         /\ Head(s) \in ToSet(s) /\ Head(s) \in Obj
         /\ ToSet(Tail(s)) = ToSet(s) \ {Head(s)}
<1> DEFINE t == Tail(s)
<1>1. s \in Seq(Obj) /\ Len(s) \in Nat /\ Len(s) > 0 /\ DOMAIN s = 1 .. Len(s)
  BY EmptySeq DEF Distinct
<1>2. /\ t \in Seq(Obj) /\ Len(t) = Len(s) - 1 /\ DOMAIN t = 1 .. Len(s) - 1
      /\ \A i \in 1 .. Len(s) - 1 : t[i] = s[i + 1]
      /\ Head(s) = s[1] /\ s[1] \in Obj
  BY <1>1
<1> HIDE DEF t
<1>3. IsInjective(t)
  <2>1. SUFFICES ASSUME NEW i \in 1 .. Len(s) - 1, NEW j \in 1 .. Len(s) - 1, t[i] = t[j]
                 PROVE  i = j
    BY <1>2 DEF IsInjective
  <2>2. i + 1 \in DOMAIN s /\ j + 1 \in DOMAIN s /\ s[i + 1] = s[j + 1]
    BY <1>1, <1>2, <2>1
  <2>3. i + 1 = j + 1
    BY <2>2 DEF Distinct, IsInjective
  <2> QED
    BY <2>3
<1>4. Head(s) \in ToSet(s)
  BY <1>1, <1>2 DEF ToSet
<1>5. ToSet(t) \subseteq ToSet(s) \ {Head(s)}
  BY <1>1, <1>2 DEF Distinct, IsInjective, ToSet
<1>6. ToSet(s) \ {Head(s)} \subseteq ToSet(t)
  <2>1. SUFFICES ASSUME NEW i \in 1 .. Len(s), s[i] # s[1] PROVE s[i] \in ToSet(t)
    BY <1>1, <1>2 DEF ToSet
  <2>2. i - 1 \in 1 .. Len(s) - 1 /\ t[i - 1] = s[i]
    BY <1>1, <1>2, <2>1
  <2> QED
    BY <1>2, <2>2 DEF ToSet
<1> QED
  BY <1>2, <1>3, <1>4, <1>5, <1>6 DEF Distinct, t

\* The two upper values of a stack.
LEMMA DistinctTwo ==
  ASSUME NEW s, Distinct(s), Len(s) >= 2
  PROVE  LET n == Len(s)
         IN /\ Distinct(SubSeq(s, 1, n - 2))
            /\ ToSet(SubSeq(s, 1, n - 2)) = ToSet(s) \ {s[n - 1], s[n]}
            /\ s[n - 1] \in ToSet(s) /\ s[n] \in ToSet(s) /\ s[n - 1] # s[n]
            /\ s[n - 1] \in Obj /\ s[n] \in Obj
<1> DEFINE n == Len(s)
           t == Front(s)
<1>1. s \in Seq(Obj) /\ Len(s) \in Nat /\ s # <<>> /\ DOMAIN s = 1 .. Len(s)
  BY DEF Distinct
<1>2. /\ Distinct(t) /\ Len(t) = n - 1 /\ ToSet(t) = ToSet(s) \ {s[n]} /\ t[n - 1] = s[n - 1]
      /\ s[n] \in ToSet(s) /\ s[n] \in Obj
  <2>1. n - 1 \in 1 .. Len(s) - 1
    BY <1>1
  <2> QED
    BY <1>1, <2>1, DistinctFront DEF Last
<1>3. t # <<>> /\ t \in Seq(Obj)
  BY <1>1, <1>2 DEF Distinct
<1>4. /\ Distinct(Front(t)) /\ ToSet(Front(t)) = ToSet(t) \ {s[n - 1]}
      /\ s[n - 1] \in ToSet(t) /\ s[n - 1] \in Obj /\ Front(t) \in Seq(Obj)
      /\ Len(Front(t)) = n - 2 /\ \A i \in 1 .. n - 2 : Front(t)[i] = t[i]
  BY <1>2, <1>3, DistinctFront DEF Last, Distinct
<1>5. SubSeq(s, 1, n - 2) \in Seq(Obj) /\ Len(SubSeq(s, 1, n - 2)) = n - 2
      /\ \A i \in 1 .. n - 2 : SubSeq(s, 1, n - 2)[i] = s[i]
  BY <1>1, SubSeqProperties
<1>6. \A i \in 1 .. n - 2 : t[i] = s[i]
  BY <1>1, DistinctFront
<1>7. SubSeq(s, 1, n - 2) = Front(t)
  <2> HIDE DEF t
  <2> QED
    BY <1>4, <1>5, <1>6, SeqEqual
<1> QED
  BY <1>2, <1>4, <1>7

-----------------------------------------------------------------------------
(* The heap between two operations.                                        *)

Types   == {"free", "lost", "undefined", "nodeset", "string", "boolean", "number"}
SetVals == [nr : 0 .. 1, array : {"none", "small", "large"}]
Vals    == [type : Types, set : SetVals, str : {"none", "own", "gone"}]
Heaps   == [obj : [Obj -> Vals], on : BOOLEAN, max : Int, slot : [Slots -> Seq(Obj)],
            lists : SUBSET Slots, twice : BOOLEAN, text : BOOLEAN]

\* What an object in use, and one in the cache, holds.
SoundVal(v) == /\ v \in Vals /\ v.type \notin {"free", "lost"}
               /\ v.type = "string" <=> v.str = "own"
               /\ v.set # NoSet => v.type = "nodeset"

Emptied(v) == v.type = "undefined" /\ v.str = "none" /\ v.set.nr = 0

SlotsApart(h) ==
  /\ \A s \in Slots : Distinct(h.slot[s])
  /\ \A s, t \in Slots : s # t => ToSet(h.slot[s]) \cap ToSet(h.slot[t]) = {}

\* The objects in use are those of S.
HeapOK(h, S) ==
  /\ h \in Heaps
  /\ SlotsApart(h)
  /\ S \subseteq Obj /\ S \cap CachedObjects(h) = {}
  /\ \A o \in Obj : o \in S \cup CachedObjects(h) <=> h.obj[o].type \notin {"free", "lost"}
  /\ \A o \in S : SoundVal(h.obj[o])
  /\ \A o \in CachedObjects(h) : Emptied(h.obj[o])
  /\ \A o \in ToSet(h.slot["nodeset"]) : h.obj[o].set # NoSet
  /\ h.twice => h.text

\* r is a heap like h with one object more in use, which holds val.
Makes(h, S, r, val) ==
  /\ r.o \in Obj \ S
  /\ HeapOK(r.h, S \cup {r.o})
  /\ r.h.obj[r.o] = val
  /\ \A o \in S : r.h.obj[o] = h.obj[o]

\* g is a heap like h with o not in use any more.
Drops(h, S, g, o) ==
  /\ HeapOK(g, S \ {o})
  /\ \A q \in S \ {o} : g.obj[q] = h.obj[q]
  /\ HasMemory(h) => HasMemory(g)

LEMMA CachedSlot ==
  ASSUME NEW h
  PROVE  \A o : o \in CachedObjects(h) <=> \E s \in Slots : o \in ToSet(h.slot[s])
  BY DEF CachedObjects

LEMMA NewObjectMakes ==
  ASSUME NEW h, NEW S, HeapOK(h, S), HasMemory(h), NEW val, SoundVal(val)
  PROVE  Makes(h, S, NewObject(h, val), val)
<1> DEFINE o == CHOOSE q \in Obj : h.obj[q].type = "free"
           g == [h EXCEPT !.obj[o] = val]
<1>1. o \in Obj /\ h.obj[o].type = "free"
  BY DEF HasMemory
<1>2. NewObject(h, val).h = g /\ NewObject(h, val).o = o
  BY DEF NewObject
<1>3. o \notin S \cup CachedObjects(h)
  BY <1>1 DEF HeapOK
<1> HIDE DEF o
<1>4. /\ g \in Heaps /\ g.obj[o] = val /\ g.slot = h.slot /\ g.twice = h.twice /\ g.text = h.text
      /\ \A q \in Obj \ {o} : g.obj[q] = h.obj[q]
  BY <1>1 DEF HeapOK, Heaps, SoundVal
<1> HIDE DEF g
<1>5. CachedObjects(g) = CachedObjects(h) /\ SlotsApart(g)
  BY <1>4 DEF CachedObjects, SlotsApart, HeapOK
<1>6. \A q \in CachedObjects(h) : q \in Obj /\ q # o /\ q \notin S
  BY <1>3, CachedSlot DEF HeapOK, SlotsApart, Distinct, ToSet
<1>7. HeapOK(g, S \cup {o})
  <2>1. \A q \in CachedObjects(g) : Emptied(g.obj[q])
    BY <1>4, <1>5, <1>6 DEF HeapOK
  <2>2. \A q \in ToSet(g.slot["nodeset"]) : g.obj[q].set # NoSet
    BY <1>4, <1>6, CachedSlot DEF HeapOK, Slots
  <2>3. \A q \in S \cup {o} : SoundVal(g.obj[q])
    BY <1>1, <1>4 DEF HeapOK
  <2>4. \A q \in Obj : q \in S \cup {o} \cup CachedObjects(g) <=> g.obj[q].type \notin {"free", "lost"}
    BY <1>1, <1>4, <1>5 DEF HeapOK, SoundVal
  <2> QED
    BY <1>1, <1>3, <1>4, <1>5, <2>1, <2>2, <2>3, <2>4 DEF HeapOK
<1> QED
  BY <1>1, <1>2, <1>3, <1>4, <1>7 DEF Makes, HeapOK

LEMMA ReusedMakes ==
  ASSUME NEW h, NEW S, HeapOK(h, S), NEW s \in Slots, h.slot[s] # <<>>,
         NEW val, SoundVal(val)
  PROVE  Makes(h, S, Reused(h, s, val), val)
<1> DEFINE o == Last(h.slot[s])
           left == Front(h.slot[s])
           f == [h EXCEPT !.slot[s] = left]
           g == [f EXCEPT !.obj[o] = val]
<1>1. Reused(h, s, val).h = g /\ Reused(h, s, val).o = o
  BY DEF Reused
<1>2. /\ Distinct(left) /\ o \in ToSet(h.slot[s]) /\ o \in Obj
      /\ ToSet(left) = ToSet(h.slot[s]) \ {o}
  BY DistinctFront DEF HeapOK, SlotsApart
<1>3. o \in CachedObjects(h) /\ o \notin S
  BY <1>2, CachedSlot DEF HeapOK
<1> HIDE DEF o, left
<1>4. /\ f \in Heaps /\ f.slot = [h.slot EXCEPT ![s] = left]
      /\ f.obj = h.obj /\ f.twice = h.twice /\ f.text = h.text
  BY <1>2 DEF HeapOK, Heaps, Distinct
<1> HIDE DEF f
<1>5. /\ g \in Heaps /\ g.obj[o] = val /\ g.slot = f.slot /\ g.twice = h.twice /\ g.text = h.text
      /\ \A q \in Obj \ {o} : g.obj[q] = h.obj[q]
  BY <1>2, <1>4 DEF Heaps, SoundVal
<1>6. g.slot[s] = left /\ \A t \in Slots \ {s} : g.slot[t] = h.slot[t]
  BY <1>4, <1>5 DEF HeapOK, Heaps
<1> HIDE DEF g
<1>7. SlotsApart(g)
  BY <1>2, <1>6 DEF SlotsApart, HeapOK
<1>8. CachedObjects(g) = CachedObjects(h) \ {o}
  <2>1. \A q : q \in CachedObjects(g) => q \in CachedObjects(h) /\ q # o
    <3>1. SUFFICES ASSUME NEW t \in Slots, NEW q \in ToSet(g.slot[t])
                   PROVE  q \in ToSet(h.slot[t]) /\ q # o
      BY CachedSlot
    <3> QED
      BY <1>2, <1>6, <3>1 DEF SlotsApart, HeapOK
  <2>2. \A q : q \in CachedObjects(h) /\ q # o => q \in CachedObjects(g)
    BY <1>2, <1>6, CachedSlot
  <2> QED
    BY <1>2, <2>1, <2>2
<1>9. HeapOK(g, S \cup {o})
  <2>1. \A q \in CachedObjects(h) : q \in Obj
    BY CachedSlot DEF HeapOK, SlotsApart, Distinct, ToSet
  <2>2. \A q \in CachedObjects(g) : Emptied(g.obj[q])
    BY <1>5, <1>8, <2>1 DEF HeapOK
  <2>3. \A q \in ToSet(g.slot["nodeset"]) : g.obj[q].set # NoSet
    <3>1. SUFFICES ASSUME NEW q \in ToSet(g.slot["nodeset"]) PROVE g.obj[q].set # NoSet
      OBVIOUS
    <3>2. q \in CachedObjects(g) /\ "nodeset" \in Slots
      BY CachedSlot DEF Slots
    <3>3. q \in ToSet(h.slot["nodeset"]) /\ q \in Obj /\ q # o
      BY <1>2, <1>6, <1>8, <2>1, <3>2
    <3> QED
      BY <1>5, <3>3 DEF HeapOK
  <2>4. \A q \in S \cup {o} : SoundVal(g.obj[q])
    BY <1>2, <1>5 DEF HeapOK
  <2>5. \A q \in Obj : q \in S \cup {o} \cup CachedObjects(g) <=> g.obj[q].type \notin {"free", "lost"}
    BY <1>2, <1>3, <1>5, <1>8 DEF HeapOK, SoundVal
  <2> QED
    BY <1>2, <1>5, <1>7, <1>8, <2>2, <2>3, <2>4, <2>5 DEF HeapOK
<1> QED
  BY <1>1, <1>2, <1>3, <1>5, <1>9 DEF Makes, HeapOK

\* From a slot or from memory.
LEMMA FromCacheMakes ==
  ASSUME NEW h, NEW S, HeapOK(h, S), HasMemory(h), NEW s \in Slots, NEW val, SoundVal(val)
  PROVE  Makes(h, S, FromCache(h, s, val), val)
<1>1. "misc" \in Slots
  BY DEF Slots
<1> QED
  BY <1>1, NewObjectMakes, ReusedMakes DEF FromCache

LEMMA SoundVals ==
  /\ SoundVal(StringVal) /\ SoundVal(Holding("boolean")) /\ SoundVal(Holding("number"))
  /\ \A s \in SetVals : SoundVal(SetVal(s))
  /\ NoSet \in SetVals /\ \A n \in 0 .. 1 : NodeSetCreate(n) \in SetVals
  /\ Unused \in Vals /\ Cleared \in Vals /\ Holding("lost") \in Vals
BY DEF SoundVal, StringVal, Holding, SetVal, SetVals, NoSet, NodeSetCreate, Unused, Cleared, Vals, Types

LEMMA CacheNewMakes ==
  ASSUME NEW h, NEW S, HeapOK(h, S), HasMemory(h), NEW type \in {"string", "boolean", "number"}
  PROVE  \E val : SoundVal(val) /\ val.type = type /\ Makes(h, S, CacheNew(h, type), val)
<1>1. {"string", "boolean", "number"} \subseteq Slots
  BY DEF Slots
<1>2. StringVal.type = "string" /\ Holding("boolean").type = "boolean" /\ Holding("number").type = "number"
  BY DEF StringVal, Holding
<1>3. CASE type = "string"
  BY <1>1, <1>2, <1>3, SoundVals, FromCacheMakes DEF CacheNew, CacheNewString
<1>4. CASE type = "boolean"
  BY <1>1, <1>2, <1>4, SoundVals, FromCacheMakes DEF CacheNew, CacheNewBoolean
<1>5. CASE type = "number"
  BY <1>1, <1>2, <1>5, SoundVals, FromCacheMakes DEF CacheNew, CacheNewFloat
<1> QED
  BY <1>3, <1>4, <1>5

LEMMA WrapNodeSetMakes ==
  ASSUME NEW h, NEW S, HeapOK(h, S), HasMemory(h), NEW set \in SetVals
  PROVE  Makes(h, S, CacheWrapNodeSet(h, set), SetVal(set))
<1>1. "misc" \in Slots
  BY DEF Slots
<1> QED
  BY <1>1, SoundVals, FromCacheMakes DEF CacheWrapNodeSet

LEMMA CacheNewNodeSetMakes ==
  ASSUME NEW h, NEW S, HeapOK(h, S), HasMemory(h), NEW nodes \in 0 .. 1
  PROVE  \E val : SoundVal(val) /\ Makes(h, S, CacheNewNodeSet(h, nodes), val)
<1> DEFINE set == h.obj[Last(h.slot["nodeset"])].set
           filled == IF nodes = 0 THEN set ELSE [set EXCEPT !.nr = 1]
<1>1. "misc" \in Slots /\ "nodeset" \in Slots
  BY DEF Slots
<1>2. CASE h.on /\ h.slot["nodeset"] # <<>>
  <2>1. Last(h.slot["nodeset"]) \in Obj
    BY <1>1, <1>2, DistinctFront DEF HeapOK, SlotsApart
  <2>2. set \in SetVals
    BY <2>1 DEF HeapOK, Heaps, Vals
  <2>3. filled \in SetVals
    BY <2>2 DEF SetVals
  <2> HIDE DEF filled
  <2>4. Makes(h, S, Reused(h, "nodeset", SetVal(filled)), SetVal(filled))
    BY <1>1, <1>2, <2>3, SoundVals, ReusedMakes
  <2> QED
    BY <1>2, <2>3, <2>4, SoundVals DEF CacheNewNodeSet, filled
<1>3. CASE ~(h.on /\ h.slot["nodeset"] # <<>>)
  BY <1>1, <1>3, SoundVals, FromCacheMakes DEF CacheNewNodeSet
<1> QED
  BY <1>2, <1>3

LEMMA CacheObjectCopyMakes ==
  ASSUME NEW h, NEW S, HeapOK(h, S), HasMemory(h), NEW o \in S
  PROVE  \E val : SoundVal(val) /\ Makes(h, S, CacheObjectCopy(h, o), val)
<1>1. {"misc", "string", "boolean", "number"} \subseteq Slots
  BY DEF Slots
<1>2. SoundVal(h.obj[o]) /\ h.obj[o].set \in SetVals
  BY DEF HeapOK, SoundVal, Vals
<1>3. Makes(h, S, ObjectCopy(h, o), h.obj[o])
  BY <1>2, NewObjectMakes DEF ObjectCopy
<1>4. Makes(h, S, CacheWrapNodeSet(h, h.obj[o].set), SetVal(h.obj[o].set))
  BY <1>2, WrapNodeSetMakes
<1>5. Makes(h, S, CacheNewString(h), StringVal)
  BY <1>1, SoundVals, FromCacheMakes DEF CacheNewString
<1>6. Makes(h, S, CacheNewBoolean(h), Holding("boolean"))
  BY <1>1, SoundVals, FromCacheMakes DEF CacheNewBoolean
<1>7. Makes(h, S, CacheNewFloat(h), Holding("number"))
  BY <1>1, SoundVals, FromCacheMakes DEF CacheNewFloat
<1> QED
  BY <1>2, <1>3, <1>4, <1>5, <1>6, <1>7, SoundVals DEF CacheObjectCopy

\* Changing what objects that are in use hold.
LEMMA Changed ==
  ASSUME NEW h, NEW S, HeapOK(h, S), NEW o \in S, NEW val, SoundVal(val),
         NEW g, g = [h EXCEPT !.obj[o] = val]
  PROVE  HeapOK(g, S) /\ g.obj[o] = val /\ \A q \in Obj \ {o} : g.obj[q] = h.obj[q]
<1>1. o \in Obj /\ o \notin CachedObjects(h)
  BY DEF HeapOK
<1>2. /\ g \in Heaps /\ g.obj[o] = val /\ g.slot = h.slot /\ g.twice = h.twice /\ g.text = h.text
      /\ \A q \in Obj \ {o} : g.obj[q] = h.obj[q]
  BY <1>1 DEF HeapOK, Heaps, SoundVal
<1>3. CachedObjects(g) = CachedObjects(h) /\ SlotsApart(g)
  BY <1>2 DEF CachedObjects, SlotsApart, HeapOK
<1>4. \A q \in CachedObjects(h) : q \in Obj /\ q # o
  BY <1>1, CachedSlot DEF HeapOK, SlotsApart, Distinct, ToSet
<1>5. \A q \in ToSet(g.slot["nodeset"]) : g.obj[q].set # NoSet
  BY <1>2, <1>4, CachedSlot DEF HeapOK, Slots
<1>6. \A q \in Obj : q \in S \cup CachedObjects(g) <=> g.obj[q].type \notin {"free", "lost"}
  BY <1>1, <1>2, <1>3 DEF HeapOK, SoundVal
<1>7. \A q \in CachedObjects(g) : Emptied(g.obj[q])
  BY <1>2, <1>3, <1>4 DEF HeapOK
<1>8. \A q \in S : SoundVal(g.obj[q])
  BY <1>2 DEF HeapOK
<1> QED
  BY <1>2, <1>3, <1>5, <1>6, <1>7, <1>8 DEF HeapOK

\* g is h without the objects of T, which hold v.
Without(h, g, T, v) ==
  /\ g \in Heaps /\ g.slot = h.slot
  /\ g.twice => g.text
  /\ \A o \in Obj : g.obj[o] = IF o \in T THEN v ELSE h.obj[o]

LEMMA Freed ==
  ASSUME NEW h, NEW S, HeapOK(h, S), NEW T, T \subseteq S, NEW g, NEW v,
         v.type \in {"free", "lost"}, Without(h, g, T, v)
  PROVE  HeapOK(g, S \ T) /\ (HasMemory(h) => HasMemory(g))
<1> USE DEF Without
<1>1. CachedObjects(g) = CachedObjects(h) /\ SlotsApart(g)
  BY DEF CachedObjects, SlotsApart, HeapOK
<1>2. \A q \in CachedObjects(h) : q \in Obj /\ q \notin S
  BY CachedSlot DEF HeapOK, SlotsApart, Distinct, ToSet
<1>3. \A q \in ToSet(g.slot["nodeset"]) : g.obj[q].set # NoSet
  BY <1>2, CachedSlot DEF HeapOK, Slots
<1>4. \A q \in Obj : q \in (S \ T) \cup CachedObjects(g) <=> g.obj[q].type \notin {"free", "lost"}
  BY <1>1, <1>2 DEF HeapOK
<1>5. \A q \in CachedObjects(g) : Emptied(g.obj[q])
  BY <1>1, <1>2 DEF HeapOK
<1>6. \A q \in S \ T : SoundVal(g.obj[q])
  BY DEF HeapOK
<1>7. HasMemory(h) => HasMemory(g)
  BY DEF HasMemory, HeapOK, SoundVal
<1> QED
  BY <1>1, <1>3, <1>4, <1>5, <1>6, <1>7 DEF HeapOK

\* The string of an object in use is there.
LEMMA StringFreed ==
  ASSUME NEW h, NEW S, HeapOK(h, S), NEW o \in S
  PROVE  LET f == IF h.obj[o].type = "string" THEN FreeString(h, o) ELSE h
         IN /\ f \in Heaps /\ f.slot = h.slot /\ f.lists = h.lists
            /\ f.twice = h.twice /\ f.text = h.text
            /\ \A q \in Obj \ {o} : f.obj[q] = h.obj[q]
<1> DEFINE e == [h EXCEPT !.twice = h.twice \/ h.obj[o].str = "gone"]
           str == IF h.obj[o].str = "none" THEN "none" ELSE "gone"
           v == [h.obj[o] EXCEPT !.str = str]
           f == [e EXCEPT !.obj[o] = v]
<1>1. o \in Obj /\ SoundVal(h.obj[o]) /\ h \in Heaps
  BY DEF HeapOK
<1>2. CASE h.obj[o].type = "string"
  <2>1. h.obj[o].str = "own"
    BY <1>1, <1>2 DEF SoundVal
  <2>2. /\ e \in Heaps /\ e.slot = h.slot /\ e.lists = h.lists
        /\ e.twice = h.twice /\ e.text = h.text /\ e.obj = h.obj
    BY <1>1, <2>1 DEF Heaps
  <2>3. str = "gone"
    BY <2>1
  <2>6. v \in Vals
    BY <1>1, <2>3 DEF SoundVal, Vals
  <2> HIDE DEF e, str, v
  <2>4. /\ f \in Heaps /\ f.slot = h.slot /\ f.lists = h.lists
        /\ f.twice = h.twice /\ f.text = h.text
        /\ \A q \in Obj \ {o} : f.obj[q] = h.obj[q]
    BY <1>1, <2>2, <2>6 DEF Heaps
  <2>5. FreeString(h, o) = f
    BY <2>2 DEF FreeString, e, str, v
  <2> QED
    BY <1>2, <2>4, <2>5
<1>3. CASE h.obj[o].type # "string"
  BY <1>1, <1>3
<1> QED
  BY <1>2, <1>3

LEMMA FreeObjectDrops ==
  ASSUME NEW h, NEW S, HeapOK(h, S), NEW o \in S
  PROVE  Drops(h, S, FreeObject(h, o), o)
<1> DEFINE f == IF h.obj[o].type = "string" THEN FreeString(h, o) ELSE h
           g == [f EXCEPT !.obj[o] = Unused]
<1>1. /\ f \in Heaps /\ f.slot = h.slot /\ f.twice = h.twice /\ f.text = h.text
      /\ \A q \in Obj \ {o} : f.obj[q] = h.obj[q]
  BY StringFreed
<1>2. o \in Obj
  BY DEF HeapOK
<1>3. FreeObject(h, o) = g
  BY DEF FreeObject
<1> HIDE DEF f
<1>4. /\ g \in Heaps /\ g.slot = h.slot /\ g.twice = h.twice /\ g.text = h.text
      /\ \A q \in Obj : g.obj[q] = IF q \in {o} THEN Unused ELSE h.obj[q]
  BY <1>1, <1>2, SoundVals DEF Heaps
<1> HIDE DEF g
<1>5. HeapOK(g, S \ {o}) /\ (HasMemory(h) => HasMemory(g))
  <2> DEFINE T == {o}
  <2>1. T \subseteq S /\ \A q \in Obj : g.obj[q] = IF q \in T THEN Unused ELSE h.obj[q]
    BY <1>4
  <2> HIDE DEF T
  <2>2. Without(h, g, T, Unused) /\ Unused.type \in {"free", "lost"}
    BY <1>4, <2>1 DEF Without, Unused, Holding, HeapOK
  <2>3. HeapOK(g, S \ T) /\ (HasMemory(h) => HasMemory(g))
    BY <2>1, <2>2, Freed
  <2> QED
    BY <2>3 DEF T
<1> QED
  BY <1>3, <1>4, <1>5 DEF Drops, HeapOK

LEMMA FreeAllDrops ==
  ASSUME NEW h, NEW S, HeapOK(h, S), NEW T, T \subseteq S
  PROVE  HeapOK(FreeAll(h, T), S \ T) /\ FreeAll(h, T).slot = h.slot
<1> DEFINE e == [h EXCEPT !.twice = h.twice \/ \E o \in T : h.obj[o].type = "string" /\ h.obj[o].str = "gone"]
           g == [e EXCEPT !.obj = [o \in Obj |-> IF o \in T THEN Unused ELSE h.obj[o]]]
<1>1. FreeAll(h, T) = g
  BY DEF FreeAll
<1>2. h \in Heaps /\ \A o \in T : h.obj[o].type = "string" => h.obj[o].str = "own"
  BY DEF HeapOK, SoundVal
<1>3. /\ e \in Heaps /\ e.slot = h.slot /\ e.twice = h.twice /\ e.text = h.text
  BY <1>2 DEF Heaps
<1> HIDE DEF e
<1>4. /\ g \in Heaps /\ g.slot = h.slot /\ g.twice = h.twice /\ g.text = h.text
      /\ \A o \in Obj : g.obj[o] = IF o \in T THEN Unused ELSE h.obj[o]
  BY <1>2, <1>3, SoundVals DEF Heaps
<1> HIDE DEF g
<1>8. g \in Heaps /\ g.slot = h.slot /\ \A o \in Obj : g.obj[o] = IF o \in T THEN Unused ELSE h.obj[o]
  BY <1>4
<1>5. Unused.type \in {"free", "lost"}
  BY DEF Unused, Holding
<1>6. Without(h, g, T, Unused)
  BY <1>4 DEF Without, HeapOK
<1>7. HeapOK(g, S \ T)
  BY <1>5, <1>6, Freed
<1> QED
  BY <1>1, <1>7, <1>8

LEMMA CacheAddDrops ==
  ASSUME NEW h, NEW S, HeapOK(h, S), NEW o \in S, NEW s \in Slots,
         NEW f \in Heaps, f.slot = h.slot, f.twice = h.twice, f.text = h.text,
         \A q \in Obj \ {o} : f.obj[q] = h.obj[q],
         NEW left \in Vals, Emptied(left), s = "nodeset" => left.set # NoSet
  PROVE  Drops(h, S, CacheAdd(f, s, o, left), o)
<1> DEFINE more == Append(h.slot[s], o)
           e1 == [f EXCEPT !.slot[s] = more]
           e2 == [e1 EXCEPT !.lists = f.lists \cup {s}]
           g  == [e2 EXCEPT !.obj[o] = left]
<1>1. CacheAdd(f, s, o, left) = g
  BY DEF CacheAdd
<1>2. /\ o \in Obj /\ o \notin CachedObjects(h) /\ \A t \in Slots : o \notin ToSet(h.slot[t])
      /\ h.slot \in [Slots -> Seq(Obj)]
  BY CachedSlot DEF HeapOK, Heaps
<1>3. Distinct(more) /\ ToSet(more) = ToSet(h.slot[s]) \cup {o}
  BY <1>2, DistinctAppend DEF HeapOK, SlotsApart
<1> HIDE DEF more
<1>4. /\ e1 \in Heaps /\ e1.slot = [h.slot EXCEPT ![s] = more] /\ e1.obj = f.obj
      /\ e1.lists = f.lists /\ e1.twice = h.twice /\ e1.text = h.text
  BY <1>3 DEF Heaps, Distinct
<1> HIDE DEF e1
<1>5. /\ e2 \in Heaps /\ e2.slot = e1.slot /\ e2.obj = f.obj /\ e2.twice = h.twice /\ e2.text = h.text
  BY <1>4 DEF Heaps
<1> HIDE DEF e2
<1>6. /\ g \in Heaps /\ g.slot = e1.slot /\ g.twice = h.twice /\ g.text = h.text
      /\ g.obj[o] = left /\ \A q \in Obj \ {o} : g.obj[q] = h.obj[q]
  BY <1>2, <1>5 DEF Heaps
<1>7. g.slot[s] = more /\ \A t \in Slots \ {s} : g.slot[t] = h.slot[t]
  BY <1>2, <1>4, <1>6
<1> HIDE DEF g
<1>8. SlotsApart(g)
  <2>1. \A t \in Slots : Distinct(g.slot[t])
    BY <1>3, <1>7 DEF SlotsApart, HeapOK
  <2>2. SUFFICES ASSUME NEW t \in Slots, NEW u \in Slots, t # u
                 PROVE  ToSet(g.slot[t]) \cap ToSet(g.slot[u]) = {}
    BY <2>1 DEF SlotsApart
  <2>3. ToSet(h.slot[t]) \cap ToSet(h.slot[u]) = {}
    BY <2>2 DEF SlotsApart, HeapOK
  <2>4. o \notin ToSet(h.slot[t]) /\ o \notin ToSet(h.slot[u])
    BY <1>2
  <2>5. CASE t = s
    BY <1>3, <1>7, <2>2, <2>3, <2>4, <2>5
  <2>6. CASE u = s
    BY <1>3, <1>7, <2>2, <2>3, <2>4, <2>6
  <2>7. CASE t # s /\ u # s
    BY <1>7, <2>3, <2>7
  <2> QED
    BY <2>5, <2>6, <2>7
<1>9. CachedObjects(g) = CachedObjects(h) \cup {o}
  <2>1. \A q : q \in CachedObjects(g) => q \in CachedObjects(h) \cup {o}
    BY <1>3, <1>7, CachedSlot
  <2>2. \A q : q \in CachedObjects(h) \cup {o} => q \in CachedObjects(g)
    BY <1>3, <1>7, CachedSlot
  <2> QED
    BY <2>1, <2>2
<1>10. \A q \in CachedObjects(h) : q \in Obj /\ q # o
  BY <1>2, CachedSlot DEF HeapOK, SlotsApart, Distinct, ToSet
<1>11. \A q \in CachedObjects(g) : Emptied(g.obj[q])
  BY <1>6, <1>9, <1>10 DEF HeapOK
<1>12. \A q \in ToSet(g.slot["nodeset"]) : g.obj[q].set # NoSet
  <2>1. SUFFICES ASSUME NEW q \in ToSet(g.slot["nodeset"]) PROVE g.obj[q].set # NoSet
    OBVIOUS
  <2>2. "nodeset" \in Slots
    BY DEF Slots
  <2>3. CASE q = o
    <3>1. s = "nodeset"
      BY <1>2, <1>7, <2>1, <2>2, <2>3
    <3> QED
      BY <1>6, <2>3, <3>1
  <2>4. CASE q # o
    <3>1. q \in ToSet(h.slot["nodeset"])
      BY <1>3, <1>7, <2>1, <2>2, <2>4
    <3>2. q \in Obj
      BY <1>10, <2>2, <3>1, CachedSlot
    <3> QED
      BY <1>6, <2>4, <3>1, <3>2 DEF HeapOK
  <2> QED
    BY <2>3, <2>4
<1>13. \A q \in Obj : q \in (S \ {o}) \cup CachedObjects(g) <=> g.obj[q].type \notin {"free", "lost"}
  BY <1>2, <1>6, <1>9 DEF HeapOK, Emptied
<1>14. \A q \in S \ {o} : SoundVal(g.obj[q])
  BY <1>6 DEF HeapOK
<1>15. HasMemory(h) => HasMemory(g)
  <2>1. h.obj[o].type # "free"
    BY DEF HeapOK, SoundVal
  <2> QED
    BY <1>2, <1>6, <2>1 DEF HasMemory
<1>16. HeapOK(g, S \ {o})
  BY <1>2, <1>6, <1>8, <1>9, <1>11, <1>12, <1>13, <1>14 DEF HeapOK
<1> QED
  BY <1>1, <1>6, <1>15, <1>16 DEF Drops, HeapOK

\* To a slot of the cache or to memory.
LEMMA ReleaseObjectDrops ==
  ASSUME NEW h, NEW S, HeapOK(h, S), NEW o \in S
  PROVE  Drops(h, S, ReleaseObject(h, o), o)
<1> DEFINE v == h.obj[o]
           f == IF v.type = "string" THEN FreeString(h, o) ELSE h
           wants(s) == s \notin h.lists \/ Len(h.slot[s]) < h.max
           kept == IF v.type = "nodeset" THEN v.set.array = "small"
                   ELSE v.type \in {"string", "boolean", "number"}
           left == [Cleared EXCEPT !.set = [v.set EXCEPT !.nr = 0]]
           g == [f EXCEPT !.obj[o] = Unused]
<1>1. v \in Vals /\ SoundVal(v) /\ o \in Obj
  BY DEF HeapOK, SoundVal
<1>2. /\ f \in Heaps /\ f.slot = h.slot /\ f.twice = h.twice /\ f.text = h.text
      /\ \A q \in Obj \ {o} : f.obj[q] = h.obj[q]
  BY StringFreed
<1>3. ReleaseObject(h, o) \in
        {FreeObject(h, o), g} \cup
        (IF kept THEN {CacheAdd(f, v.type, o, left)} ELSE {}) \cup {CacheAdd(f, "misc", o, Cleared)}
  BY DEF ReleaseObject
<1>4. Drops(h, S, FreeObject(h, o), o)
  BY FreeObjectDrops
<1>5. Drops(h, S, g, o)
  <2>1. FreeObject(h, o) = g
    BY DEF FreeObject
  <2> QED
    BY <1>4, <2>1
<1>6. Drops(h, S, CacheAdd(f, "misc", o, Cleared), o)
  <2>1. Cleared \in Vals /\ Emptied(Cleared) /\ "misc" \in Slots
    BY SoundVals DEF Cleared, Emptied, Holding, NoSet, Slots
  <2> QED
    BY <1>2, <2>1, CacheAddDrops
<1>7. ASSUME kept PROVE Drops(h, S, CacheAdd(f, v.type, o, left), o)
  <2>1. v.type \in Slots
    BY <1>7 DEF Slots
  <2>2. left \in Vals /\ Emptied(left)
    BY <1>1, SoundVals DEF Cleared, Emptied, Holding, NoSet, Vals, SetVals, Types
  <2>3. v.type = "nodeset" => left.set # NoSet
    BY <1>1, <1>7 DEF NoSet, Vals, SetVals, Cleared, Holding
  <2> HIDE DEF v, f, left
  <2> QED
    BY <1>2, <2>1, <2>2, <2>3, CacheAddDrops
<1> QED
  BY <1>3, <1>4, <1>5, <1>6, <1>7

-----------------------------------------------------------------------------
(* Operations put together.                                                *)

\* r is a heap like h in which r.o is in use for o.
Exchanges(h, S, r, o) ==
  /\ r.o \in Obj /\ r.o \notin S \ {o}
  /\ HeapOK(r.h, (S \ {o}) \cup {r.o})
  /\ \A q \in S \ {o} : r.h.obj[q] = h.obj[q]

LEMMA ConvertExchanges ==
  ASSUME NEW h, NEW S, HeapOK(h, S), HasMemory(h), NEW o \in S,
         NEW type \in {"string", "boolean", "number"}
  PROVE  Exchanges(h, S, CacheConvert(h, o, type), o)
<1> DEFINE r == CacheNew(h, type)
           g == ReleaseObject(h, o)
           c == CacheConvert(h, o, type)
<1>0. S \subseteq Obj /\ (S \ {o}) \cup {o} = S
  BY DEF HeapOK
<1>1. CASE h.obj[o].type = type
  <2>1. c.h = h /\ c.o = o
    BY <1>1 DEF CacheConvert
  <2> QED
    BY <1>0, <2>1 DEF Exchanges
<1>2. CASE h.obj[o].type # type /\ type = "string"
  <2>1. c = CacheWrapString(g)
    BY <1>2 DEF CacheConvert
  <2>2. Drops(h, S, g, o)
    BY ReleaseObjectDrops
  <2>3. HeapOK(g, S \ {o}) /\ HasMemory(g) /\ "string" \in Slots
    BY <2>2 DEF Drops, Slots
  <2>4. Makes(g, S \ {o}, c, StringVal)
    BY <2>1, <2>3, SoundVals, FromCacheMakes DEF CacheWrapString
  <2> HIDE DEF c, g
  <2>5. Exchanges(h, S, c, o)
    BY <2>2, <2>4 DEF Drops, Makes, Exchanges
  <2> QED
    BY <2>5 DEF c
<1>3. CASE h.obj[o].type # type /\ type # "string"
  <2>1. c.h = ReleaseObject(r.h, o) /\ c.o = r.o
    BY <1>3 DEF CacheConvert
  <2>2. PICK val : SoundVal(val) /\ Makes(h, S, r, val)
    BY CacheNewMakes
  <2>3. HeapOK(r.h, S \cup {r.o}) /\ o \in S \cup {r.o} /\ r.o \notin S /\ r.o \in Obj
    BY <2>2 DEF Makes
  <2> DEFINE T == S \cup {r.o}
  <2>4. Drops(r.h, T, c.h, o)
    BY <2>1, <2>3, ReleaseObjectDrops
  <2>5. T \ {o} = (S \ {o}) \cup {c.o}
    BY <2>1, <2>3
  <2>6. \A q \in S \ {o} : c.h.obj[q] = h.obj[q]
    BY <2>2, <2>4 DEF Makes, Drops
  <2>7. HeapOK(c.h, T \ {o})
    BY <2>4 DEF Drops
  <2> HIDE DEF c, T
  <2>8. c.o \in Obj /\ c.o \notin S \ {o} /\ HeapOK(c.h, (S \ {o}) \cup {c.o})
    BY <2>1, <2>3, <2>5, <2>7
  <2>9. Exchanges(h, S, c, o)
    BY <2>6, <2>8 DEF Exchanges
  <2> QED
    BY <2>9 DEF c
<1> QED
  BY <1>1, <1>2, <1>3

LEMMA ReleaseBothDrops ==
  ASSUME NEW h, NEW S, HeapOK(h, S), NEW l \in S, NEW r \in S, l # r
  PROVE  /\ HeapOK(ReleaseBoth(h, l, r), S \ {l, r})
         /\ HasMemory(h) => HasMemory(ReleaseBoth(h, l, r))
<1> DEFINE g == ReleaseObject(h, l)
           T == S \ {l}
<1>1. Drops(h, S, g, l)
  BY ReleaseObjectDrops
<1>2. HeapOK(g, T) /\ r \in T /\ (HasMemory(h) => HasMemory(g))
  BY <1>1 DEF Drops
<1>3. T \ {r} = S \ {l, r}
  OBVIOUS
<1> HIDE DEF g, T
<1>4. Drops(g, T, ReleaseObject(g, r), r)
  BY <1>2, ReleaseObjectDrops
<1>5. ReleaseBoth(h, l, r) = ReleaseObject(g, r)
  BY DEF ReleaseBoth, g
<1> QED
  BY <1>2, <1>3, <1>4, <1>5 DEF Drops

\* CAST_TO_STRING of two values.
LEMMA CastBothExchanges ==
  ASSUME NEW S, HeapOK(heap, S), NEW l \in S, NEW r \in S, l # r, CanCast(r)
  PROVE  LET two == CastBoth(l, r)
         IN /\ two.l \in Obj \ (S \ {l, r}) /\ two.r \in Obj \ (S \ {l, r}) /\ two.l # two.r
            /\ HeapOK(two.h, (S \ {l, r}) \cup {two.l, two.r})
<1> DEFINE upper == CacheConvert(heap, r, "string")
           lower == CacheConvert(upper.h, l, "string")
           T == (S \ {r}) \cup {upper.o}
           U == (T \ {l}) \cup {lower.o}
<1>1. HasMemory(heap) /\ HasMemory(upper.h)
  BY DEF CanCast
<1>2. Exchanges(heap, S, upper, r)
  BY <1>1, ConvertExchanges
<1>3. upper.o \in Obj /\ upper.o \notin S \ {r} /\ HeapOK(upper.h, T) /\ l \in T
  BY <1>2 DEF Exchanges
<1>4. Exchanges(upper.h, T, lower, l)
  BY <1>1, <1>3, ConvertExchanges
<1>5. lower.o \in Obj /\ lower.o \notin T \ {l} /\ HeapOK(lower.h, U)
  BY <1>4 DEF Exchanges
<1>6. CastBoth(l, r).h = lower.h /\ CastBoth(l, r).l = lower.o /\ CastBoth(l, r).r = upper.o
  BY DEF CastBoth
<1> HIDE DEF upper, lower
<1>7. upper.o # l /\ upper.o \in T \ {l}
  BY <1>3
<1>8. U = (S \ {l, r}) \cup {lower.o, upper.o}
  BY <1>7
<1> HIDE DEF U
<1>9. HeapOK(CastBoth(l, r).h, (S \ {l, r}) \cup {CastBoth(l, r).l, CastBoth(l, r).r})
  BY <1>5, <1>6, <1>8
<1> QED
  BY <1>3, <1>5, <1>6, <1>7, <1>9

LEMMA FreeCacheKeeps ==
  ASSUME NEW h, NEW S, HeapOK(h, S)
  PROVE  HeapOK(FreeCache(h), S) /\ \A s \in Slots : FreeCache(h).slot[s] = <<>>
<1> DEFINE cached == CachedObjects(h)
           e1 == [h EXCEPT !.obj = [o \in Obj |-> IF o \in cached THEN Unused ELSE h.obj[o]]]
           e2 == [e1 EXCEPT !.on = FALSE]
           slots == [s \in Slots |-> <<>>]
           e3 == [e2 EXCEPT !.slot = slots]
           g  == [e3 EXCEPT !.lists = {}]
<1>1. FreeCache(h) = g
  BY DEF FreeCache, slots
<1>2. e1 \in Heaps /\ e1.twice = h.twice /\ e1.text = h.text
      /\ \A o \in Obj : e1.obj[o] = IF o \in cached THEN Unused ELSE h.obj[o]
  BY SoundVals DEF HeapOK, Heaps
<1> HIDE DEF e1
<1>3. e2 \in Heaps /\ e2.twice = h.twice /\ e2.text = h.text /\ e2.obj = e1.obj
  BY <1>2 DEF Heaps
<1> HIDE DEF e2
<1>4. slots \in [Slots -> Seq(Obj)] /\ \A s \in Slots : slots[s] = <<>>
  OBVIOUS
<1> HIDE DEF slots
<1>12. e3 \in Heaps /\ e3.twice = h.twice /\ e3.text = h.text /\ e3.obj = e1.obj /\ e3.slot = slots
  BY <1>3, <1>4 DEF Heaps
<1> HIDE DEF e3
<1>5. g \in Heaps /\ g.twice = h.twice /\ g.text = h.text /\ g.obj = e1.obj
      /\ \A s \in Slots : g.slot[s] = <<>>
  BY <1>4, <1>12 DEF Heaps
<1> HIDE DEF g
<1>6. SlotsApart(g)
  BY <1>5, DistinctEmpty DEF SlotsApart
<1>7. CachedObjects(g) = {}
  BY <1>5, CachedSlot, DistinctEmpty
<1>8. ToSet(g.slot["nodeset"]) = {}
  BY <1>5, DistinctEmpty DEF Slots
<1>9. \A o \in Obj : o \in S <=> g.obj[o].type \notin {"free", "lost"}
  BY <1>2, <1>5 DEF HeapOK, Unused, Holding
<1>10. \A o \in S : SoundVal(g.obj[o])
  BY <1>2, <1>5 DEF HeapOK
<1>11. HeapOK(g, S)
  BY <1>5, <1>6, <1>7, <1>8, <1>9, <1>10 DEF HeapOK
<1> QED
  BY <1>1, <1>5, <1>11

LEMMA SetCacheKeeps ==
  ASSUME NEW h, NEW S, HeapOK(h, S), NEW active \in BOOLEAN, NEW value \in Int
  PROVE  HeapOK(ContextSetCache(h, active, value), S)
<1> DEFINE max == IF value < 0 THEN DefaultMax ELSE value
           e == [h EXCEPT !.on = TRUE]
           g == [e EXCEPT !.max = max]
<1>1. CASE active
  <2>1. max \in Int
    BY DEF DefaultMax
  <2> HIDE DEF max
  <2>2. e \in Heaps /\ e.obj = h.obj /\ e.slot = h.slot /\ e.twice = h.twice /\ e.text = h.text
    BY DEF HeapOK, Heaps
  <2> HIDE DEF e
  <2>3. g \in Heaps /\ g.obj = h.obj /\ g.slot = h.slot /\ g.twice = h.twice /\ g.text = h.text
    BY <2>1, <2>2 DEF Heaps
  <2>4. ContextSetCache(h, active, value) = g
    BY <1>1 DEF ContextSetCache, e, max
  <2> HIDE DEF g
  <2>5. CachedObjects(g) = CachedObjects(h) /\ SlotsApart(g)
    BY <2>3 DEF CachedObjects, SlotsApart, HeapOK
  <2>6. HeapOK(g, S)
    BY <2>3, <2>5 DEF HeapOK
  <2> QED
    BY <2>4, <2>6
<1>2. CASE ~active
  BY <1>2, FreeCacheKeeps DEF ContextSetCache
<1> QED
  BY <1>1, <1>2

\* The history of strings starts again.
LEMMA ForgottenKeeps == ASSUME NEW S, HeapOK(heap, S) PROVE HeapOK(Forgotten, S) /\ Forgotten.slot = heap.slot
<1> DEFINE e == [heap EXCEPT !.twice = FALSE]
           g == [e EXCEPT !.text = FALSE]
<1>1. Forgotten = g
  BY DEF Forgotten
<1>2. e \in Heaps /\ e.obj = heap.obj /\ e.slot = heap.slot /\ e.twice = FALSE
  BY DEF HeapOK, Heaps
<1> HIDE DEF e
<1>3. g \in Heaps /\ g.obj = heap.obj /\ g.slot = heap.slot /\ g.twice = FALSE
  BY <1>2 DEF Heaps
<1> HIDE DEF g
<1>4. CachedObjects(g) = CachedObjects(heap) /\ SlotsApart(g)
  BY <1>3 DEF CachedObjects, SlotsApart, HeapOK
<1> QED
  BY <1>1, <1>3, <1>4 DEF HeapOK

-----------------------------------------------------------------------------
(* Who owns what.                                                          *)

Phases      == {"none", "compile", "run", "report", "end", "result"}
Evaluations == [phase : Phases, stack : Seq(Obj), frames : Seq(Nat), consts : Seq(Obj),
                errors : Nat, failed : BOOLEAN, pending : Nat]
Contexts    == [open : BOOLEAN, var : [Variable -> SUBSET Obj],
                ns : SUBSET (Prefix \cup {"nokogiri", "nokogiri-builtin"}), depth : Nat]

\* What an evaluation does not take from: the variables and the constants.
Fixed == VariableObjects \cup ToSet(ev.consts)

Apart ==
  /\ Distinct(ev.stack) /\ Distinct(ev.consts)
  /\ ToSet(ev.stack) \cap Fixed = {}
  /\ VariableObjects \cap ToSet(ev.consts) = {}
  /\ \A m, n \in Variable : m # n => ctx.var[m] \cap ctx.var[n] = {}

InUse == Fixed \cup ToSet(ev.stack)

\* There are values only in an evaluation, and nothing without a context.
Bounded ==
  /\ ev.phase = "none" => ev.stack = <<>> /\ ev.consts = <<>>
  /\ ev.phase = "result" => Len(ev.stack) = 1 /\ ev.consts = <<>>
  /\ ~ctx.open => /\ ev.phase = "none" /\ VariableObjects = {}
                  /\ \A s \in Slots : heap.slot[s] = <<>>

\* The inductive invariant.
Ownership ==
  /\ ev \in Evaluations /\ ctx \in Contexts
  /\ Apart
  /\ HeapOK(heap, InUse)
  /\ Bounded

LEMMA NoEvalTyped == NoEval \in Evaluations
  BY DEF NoEval, Evaluations, Phases

LEMMA OwnershipInitially == CInit => Ownership
<1> SUFFICES ASSUME CInit PROVE Ownership
  OBVIOUS
<1>1. ev = NoEval /\ ctx = NoContext /\ heap = NewHeap
  BY DEF CInit
<1>2. ev \in Evaluations /\ ev.stack = <<>> /\ ev.consts = <<>> /\ ev.phase = "none"
  BY <1>1, NoEvalTyped DEF NoEval
<1>3. ctx \in Contexts /\ ~ctx.open /\ \A n \in Variable : ctx.var[n] = {}
  BY <1>1 DEF NoContext, Contexts
<1>4. VariableObjects = {}
  BY <1>3 DEF VariableObjects
<1>5. InUse = {} /\ Apart
  BY <1>2, <1>3, <1>4, DistinctEmpty DEF InUse, Fixed, Apart
<1>6. /\ heap.obj = [o \in Obj |-> Unused] /\ heap.on = FALSE /\ heap.max = 0
      /\ heap.slot = [s \in Slots |-> <<>>] /\ heap.lists = {}
      /\ heap.twice = FALSE /\ heap.text = FALSE
      /\ heap = [obj |-> heap.obj, on |-> FALSE, max |-> 0, slot |-> heap.slot, lists |-> {},
                 twice |-> FALSE, text |-> FALSE]
  BY <1>1 DEF NewHeap
<1>7. heap.obj \in [Obj -> Vals] /\ heap.slot \in [Slots -> Seq(Obj)]
  BY <1>6, SoundVals
<1>8. heap \in Heaps
  <2> DEFINE a == heap.obj
             b == heap.slot
  <2>1. heap = [obj |-> a, on |-> FALSE, max |-> 0, slot |-> b, lists |-> {},
                 twice |-> FALSE, text |-> FALSE] /\ a \in [Obj -> Vals] /\ b \in [Slots -> Seq(Obj)]
    BY <1>6, <1>7
  <2> HIDE DEF a, b
  <2> QED
    BY <2>1 DEF Heaps
<1>9. \A s \in Slots : heap.slot[s] = <<>>
  BY <1>6
<1>10. SlotsApart(heap)
  BY <1>9, DistinctEmpty DEF SlotsApart
<1>11. CachedObjects(heap) = {}
  BY <1>9, CachedSlot, DistinctEmpty
<1>12. ToSet(heap.slot["nodeset"]) = {}
  BY <1>9, DistinctEmpty DEF Slots
<1>13. \A o \in Obj : heap.obj[o].type = "free"
  BY <1>6 DEF Unused, Holding
<1>14. HeapOK(heap, InUse)
  BY <1>5, <1>6, <1>8, <1>10, <1>11, <1>12, <1>13 DEF HeapOK
<1> QED
  BY <1>2, <1>3, <1>4, <1>5, <1>9, <1>14 DEF Ownership, Bounded

\* A step within an evaluation that changes the stack.
LEMMA StackChanged ==
  ASSUME Ownership, ctx' = ctx, ev.phase # "none",
         ev' \in Evaluations, ev'.phase \notin {"none", "result"}, ev'.consts = ev.consts,
         Distinct(ev'.stack), ToSet(ev'.stack) \cap Fixed = {},
         HeapOK(heap', Fixed \cup ToSet(ev'.stack))
  PROVE  Ownership'
<1>1. VariableObjects' = VariableObjects
  BY DEF VariableObjects
<1>2. Fixed' = Fixed
  BY <1>1 DEF Fixed
<1>3. Apart'
  BY <1>1, <1>2 DEF Apart, Ownership
<1>4. InUse' = Fixed \cup ToSet(ev'.stack)
  BY <1>2 DEF InUse
<1>5. ctx.open
  BY DEF Ownership, Bounded
<1>6. Bounded'
  BY <1>5 DEF Bounded
<1> QED
  BY <1>3, <1>4, <1>6 DEF Ownership

\* A value is put on what stays of the stack.
LEMMA Pushed ==
  ASSUME Ownership, Running, NEW T, T \subseteq ToSet(ev.stack),
         NEW below, Distinct(below), ToSet(below) = ToSet(ev.stack) \ T,
         NEW r, r.o \in Obj, r.o \notin InUse \ T, HeapOK(r.h, (InUse \ T) \cup {r.o}),
         heap' = r.h, NEW e \in Evaluations, e.phase \in {"run", "report"}, e.consts = ev.consts,
         ev' = [e EXCEPT !.stack = Append(below, r.o)]
  PROVE  Ownership'
<1> DEFINE s == Append(below, r.o)
<1>1. ev.phase = "run" /\ ctx' = ctx
  BY DEF Running
<1>2. r.o \notin ToSet(below) /\ r.o \notin Fixed
  BY DEF InUse, Ownership, Apart
<1>3. Distinct(s) /\ ToSet(s) = ToSet(below) \cup {r.o}
  BY <1>2, DistinctAppend
<1> HIDE DEF s
<1>4. ev' \in Evaluations /\ ev'.phase = e.phase /\ ev'.consts = ev.consts /\ ev'.stack = s
  BY <1>3 DEF Evaluations, Distinct, s
<1>5. ToSet(s) \cap Fixed = {}
  BY <1>2, <1>3 DEF Ownership, Apart
<1>6. (InUse \ T) \cup {r.o} = Fixed \cup ToSet(s)
  BY <1>3 DEF InUse, Ownership, Apart
<1> QED
  BY <1>1, <1>3, <1>4, <1>5, <1>6, StackChanged

\* Values are taken from the stack.
LEMMA Popped ==
  ASSUME Ownership, ctx' = ctx, ev.phase \in {"run", "end"}, NEW T, T \subseteq ToSet(ev.stack),
         NEW below, Distinct(below), ToSet(below) = ToSet(ev.stack) \ T,
         HeapOK(heap', InUse \ T),
         NEW e \in Evaluations, e.phase \in {"run", "report", "end"}, e.consts = ev.consts,
         ev' = [e EXCEPT !.stack = below]
  PROVE  Ownership'
<1>1. ev' \in Evaluations /\ ev'.phase = e.phase /\ ev'.consts = ev.consts /\ ev'.stack = below
  BY DEF Evaluations, Distinct
<1>2. ToSet(below) \cap Fixed = {}
  BY DEF Ownership, Apart
<1>3. InUse \ T = Fixed \cup ToSet(below)
  BY DEF InUse, Ownership, Apart
<1> QED
  BY <1>1, <1>2, <1>3, StackChanged

\* The heap and the stack stay.
LEMMA Kept ==
  ASSUME Ownership, ctx' = ctx, heap' = heap, ev.phase # "none",
         ev' \in Evaluations, ev'.phase \notin {"none", "result"},
         ev'.consts = ev.consts, ev'.stack = ev.stack
  PROVE  Ownership'
<1>1. Distinct(ev.stack) /\ ToSet(ev.stack) \cap Fixed = {} /\ HeapOK(heap, Fixed \cup ToSet(ev.stack))
  BY DEF Ownership, Apart, InUse
<1> QED
  BY <1>1, StackChanged

LEMMA FailingTyped ==
  ASSUME Ownership, NEW n \in Nat
  PROVE  /\ Failing(n) \in Evaluations /\ Failing(n).phase = "report"
         /\ Failing(n).stack = ev.stack /\ Failing(n).consts = ev.consts
<1> DEFINE e1 == [ev EXCEPT !.phase = "report"]
           e2 == [e1 EXCEPT !.failed = TRUE]
           e3 == [e2 EXCEPT !.pending = n]
<1>1. e1 \in Evaluations /\ e1.phase = "report" /\ e1.stack = ev.stack /\ e1.consts = ev.consts
  BY DEF Ownership, Evaluations, Phases
<1> HIDE DEF e1
<1>2. e2 \in Evaluations /\ e2.phase = "report" /\ e2.stack = ev.stack /\ e2.consts = ev.consts
  BY <1>1 DEF Evaluations
<1> HIDE DEF e2
<1>3. e3 \in Evaluations /\ e3.phase = "report" /\ e3.stack = ev.stack /\ e3.consts = ev.consts
  BY <1>2 DEF Evaluations
<1>4. Failing(n) = e3
  BY DEF Failing, e1, e2
<1> QED
  BY <1>3, <1>4

LEMMA Failed ==
  ASSUME Ownership, Running, heap' = heap, NEW n \in Nat, ev' = Failing(n)
  PROVE  Ownership'
  BY FailingTyped, Kept DEF Running

\* What is under the frame stays.
LEMMA OperandsStack ==
  ASSUME Ownership
  PROVE  /\ Operands # <<>> => ev.stack # <<>>
         /\ Len(Operands) >= 2 => Len(ev.stack) >= 2
         /\ Operands # <<>> => Len(ev.stack) \in Nat /\ Len(ev.stack) >= 1
<1>1. ev.stack \in Seq(Obj) /\ ev.frames \in Seq(Nat) /\ Len(ev.stack) \in Nat
  BY DEF Ownership, Evaluations
<1>2. Frame \in Nat
  <2>1. CASE ev.frames # <<>>
    <3>1. Len(ev.frames) \in 1 .. Len(ev.frames)
      BY <1>1, <2>1, EmptySeq, LenProperties
    <3>2. ev.frames[Len(ev.frames)] \in Nat
      BY <1>1, <3>1, ElementOfSeq
    <3> QED
      BY <2>1, <3>2 DEF Frame, Last
  <2>2. CASE ev.frames = <<>>
    BY <2>2 DEF Frame
  <2> QED
    BY <2>1, <2>2
<1>3. \A i \in Frame + 1 .. Len(ev.stack) : ev.stack[i] \in Obj
  BY <1>1, <1>2, LenProperties
<1>4. Len(Operands) = IF Frame + 1 <= Len(ev.stack) THEN Len(ev.stack) - (Frame + 1) + 1 ELSE 0
  BY <1>1, <1>2, <1>3, SubSeqProperties DEF Operands
<1>5. Operands \in Seq(Obj)
  BY <1>1, <1>2, <1>3, SubSeqProperties DEF Operands
<1>6. Operands # <<>> => Len(Operands) >= 1
  BY <1>5, EmptySeq
<1>7. Len(ev.stack) >= 1 => ev.stack # <<>>
  BY <1>1
<1> QED
  BY <1>1, <1>2, <1>4, <1>6, <1>7

-----------------------------------------------------------------------------
(* Running, one lemma for each way to change the stack.                    *)

\* A new value on top.
LEMMA PushesNew ==
  ASSUME Ownership, Running, NEW r, ValuePush(r, ev.stack), NEW val, Makes(heap, InUse, r, val)
  PROVE  Ownership'
<1>1. r.o \in Obj /\ r.o \notin InUse /\ HeapOK(r.h, InUse \cup {r.o})
  BY DEF Makes
<1>2. InUse \ {} = InUse /\ ToSet(ev.stack) \ {} = ToSet(ev.stack)
  OBVIOUS
<1>3. heap' = r.h /\ ev' = [ev EXCEPT !.stack = Append(ev.stack, r.o)]
  BY DEF ValuePush
<1>4. Distinct(ev.stack) /\ ev \in Evaluations /\ ev.phase = "run"
  BY DEF Ownership, Apart, Running
<1> QED
  BY <1>1, <1>2, <1>3, <1>4, Pushed

\* The top exchanged for another value.
LEMMA PushesForTop ==
  ASSUME Ownership, Running, ev.stack # <<>>, NEW r, ValuePush(r, Front(ev.stack)),
         LET T == {Last(ev.stack)}
         IN r.o \in Obj /\ r.o \notin InUse \ T /\ HeapOK(r.h, (InUse \ T) \cup {r.o})
  PROVE  Ownership'
<1> DEFINE T == {Last(ev.stack)}
<1>1. /\ Distinct(Front(ev.stack)) /\ ToSet(Front(ev.stack)) = ToSet(ev.stack) \ T
      /\ T \subseteq ToSet(ev.stack)
  BY DistinctFront DEF Ownership, Apart
<1>2. r.o \in Obj /\ r.o \notin InUse \ T /\ HeapOK(r.h, (InUse \ T) \cup {r.o})
  OBVIOUS
<1>3. heap' = r.h /\ ev' = [ev EXCEPT !.stack = Append(Front(ev.stack), r.o)]
  BY DEF ValuePush
<1>4. ev \in Evaluations /\ ev.phase = "run"
  BY DEF Ownership, Running
<1> HIDE DEF T
<1> QED
  BY <1>1, <1>2, <1>3, <1>4, Pushed

\* The two upper values exchanged for one.
LEMMA PushesForTwo ==
  ASSUME Ownership, Running, Len(ev.stack) >= 2, NEW r, ValuePush(r, SubSeq(ev.stack, 1, Len(ev.stack) - 2)),
         LET T == {ev.stack[Len(ev.stack) - 1], ev.stack[Len(ev.stack)]}
         IN r.o \in Obj /\ r.o \notin InUse \ T /\ HeapOK(r.h, (InUse \ T) \cup {r.o})
  PROVE  Ownership'
<1> DEFINE T == {ev.stack[Len(ev.stack) - 1], ev.stack[Len(ev.stack)]}
           below == SubSeq(ev.stack, 1, Len(ev.stack) - 2)
<1>1. /\ Distinct(below) /\ ToSet(below) = ToSet(ev.stack) \ T
      /\ T \subseteq ToSet(ev.stack)
  BY DistinctTwo DEF Ownership, Apart
<1>2. r.o \in Obj /\ r.o \notin InUse \ T /\ HeapOK(r.h, (InUse \ T) \cup {r.o})
  OBVIOUS
<1>3. heap' = r.h /\ ev' = [ev EXCEPT !.stack = Append(below, r.o)]
  BY DEF ValuePush
<1>4. ev \in Evaluations /\ ev.phase = "run"
  BY DEF Ownership, Running
<1> HIDE DEF T, below
<1> QED
  BY <1>1, <1>2, <1>3, <1>4, Pushed

LEMMA StackInUse ==
  ASSUME Ownership
  PROVE  /\ HeapOK(heap, InUse) /\ Distinct(ev.stack) /\ Distinct(ev.consts)
         /\ ev.stack # <<>> => Last(ev.stack) \in InUse /\ Last(ev.stack) \in ToSet(ev.stack)
         /\ Len(ev.stack) >= 2 =>
              LET n == Len(ev.stack)
              IN ev.stack[n - 1] \in InUse /\ ev.stack[n] \in InUse /\ ev.stack[n - 1] # ev.stack[n]
  BY DistinctFront, DistinctTwo DEF Ownership, Apart, InUse

LEMMA EvalNodeOwns == Ownership /\ EvalNode => Ownership'
<1> SUFFICES ASSUME Ownership, EvalNode PROVE Ownership'
  OBVIOUS
<1>1. PICK nodes \in 0 .. 1 : ValuePush(CacheNewNodeSet(heap, nodes), ev.stack)
  BY DEF EvalNode
<1>2. Running /\ HasMemory(heap) /\ HeapOK(heap, InUse)
  BY DEF EvalNode, CanPush, Ownership
<1>3. PICK val : Makes(heap, InUse, CacheNewNodeSet(heap, nodes), val)
  BY <1>2, CacheNewNodeSetMakes
<1> QED
  BY <1>1, <1>2, <1>3, PushesNew

LEMMA EvalValueOwns == Ownership /\ EvalValue => Ownership'
<1> SUFFICES ASSUME Ownership, EvalValue PROVE Ownership'
  OBVIOUS
<1>1. PICK i \in DOMAIN ev.consts : ValuePush(CacheObjectCopy(heap, ev.consts[i]), ev.stack)
  BY DEF EvalValue
<1>2. Running /\ HasMemory(heap) /\ HeapOK(heap, InUse)
  BY DEF EvalValue, CanPush, Ownership
<1>3. ev.consts[i] \in InUse
  BY DEF InUse, Fixed, ToSet
<1>4. PICK val : Makes(heap, InUse, CacheObjectCopy(heap, ev.consts[i]), val)
  BY <1>2, <1>3, CacheObjectCopyMakes
<1> QED
  BY <1>1, <1>2, <1>4, PushesNew

LEMMA EvalVariableOwns == Ownership /\ EvalVariable => Ownership'
<1> SUFFICES ASSUME Ownership, EvalVariable PROVE Ownership'
  OBVIOUS
<1>1. Running /\ HasMemory(heap) /\ HeapOK(heap, InUse)
  BY DEF EvalVariable, CanPush, Ownership
<1>2. PICK n \in Variable : IF VariableLookup(n) = {} THEN ev' = Failing(1) /\ heap' = heap
                            ELSE \E r \in VariableLookup(n) : ValuePush(r, ev.stack)
  BY DEF EvalVariable
<1>3. CASE VariableLookup(n) = {}
  BY <1>1, <1>2, <1>3, Failed
<1>4. ASSUME NEW r \in VariableLookup(n), ValuePush(r, ev.stack) PROVE Ownership'
  <2>1. PICK o \in ctx.var[n] : r = CacheObjectCopy(heap, o)
    BY <1>4 DEF VariableLookup
  <2>2. o \in InUse
    BY <2>1 DEF InUse, Fixed, VariableObjects
  <2>3. PICK val : Makes(heap, InUse, r, val)
    BY <1>1, <2>1, <2>2, CacheObjectCopyMakes
  <2> QED
    BY <1>1, <1>4, <2>3, PushesNew
<1> QED
  BY <1>2, <1>3, <1>4

LEMMA ConvertTopOwns == Ownership /\ ConvertTop => Ownership'
<1> SUFFICES ASSUME Ownership, ConvertTop PROVE Ownership'
  OBVIOUS
<1>1. Running /\ HasMemory(heap) /\ HeapOK(heap, InUse) /\ ev.stack # <<>>
  BY OperandsStack DEF ConvertTop, Ownership
<1>2. PICK type \in {"string", "boolean", "number"} :
        ValuePush(CacheConvert(heap, Last(ev.stack), type), Front(ev.stack))
  BY DEF ConvertTop
<1>3. Last(ev.stack) \in InUse
  BY <1>1, StackInUse
<1>4. Exchanges(heap, InUse, CacheConvert(heap, Last(ev.stack), type), Last(ev.stack))
  BY <1>1, <1>3, ConvertExchanges
<1> QED
  BY <1>1, <1>2, <1>4, PushesForTop DEF Exchanges

LEMMA FromNodeSetOwns == Ownership /\ FromNodeSet => Ownership'
<1> SUFFICES ASSUME Ownership, FromNodeSet PROVE Ownership'
  OBVIOUS
<1> DEFINE o == Last(ev.stack)
<1>1. Running /\ HasMemory(heap) /\ HeapOK(heap, InUse) /\ ev.stack # <<>>
  BY OperandsStack DEF FromNodeSet, Ownership
<1>2. o \in InUse
  BY <1>1, StackInUse
<1>3. CASE ev' = Failing(1) /\ heap' = heap
  BY <1>1, <1>3, Failed
<1>4. ASSUME NEW type \in {"string", "number"},
             LET new == CacheNew(heap, type)
             IN ValuePush([h |-> ReleaseObject(new.h, o), o |-> new.o], Front(ev.stack))
      PROVE  Ownership'
  <2> DEFINE new == CacheNew(heap, type)
             S == InUse \cup {new.o}
             r == [h |-> ReleaseObject(new.h, o), o |-> new.o]
  <2>1. PICK val : Makes(heap, InUse, new, val)
    BY <1>1, CacheNewMakes
  <2>2. HeapOK(new.h, S) /\ o \in S /\ new.o \in Obj /\ new.o \notin InUse
    BY <1>2, <2>1 DEF Makes
  <2>3. Drops(new.h, S, ReleaseObject(new.h, o), o)
    BY <2>2, ReleaseObjectDrops
  <2>4. S \ {o} = (InUse \ {o}) \cup {new.o}
    BY <1>2, <2>2
  <2>5. r.h = ReleaseObject(new.h, o) /\ r.o = new.o /\ ValuePush(r, Front(ev.stack))
    BY <1>4
  <2> HIDE DEF new, S, r, o
  <2>6. r.o \in Obj /\ r.o \notin InUse \ {o} /\ HeapOK(r.h, (InUse \ {o}) \cup {r.o})
    BY <2>2, <2>3, <2>4, <2>5 DEF Drops
  <2> QED
    BY <1>1, <2>5, <2>6, PushesForTop DEF o
<1> QED
  BY <1>3, <1>4 DEF FromNodeSet

LEMMA CompareOwns == Ownership /\ Compare => Ownership'
<1> SUFFICES ASSUME Ownership, Compare PROVE Ownership'
  OBVIOUS
<1> DEFINE n == Len(ev.stack)
           T == {ev.stack[n - 1], ev.stack[n]}
           rest == ReleaseBoth(heap, ev.stack[n - 1], ev.stack[n])
<1>1. Running /\ HasMemory(heap) /\ HeapOK(heap, InUse) /\ n >= 2
  BY OperandsStack DEF Compare, Ownership
<1>2. ev.stack[n - 1] \in InUse /\ ev.stack[n] \in InUse /\ ev.stack[n - 1] # ev.stack[n]
  BY <1>1, StackInUse
<1>3. HeapOK(rest, InUse \ T) /\ HasMemory(rest)
  BY <1>1, <1>2, ReleaseBothDrops
<1>4. PICK type \in {"string", "boolean"} : ValuePush(CacheNew(rest, type), SubSeq(ev.stack, 1, n - 2))
  BY DEF Compare
<1> DEFINE r == CacheNew(rest, type)
<1>5. PICK val : Makes(rest, InUse \ T, r, val)
  BY <1>3, CacheNewMakes
<1>6. r.o \in Obj /\ r.o \notin InUse \ T /\ HeapOK(r.h, (InUse \ T) \cup {r.o})
  BY <1>5 DEF Makes
<1>7. ValuePush(r, SubSeq(ev.stack, 1, n - 2))
  BY <1>4
<1> HIDE DEF r
<1> QED
  BY <1>1, <1>6, <1>7, PushesForTwo

LEMMA ArithmeticOwns == Ownership /\ Arithmetic => Ownership'
<1> SUFFICES ASSUME Ownership, Arithmetic PROVE Ownership'
  OBVIOUS
<1> DEFINE n == Len(ev.stack)
           u == ev.stack[n]
           l == ev.stack[n - 1]
           g == ReleaseObject(heap, u)
           r == CacheConvert(g, l, "number")
<1>1. Running /\ HasMemory(heap) /\ HeapOK(heap, InUse) /\ n >= 2
  BY OperandsStack DEF Arithmetic, Ownership
<1>2. l \in InUse /\ u \in InUse /\ l # u
  BY <1>1, StackInUse
<1>3. Drops(heap, InUse, g, u)
  BY <1>1, <1>2, ReleaseObjectDrops
<1>4. HeapOK(g, InUse \ {u}) /\ HasMemory(g) /\ l \in InUse \ {u}
  BY <1>1, <1>2, <1>3 DEF Drops
<1>5. Exchanges(g, InUse \ {u}, r, l)
  BY <1>4, ConvertExchanges
<1>6. ValuePush(r, SubSeq(ev.stack, 1, n - 2))
  BY DEF Arithmetic
<1>7. (InUse \ {u}) \ {l} = InUse \ {l, u}
  OBVIOUS
<1> HIDE DEF r
<1>8. r.o \in Obj /\ r.o \notin InUse \ {l, u} /\ HeapOK(r.h, (InUse \ {l, u}) \cup {r.o})
  BY <1>5, <1>7 DEF Exchanges
<1> QED
  BY <1>1, <1>6, <1>8, PushesForTwo

LEMMA ConcatOwns == Ownership /\ Concat => Ownership'
<1> SUFFICES ASSUME Ownership, Concat PROVE Ownership'
  OBVIOUS
<1> DEFINE n == Len(ev.stack)
           T == {ev.stack[n - 1], ev.stack[n]}
           two == CastBoth(ev.stack[n - 1], ev.stack[n])
           S == (InUse \ T) \cup {two.l, two.r}
           r == [h |-> ReleaseObject(two.h, two.l), o |-> two.r]
<1>1. Running /\ CanCast(ev.stack[n]) /\ HeapOK(heap, InUse) /\ n >= 2
      /\ ValuePush(r, SubSeq(ev.stack, 1, n - 2))
  BY OperandsStack DEF Concat, Ownership
<1>2. ev.stack[n - 1] \in InUse /\ ev.stack[n] \in InUse /\ ev.stack[n - 1] # ev.stack[n]
  BY <1>1, StackInUse
<1>3. /\ two.l \in Obj \ (InUse \ T) /\ two.r \in Obj \ (InUse \ T) /\ two.l # two.r
      /\ HeapOK(two.h, S)
  BY <1>1, <1>2, CastBothExchanges
<1>4. r.h = ReleaseObject(two.h, two.l) /\ r.o = two.r
  OBVIOUS
<1> HIDE DEF two, r
<1>5. Drops(two.h, S, r.h, two.l)
  BY <1>3, <1>4, ReleaseObjectDrops
<1>6. S \ {two.l} = (InUse \ T) \cup {r.o}
  BY <1>3, <1>4
<1> HIDE DEF S
<1>7. r.o \in Obj /\ r.o \notin InUse \ T /\ HeapOK(r.h, (InUse \ T) \cup {r.o})
  BY <1>3, <1>4, <1>5, <1>6 DEF Drops
<1> QED
  BY <1>1, <1>7, PushesForTwo

LEMMA CssClassOwns == Ownership /\ CssClass => Ownership'
<1> SUFFICES ASSUME Ownership, CssClass PROVE Ownership'
  OBVIOUS
<1> DEFINE n == Len(ev.stack)
           T == {ev.stack[n - 1], ev.stack[n]}
           two == CastBoth(ev.stack[n - 1], ev.stack[n])
           new == NewObject(two.h, Holding("boolean"))
           U == {two.l, two.r}
           S == (InUse \ T) \cup U
           r == [h |-> FreeAll(new.h, U), o |-> new.o]
<1>1. Running /\ CanCast(ev.stack[n]) /\ HasMemory(two.h) /\ HeapOK(heap, InUse) /\ n >= 2
      /\ ValuePush(r, SubSeq(ev.stack, 1, n - 2))
  BY OperandsStack DEF CssClass, Ownership
<1>2. ev.stack[n - 1] \in InUse /\ ev.stack[n] \in InUse /\ ev.stack[n - 1] # ev.stack[n]
  BY <1>1, StackInUse
<1>3. /\ two.l \in Obj \ (InUse \ T) /\ two.r \in Obj \ (InUse \ T)
      /\ HeapOK(two.h, S)
  BY <1>1, <1>2, CastBothExchanges
<1>4. r.h = FreeAll(new.h, U) /\ r.o = new.o
  OBVIOUS
<1>5. Makes(two.h, S, new, Holding("boolean"))
  BY <1>1, <1>3, SoundVals, NewObjectMakes
<1> HIDE DEF two, new, r, T
<1>6. HeapOK(new.h, S \cup {new.o}) /\ new.o \in Obj /\ new.o \notin S /\ U \subseteq S \cup {new.o}
  BY <1>5 DEF Makes
<1>7. HeapOK(r.h, (S \cup {new.o}) \ U)
  <2> HIDE DEF S, U
  <2> QED
    BY <1>4, <1>6, FreeAllDrops
<1>8. (S \cup {new.o}) \ U = (InUse \ T) \cup {r.o}
  BY <1>3, <1>4, <1>6
<1>9. r.o \in Obj /\ r.o \notin InUse \ T /\ HeapOK(r.h, (InUse \ T) \cup {r.o})
  BY <1>4, <1>6, <1>7, <1>8
<1> QED
  BY <1>1, <1>9, PushesForTwo DEF T

LEMMA LocalNameIsOwns == Ownership /\ LocalNameIs => Ownership'
<1> SUFFICES ASSUME Ownership, LocalNameIs PROVE Ownership'
  OBVIOUS
<1> DEFINE o == Last(ev.stack)
           new == NewObject(heap, Holding("boolean"))
           S == InUse \cup {new.o}
           r == [h |-> FreeObject(new.h, o), o |-> new.o]
<1>1. Running /\ HasMemory(heap) /\ HeapOK(heap, InUse) /\ ev.stack # <<>> /\ ValuePush(r, Front(ev.stack))
  BY OperandsStack DEF LocalNameIs, Ownership
<1>2. o \in InUse
  BY <1>1, StackInUse
<1>3. Makes(heap, InUse, new, Holding("boolean"))
  BY <1>1, SoundVals, NewObjectMakes
<1>4. r.h = FreeObject(new.h, o) /\ r.o = new.o
  OBVIOUS
<1> HIDE DEF new, r, o
<1>5. HeapOK(new.h, S) /\ o \in S /\ new.o \in Obj /\ new.o \notin InUse
  BY <1>2, <1>3 DEF Makes
<1>6. Drops(new.h, S, r.h, o)
  BY <1>4, <1>5, FreeObjectDrops
<1>7. S \ {o} = (InUse \ {o}) \cup {r.o}
  BY <1>2, <1>4, <1>5
<1> HIDE DEF S
<1>8. r.o \in Obj /\ r.o \notin InUse \ {o} /\ HeapOK(r.h, (InUse \ {o}) \cup {r.o})
  BY <1>4, <1>5, <1>6, <1>7 DEF Drops
<1> QED
  BY <1>1, <1>8, PushesForTop DEF o

LEMMA EvalUnionOwns == Ownership /\ EvalUnion => Ownership'
<1> SUFFICES ASSUME Ownership, EvalUnion PROVE Ownership'
  OBVIOUS
<1> DEFINE n == Len(ev.stack)
           l == ev.stack[n - 1]
           u == ev.stack[n]
           below == SubSeq(ev.stack, 1, n - 2)
           United(array) ==
             IF heap.obj[u].set.nr = 0 /\ heap.obj[l].set # NoSet THEN heap.obj[l].set
             ELSE [nr |-> IF 1 \in {heap.obj[l].set.nr, heap.obj[u].set.nr} THEN 1 ELSE 0, array |-> array]
<1>1. Running /\ HeapOK(heap, InUse) /\ n >= 2 /\ ev \in Evaluations
  BY OperandsStack DEF EvalUnion, Ownership
<1>2. l \in InUse /\ u \in InUse /\ l # u /\ Distinct(ev.stack)
  BY <1>1, StackInUse
<1>3. ASSUME NEW array \in {"small", "large"}, TypeOf(l) = "nodeset",
             ValuePush([h |-> ReleaseObject([heap EXCEPT !.obj[l].set = United(array)], u), o |-> l], below)
      PROVE  Ownership'
  <2> DEFINE v == heap.obj[l]
             set == United(array)
             w == [v EXCEPT !.set = set]
             g == [heap EXCEPT !.obj[l] = w]
             r == [h |-> ReleaseObject(g, u), o |-> l]
  <2>1. v \in Vals /\ v.type = "nodeset" /\ v.str # "own" /\ heap.obj[u] \in Vals
    BY <1>1, <1>2, <1>3 DEF HeapOK, SoundVal, TypeOf
  <2>2. set \in SetVals
    BY <2>1 DEF Vals, SetVals
  <2> HIDE DEF set, v
  <2>3. SoundVal(w)
    BY <2>1, <2>2 DEF SoundVal, Vals
  <2> HIDE DEF w
  <2>4. HeapOK(g, InUse)
    BY <1>1, <1>2, <2>3, Changed
  <2>5. [heap EXCEPT !.obj[l].set = set] = g
    BY DEF w, v
  <2>6. r.h = ReleaseObject(g, u) /\ r.o = l /\ ValuePush(r, below)
    BY <1>3, <2>5 DEF set
  <2> HIDE DEF g, r
  <2>7. Drops(g, InUse, r.h, u)
    BY <1>2, <2>4, <2>6, ReleaseObjectDrops
  <2>8. InUse \ {u} = (InUse \ {l, u}) \cup {r.o} /\ r.o \in Obj /\ r.o \notin InUse \ {l, u}
    BY <1>1, <1>2, <2>6 DEF HeapOK
  <2>9. HeapOK(r.h, (InUse \ {l, u}) \cup {r.o})
    BY <2>7, <2>8 DEF Drops
  <2> QED
    BY <1>1, <2>6, <2>8, <2>9, PushesForTwo
<1>4. CASE heap' = ReleaseBoth(heap, l, u) /\ ev' = [Failing(1) EXCEPT !.stack = below]
  <2> DEFINE T == {l, u}
  <2>1. HeapOK(heap', InUse \ T)
    BY <1>1, <1>2, <1>4, ReleaseBothDrops
  <2>2. Distinct(below) /\ ToSet(below) = ToSet(ev.stack) \ T /\ T \subseteq ToSet(ev.stack)
    BY <1>1, <1>2, DistinctTwo
  <2>3. Failing(1) \in Evaluations /\ Failing(1).phase = "report" /\ Failing(1).consts = ev.consts
    BY FailingTyped
  <2>4. ev.phase = "run" /\ ctx' = ctx
    BY <1>1 DEF Running
  <2> HIDE DEF T, below
  <2> QED
    BY <1>4, <2>1, <2>2, <2>3, <2>4, Popped
<1> QED
  BY <1>3, <1>4 DEF EvalUnion

LEMMA EvalCollectOwns == Ownership /\ EvalCollect => Ownership'
<1> SUFFICES ASSUME Ownership, EvalCollect PROVE Ownership'
  OBVIOUS
<1> DEFINE o == Last(ev.stack)
           rest == ReleaseObject(heap, o)
           below == Front(ev.stack)
           T == {o}
           Handed(set, e) ==
             LET new == CacheWrapNodeSet(rest, set)
             IN heap' = new.h /\ ev' = [e EXCEPT !.stack = Append(below, new.o)]
<1>1. Running /\ HasMemory(heap) /\ HeapOK(heap, InUse) /\ ev.stack # <<>>
      /\ ev \in Evaluations /\ ev.phase = "run"
  BY OperandsStack DEF EvalCollect, Ownership, Running
<1>2. o \in InUse /\ Distinct(below) /\ ToSet(below) = ToSet(ev.stack) \ T /\ T \subseteq ToSet(ev.stack)
  BY <1>1, StackInUse, DistinctFront DEF Ownership, Apart
<1>3. HeapOK(rest, InUse \ T) /\ HasMemory(rest)
  BY <1>1, <1>2, ReleaseObjectDrops DEF Drops
<1>4. /\ Failing(1) \in Evaluations /\ Failing(1).phase = "report"
      /\ Failing(1).stack = ev.stack /\ Failing(1).consts = ev.consts
  BY FailingTyped
<1>5. CASE ev' = Failing(1) /\ heap' = heap
  BY <1>1, <1>5, Failed
<1>6. CASE heap' = rest /\ ev' = [Failing(1) EXCEPT !.stack = Front(@)]
  <2>1. ev' = [Failing(1) EXCEPT !.stack = below] /\ ctx' = ctx
    BY <1>1, <1>4, <1>6 DEF Running
  <2> HIDE DEF below, T, rest
  <2> QED
    BY <1>1, <1>2, <1>3, <1>4, <1>6, <2>1, Popped
<1>7. ASSUME NEW set \in SetVals, NEW e \in {ev, Failing(1)}, Handed(set, e)
      PROVE  Ownership'
  <2> DEFINE r == CacheWrapNodeSet(rest, set)
  <2>1. Makes(rest, InUse \ T, r, SetVal(set))
    BY <1>3, WrapNodeSetMakes
  <2>2. r.o \in Obj /\ r.o \notin InUse \ T /\ HeapOK(r.h, (InUse \ T) \cup {r.o})
    BY <2>1 DEF Makes
  <2>3. e \in Evaluations /\ e.phase \in {"run", "report"} /\ e.consts = ev.consts
    BY <1>1, <1>4
  <2>4. heap' = r.h /\ ev' = [e EXCEPT !.stack = Append(below, r.o)]
    BY <1>7
  <2> HIDE DEF below, T, rest, r
  <2> QED
    BY <1>1, <1>2, <2>2, <2>3, <2>4, Pushed
<1>8. NoSet \in SetVals /\ NodeSetCreate(0) \in SetVals /\ [nr |-> 1, array |-> "large"] \in SetVals
  BY SoundVals DEF SetVals
<1> QED
  BY <1>5, <1>6, <1>7, <1>8 DEF EvalCollect

LEMMA FramesOwn ==
  Ownership /\ (LookupPrefix \/ EnterFunction \/ FunctionNotFound \/ LeaveFunction) => Ownership'
<1> SUFFICES ASSUME Ownership, LookupPrefix \/ EnterFunction \/ FunctionNotFound \/ LeaveFunction
             PROVE  Ownership'
  OBVIOUS
<1>1. Running /\ heap' = heap /\ ev.phase = "run" /\ ctx' = ctx
  BY DEF LookupPrefix, EnterFunction, FunctionNotFound, LeaveFunction, Running
<1>2. ASSUME NEW n \in Nat, ev' = Failing(n) PROVE Ownership'
  BY <1>1, <1>2, Failed
<1>3. ASSUME NEW f \in Seq(Nat), ev' = [ev EXCEPT !.frames = f] PROVE Ownership'
  <2>1. /\ ev' \in Evaluations /\ ev'.phase = ev.phase /\ ev'.consts = ev.consts
        /\ ev'.stack = ev.stack
    BY <1>3 DEF Ownership, Evaluations
  <2> QED
    BY <1>1, <2>1, Kept
<1>4. ev.frames \in Seq(Nat) /\ Len(ev.stack) \in Nat
  BY DEF Ownership, Evaluations
<1>5. Append(ev.frames, Len(ev.stack)) \in Seq(Nat)
  BY <1>4
<1>6. ev.frames # <<>> => Front(ev.frames) \in Seq(Nat)
  <2>1. SUFFICES ASSUME ev.frames # <<>> PROVE Front(ev.frames) \in Seq(Nat)
    OBVIOUS
  <2>2. Len(ev.frames) \in Nat /\ Len(ev.frames) > 0
    BY <1>4, <2>1, EmptySeq
  <2>3. \A i \in 1 .. Len(ev.frames) - 1 : ev.frames[i] \in Nat
    BY <1>4, <2>2, ElementOfSeq
  <2> QED
    BY <1>4, <2>2, <2>3, SubSeqProperties DEF Front
<1> QED
  BY <1>2, <1>3, <1>5, <1>6 DEF LookupPrefix, EnterFunction, FunctionNotFound, LeaveFunction

-----------------------------------------------------------------------------
(* Before and after a run.                                                 *)

LEMMA CompileConstantOwns == Ownership /\ CompileConstant => Ownership'
<1> SUFFICES ASSUME Ownership, CompileConstant PROVE Ownership'
  OBVIOUS
<1>1. PICK type \in {"string", "number"} :
        heap' = CacheNew(heap, type).h /\ ev' = [ev EXCEPT !.consts = Append(@, CacheNew(heap, type).o)]
  BY DEF CompileConstant
<1> DEFINE new == CacheNew(heap, type)
           c == Append(ev.consts, new.o)
<1>2. ev.phase = "compile" /\ ctx' = ctx /\ HasMemory(heap) /\ HeapOK(heap, InUse)
  BY DEF CompileConstant, Ownership
<1>3. PICK val : Makes(heap, InUse, new, val)
  BY <1>2, CacheNewMakes
<1> HIDE DEF new
<1>4. new.o \in Obj /\ new.o \notin InUse /\ HeapOK(new.h, InUse \cup {new.o})
  BY <1>3 DEF Makes
<1>5. Distinct(c) /\ ToSet(c) = ToSet(ev.consts) \cup {new.o}
  BY <1>4, DistinctAppend DEF Ownership, Apart, InUse, Fixed
<1>6. ev' = [ev EXCEPT !.consts = c] /\ heap' = new.h
  BY <1>1 DEF new
<1> HIDE DEF c
<1>7. ev' \in Evaluations /\ ev'.phase = "compile" /\ ev'.stack = ev.stack /\ ev'.consts = c
  BY <1>2, <1>5, <1>6 DEF Ownership, Evaluations, Distinct
<1>8. VariableObjects' = VariableObjects
  BY <1>2 DEF VariableObjects
<1>9. Apart'
  BY <1>2, <1>4, <1>5, <1>7, <1>8 DEF Ownership, Apart, InUse, Fixed
<1>10. InUse' = InUse \cup {new.o}
  BY <1>5, <1>7, <1>8 DEF InUse, Fixed
<1>11. Bounded'
  BY <1>2, <1>7 DEF Ownership, Bounded
<1> QED
  BY <1>2, <1>4, <1>6, <1>7, <1>9, <1>10, <1>11 DEF Ownership

LEMMA CompileEndOwns == Ownership /\ (CompileFails \/ Compiled) => Ownership'
<1> SUFFICES ASSUME Ownership, CompileFails \/ Compiled PROVE Ownership'
  OBVIOUS
<1>1. ev.phase = "compile" /\ heap' = heap /\ ctx' = ctx
  BY DEF CompileFails, Compiled
<1>2. CASE ev' = Failing(1)
  BY <1>1, <1>2, FailingTyped, Kept
<1>3. CASE ev' = [ev EXCEPT !.phase = "run"]
  <2>1. /\ ev' \in Evaluations /\ ev'.phase = "run" /\ ev'.consts = ev.consts /\ ev'.stack = ev.stack
    BY <1>3 DEF Ownership, Evaluations, Phases
  <2> QED
    BY <1>1, <2>1, Kept
<1> QED
  BY <1>2, <1>3 DEF CompileFails, Compiled

LEMMA ReportOwns == Ownership /\ Report => Ownership'
<1> SUFFICES ASSUME Ownership, Report PROVE Ownership'
  OBVIOUS
<1> DEFINE n == IF handler = "this" THEN ev.errors + ev.pending ELSE ev.errors
           e1 == [ev EXCEPT !.errors = n]
           e2 == [e1 EXCEPT !.phase = "end"]
           e3 == [e2 EXCEPT !.pending = 0]
<1>1. ev.phase = "report" /\ heap' = heap /\ ctx' = ctx /\ ev' = e3
  BY DEF Report
<1>2. n \in Nat
  BY DEF Ownership, Evaluations
<1> HIDE DEF n
<1>3. e1 \in Evaluations /\ e1.stack = ev.stack /\ e1.consts = ev.consts
  BY <1>2 DEF Ownership, Evaluations
<1> HIDE DEF e1
<1>4. e2 \in Evaluations /\ e2.phase = "end" /\ e2.stack = ev.stack /\ e2.consts = ev.consts
  BY <1>3 DEF Evaluations, Phases
<1> HIDE DEF e2
<1>5. e3 \in Evaluations /\ e3.phase = "end" /\ e3.stack = ev.stack /\ e3.consts = ev.consts
  BY <1>4 DEF Evaluations
<1> HIDE DEF e3
<1> QED
  BY <1>1, <1>5, Kept

LEMMA RunEndsOwns == Ownership /\ RunEnds => Ownership'
<1> SUFFICES ASSUME Ownership, RunEnds PROVE Ownership'
  OBVIOUS
<1>1. ev.phase = "run" /\ heap' = heap /\ ctx' = ctx
  BY DEF RunEnds
<1>2. CASE ev' = [ev EXCEPT !.phase = "end"]
  <2>1. /\ ev' \in Evaluations /\ ev'.phase = "end" /\ ev'.consts = ev.consts /\ ev'.stack = ev.stack
    BY <1>2 DEF Ownership, Evaluations, Phases
  <2> QED
    BY <1>1, <2>1, Kept
<1>3. CASE ev' = [ev EXCEPT !.phase = "report", !.pending = 1]
  <2> DEFINE e == [ev EXCEPT !.phase = "report"]
  <2>1. e \in Evaluations /\ e.phase = "report" /\ e.consts = ev.consts /\ e.stack = ev.stack
    BY DEF Ownership, Evaluations, Phases
  <2>2. ev' = [e EXCEPT !.pending = 1]
    BY <1>3
  <2> HIDE DEF e
  <2>3. /\ ev' \in Evaluations /\ ev'.phase = "report" /\ ev'.consts = ev.consts /\ ev'.stack = ev.stack
    BY <2>1, <2>2 DEF Evaluations
  <2> QED
    BY <1>1, <2>3, Kept
<1> QED
  BY <1>2, <1>3 DEF RunEnds

LEMMA ReleaseValueOwns == Ownership /\ ReleaseValue => Ownership'
<1> SUFFICES ASSUME Ownership, ReleaseValue PROVE Ownership'
  OBVIOUS
<1> DEFINE o == Head(ev.stack)
           below == Tail(ev.stack)
           T == {o}
<1>1. /\ ev.phase = "end" /\ ctx' = ctx /\ heap' = ReleaseObject(heap, o)
      /\ ev' = [ev EXCEPT !.stack = below] /\ ev \in Evaluations /\ HeapOK(heap, InUse)
  BY DEF ReleaseValue, Ownership
<1>2. ev.stack # <<>>
  BY DEF ReleaseValue, Results
<1>3. /\ Distinct(below) /\ ToSet(below) = ToSet(ev.stack) \ T
      /\ o \in ToSet(ev.stack) /\ T \subseteq ToSet(ev.stack)
  BY <1>2, DistinctTail DEF Ownership, Apart
<1>4. o \in InUse
  BY <1>3 DEF InUse
<1>5. HeapOK(heap', InUse \ T)
  BY <1>1, <1>4, ReleaseObjectDrops DEF Drops
<1> HIDE DEF o, below, T
<1> QED
  BY <1>1, <1>3, <1>5, Popped

LEMMA NewEvaluation ==
  ASSUME NEW p \in Phases
  PROVE  LET e == [NoEval EXCEPT !.phase = p]
         IN e \in Evaluations /\ e.phase = p /\ e.stack = <<>> /\ e.consts = <<>>
<1> DEFINE e == [NoEval EXCEPT !.phase = p]
<1>1. NoEval \in Evaluations /\ NoEval.stack = <<>> /\ NoEval.consts = <<>>
  BY NoEvalTyped DEF NoEval
<1> QED
  BY <1>1 DEF Evaluations

\* Nothing is left of an evaluation but what variables hold.
LEMMA EvaluationGone ==
  ASSUME Ownership, ctx' \in Contexts, ctx'.open, ctx'.var = ctx.var, ev' = NoEval,
         HeapOK(heap', VariableObjects)
  PROVE  Ownership'
<1>1. ev' \in Evaluations /\ ev'.stack = <<>> /\ ev'.consts = <<>> /\ ev'.phase = "none"
  BY NoEvalTyped DEF NoEval
<1>2. VariableObjects' = VariableObjects
  BY DEF VariableObjects
<1>3. Apart'
  BY <1>1, DistinctEmpty DEF Apart, Ownership, Fixed
<1>4. InUse' = VariableObjects
  BY <1>1, <1>2, DistinctEmpty DEF InUse, Fixed
<1>5. Bounded'
  BY <1>1 DEF Bounded
<1> QED
  BY <1>1, <1>3, <1>4, <1>5 DEF Ownership

\* Objects an exception leaves behind.
LEMMA LostDrops ==
  ASSUME NEW h, NEW S, HeapOK(h, S), NEW T, T \subseteq S,
         NEW v \in Vals, v.type \in {"free", "lost"}
  PROVE  HeapOK([h EXCEPT !.obj = [o \in Obj |-> IF o \in T THEN v ELSE h.obj[o]]], S \ T)
<1> DEFINE g == [h EXCEPT !.obj = [o \in Obj |-> IF o \in T THEN v ELSE h.obj[o]]]
<1>1. /\ g \in Heaps /\ g.slot = h.slot /\ g.twice = h.twice /\ g.text = h.text
      /\ \A o \in Obj : g.obj[o] = IF o \in T THEN v ELSE h.obj[o]
  BY DEF HeapOK, Heaps
<1> HIDE DEF g
<1>4. Without(h, g, T, v)
  BY <1>1 DEF Without, HeapOK
<1>5. HeapOK(g, S \ T)
  BY <1>4, Freed
<1> QED
  BY <1>5 DEF g

LEMMA RaiseInHandlerOwns == Ownership /\ RaiseInHandler => Ownership'
<1> SUFFICES ASSUME Ownership, RaiseInHandler PROVE Ownership'
  OBVIOUS
<1> DEFINE T == ToSet(ev.stack) \cup ToSet(ev.consts)
           d == ctx.depth + Len(ev.frames)
<1>1. /\ heap' = [heap EXCEPT !.obj = [o \in Obj |-> IF o \in T THEN Holding("lost") ELSE @[o]]]
      /\ ev' = NoEval /\ ctx' = [ctx EXCEPT !.depth = d] /\ ev.phase = "report"
  BY DEF RaiseInHandler
<1>2. T \subseteq InUse /\ InUse \ T = VariableObjects /\ HeapOK(heap, InUse)
  BY DEF InUse, Fixed, Ownership, Apart
<1> HIDE DEF T
<1>3. HeapOK(heap', InUse \ T)
  <2>1. Holding("lost") \in Vals /\ Holding("lost").type \in {"free", "lost"}
    BY SoundVals DEF Holding
  <2> QED
    BY <1>1, <1>2, <2>1, LostDrops
<1>4. d \in Nat
  BY DEF Ownership, Evaluations, Contexts
<1> HIDE DEF d
<1>5. ctx' \in Contexts /\ ctx'.open /\ ctx'.var = ctx.var
  BY <1>1, <1>4 DEF Ownership, Contexts, Bounded
<1> QED
  BY <1>1, <1>2, <1>3, <1>5, EvaluationGone

LEMMA EvalEndsOwns == Ownership /\ EvalEnds => Ownership'
<1> SUFFICES ASSUME Ownership, EvalEnds PROVE Ownership'
  OBVIOUS
<1> DEFINE T == ToSet(ev.consts)
<1>1. /\ ev.phase = "end" /\ heap' = FreeAll(heap, T) /\ ctx' = ctx /\ Len(ev.stack) <= Results
      /\ ev' = IF ev.stack = <<>> THEN NoEval ELSE [NoEval EXCEPT !.phase = "result", !.stack = ev.stack]
  BY DEF EvalEnds, FreeCompExpr
<1>2. T \subseteq InUse /\ InUse \ T = VariableObjects \cup ToSet(ev.stack)
  BY DEF InUse, Fixed, Ownership, Apart
<1>3. HeapOK(heap', VariableObjects \cup ToSet(ev.stack))
  BY <1>1, <1>2, FreeAllDrops DEF Ownership
<1>4. ctx.open /\ ctx \in Contexts
  BY <1>1 DEF Ownership, Bounded
<1>5. CASE ev.stack = <<>>
  <2>1. VariableObjects \cup ToSet(ev.stack) = VariableObjects
    BY <1>5, DistinctEmpty
  <2>2. ctx' \in Contexts /\ ctx'.open /\ ctx'.var = ctx.var /\ ev' = NoEval
    BY <1>1, <1>4, <1>5
  <2> QED
    BY <1>3, <2>1, <2>2, EvaluationGone
<1>6. CASE ev.stack # <<>>
  <2> DEFINE e == [NoEval EXCEPT !.phase = "result"]
  <2>1. e \in Evaluations /\ e.phase = "result" /\ e.consts = <<>>
    BY NewEvaluation DEF Phases
  <2>2. ev' = [e EXCEPT !.stack = ev.stack]
    BY <1>1, <1>6
  <2> HIDE DEF e
  <2>3. ev.stack \in Seq(Obj)
    BY DEF Ownership, Apart, Distinct
  <2>4. ev' \in Evaluations /\ ev'.phase = "result" /\ ev'.consts = <<>> /\ ev'.stack = ev.stack
    BY <2>1, <2>2, <2>3 DEF Evaluations
  <2>5. Len(ev.stack) = 1
    <3> DEFINE n == Len(ev.stack)
    <3>1. n \in Nat /\ n # 0
      BY <1>6, <2>3, EmptySeq
    <3>2. n <= Results
      BY <1>1
    <3>3. Results = 0 \/ Results = 1
      BY DEF Results
    <3> HIDE DEF n
    <3>4. n = 1
      BY <3>1, <3>2, <3>3
    <3> QED
      BY <3>4 DEF n
  <2>6. VariableObjects' = VariableObjects
    BY <1>1 DEF VariableObjects
  <2>7. Apart'
    BY <1>1, <2>4, <2>6, DistinctEmpty DEF Ownership, Apart, Fixed
  <2>8. InUse' = VariableObjects \cup ToSet(ev.stack)
    BY <2>4, <2>6, DistinctEmpty DEF InUse, Fixed
  <2>9. Bounded'
    BY <1>1, <1>4, <2>4, <2>5 DEF Bounded
  <2> QED
    BY <1>1, <1>3, <1>4, <2>4, <2>7, <2>8, <2>9 DEF Ownership
<1> QED
  BY <1>5, <1>6

\* The result is freed; a string of it twice, which text tells.
LEMMA ToRubyOwns == Ownership /\ ToRuby => Ownership'
<1> SUFFICES ASSUME Ownership, ToRuby PROVE Ownership'
  OBVIOUS
<1> DEFINE o == ev.stack[1]
           v == heap.obj[o]
           taken == IF TypeOf(o) = "string" THEN [FreeString(heap, o) EXCEPT !.text = TRUE] ELSE heap
           g == FreeObject(taken, o)
<1>1. ev.phase = "result" /\ heap' = g /\ ev' = NoEval /\ ctx' = ctx
  BY DEF ToRuby
<1>2. Len(ev.stack) = 1 /\ ev.consts = <<>> /\ ctx.open /\ ctx \in Contexts /\ ev.stack \in Seq(Obj)
  BY <1>1 DEF Ownership, Bounded, Evaluations
<1>3. o \in Obj /\ ToSet(ev.stack) = {o}
  BY <1>2 DEF ToSet
<1>4. InUse \ {o} = VariableObjects /\ {o} \subseteq InUse /\ o \in InUse
  BY <1>2, <1>3, DistinctEmpty DEF InUse, Fixed, Ownership, Apart
<1>5. HeapOK(heap, InUse) /\ heap \in Heaps
  BY DEF Ownership, HeapOK
<1> HIDE DEF o
<1>6. CASE TypeOf(o) # "string"
  <2>1. Drops(heap, InUse, g, o)
    BY <1>4, <1>5, <1>6, FreeObjectDrops
  <2>2. HeapOK(g, VariableObjects)
    BY <1>4, <2>1 DEF Drops
  <2> QED
    BY <1>1, <1>2, <2>2, EvaluationGone
<1>7. CASE TypeOf(o) = "string"
  <2> DEFINE f == FreeString(heap, o)
             t == [f EXCEPT !.text = TRUE]
             e == [t EXCEPT !.twice = t.twice \/ t.obj[o].str = "gone"]
             str == IF t.obj[o].str = "none" THEN "none" ELSE "gone"
             w == [t.obj[o] EXCEPT !.str = str]
             x == [e EXCEPT !.obj[o] = w]
             y == [x EXCEPT !.obj[o] = Unused]
  <2>1. /\ f \in Heaps /\ f.slot = heap.slot /\ \A q \in Obj \ {o} : f.obj[q] = heap.obj[q]
    BY <1>4, <1>5, <1>7, StringFreed DEF TypeOf
  <2>2. f.obj[o].type = "string"
    BY <1>3, <1>5, <1>7 DEF FreeString, Heaps, Vals, TypeOf
  <2> HIDE DEF f
  <2>3. t \in Heaps /\ t.slot = heap.slot /\ t.text = TRUE /\ t.obj = f.obj
    BY <2>1 DEF Heaps
  <2>4. taken = t
    BY <1>7 DEF f
  <2> HIDE DEF t, taken
  <2>5. t.obj[o].type = "string" /\ t.obj[o] \in Vals
    BY <1>3, <2>2, <2>3 DEF Heaps
  <2>6. FreeObject(t, o) = [FreeString(t, o) EXCEPT !.obj[o] = Unused]
    BY <2>5 DEF FreeObject
  <2>7. (t.twice \/ t.obj[o].str = "gone") \in BOOLEAN
    BY <2>3 DEF Heaps
  <2>8. e \in Heaps /\ e.slot = heap.slot /\ e.text = TRUE /\ e.obj = t.obj
    BY <2>3, <2>7 DEF Heaps
  <2>9. FreeString(t, o) = x
    BY <2>8 DEF FreeString
  <2>10. str \in {"none", "gone"}
    OBVIOUS
  <2> HIDE DEF e, str
  <2>11. w \in Vals
    BY <2>5, <2>10 DEF Vals
  <2> HIDE DEF w
  <2>12. x \in Heaps /\ x.slot = heap.slot /\ x.text = TRUE /\ \A q \in Obj \ {o} : x.obj[q] = t.obj[q]
    BY <1>3, <2>8, <2>11 DEF Heaps
  <2> HIDE DEF x
  <2>13. y \in Heaps /\ y.slot = heap.slot /\ y.text = TRUE
         /\ \A q \in Obj : y.obj[q] = IF q \in {o} THEN Unused ELSE x.obj[q]
    BY <1>3, <2>12, SoundVals DEF Heaps
  <2>14. heap' = y
    BY <1>1, <2>4, <2>6, <2>9
  <2> HIDE DEF y
  <2> DEFINE T == {o}
  <2>15. \A q \in Obj : y.obj[q] = IF q \in T THEN Unused ELSE heap.obj[q]
    BY <2>1, <2>3, <2>12, <2>13
  <2>16. T \subseteq InUse /\ Unused.type \in {"free", "lost"} /\ InUse \ T = VariableObjects
    BY <1>4 DEF Unused, Holding
  <2> HIDE DEF T
  <2>17. Without(heap, y, T, Unused)
    BY <2>13, <2>15 DEF Without
  <2>18. HeapOK(y, InUse \ T)
    BY <1>5, <2>16, <2>17, Freed
  <2>19. HeapOK(y, VariableObjects)
    BY <2>16, <2>18
  <2> QED
    BY <1>1, <1>2, <2>14, <2>19, EvaluationGone
<1> QED
  BY <1>6, <1>7

-----------------------------------------------------------------------------
(* Between evaluations.                                                    *)

LEMMA IdleInUse ==
  ASSUME Ownership, Idle
  PROVE  /\ ev.stack = <<>> /\ ev.consts = <<>> /\ InUse = VariableObjects
         /\ HeapOK(heap, VariableObjects) /\ ev.phase = "none" /\ ctx.open
<1>1. ev.phase = "none" /\ ctx.open /\ ev.stack = <<>> /\ ev.consts = <<>>
  BY DEF Idle, Ownership, Bounded
<1>2. InUse = VariableObjects
  BY <1>1, DistinctEmpty DEF InUse, Fixed
<1> QED
  BY <1>1, <1>2 DEF Ownership

LEMMA NewContextOwns == Ownership /\ NewContext => Ownership'
<1> SUFFICES ASSUME Ownership, NewContext PROVE Ownership'
  OBVIOUS
<1>1. /\ ~ctx.open /\ heap' = heap /\ ev' = ev
      /\ ctx' = [NoContext EXCEPT !.open = TRUE, !.ns = {"nokogiri", "nokogiri-builtin"}]
  BY DEF NewContext
<1>2. /\ ev.phase = "none" /\ VariableObjects = {} /\ ev.stack = <<>> /\ ev.consts = <<>>
  BY <1>1 DEF Ownership, Bounded
<1>3. ctx'.open = TRUE /\ \A n \in Variable : ctx'.var[n] = {}
  BY <1>1 DEF NoContext
<1>7. ctx' \in Contexts
  BY <1>1 DEF NoContext, Contexts
<1>4. VariableObjects' = {}
  BY <1>3 DEF VariableObjects
<1>5. Apart' /\ InUse' = InUse
  BY <1>1, <1>2, <1>3, <1>4 DEF Ownership, Apart, InUse, Fixed
<1>6. Bounded'
  BY <1>1, <1>2, <1>3 DEF Bounded
<1> QED
  BY <1>1, <1>5, <1>6, <1>7 DEF Ownership

LEMMA FreeContextOwns == Ownership /\ FreeContext => Ownership'
<1> SUFFICES ASSUME Ownership, FreeContext PROVE Ownership'
  OBVIOUS
<1> DEFINE V == VariableObjects
<1>1. Idle /\ heap' = FreeAll(FreeCache(heap), V) /\ ctx' = NoContext /\ ev' = ev
  BY DEF FreeContext
<1>2. HeapOK(heap, V) /\ ev.stack = <<>> /\ ev.consts = <<>> /\ ev.phase = "none"
  BY <1>1, IdleInUse
<1>3. HeapOK(FreeCache(heap), V) /\ \A s \in Slots : FreeCache(heap).slot[s] = <<>>
  BY <1>2, FreeCacheKeeps
<1> HIDE DEF V
<1>4. HeapOK(heap', V \ V) /\ heap'.slot = FreeCache(heap).slot
  BY <1>1, <1>3, FreeAllDrops
<1>5. ctx' \in Contexts /\ ~ctx'.open /\ \A n \in Variable : ctx'.var[n] = {}
  BY <1>1 DEF NoContext, Contexts
<1>6. VariableObjects' = {} /\ V \ V = {}
  BY <1>5 DEF VariableObjects
<1>7. Apart' /\ InUse' = {}
  BY <1>1, <1>2, <1>5, <1>6, DistinctEmpty DEF Apart, InUse, Fixed
<1>8. Bounded'
  BY <1>1, <1>2, <1>3, <1>4, <1>6 DEF Bounded
<1> QED
  BY <1>1, <1>4, <1>5, <1>6, <1>7, <1>8 DEF Ownership

LEMMA SetCacheOwns == Ownership /\ SetCache => Ownership'
<1> SUFFICES ASSUME Ownership, SetCache PROVE Ownership'
  OBVIOUS
<1>1. PICK active \in BOOLEAN, max \in CacheMax : heap' = ContextSetCache(heap, active, max)
  BY DEF SetCache
<1>2. Idle /\ ctx' = ctx /\ ev' = ev
  BY DEF SetCache
<1>3. max \in Int
  BY ContextAssumption
<1>4. HeapOK(heap', InUse)
  BY <1>1, <1>3, SetCacheKeeps DEF Ownership
<1>5. VariableObjects' = VariableObjects
  BY <1>2 DEF VariableObjects
<1>6. Apart' /\ InUse' = InUse
  BY <1>2, <1>5 DEF Ownership, Apart, InUse, Fixed
<1>7. Bounded'
  BY <1>2 DEF Ownership, Bounded, Idle
<1> QED
  BY <1>2, <1>4, <1>6, <1>7 DEF Ownership

LEMMA RegisterVariableOwns == Ownership /\ RegisterVariable => Ownership'
<1> SUFFICES ASSUME Ownership, RegisterVariable PROVE Ownership'
  OBVIOUS
<1> DEFINE V == VariableObjects
           new == NewObject(heap, StringVal)
<1>1. Idle /\ ev' = ev /\ HasMemory(heap)
  BY DEF RegisterVariable
<1>2. PICK n \in Variable : /\ heap' = FreeAll(new.h, ctx.var[n])
                            /\ ctx' = [ctx EXCEPT !.var[n] = {new.o}]
  BY DEF RegisterVariable
<1>3. HeapOK(heap, V) /\ ev.stack = <<>> /\ ev.consts = <<>> /\ ev.phase = "none" /\ ctx.open
  BY <1>1, IdleInUse
<1>4. Makes(heap, V, new, StringVal)
  BY <1>1, <1>3, SoundVals, NewObjectMakes
<1> HIDE DEF new
<1>5. HeapOK(new.h, V \cup {new.o}) /\ new.o \in Obj /\ new.o \notin V
  BY <1>4 DEF Makes
<1>6. ctx \in Contexts /\ ctx.var[n] \subseteq V \cup {new.o}
  BY DEF Ownership, VariableObjects
<1> DEFINE S == V \cup {new.o}
<1> HIDE DEF S
<1>7. HeapOK(heap', S \ ctx.var[n])
  BY <1>2, <1>5, <1>6, FreeAllDrops DEF S
<1>8. /\ ctx' \in Contexts /\ ctx'.open /\ ctx'.var[n] = {new.o}
      /\ \A m \in Variable \ {n} : ctx'.var[m] = ctx.var[m]
  BY <1>2, <1>3, <1>5, <1>6 DEF Contexts
<1>9. VariableObjects' = S \ ctx.var[n]
  <2>1. \A o \in VariableObjects' : o \in S \ ctx.var[n]
    BY <1>5, <1>8 DEF VariableObjects, S, Ownership, Apart
  <2>2. \A o \in S \ ctx.var[n] : o \in VariableObjects'
    BY <1>8 DEF VariableObjects, S
  <2> QED
    BY <2>1, <2>2
<1>10. \A k, m \in Variable : k # m => ctx'.var[k] \cap ctx'.var[m] = {}
  <2>1. \A m \in Variable : new.o \notin ctx.var[m]
    BY <1>5 DEF VariableObjects
  <2> QED
    BY <1>8, <2>1 DEF Ownership, Apart
<1>11. Apart' /\ InUse' = S \ ctx.var[n]
  BY <1>1, <1>3, <1>9, <1>10, DistinctEmpty DEF Apart, InUse, Fixed
<1>12. Bounded'
  BY <1>1, <1>3, <1>8 DEF Bounded
<1> QED
  BY <1>1, <1>7, <1>8, <1>11, <1>12 DEF Ownership

LEMMA RegisterNsOwns == Ownership /\ RegisterNs => Ownership'
<1> SUFFICES ASSUME Ownership, RegisterNs PROVE Ownership'
  OBVIOUS
<1>1. Idle /\ heap' = heap /\ ev' = ev
  BY DEF RegisterNs
<1>2. PICK p \in Prefix : ctx' = [ctx EXCEPT !.ns = @ \cup {p}]
  BY DEF RegisterNs
<1>3. ctx' \in Contexts /\ ctx'.var = ctx.var /\ ctx'.open = ctx.open
  BY <1>2 DEF Ownership, Contexts
<1>4. VariableObjects' = VariableObjects
  BY <1>3 DEF VariableObjects
<1>5. Apart' /\ InUse' = InUse
  BY <1>1, <1>3, <1>4 DEF Ownership, Apart, InUse, Fixed
<1>6. Bounded'
  BY <1>1, <1>3 DEF Ownership, Bounded, Idle
<1> QED
  BY <1>1, <1>3, <1>5, <1>6 DEF Ownership

LEMMA BeginOwns == Ownership /\ Begin => Ownership'
<1> SUFFICES ASSUME Ownership, Begin PROVE Ownership'
  OBVIOUS
<1>1. Idle /\ heap' = Forgotten /\ ctx' = ctx /\ ev' = [NoEval EXCEPT !.phase = "compile"]
  BY DEF Begin
<1>2. HeapOK(heap, VariableObjects) /\ ctx.open /\ ctx \in Contexts
  BY <1>1, IdleInUse DEF Ownership
<1>3. ev' \in Evaluations /\ ev'.phase = "compile" /\ ev'.stack = <<>> /\ ev'.consts = <<>>
  BY <1>1, NewEvaluation DEF Phases
<1>4. HeapOK(heap', VariableObjects)
  BY <1>1, <1>2, ForgottenKeeps
<1>5. VariableObjects' = VariableObjects
  BY <1>1 DEF VariableObjects
<1>6. Apart'
  BY <1>1, <1>3, <1>5, DistinctEmpty DEF Ownership, Apart, Fixed
<1>7. InUse' = VariableObjects
  BY <1>3, <1>5, DistinctEmpty DEF InUse, Fixed
<1>8. Bounded'
  BY <1>1, <1>2, <1>3 DEF Bounded
<1> QED
  BY <1>1, <1>2, <1>3, <1>4, <1>6, <1>7, <1>8 DEF Ownership

-----------------------------------------------------------------------------
LEMMA OwnershipInductive == Ownership /\ [CNext]_contextVars => Ownership'
<1> SUFFICES ASSUME Ownership, [CNext]_contextVars PROVE Ownership'
  OBVIOUS
<1>1. CASE UNCHANGED contextVars
  <2>1. VariableObjects' = VariableObjects /\ InUse' = InUse
    BY <1>1 DEF contextVars, VariableObjects, InUse, Fixed
  <2>2. Apart' /\ Bounded'
    BY <1>1, <2>1 DEF contextVars, Ownership, Apart, Bounded, Fixed
  <2> QED
    BY <1>1, <2>1, <2>2 DEF contextVars, Ownership
<1>2. CASE NewContext \/ FreeContext \/ SetCache \/ RegisterVariable \/ RegisterNs
  BY <1>2, NewContextOwns, FreeContextOwns, SetCacheOwns, RegisterVariableOwns, RegisterNsOwns
<1>3. CASE Begin \/ CompileConstant \/ CompileFails \/ Compiled
  BY <1>3, BeginOwns, CompileConstantOwns, CompileEndOwns
<1>4. CASE EvalNode \/ EvalValue \/ EvalVariable
  BY <1>4, EvalNodeOwns, EvalValueOwns, EvalVariableOwns
<1>5. CASE LookupPrefix \/ EnterFunction \/ FunctionNotFound \/ LeaveFunction
  BY <1>5, FramesOwn
<1>6. CASE ConvertTop \/ FromNodeSet \/ Compare \/ Arithmetic
  BY <1>6, ConvertTopOwns, FromNodeSetOwns, CompareOwns, ArithmeticOwns
<1>7. CASE Concat \/ CssClass \/ LocalNameIs \/ EvalUnion \/ EvalCollect
  BY <1>7, ConcatOwns, CssClassOwns, LocalNameIsOwns, EvalUnionOwns, EvalCollectOwns
<1>8. CASE Report \/ RaiseInHandler \/ RunEnds \/ ReleaseValue \/ EvalEnds \/ ToRuby
  BY <1>8, ReportOwns, RaiseInHandlerOwns, RunEndsOwns, ReleaseValueOwns, EvalEndsOwns, ToRubyOwns
<1> QED
  BY <1>1, <1>2, <1>3, <1>4, <1>5, <1>6, <1>7, <1>8 DEF CNext

LEMMA OwnershipSuffices == Ownership => OwnedOnce
<1> SUFFICES ASSUME Ownership PROVE OwnedOnce
  OBVIOUS
<1> DEFINE owned == VariableObjects \cup UNION {ToSet(HeldBy(w)) : w \in Holder}
           Sound(o) == /\ TypeOf(o) = "string" <=> heap.obj[o].str = "own"
                       /\ heap.obj[o].set # NoSet => TypeOf(o) = "nodeset"
<1>1. /\ \A s \in Slots : HeldBy(s) = heap.slot[s] /\ s \in Holder
      /\ HeldBy("stack") = ev.stack /\ HeldBy("consts") = ev.consts
      /\ "stack" \in Holder /\ "consts" \in Holder
      /\ \A w \in Holder : w \in Slots \/ w = "stack" \/ w = "consts"
  BY DEF HeldBy, Holder, Slots
<1>2. HeapOK(heap, InUse) /\ Apart
  BY DEF Ownership
<1>3. \A w \in Holder : Distinct(HeldBy(w))
  BY <1>1, <1>2 DEF HeapOK, SlotsApart, Apart
<1>4. \A s \in Slots : ToSet(heap.slot[s]) \subseteq CachedObjects(heap)
  BY CachedSlot
<1>5. /\ VariableObjects \subseteq InUse /\ ToSet(ev.stack) \subseteq InUse
      /\ ToSet(ev.consts) \subseteq InUse /\ InUse \cap CachedObjects(heap) = {}
  BY <1>2 DEF InUse, Fixed, HeapOK
<1>6. \A w \in Holder : IsInjective(HeldBy(w)) /\ ToSet(HeldBy(w)) \cap VariableObjects = {}
  BY <1>1, <1>2, <1>3, <1>4, <1>5 DEF Distinct, Apart, Fixed
<1>7. \A v, w \in Holder : v # w => ToSet(HeldBy(v)) \cap ToSet(HeldBy(w)) = {}
  BY <1>1, <1>2, <1>4, <1>5 DEF HeapOK, SlotsApart, Apart, Fixed
<1>8. owned = InUse \cup CachedObjects(heap)
  <2>1. \A o : o \in owned => o \in InUse \cup CachedObjects(heap)
    BY <1>1, <1>4, <1>5
  <2>2. \A o : o \in InUse => o \in owned
    BY <1>1 DEF InUse, Fixed
  <2>3. \A o : o \in CachedObjects(heap) => o \in owned
    BY <1>1, CachedSlot
  <2> QED
    BY <2>1, <2>2, <2>3
<1> HIDE DEF owned
<1>9. \A o \in Obj : o \in owned <=> TypeOf(o) \notin {"free", "lost"}
  BY <1>2, <1>8 DEF HeapOK, TypeOf
<1>10. \A o \in CachedObjects(heap) :
         TypeOf(o) = "undefined" /\ heap.obj[o].str = "none" /\ heap.obj[o].set.nr = 0
  BY <1>2 DEF HeapOK, TypeOf, Emptied
<1>11. \A o \in owned \ CachedObjects(heap) : Sound(o)
  BY <1>2, <1>8 DEF HeapOK, TypeOf, SoundVal
<1>12. ~ctx.open => owned = {}
  <2>1. SUFFICES ASSUME ~ctx.open PROVE owned = {}
    OBVIOUS
  <2>2. VariableObjects = {} /\ ev.stack = <<>> /\ ev.consts = <<>> /\ \A s \in Slots : heap.slot[s] = <<>>
    BY <2>1 DEF Ownership, Bounded
  <2>3. CachedObjects(heap) = {} /\ InUse = {}
    BY <2>2, CachedSlot, DistinctEmpty DEF InUse, Fixed
  <2> QED
    BY <1>8, <2>3
<1>13. /\ \A m, n \in Variable : m # n => ctx.var[m] \cap ctx.var[n] = {}
       /\ \A o \in ToSet(heap.slot["nodeset"]) : heap.obj[o].set # NoSet
       /\ heap.twice => heap.text
  BY <1>2 DEF Apart, HeapOK
<1> QED
  BY <1>6, <1>7, <1>9, <1>10, <1>11, <1>12, <1>13 DEF OwnedOnce, owned

\* No value of an evaluation is in the cache, in a variable or in another value's place
\* while it is used, none is given back twice and none is forgotten but by an exception
\* of the error handler, whatever evaluations of the context did before.
THEOREM ObjectsOwnedOnce == CSpec => []OwnedOnce
<1>1. CSpec => []Ownership
  BY OwnershipInitially, OwnershipInductive, PTL DEF CSpec
<1> QED
  BY <1>1, OwnershipSuffices, PTL

-----------------------------------------------------------------------------
(* Errors.                                                                 *)

EvFields == {"phase", "stack", "frames", "consts", "errors", "failed", "pending"}

Active == {"compile", "run", "report", "end"}

\* A failed evaluation is on its way to report an error, or has reported one.
FailureReported ==
  /\ ev.phase \in {"compile", "run"} => ~ev.failed
  /\ ev.phase = "report" => ev.pending > 0
  /\ ev.phase = "end" => ev.errors > 0 \/ (~ev.failed /\ ev.stack # <<>>)

\* The inductive invariant.
IInv ==
  /\ ev = [f \in EvFields |-> ev[f]]
  /\ ev.errors \in Nat /\ ev.pending \in Nat
  /\ FailureReported
  /\ ErrorsHandedOver

LEMMA Initially == CInit => IInv
  BY DEF CInit, NoEval, IInv, EvFields, FailureReported, ErrorsHandedOver

LEMMA FailingFields ==
  ASSUME IInv, NEW n \in Nat
  PROVE  /\ Failing(n) = [f \in EvFields |-> Failing(n)[f]]
         /\ Failing(n).phase = "report" /\ Failing(n).failed = TRUE /\ Failing(n).pending = n
         /\ Failing(n).errors = ev.errors /\ Failing(n).stack = ev.stack
<1> DEFINE e1 == [ev EXCEPT !.phase = "report"]
           e2 == [e1 EXCEPT !.failed = TRUE]
           e3 == [e2 EXCEPT !.pending = n]
<1>1. e1 = [f \in EvFields |-> IF f = "phase" THEN "report" ELSE ev[f]]
  BY DEF IInv, EvFields
<1>2. e2 = [f \in EvFields |-> IF f = "failed" THEN TRUE ELSE e1[f]]
  BY <1>1 DEF EvFields
<1>3. e3 = [f \in EvFields |-> IF f = "pending" THEN n ELSE e2[f]]
  BY <1>2 DEF EvFields
<1>4. Failing(n) = e3
  BY DEF Failing
<1> QED
  BY <1>1, <1>2, <1>3, <1>4 DEF EvFields

\* Running leaves a result on the stack, changes the frames or fails.
LEMMA RunningOn ==
  ASSUME IInv, ev.phase = "run", UNCHANGED <<handler, raised>>,
         NEW s, NEW n \in {1, 2},
         \/ ev' = [ev EXCEPT !.stack = s]
         \/ ev' = [ev EXCEPT !.frames = s]
         \/ ev' = Failing(n)
         \/ ev' = [Failing(n) EXCEPT !.stack = s]
  PROVE  IInv'
<1>0. n \in Nat /\ n > 0
  OBVIOUS
<1>1. CASE ev' = [ev EXCEPT !.stack = s]
  BY <1>1 DEF IInv, EvFields, FailureReported, ErrorsHandedOver
<1>2. CASE ev' = [ev EXCEPT !.frames = s]
  BY <1>2 DEF IInv, EvFields, FailureReported, ErrorsHandedOver
<1>3. CASE ev' = Failing(n)
  <2>1. /\ ev' = [f \in EvFields |-> ev'[f]] /\ ev'.phase = "report"
        /\ ev'.pending = n /\ ev'.errors = ev.errors
    BY <1>0, <1>3, FailingFields
  <2> QED
    BY <1>0, <2>1 DEF IInv, FailureReported, ErrorsHandedOver
<1>4. CASE ev' = [Failing(n) EXCEPT !.stack = s]
  <2> DEFINE e == Failing(n)
  <2>1. /\ e = [f \in EvFields |-> e[f]] /\ e.phase = "report"
        /\ e.pending = n /\ e.errors = ev.errors
    BY <1>0, FailingFields
  <2> HIDE DEF e
  <2>2. ev' = [f \in EvFields |-> IF f = "stack" THEN s ELSE e[f]]
    BY <1>4, <2>1 DEF EvFields, e
  <2>3. /\ ev' = [f \in EvFields |-> ev'[f]] /\ ev'.phase = "report"
        /\ ev'.pending = n /\ ev'.errors = ev.errors
    BY <2>1, <2>2 DEF EvFields
  <2> QED
    BY <1>0, <2>3 DEF IInv, FailureReported, ErrorsHandedOver
<1> QED
  BY <1>1, <1>2, <1>3, <1>4

\* nl_xmlXPathEval and xpath2ruby: the end of an evaluation.
LEMMA Ending == ASSUME IInv, EvalEnds \/ ToRuby PROVE IInv'
<1> USE DEF IInv, EvFields, FailureReported, ErrorsHandedOver, NoEval
<1>1. CASE EvalEnds
  <2>1. /\ ev.phase = "end" /\ handler' = "none"
        /\ ev' = IF ev.stack = <<>> THEN NoEval
                 ELSE [NoEval EXCEPT !.phase = "result", !.stack = ev.stack]
        /\ raised' = IF ev.stack # <<>> THEN "none" ELSE IF ev.errors > 0 THEN "error" ELSE "nil"
    BY <1>1 DEF EvalEnds
  <2>2. ev.stack # <<>> \/ ev.errors > 0
    BY <2>1
  <2>3. CASE ev.stack = <<>>
    BY <2>1, <2>2, <2>3
  <2>4. CASE ev.stack # <<>>
    BY <2>1, <2>4
  <2> QED
    BY <2>3, <2>4
<1>2. CASE ToRuby
  BY <1>2 DEF ToRuby
<1> QED
  BY <1>1, <1>2

\* What stays on the stack when there was no error is the result.
LEMMA Releasing == ASSUME IInv, Ownership, ReleaseValue PROVE IInv'
<1> DEFINE s == ev.stack
           t == Tail(ev.stack)
<1>1. ev.phase = "end" /\ ev' = [ev EXCEPT !.stack = t] /\ UNCHANGED <<handler, raised>>
  BY DEF ReleaseValue
<1>2. ~ev.failed => t # <<>>
  <2>1. SUFFICES ASSUME ~ev.failed PROVE t # <<>>
    OBVIOUS
  <2>2. Len(s) > Results /\ Results = 1
    BY <2>1 DEF ReleaseValue, Results
  <2>3. s \in Seq(Obj) /\ Len(s) \in Nat
    BY DEF Ownership, Evaluations
  <2>5. Len(s) > 1 /\ s # <<>>
    BY <2>2, <2>3
  <2>6. Len(t) = Len(s) - 1
    BY <2>3, <2>5
  <2>4. Len(<<>>) = 0
    OBVIOUS
  <2> HIDE DEF s, t
  <2>7. Len(t) # 0
    BY <2>3, <2>5, <2>6
  <2> QED
    BY <2>4, <2>7
<1> HIDE DEF t
<1>3. /\ ev' = [f \in EvFields |-> ev'[f]] /\ ev'.phase = "end" /\ ev'.stack = t
      /\ ev'.pending = ev.pending /\ ev'.errors = ev.errors /\ ev'.failed = ev.failed
  BY <1>1 DEF IInv, EvFields
<1> QED
  BY <1>1, <1>2, <1>3 DEF IInv, FailureReported, ErrorsHandedOver

\* The operations that put one object for others.
LEMMA Pushing ==
  ASSUME IInv, Running, NEW r, NEW below, ValuePush(r, below)
  PROVE  IInv'
  BY RunningOn DEF Running, ValuePush

LEMMA Fails ==
  ASSUME IInv, Running, NEW n \in {1, 2}, NEW s,
         ev' = Failing(n) \/ ev' = [Failing(n) EXCEPT !.stack = s]
  PROVE  IInv'
  BY RunningOn DEF Running

-----------------------------------------------------------------------------
LEMMA Inductive == IInv /\ Ownership /\ [CNext]_contextVars => IInv'
<1> SUFFICES ASSUME IInv, Ownership, [CNext]_contextVars PROVE IInv'
  OBVIOUS
<1>1. CASE NewContext \/ FreeContext \/ SetCache \/ RegisterVariable \/ RegisterNs
  BY <1>1 DEF NewContext, FreeContext, SetCache, RegisterVariable, RegisterNs,
     IInv, FailureReported, ErrorsHandedOver
<1>2. CASE Begin
  BY <1>2 DEF Begin, Idle, NoEval, IInv, EvFields, FailureReported, ErrorsHandedOver
<1>3. CASE CompileConstant
  BY <1>3 DEF CompileConstant, IInv, EvFields, FailureReported, ErrorsHandedOver
<1>24. CASE CompileFails \/ Compiled
  <2>1. CASE ev' = Failing(1)
    <3>1. /\ ev' = [f \in EvFields |-> ev'[f]] /\ ev'.phase = "report"
          /\ ev'.pending = 1 /\ ev'.errors = ev.errors
      BY <2>1, FailingFields
    <3> QED
      BY <1>24, <3>1 DEF CompileFails, Compiled, IInv, FailureReported, ErrorsHandedOver
  <2>2. CASE ev' = [ev EXCEPT !.phase = "run"]
    BY <1>24, <2>2 DEF CompileFails, Compiled, IInv, EvFields, FailureReported, ErrorsHandedOver
  <2> QED
    BY <1>24, <2>1, <2>2 DEF CompileFails, Compiled
<1>4. CASE EvalNode
  BY <1>4, Pushing DEF EvalNode
<1>5. CASE EvalValue
  BY <1>5, Pushing DEF EvalValue
<1>6. CASE EvalVariable
  BY <1>6, Pushing, Fails DEF EvalVariable
<1>7. CASE LookupPrefix \/ FunctionNotFound
  BY <1>7, Fails DEF LookupPrefix, FunctionNotFound
<1>8. CASE EnterFunction
  BY <1>8, RunningOn DEF EnterFunction, Running
<1>9. CASE LeaveFunction
  BY <1>9, RunningOn DEF LeaveFunction, Running
<1>10. CASE ConvertTop
  BY <1>10, Pushing DEF ConvertTop
<1>11. CASE FromNodeSet
  BY <1>11, Pushing, Fails DEF FromNodeSet
<1>12. CASE Compare
  BY <1>12, Pushing DEF Compare
<1>13. CASE Arithmetic
  BY <1>13, Pushing DEF Arithmetic
<1>14. CASE Concat
  BY <1>14, Pushing DEF Concat
<1>15. CASE CssClass
  BY <1>15, Pushing DEF CssClass
<1>16. CASE LocalNameIs
  BY <1>16, Pushing DEF LocalNameIs
<1>17. CASE EvalUnion
  BY <1>17, Pushing, Fails DEF EvalUnion
<1>18. CASE EvalCollect
  BY <1>18, RunningOn, Fails DEF EvalCollect, Running
<1>19. CASE Report
  <2> DEFINE e1 == [ev EXCEPT !.errors = ev.errors + ev.pending]
             e2 == [e1 EXCEPT !.phase = "end"]
             e3 == [e2 EXCEPT !.pending = 0]
  <2>1. /\ ev.phase = "report" /\ ev' = e3 /\ handler' = handler /\ raised' = raised
        /\ handler = "this" /\ ev.pending > 0 /\ ev.errors \in Nat /\ ev.pending \in Nat
    BY <1>19 DEF Report, IInv, FailureReported, ErrorsHandedOver
  <2>2. e1 = [f \in EvFields |-> IF f = "errors" THEN ev.errors + ev.pending ELSE ev[f]]
    BY DEF IInv, EvFields
  <2>3. e2 = [f \in EvFields |-> IF f = "phase" THEN "end" ELSE e1[f]]
    BY <2>2 DEF EvFields
  <2>4. e3 = [f \in EvFields |-> IF f = "pending" THEN 0 ELSE e2[f]]
    BY <2>3 DEF EvFields
  <2> HIDE DEF e1, e2, e3
  <2>5. /\ ev' = [f \in EvFields |-> ev'[f]] /\ ev'.phase = "end"
        /\ ev'.pending = 0 /\ ev'.errors = ev.errors + ev.pending
    BY <2>1, <2>2, <2>3, <2>4 DEF EvFields
  <2> QED
    BY <2>1, <2>5 DEF IInv, FailureReported, ErrorsHandedOver
<1>20. CASE RaiseInHandler
  BY <1>20 DEF RaiseInHandler, NoEval, IInv, EvFields, FailureReported, ErrorsHandedOver
<1>21. CASE RunEnds
  <2>1. CASE ev' = [ev EXCEPT !.phase = "end"] /\ Len(ev.stack) = 1
    <3>1. ev.stack # <<>>
      BY <2>1
    <3>2. /\ ev' = [f \in EvFields |-> ev'[f]] /\ ev'.phase = "end" /\ ev'.stack = ev.stack
          /\ ev'.pending = ev.pending /\ ev'.errors = ev.errors /\ ev'.failed = ev.failed
      BY <2>1 DEF IInv, EvFields
    <3> QED
      BY <1>21, <3>1, <3>2 DEF RunEnds, IInv, FailureReported, ErrorsHandedOver
  <2>2. CASE ev' = [ev EXCEPT !.phase = "report", !.pending = 1]
    <3> DEFINE e1 == [ev EXCEPT !.phase = "report"]
    <3>1. e1 = [f \in EvFields |-> IF f = "phase" THEN "report" ELSE ev[f]]
      BY DEF IInv, EvFields
    <3>2. ev' = [e1 EXCEPT !.pending = 1]
      BY <2>2
    <3> HIDE DEF e1
    <3>3. /\ ev' = [f \in EvFields |-> ev'[f]] /\ ev'.phase = "report"
          /\ ev'.pending = 1 /\ ev'.errors = ev.errors
      BY <3>1, <3>2 DEF EvFields
    <3>4. /\ handler = "this" /\ handler' = handler
          /\ raised # "nil" /\ raised' = raised
      BY <1>21 DEF RunEnds, IInv, ErrorsHandedOver
    <3>5. ev'.errors \in Nat /\ ev'.pending \in Nat /\ ev'.pending > 0
      BY <3>3 DEF IInv
    <3>6. FailureReported'
      BY <3>3, <3>5 DEF FailureReported
    <3> QED
      BY <3>3, <3>4, <3>5, <3>6 DEF IInv, ErrorsHandedOver
  <2> QED
    BY <1>21, <2>1, <2>2 DEF RunEnds
<1>22. CASE EvalEnds \/ ToRuby
  BY <1>22, Ending
<1>25. CASE ReleaseValue
  BY <1>25, Releasing
<1>23. CASE UNCHANGED contextVars
  BY <1>23 DEF contextVars, IInv, FailureReported, ErrorsHandedOver
<1> QED
  BY <1>1, <1>2, <1>3, <1>4, <1>5, <1>6, <1>7, <1>8, <1>9, <1>10, <1>11, <1>12, <1>13, <1>14,
     <1>15, <1>16, <1>17, <1>18, <1>19, <1>20, <1>21, <1>22, <1>23, <1>24, <1>25 DEF CNext

\* evaluate never raises nil (nl_xpath_context.c:299), and the handlers of an
\* evaluation are its own, also when an exception left the one before it.
THEOREM ErrorsReachTheirCaller == CSpec => []ErrorsHandedOver
<1>1. IInv => ErrorsHandedOver
  BY DEF IInv
<1>2. CSpec => [](IInv /\ Ownership)
  BY Initially, Inductive, OwnershipInitially, OwnershipInductive, PTL DEF CSpec
<1> QED
  BY <1>1, <1>2, PTL
=============================================================================
