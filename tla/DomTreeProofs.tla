---------------------------- MODULE DomTreeProofs ----------------------------
(***************************************************************************)
(* What the primitives of DomTree preserve, for any number of nodes.       *)
(* Everything is argued from closed sets of nodes instead of paths, so no  *)
(* induction over the tree is needed, nor that it is finite.               *)
(***************************************************************************)
EXTENDS DomTree, Forests, ListProofs

\* n has no parent and no sibling: what lxb_dom_node_remove leaves.
Loose(t, n) == t.parent[n] = Nil /\ t.prev[n] = Nil /\ t.next[n] = Nil

-----------------------------------------------------------------------------
(* Types.                                                                  *)

\* lxb_dom_node_remove writes pointers to nodes, or null.
LEMMA RemoveNodeType ==
  ASSUME NEW t \in Tree, NEW n \in Node
  PROVE  RemoveNode(t, n) \in Tree
  BY DEF RemoveNode, Tree, Link

\* So do the three insertions.
LEMMA InsertChildType ==
  ASSUME NEW t \in Tree, NEW n \in Node, NEW to \in Node
  PROVE  InsertChild(t, to, n) \in Tree
  BY DEF InsertChild, Tree, Link

LEMMA InsertBeforeType ==
  ASSUME NEW t \in Tree, NEW n \in Node, NEW to \in Node
  PROVE  InsertBefore(t, to, n) \in Tree
  BY DEF InsertBefore, Tree, Link

LEMMA InsertAfterType ==
  ASSUME NEW t \in Tree, NEW n \in Node, NEW to \in Node
  PROVE  InsertAfter(t, to, n) \in Tree
  BY DEF InsertAfter, Tree, Link

-----------------------------------------------------------------------------
(* The ends of a list of children.                                         *)

\* A node without a last child has no child at all: the others would follow
\* each other forever.  lxb_dom_node_insert_child looks at last_child only.
LEMMA NoLastNoChild ==
  ASSUME NEW t \in Tree, WellLinked(t), Acyclic(t), NEW p \in Node,
         t.last[p] = Nil
  PROVE  \A x \in Node : t.parent[x] # p
<1> DEFINE S == {x \in Node : t.parent[x] = p}
<1>1. \A x \in S : t.next[x] \in S
  <2> SUFFICES ASSUME NEW x \in S PROVE t.next[x] \in S
    OBVIOUS
  <2>1. t.next[x] # Nil
    BY NilAssumption DEF WellLinked
  <2>2. t.next[x] \in Node
    BY <2>1 DEF Tree, Link
  <2> QED BY <2>1, <2>2 DEF WellLinked
<1>2. S \in SUBSET Node
  OBVIOUS
<1>3. S = {}
  BY <1>1, <1>2 DEF Acyclic, Loops
<1> QED BY <1>3

\* A node without a first child has no child either: the loops over
\* first_child that empty a node end with all of its children gone.
LEMMA NoFirstNoChild ==
  ASSUME NEW t \in Tree, WellLinked(t), Acyclic(t), NEW p \in Node,
         t.first[p] = Nil
  PROVE  \A x \in Node : t.parent[x] # p
<1> DEFINE S == {x \in Node : t.parent[x] = p}
<1>1. \A x \in S : t.prev[x] \in S
  <2> SUFFICES ASSUME NEW x \in S PROVE t.prev[x] \in S
    OBVIOUS
  <2>1. t.prev[x] # Nil
    BY NilAssumption DEF WellLinked
  <2>2. t.prev[x] \in Node
    BY <2>1 DEF Tree, Link
  <2>3. t.next[t.prev[x]] = x
    BY <2>2 DEF WellLinked
  <2>4. t.parent[t.prev[x]] = p
    BY <2>2, <2>3, NilAssumption DEF WellLinked
  <2> QED BY <2>2, <2>4
<1>2. S \in SUBSET Node
  OBVIOUS
<1>3. S = {}
  BY <1>1, <1>2 DEF Acyclic, Loops
<1> QED BY <1>3

-----------------------------------------------------------------------------
(* Links that agree.                                                       *)

\* lxb_dom_node_remove closes the gap between the neighbours of n and moves
\* the ends of its parent.
LEMMA RemoveWellLinked ==
  ASSUME NEW t \in Tree, NEW n \in Node, WellLinked(t)
  PROVE  WellLinked(RemoveNode(t, n))
  BY NilAssumption DEF RemoveNode, WellLinked, Tree, Link

\* The node that was removed has no parent and no sibling any more.
LEMMA RemoveLoose ==
  ASSUME NEW t \in Tree, NEW n \in Node
  PROVE  Loose(RemoveNode(t, n), n)
  BY DEF RemoveNode, Loose, Tree

\* Linking a node that has no place yet keeps the links in agreement.
LEMMA InsertChildWellLinked ==
  ASSUME NEW t \in Tree, NEW n \in Node, NEW to \in Node,
         WellLinked(t), Acyclic(t), Loose(t, n), n # to
  PROVE  WellLinked(InsertChild(t, to, n))
<1> DEFINE u == InsertChild(t, to, n)
<1>1. t.last[to] = Nil => \A x \in Node : t.parent[x] # to
  BY NoLastNoChild
<1>2. \A x, y \in Node : u.next[x] = y <=> u.prev[y] = x
  BY NilAssumption DEF InsertChild, WellLinked, Tree, Link, Loose
<1>3. \A x \in Node : u.next[x] # Nil => u.parent[u.next[x]] = u.parent[x]
  BY NilAssumption DEF InsertChild, WellLinked, Tree, Link, Loose
<1>4. \A p, x \in Node : u.first[p] = x <=> u.parent[x] = p /\ u.prev[x] = Nil
  BY <1>1, NilAssumption DEF InsertChild, WellLinked, Tree, Link, Loose
<1>5. \A p, x \in Node : u.last[p] = x <=> u.parent[x] = p /\ u.next[x] = Nil
  BY <1>1, NilAssumption DEF InsertChild, WellLinked, Tree, Link, Loose
<1> QED BY <1>2, <1>3, <1>4, <1>5 DEF WellLinked

\* The same before a sibling.
LEMMA InsertBeforeWellLinked ==
  ASSUME NEW t \in Tree, NEW n \in Node, NEW to \in Node,
         WellLinked(t), Loose(t, n), n # to, t.parent[to] # n
  PROVE  WellLinked(InsertBefore(t, to, n))
<1> DEFINE u == InsertBefore(t, to, n)
<1>2. \A x, y \in Node : u.next[x] = y <=> u.prev[y] = x
  BY NilAssumption DEF InsertBefore, WellLinked, Tree, Link, Loose
<1>3. \A x \in Node : u.next[x] # Nil => u.parent[u.next[x]] = u.parent[x]
  BY NilAssumption DEF InsertBefore, WellLinked, Tree, Link, Loose
<1>4. \A p, x \in Node : u.first[p] = x <=> u.parent[x] = p /\ u.prev[x] = Nil
  BY NilAssumption DEF InsertBefore, WellLinked, Tree, Link, Loose
<1>5. \A p, x \in Node : u.last[p] = x <=> u.parent[x] = p /\ u.next[x] = Nil
  BY NilAssumption DEF InsertBefore, WellLinked, Tree, Link, Loose
<1> QED BY <1>2, <1>3, <1>4, <1>5 DEF WellLinked

\* The same after a sibling.
LEMMA InsertAfterWellLinked ==
  ASSUME NEW t \in Tree, NEW n \in Node, NEW to \in Node,
         WellLinked(t), Loose(t, n), n # to, t.parent[to] # n
  PROVE  WellLinked(InsertAfter(t, to, n))
<1> DEFINE u == InsertAfter(t, to, n)
<1>2. \A x, y \in Node : u.next[x] = y <=> u.prev[y] = x
  BY NilAssumption DEF InsertAfter, WellLinked, Tree, Link, Loose
<1>3. \A x \in Node : u.next[x] # Nil => u.parent[u.next[x]] = u.parent[x]
  BY NilAssumption DEF InsertAfter, WellLinked, Tree, Link, Loose
<1>4. \A p, x \in Node : u.first[p] = x <=> u.parent[x] = p /\ u.prev[x] = Nil
  BY NilAssumption DEF InsertAfter, WellLinked, Tree, Link, Loose
<1>5. \A p, x \in Node : u.last[p] = x <=> u.parent[x] = p /\ u.next[x] = Nil
  BY NilAssumption DEF InsertAfter, WellLinked, Tree, Link, Loose
<1> QED BY <1>2, <1>3, <1>4, <1>5 DEF WellLinked

-----------------------------------------------------------------------------
(* Links that do not come back to their start.                             *)

\* Taking a node out of its list leaves no loop that was not there.
LEMMA RemoveAcyclic ==
  ASSUME NEW t \in Tree, NEW n \in Node, WellLinked(t), Acyclic(t)
  PROVE  Acyclic(RemoveNode(t, n))
<1> DEFINE u == RemoveNode(t, n)
<1>1. ASSUME NEW S \in SUBSET Node, S # {}, \A x \in S : u.parent[x] \in S
      PROVE  FALSE
  <2>1. n \notin S
    BY <1>1, NilAssumption DEF RemoveNode, Tree
  <2>2. \A x \in S : t.parent[x] \in S
    BY <1>1, <2>1 DEF RemoveNode, Tree
  <2> QED BY <1>1, <2>2 DEF Acyclic, Loops
<1>2. ASSUME NEW S \in SUBSET Node, S # {}, \A x \in S : u.next[x] \in S
      PROVE  FALSE
  <2> DEFINE T == IF t.prev[n] \in S THEN S \cup {n} ELSE S
  <2>1. n \notin S
    BY <1>2, NilAssumption DEF RemoveNode, Tree
  <2>2. ASSUME NEW x \in S PROVE t.next[x] \in T
    <3>1. CASE x = t.prev[n]
      BY <3>1, <2>2 DEF WellLinked
    <3>2. CASE x # t.prev[n]
      BY <3>2, <1>2, <2>1 DEF RemoveNode, Tree
    <3> QED BY <3>1, <3>2
  <2>3. t.prev[n] \in S => t.next[n] \in T
    BY <1>2, <2>1 DEF RemoveNode, Tree
  <2>4. T \in SUBSET Node /\ T # {}
    BY <1>2
  <2>5. \A x \in T : t.next[x] \in T
    BY <2>2, <2>3
  <2> HIDE DEF T
  <2> QED BY <2>4, <2>5 DEF Acyclic, Loops
<1>3. ASSUME NEW S \in SUBSET Node, S # {}, \A x \in S : u.prev[x] \in S
      PROVE  FALSE
  <2> DEFINE T == IF t.next[n] \in S THEN S \cup {n} ELSE S
  <2>1. n \notin S
    BY <1>3, NilAssumption DEF RemoveNode, Tree
  <2>2. ASSUME NEW x \in S PROVE t.prev[x] \in T
    <3>1. CASE x = t.next[n]
      BY <3>1, <2>2 DEF WellLinked
    <3>2. CASE x # t.next[n]
      BY <3>2, <1>3, <2>1 DEF RemoveNode, Tree
    <3> QED BY <3>1, <3>2
  <2>3. t.next[n] \in S => t.prev[n] \in T
    BY <1>3, <2>1 DEF RemoveNode, Tree
  <2>4. T \in SUBSET Node /\ T # {}
    BY <1>3
  <2>5. \A x \in T : t.prev[x] \in T
    BY <2>2, <2>3
  <2> HIDE DEF T
  <2> QED BY <2>4, <2>5 DEF Acyclic, Loops
<1> QED BY <1>1, <1>2, <1>3 DEF Acyclic, Loops

\* Hanging n under p makes no loop of parents when n is not above p.
LEMMA HangAcyclic ==
  ASSUME NEW t \in Tree, NEW n \in Node, NEW p \in Link, NEW to \in Node,
         ~Loops(t.parent), NoneAbove(t, {n}, to), p \in {to, t.parent[to]}
  PROVE  ~Loops([t.parent EXCEPT ![n] = p])
<1> SUFFICES ASSUME NEW S \in SUBSET Node, S # {},
                    \A x \in S : [t.parent EXCEPT ![n] = p][x] \in S
             PROVE  FALSE
  BY DEF Loops
<1>1. \A x \in S : x # n => t.parent[x] \in S
  BY DEF Tree
<1>2. n \in S
  BY <1>1 DEF Loops
<1>3. p \in S
  BY <1>2 DEF Tree
<1>4. PICK A \in SUBSET Node : /\ to \in A
                              /\ A \cap {n} = {}
                              /\ \A z \in A : t.parent[z] \in A \cup {Nil}
  BY DEF NoneAbove
<1>5. p \in A
  BY <1>3, <1>4, NilAssumption
<1>6. \A x \in S \cap A : t.parent[x] \in S \cap A
  BY <1>1, <1>4, NilAssumption
<1>7. S \cap A # {} /\ S \cap A \in SUBSET Node
  BY <1>3, <1>5
<1> QED BY <1>6, <1>7 DEF Loops

\* lxb_dom_node_insert_child of a removed node that is not above its target
\* makes no loop.
LEMMA InsertChildAcyclic ==
  ASSUME NEW t \in Tree, NEW n \in Node, NEW to \in Node, WellLinked(t),
         Acyclic(t), Loose(t, n), NoneAbove(t, {n}, to)
  PROVE  Acyclic(InsertChild(t, to, n))
<1> DEFINE u == InsertChild(t, to, n)
<1>1. ~Loops(u.parent)
  BY HangAcyclic DEF InsertChild, Link, Acyclic
<1>2. ASSUME NEW S \in SUBSET Node, S # {}, \A x \in S : u.next[x] \in S
      PROVE  FALSE
  <2>1. n \notin S
    BY <1>2, NilAssumption DEF InsertChild, Tree
  <2>2. t.last[to] \notin S
    BY <1>2, <2>1 DEF InsertChild, Tree
  <2>3. \A x \in S : t.next[x] \in S
    BY <1>2, <2>1, <2>2 DEF InsertChild, Tree
  <2> QED BY <1>2, <2>3 DEF Acyclic, Loops
<1>3. ASSUME NEW S \in SUBSET Node, S # {}, \A x \in S : u.prev[x] \in S
      PROVE  FALSE
  <2> DEFINE T == S \ {n}
  <2>1. ASSUME NEW x \in T PROVE t.prev[x] \in T
    <3>1. t.prev[x] \in S
      BY <1>3 DEF InsertChild, Tree
    <3>2. t.prev[x] # n
      BY NilAssumption DEF WellLinked, Loose
    <3> QED BY <3>1, <3>2
  <2>2. n \in S => t.last[to] \in T
    <3> HAVE n \in S
    <3>1. u.prev[n] = t.last[to]
      BY DEF InsertChild, Tree
    <3>2. t.last[to] \in S
      BY <3>1, <1>3
    <3>3. t.last[to] # n
      BY NilAssumption DEF WellLinked, Loose
    <3> QED BY <3>2, <3>3
  <2>3. T # {} /\ T \in SUBSET Node
    BY <1>3, <2>2
  <2> QED BY <2>1, <2>3 DEF Acyclic, Loops
<1> QED BY <1>1, <1>2, <1>3 DEF Acyclic, Loops

\* Nor does lxb_dom_node_insert_before.
LEMMA InsertBeforeAcyclic ==
  ASSUME NEW t \in Tree, NEW n \in Node, NEW to \in Node, WellLinked(t),
         Acyclic(t), Loose(t, n), NoneAbove(t, {n}, to), n # to
  PROVE  Acyclic(InsertBefore(t, to, n))
<1> DEFINE u == InsertBefore(t, to, n)
<1>1. ~Loops(u.parent)
  BY HangAcyclic DEF InsertBefore, Tree, Acyclic
<1>2. ASSUME NEW S \in SUBSET Node, S # {}, \A x \in S : u.next[x] \in S
      PROVE  FALSE
  <2> DEFINE T == S \ {n}
  <2>1. n \in S => to \in T
    BY <1>2 DEF InsertBefore, Tree
  <2>2. ASSUME NEW x \in T PROVE t.next[x] \in T
    <3>1. CASE x = t.prev[to]
      <4>1. n \in S
        BY <3>1, <1>2 DEF InsertBefore, Tree
      <4>2. t.next[x] = to
        BY <3>1 DEF WellLinked
      <4> QED BY <4>1, <4>2, <2>1
    <3>2. CASE x # t.prev[to]
      <4>1. t.next[x] \in S
        BY <3>2, <1>2 DEF InsertBefore, Tree
      <4>2. t.next[x] # n
        BY NilAssumption DEF WellLinked, Loose
      <4> QED BY <4>1, <4>2
    <3> QED BY <3>1, <3>2
  <2>3. T # {} /\ T \in SUBSET Node
    BY <1>2, <2>1
  <2> QED BY <2>2, <2>3 DEF Acyclic, Loops
<1>3. ASSUME NEW S \in SUBSET Node, S # {}, \A x \in S : u.prev[x] \in S
      PROVE  FALSE
  <2> DEFINE T == S \ {n}
  <2>1. t.prev[to] # n
    BY NilAssumption DEF WellLinked, Loose
  <2>2. n \in S => t.prev[to] \in T
    BY <1>3, <2>1 DEF InsertBefore, Tree
  <2>3. ASSUME NEW x \in T PROVE t.prev[x] \in T
    <3>1. CASE x = to
      BY <3>1, <2>2, <1>3 DEF InsertBefore, Tree
    <3>2. CASE x # to
      <4>1. t.prev[x] \in S
        BY <3>2, <1>3 DEF InsertBefore, Tree
      <4>2. t.prev[x] # n
        BY NilAssumption DEF WellLinked, Loose
      <4> QED BY <4>1, <4>2
    <3> QED BY <3>1, <3>2
  <2>4. T # {} /\ T \in SUBSET Node
    BY <1>3, <2>2
  <2> QED BY <2>3, <2>4 DEF Acyclic, Loops
<1> QED BY <1>1, <1>2, <1>3 DEF Acyclic, Loops

\* Nor does lxb_dom_node_insert_after.
LEMMA InsertAfterAcyclic ==
  ASSUME NEW t \in Tree, NEW n \in Node, NEW to \in Node, WellLinked(t),
         Acyclic(t), Loose(t, n), NoneAbove(t, {n}, to), n # to
  PROVE  Acyclic(InsertAfter(t, to, n))
<1> DEFINE u == InsertAfter(t, to, n)
<1>1. ~Loops(u.parent)
  BY HangAcyclic DEF InsertAfter, Tree, Acyclic
<1>2. ASSUME NEW S \in SUBSET Node, S # {}, \A x \in S : u.next[x] \in S
      PROVE  FALSE
  <2> DEFINE T == S \ {n}
  <2>1. t.next[to] # n
    BY NilAssumption DEF WellLinked, Loose
  <2>2. n \in S => t.next[to] \in T
    BY <1>2, <2>1 DEF InsertAfter, Tree
  <2>3. ASSUME NEW x \in T PROVE t.next[x] \in T
    <3>1. CASE x = to
      BY <3>1, <2>2, <1>2 DEF InsertAfter, Tree
    <3>2. CASE x # to
      <4>1. t.next[x] \in S
        BY <3>2, <1>2 DEF InsertAfter, Tree
      <4>2. t.next[x] # n
        BY NilAssumption DEF WellLinked, Loose
      <4> QED BY <4>1, <4>2
    <3> QED BY <3>1, <3>2
  <2>4. T # {} /\ T \in SUBSET Node
    BY <1>2, <2>2
  <2> QED BY <2>3, <2>4 DEF Acyclic, Loops
<1>3. ASSUME NEW S \in SUBSET Node, S # {}, \A x \in S : u.prev[x] \in S
      PROVE  FALSE
  <2> DEFINE T == S \ {n}
  <2>1. n \in S => to \in T
    BY <1>3 DEF InsertAfter, Tree
  <2>2. ASSUME NEW x \in T PROVE t.prev[x] \in T
    <3>1. CASE x = t.next[to]
      <4>1. n \in S
        BY <3>1, <1>3 DEF InsertAfter, Tree
      <4>2. t.prev[x] = to
        BY <3>1 DEF WellLinked
      <4> QED BY <4>1, <4>2, <2>1
    <3>2. CASE x # t.next[to]
      <4>1. t.prev[x] \in S
        BY <3>2, <1>3 DEF InsertAfter, Tree
      <4>2. t.prev[x] # n
        BY NilAssumption DEF WellLinked, Loose
      <4> QED BY <4>1, <4>2
    <3> QED BY <3>1, <3>2
  <2>3. T # {} /\ T \in SUBSET Node
    BY <1>3, <2>1
  <2> QED BY <2>2, <2>3 DEF Acyclic, Loops
<1> QED BY <1>1, <1>2, <1>3 DEF Acyclic, Loops
-----------------------------------------------------------------------------
(* Who is above whom.                                                      *)

\* Fewer nodes to be above.
LEMMA NoneAboveFewer ==
  ASSUME NEW t \in Tree, NEW X, NEW Y, NEW y \in Node, Y \subseteq X,
         NoneAbove(t, X, y)
  PROVE  NoneAbove(t, Y, y)
  BY DEF NoneAbove

\* A node is not in a set that holds nothing above it.
LEMMA NoneAboveSelf ==
  ASSUME NEW t \in Tree, NEW X, NEW y \in Node, NoneAbove(t, X, y)
  PROVE  y \notin X /\ t.parent[y] \notin X \ {Nil}
  BY NilAssumption DEF NoneAbove

\* Nothing is above a node without a parent but itself.
LEMMA TopNoneAbove ==
  ASSUME NEW t \in Tree, NEW X, NEW y \in Node, t.parent[y] = Nil, y \notin X
  PROVE  NoneAbove(t, X, y)
<1>1. {y} \in SUBSET Node /\ y \in {y} /\ {y} \cap X = {}
  OBVIOUS
<1>2. \A z \in {y} : t.parent[z] \in {y} \cup {Nil}
  OBVIOUS
<1> QED BY <1>1, <1>2 DEF NoneAbove

\* What holds above the node it hangs from holds of a child as well, and of a
\* childless node: neither is on the way from y to the top.
LEMMA ChildNotAbove ==
  ASSUME NEW t \in Tree, NEW X, NEW y \in Node, NEW c \in Node,
         NoneAbove(t, X, y), t.parent[c] \in X, t.parent[c] # Nil
  PROVE  NoneAbove(t, X \cup {c}, y)
  BY DEF NoneAbove

LEMMA ChildlessNotAbove ==
  ASSUME NEW t \in Tree, NEW X, NEW y \in Node, NEW c \in Node,
         NoneAbove(t, X, y), \A x \in Node : t.parent[x] # c, c # y
  PROVE  NoneAbove(t, X \cup {c}, y)
<1>1. PICK A \in SUBSET Node : /\ y \in A
                              /\ A \cap X = {}
                              /\ \A z \in A : t.parent[z] \in A \cup {Nil}
  BY DEF NoneAbove
<1> DEFINE B == A \ {c}
<1>2. B \in SUBSET Node /\ y \in B /\ B \cap (X \cup {c}) = {}
  BY <1>1
<1>3. \A z \in B : t.parent[z] \in B \cup {Nil}
  BY <1>1
<1> QED BY <1>2, <1>3 DEF NoneAbove

\* In a tree without loops nothing is above its own parent.
LEMMA NotAboveParent ==
  ASSUME NEW t \in Tree, ~Loops(t.parent), NEW s \in Node,
         t.parent[s] # Nil
  PROVE  NoneAbove(t, {s}, t.parent[s])
<1> SUFFICES ASSUME ~NoneAbove(t, {s}, t.parent[s])
             PROVE  FALSE
  OBVIOUS
<1> DEFINE Closed(A) == \A z \in A : t.parent[z] \in A \cup {Nil}
           M == {z \in Node : \A A \in SUBSET Node :
                               z \in A /\ Closed(A) => s \in A}
<1>1. t.parent[s] \in M
  <2>1. t.parent[s] \in Node
    BY DEF Tree, Link
  <2>2. ASSUME NEW A \in SUBSET Node, t.parent[s] \in A, Closed(A), s \notin A
        PROVE  FALSE
    BY <2>2 DEF NoneAbove
  <2> QED BY <2>1, <2>2
<1>2. ASSUME NEW z \in M PROVE t.parent[z] \in M
  <2>1. CASE z = s
    BY <2>1, <1>1
  <2>2. CASE z # s
    <3>1. t.parent[z] # Nil
      <4> SUFFICES ASSUME t.parent[z] = Nil PROVE FALSE
        OBVIOUS
      <4>1. Closed({z}) /\ {z} \in SUBSET Node
        OBVIOUS
      <4>2. s \in {z}
        BY <4>1
      <4> QED BY <4>2, <2>2
    <3>2. t.parent[z] \in Node
      BY <3>1 DEF Tree, Link
    <3>3. ASSUME NEW A \in SUBSET Node, t.parent[z] \in A, Closed(A)
          PROVE  s \in A
      <4>1. Closed(A \cup {z}) /\ A \cup {z} \in SUBSET Node
        BY <3>3
      <4>2. s \in A \cup {z}
        BY <4>1
      <4> QED BY <4>2, <2>2
    <3> QED BY <3>2, <3>3
  <2> QED BY <2>1, <2>2
<1>3. M \in SUBSET Node /\ M # {}
  BY <1>1
<1> HIDE DEF M
<1> QED BY <1>2, <1>3 DEF Loops

\* Removing a node puts nothing above another one.
LEMMA RemoveNoneAbove ==
  ASSUME NEW t \in Tree, NEW n \in Node, NEW X, NEW y \in Node,
         NoneAbove(t, X, y)
  PROVE  NoneAbove(RemoveNode(t, n), X, y)
<1>1. RemoveNode(t, n).parent = [t.parent EXCEPT ![n] = Nil]
  BY DEF RemoveNode
<1> QED BY <1>1 DEF NoneAbove, Tree

\* u differs from t in that n hangs under to or beside it.
Hung(t, u, n, to) ==
  \E p \in {to, t.parent[to]} : u.parent = [t.parent EXCEPT ![n] = p]

\* Nor does hanging one of X elsewhere.
LEMMA HangNoneAbove ==
  ASSUME NEW t \in Tree, NEW u \in Tree, NEW n \in Node, NEW to \in Node,
         Hung(t, u, n, to), NEW X, n \in X, NEW y \in Node, NoneAbove(t, X, y)
  PROVE  NoneAbove(u, X, y)
<1>1. PICK A \in SUBSET Node : /\ y \in A
                              /\ A \cap X = {}
                              /\ \A z \in A : t.parent[z] \in A \cup {Nil}
  BY DEF NoneAbove
<1>2. \A z \in A : u.parent[z] = t.parent[z]
  BY <1>1 DEF Tree, Hung
<1> QED BY <1>1, <1>2 DEF NoneAbove

\* What was not above the target is not above the node hung beside it.
LEMMA HungNoneAbove ==
  ASSUME NEW t \in Tree, NEW u \in Tree, NEW n \in Node, NEW to \in Node,
         Hung(t, u, n, to), NEW X, n \notin X, NoneAbove(t, X, to), NoneAbove(t, {n}, to)
  PROVE  NoneAbove(u, X, n)
<1>1. PICK A \in SUBSET Node : /\ to \in A
                              /\ A \cap X = {}
                              /\ \A z \in A : t.parent[z] \in A \cup {Nil}
  BY DEF NoneAbove
<1> DEFINE B == A \cup {n}
<1>2. B \in SUBSET Node /\ n \in B /\ B \cap X = {}
  BY <1>1
<1>3. \A z \in B : u.parent[z] \in B \cup {Nil}
  BY <1>1 DEF Tree, Hung
<1> QED BY <1>2, <1>3 DEF NoneAbove

-----------------------------------------------------------------------------
(* Nodes that are no part of what happens.                                 *)

\* Removing another node leaves a node without relations so.
LEMMA RemoveKeepsLoose ==
  ASSUME NEW t \in Tree, WellLinked(t), NEW n \in Node, NEW x \in Node
  PROVE  /\ Loose(t, x) => Loose(RemoveNode(t, n), x)
         /\ Isolated(t, x) => Isolated(RemoveNode(t, n), x)
  BY NilAssumption DEF RemoveNode, WellLinked, Tree, Link, Loose, Isolated

\* Removing a node that is nowhere changes nothing.
LEMMA RemoveNothing ==
  ASSUME NEW t \in Tree, WellLinked(t), NEW n \in Node, Loose(t, n)
  PROVE  RemoveNode(t, n) = t
<1> DEFINE u == RemoveNode(t, n)
<1>1. u \in Tree
  BY RemoveNodeType
<1>2. \A x \in Node : /\ u.parent[x] = t.parent[x] /\ u.prev[x] = t.prev[x]
                      /\ u.next[x] = t.next[x] /\ u.first[x] = t.first[x]
                      /\ u.last[x] = t.last[x]
  BY NilAssumption DEF RemoveNode, WellLinked, Tree, Link, Loose
<1> HIDE DEF u
<1>3. /\ u.parent = t.parent /\ u.prev = t.prev /\ u.next = t.next
      /\ u.first = t.first /\ u.last = t.last
  BY <1>1, <1>2 DEF Tree
<1>4. u = t
  BY <1>1, <1>3 DEF Tree
<1> QED BY <1>4 DEF u

\* A node that has no first child and no relations is isolated.
LEMMA LooseAndEmpty ==
  ASSUME NEW t \in Tree, WellLinked(t), Acyclic(t), NEW n \in Node,
         Loose(t, n), t.first[n] = Nil
  PROVE  Isolated(t, n)
<1>1. \A x \in Node : t.parent[x] # n
  BY NoFirstNoChild
<1>2. t.last[n] = Nil
  BY <1>1 DEF WellLinked, Tree, Link
<1> QED BY <1>2 DEF Loose, Isolated

-----------------------------------------------------------------------------
(* Sequences without some of their members (Forests.Without).              *)

\* One more member is looked at.
KeptUnless(X, kept, x) == IF x \in X THEN kept ELSE Append(kept, x)

\* f says what is left of s after each of its places.
Sifts(f, s, X) ==
  /\ f[0] = <<>> /\ f[Len(s)] = Without(s, X)
  /\ \A i \in 1 .. Len(s) : f[i] = KeptUnless(X, f[i - 1], s[i])

\* Without is computed one member at a time.
LEMMA WithoutSteps ==
  ASSUME NEW E, NEW X, NEW s \in Seq(E)
  PROVE  \E f \in [0 .. Len(s) -> Seq(E)] : Sifts(f, s, X)
<1> DEFINE Op(x, y) == KeptUnless(X, x, y)
           step == [p \in Seq(E) \X E |-> Op(p[1], p[2])]
           Is(g) == g = [x \in SUBSET (1 .. Len(s)) |->
                           IF x = {} THEN <<>> ELSE Op(g[x \ {Max(x)}], s[Max(x)])]
           iter == CHOOSE g : Is(g)
<1>1. \A x \in Seq(E), y \in E : Op(x, y) \in Seq(E)
  BY AppendProperties DEF KeptUnless
<1>2. Without(s, X) = iter[1 .. Len(s)]
  <2>1. DOMAIN s = 1 .. Len(s)
    BY LenProperties
  <2> QED
    BY <2>1 DEF Without, KeptUnless, FoldLeft, MapThenFoldSet
<1> HIDE DEF Op
<1>3. step \in [Seq(E) \X E -> Seq(E)] /\ \A x \in Seq(E), y \in E : step[<<x, y>>] = Op(x, y)
  BY <1>1
<1>4. \A x \in SUBSET (1 .. Len(s)) : x # {} => Max(x) \in 1 .. Len(s) /\ s[Max(x)] \in E
  <2>1. Len(s) \in Nat
    BY LenProperties
  <2> QED
    BY <2>1, MaxUpto, ElementOfSeq
<1> HIDE DEF step
<1>5. PICK g \in [SUBSET (1 .. Len(s)) -> Seq(E)] : IsIter(g, step, <<>>, s)
  BY <1>3, IterExists, EmptySeq
<1>6. Is(g)
  BY <1>3, <1>4, <1>5 DEF IsIter
<1>7. Is(iter)
  BY <1>6
<1> HIDE DEF iter
<1>8. IsFoldOf(iter, step, <<>>, s, Seq(E))
  BY <1>3, <1>4, <1>7 DEF IsFoldOf
<1>9. PICK f \in [0 .. Len(s) -> Seq(E)] : TakenFrom(f, iter, step, <<>>, s)
  BY <1>3, <1>8, FoldSteps, EmptySeq
<1>10. \A i \in 1 .. Len(s) : f[i] = Op(f[i - 1], s[i])
  <2> TAKE i \in 1 .. Len(s)
  <2>1. i - 1 \in 0 .. Len(s) /\ s[i] \in E
    BY LenProperties, ElementOfSeq
  <2> QED
    BY <1>3, <1>9, <2>1 DEF TakenFrom
<1> QED
  BY <1>2, <1>9, <1>10 DEF Op, TakenFrom, Sifts

\* Nothing is left of nothing.
LEMMA WithoutEmpty ==
  ASSUME NEW X
  PROVE  Without(<<>>, X) = <<>>
<1>1. <<>> \in Seq({}) /\ Len(<<>>) = 0
  BY EmptySeq
<1>2. PICK f \in [0 .. Len(<<>>) -> Seq({})] : Sifts(f, <<>>, X)
  BY <1>1, WithoutSteps
<1> QED
  BY <1>1, <1>2 DEF Sifts

\* The last member is looked at last.
LEMMA WithoutAppend ==
  ASSUME NEW E, NEW X, NEW s \in Seq(E), NEW x \in E
  PROVE  Without(Append(s, x), X) = KeptUnless(X, Without(s, X), x)
<1> DEFINE t == Append(s, x)
           n == Len(s)
<1>1. t \in Seq(E) /\ Len(t) = n + 1 /\ (\A i \in 1 .. n : t[i] = s[i]) /\ t[n + 1] = x /\ n \in Nat
  BY AppendProperties, LenProperties
<1>2. PICK f \in [0 .. Len(s) -> Seq(E)] : Sifts(f, s, X)
  BY WithoutSteps
<1>3. PICK g \in [0 .. Len(t) -> Seq(E)] : Sifts(g, t, X)
  BY <1>1, WithoutSteps
<1>4. f[n] = Without(s, X) /\ g[n + 1] = Without(t, X) /\ f[0] = <<>> /\ g[0] = <<>>
  BY <1>1, <1>2, <1>3 DEF Sifts
<1> HIDE DEF t
<1>5. \A i \in 1 .. n : f[i] = KeptUnless(X, f[i - 1], s[i])
  BY <1>2 DEF Sifts
<1>6. \A i \in 1 .. n + 1 : g[i] = KeptUnless(X, g[i - 1], t[i])
  BY <1>1, <1>3 DEF Sifts
<1> HIDE DEF n
<1> DEFINE S == {i \in Nat : f[i] = g[i]}
<1>7. 0 \in S
  BY <1>4
<1>8. ASSUME NEW i \in 1 .. n, i - 1 \in S PROVE i \in S
  <2>1. f[i - 1] = g[i - 1] /\ i \in 1 .. n + 1 /\ t[i] = s[i] /\ i \in Nat
    BY <1>1, <1>8
  <2> QED
    BY <1>5, <1>6, <2>1
<1> HIDE DEF S
<1>9. n \in S
  <2>1. \A i \in 1 .. n : i - 1 \in S => i \in S
    BY <1>8
  <2>2. \A i \in 0 .. n : i \in S
    BY <1>1, <1>7, <2>1, InductionUpto
  <2> QED
    BY <1>1, <2>2
<1>10. f[n] = g[n]
  BY <1>9 DEF S
<1>11. g[n + 1] = KeptUnless(X, g[(n + 1) - 1], t[n + 1]) /\ (n + 1) - 1 = n
  BY <1>1, <1>6
<1> QED
  BY <1>1, <1>4, <1>10, <1>11 DEF t

\* What is left are the members that are not in X, once each.
LEMMA WithoutFacts ==
  ASSUME NEW E, NEW X, NEW s \in Seq(E)
  PROVE  /\ Without(s, X) \in Seq(E) /\ ToSet(Without(s, X)) = ToSet(s) \ X
         /\ IsInjective(s) => IsInjective(Without(s, X))
<1> DEFINE T == {r \in Seq(E) : /\ Without(r, X) \in Seq(E) /\ ToSet(Without(r, X)) = ToSet(r) \ X
                                /\ IsInjective(r) => IsInjective(Without(r, X))}
<1>1. <<>> \in T
  BY EmptySeq, WithoutEmpty, SetOfEmpty
<1>2. ASSUME NEW r \in Seq(E), NEW x \in E, r \in T PROVE Append(r, x) \in T
  <2>1. /\ Append(r, x) \in Seq(E) /\ ToSet(Append(r, x)) = ToSet(r) \cup {x}
        /\ IsInjective(Append(r, x)) <=> IsInjective(r) /\ x \notin ToSet(r)
    BY AppendProperties, SetOfAppend
  <2>2. /\ Without(r, X) \in Seq(E) /\ ToSet(Without(r, X)) = ToSet(r) \ X
        /\ IsInjective(r) => IsInjective(Without(r, X))
    BY <1>2
  <2>3. Without(Append(r, x), X) = KeptUnless(X, Without(r, X), x)
    BY WithoutAppend
  <2> DEFINE w == Without(r, X)
             t == Append(r, x)
  <2>4. /\ Append(w, x) \in Seq(E) /\ ToSet(Append(w, x)) = ToSet(w) \cup {x}
        /\ IsInjective(Append(w, x)) <=> IsInjective(w) /\ x \notin ToSet(w)
    BY <2>2, AppendProperties, SetOfAppend
  <2> HIDE DEF w, t
  <2>5. CASE x \in X
    <3>1. Without(t, X) = w
      BY <2>3, <2>5 DEF KeptUnless, w, t
    <3> QED
      BY <2>1, <2>2, <2>5, <3>1 DEF w, t
  <2>6. CASE x \notin X
    <3>1. Without(t, X) = Append(w, x)
      BY <2>3, <2>6 DEF KeptUnless, w, t
    <3>2. /\ Without(t, X) \in Seq(E) /\ ToSet(Without(t, X)) = ToSet(t) \ X
          /\ IsInjective(t) => IsInjective(Without(t, X))
      BY <2>1, <2>2, <2>4, <2>6, <3>1 DEF w, t
    <3> QED
      BY <2>1, <3>2 DEF t
  <2> QED
    BY <2>5, <2>6
<1> HIDE DEF T
<1>3. \A r \in Seq(E) : r \in T
  BY <1>1, <1>2, SeqInduction
<1> QED
  BY <1>3 DEF T

\* Nothing is taken from a sequence that has no member in X.
LEMMA WithoutNone ==
  ASSUME NEW E, NEW X, NEW s \in Seq(E), ToSet(s) \cap X = {}
  PROVE  Without(s, X) = s
<1> DEFINE T == {r \in Seq(E) : ToSet(r) \cap X = {} => Without(r, X) = r}
<1>1. <<>> \in T
  BY EmptySeq, WithoutEmpty
<1>2. ASSUME NEW r \in Seq(E), NEW x \in E, r \in T PROVE Append(r, x) \in T
  <2>1. Append(r, x) \in Seq(E) /\ ToSet(Append(r, x)) = ToSet(r) \cup {x}
    BY AppendProperties, SetOfAppend
  <2>2. Without(Append(r, x), X) = KeptUnless(X, Without(r, X), x)
    BY WithoutAppend
  <2>3. ASSUME ToSet(Append(r, x)) \cap X = {} PROVE Without(Append(r, x), X) = Append(r, x)
    <3>1. ToSet(r) \cap X = {} /\ x \notin X
      BY <2>1, <2>3
    <3>2. Without(r, X) = r
      BY <1>2, <3>1
    <3> QED
      BY <2>2, <3>1, <3>2 DEF KeptUnless
  <2> QED
    BY <2>1, <2>3
<1> HIDE DEF T
<1>3. \A r \in Seq(E) : r \in T
  BY <1>1, <1>2, SeqInduction
<1> QED
  BY <1>3 DEF T

\* First of one set, then of another.
LEMMA WithoutTwice ==
  ASSUME NEW E, NEW X, NEW Y, NEW s \in Seq(E)
  PROVE  Without(Without(s, X), Y) = Without(s, X \cup Y)
<1> DEFINE T == {r \in Seq(E) : Without(Without(r, X), Y) = Without(r, X \cup Y)}
<1>1. <<>> \in T
  BY EmptySeq, WithoutEmpty
<1>2. ASSUME NEW r \in Seq(E), NEW x \in E, r \in T PROVE Append(r, x) \in T
  <2> DEFINE w == Without(r, X)
  <2>1. Append(r, x) \in Seq(E) /\ w \in Seq(E) /\ Without(w, Y) = Without(r, X \cup Y)
    BY <1>2, AppendProperties, WithoutFacts
  <2> HIDE DEF w
  <2>2. /\ Without(Append(r, x), X) = KeptUnless(X, w, x)
        /\ Without(Append(r, x), X \cup Y) = KeptUnless(X \cup Y, Without(w, Y), x)
        /\ Without(Append(w, x), Y) = KeptUnless(Y, Without(w, Y), x)
    BY <2>1, WithoutAppend DEF w
  <2>3. Without(Without(Append(r, x), X), Y) = Without(Append(r, x), X \cup Y)
    <3>1. CASE x \in X
      BY <2>2, <3>1 DEF KeptUnless
    <3>2. CASE x \notin X /\ x \in Y
      BY <2>2, <3>2 DEF KeptUnless
    <3>3. CASE x \notin X /\ x \notin Y
      BY <2>2, <3>3 DEF KeptUnless
    <3> QED
      BY <3>1, <3>2, <3>3
  <2> QED
    BY <2>1, <2>3
<1> HIDE DEF T
<1>3. \A r \in Seq(E) : r \in T
  BY <1>1, <1>2, SeqInduction
<1> QED
  BY <1>3 DEF T

\* The parts of a sequence are sifted one by one.
LEMMA WithoutConcat ==
  ASSUME NEW E, NEW X, NEW s \in Seq(E), NEW t \in Seq(E)
  PROVE  Without(s \o t, X) = Without(s, X) \o Without(t, X)
<1> DEFINE T == {r \in Seq(E) : Without(s \o r, X) = Without(s, X) \o Without(r, X)}
<1>0. Without(s, X) \in Seq(E)
  BY WithoutFacts
<1>1. <<>> \in T
  BY <1>0, EmptySeq, WithoutEmpty, ConcatEmptySeq
<1>2. ASSUME NEW r \in Seq(E), NEW x \in E, r \in T PROVE Append(r, x) \in T
  <2>1. Append(r, x) \in Seq(E) /\ s \o r \in Seq(E) /\ Without(r, X) \in Seq(E)
    BY AppendProperties, ConcatProperties, WithoutFacts
  <2>2. s \o Append(r, x) = Append(s \o r, x)
    BY AppendToConcat
  <2>3. /\ Without(Append(s \o r, x), X) = KeptUnless(X, Without(s \o r, X), x)
        /\ Without(Append(r, x), X) = KeptUnless(X, Without(r, X), x)
    BY <2>1, WithoutAppend
  <2>4. Without(s \o r, X) = Without(s, X) \o Without(r, X)
    BY <1>2
  <2>5. Append(Without(s, X) \o Without(r, X), x) = Without(s, X) \o Append(Without(r, X), x)
    <3> DEFINE a == Without(s, X)
               b == Without(r, X)
    <3>1. a \in Seq(E) /\ b \in Seq(E)
      BY <1>0, <2>1
    <3> HIDE DEF a, b
    <3>2. a \o Append(b, x) = Append(a \o b, x)
      BY <3>1, AppendToConcat
    <3> QED
      BY <3>2 DEF a, b
  <2>6. Without(s \o Append(r, x), X) = Without(s, X) \o Without(Append(r, x), X)
    BY <2>2, <2>3, <2>4, <2>5 DEF KeptUnless
  <2> QED
    BY <2>1, <2>6
<1> HIDE DEF T
<1>3. \A r \in Seq(E) : r \in T
  BY <1>1, <1>2, SeqInduction
<1> QED
  BY <1>3 DEF T

\* A single member stays or goes.
LEMMA WithoutOne ==
  ASSUME NEW x, NEW X
  PROVE  Without(<<x>>, X) = IF x \in X THEN <<>> ELSE <<x>>
<1>1. <<>> \in Seq({x}) /\ Append(<<>>, x) = <<x>>
  BY EmptySeq
<1>2. Without(Append(<<>>, x), X) = KeptUnless(X, Without(<<>>, X), x)
  BY <1>1, WithoutAppend
<1> QED
  BY <1>1, <1>2, WithoutEmpty DEF KeptUnless

-----------------------------------------------------------------------------
(* A sequence in the place of one member (Forests.Around).                 *)

\* Operators on sequences under names that the provers do not expand.
Cat(s, t) == s \o t

\* A sequence of one.
One(x) == <<x>>

\* The parts of u \o <<x>> \o v.
LEMMA Parts ==
  ASSUME NEW E, NEW u \in Seq(E), NEW x \in E, NEW v \in Seq(E)
  PROVE  LET s == u \o <<x>> \o v
         IN /\ s \in Seq(E) /\ Len(s) = Len(u) + 1 + Len(v) /\ s[Len(u) + 1] = x
            /\ \A i \in 1 .. Len(u) : s[i] = u[i]
            /\ \A i \in 1 .. Len(v) : s[Len(u) + 1 + i] = v[i]
            /\ ToSet(s) = ToSet(u) \cup {x} \cup ToSet(v)
            /\ IsInjective(s) <=> /\ IsInjective(u) /\ IsInjective(v)
                                  /\ x \notin ToSet(u) /\ x \notin ToSet(v)
                                  /\ ToSet(u) \cap ToSet(v) = {}
            /\ s # <<>>
<1> DEFINE o == <<x>>
           w == u \o o
           s == w \o v
           n == Len(u)
           m == Len(v)
<1>1. o \in Seq(E) /\ Len(o) = 1 /\ o[1] = x /\ ToSet(o) = {x} /\ IsInjective(o)
  BY SetOfOne
<1> HIDE DEF o
<1>2. n \in Nat /\ m \in Nat
  BY LenProperties
<1>3. /\ w \in Seq(E) /\ Len(w) = n + 1
      /\ \A i \in 1 .. n + 1 : w[i] = IF i <= n THEN u[i] ELSE o[i - n]
      /\ ToSet(w) = ToSet(u) \cup {x}
      /\ IsInjective(w) <=> IsInjective(u) /\ ToSet(u) \cap {x} = {}
  <2>1. /\ w \in Seq(E) /\ Len(w) = n + Len(o)
        /\ \A i \in 1 .. n + Len(o) : w[i] = IF i <= n THEN u[i] ELSE o[i - n]
    BY <1>1, ConcatProperties
  <2>2. /\ ToSet(w) = ToSet(u) \cup ToSet(o)
        /\ IsInjective(w) <=> IsInjective(u) /\ IsInjective(o) /\ ToSet(u) \cap ToSet(o) = {}
    BY <1>1, SetOfConcat
  <2> QED
    BY <1>1, <2>1, <2>2
<1> HIDE DEF w
<1>4. /\ s \in Seq(E) /\ Len(s) = n + 1 + m
      /\ \A i \in 1 .. n + 1 + m : s[i] = IF i <= n + 1 THEN w[i] ELSE v[i - (n + 1)]
      /\ ToSet(s) = ToSet(w) \cup ToSet(v)
      /\ IsInjective(s) <=> IsInjective(w) /\ IsInjective(v) /\ ToSet(w) \cap ToSet(v) = {}
  <2>1. /\ s \in Seq(E) /\ Len(s) = Len(w) + m
        /\ \A i \in 1 .. Len(w) + m : s[i] = IF i <= Len(w) THEN w[i] ELSE v[i - Len(w)]
    BY <1>3, ConcatProperties
  <2>2. /\ ToSet(s) = ToSet(w) \cup ToSet(v)
        /\ IsInjective(s) <=> IsInjective(w) /\ IsInjective(v) /\ ToSet(w) \cap ToSet(v) = {}
    BY <1>3, SetOfConcat
  <2> QED
    BY <1>3, <2>1, <2>2
<1> HIDE DEF s, n, m
<1>5. s[n + 1] = x
  <2>1. n + 1 \in 1 .. n + 1 + m /\ n + 1 <= n + 1 /\ ~(n + 1 <= n) /\ (n + 1) - n = 1 /\ n + 1 \in 1 .. n + 1
    BY <1>2
  <2> QED
    BY <1>1, <1>3, <1>4, <2>1
<1>6. \A i \in 1 .. n : s[i] = u[i]
  <2> TAKE i \in 1 .. n
  <2>1. i \in 1 .. n + 1 + m /\ i <= n + 1 /\ i <= n /\ i \in 1 .. n + 1
    BY <1>2
  <2> QED
    BY <1>3, <1>4, <2>1
<1>7. \A i \in 1 .. m : s[n + 1 + i] = v[i]
  <2> TAKE i \in 1 .. m
  <2>1. n + 1 + i \in 1 .. n + 1 + m /\ ~(n + 1 + i <= n + 1) /\ (n + 1 + i) - (n + 1) = i
    BY <1>2
  <2> QED
    BY <1>4, <2>1
<1>8. ToSet(s) = ToSet(u) \cup {x} \cup ToSet(v)
  BY <1>3, <1>4
<1>9. IsInjective(s) <=> /\ IsInjective(u) /\ IsInjective(v)
                         /\ x \notin ToSet(u) /\ x \notin ToSet(v)
                         /\ ToSet(u) \cap ToSet(v) = {}
  BY <1>3, <1>4
<1>10. s # <<>>
  <2>1. Len(s) # 0
    BY <1>2, <1>4
  <2> QED
    BY <2>1, EmptySeq
<1> QED
  BY <1>4, <1>5, <1>6, <1>7, <1>8, <1>9, <1>10 DEF s, w, o, n, m

\* What is written in the place of x.
LEMMA AroundThere ==
  ASSUME NEW E, NEW u \in Seq(E), NEW x \in E, NEW v \in Seq(E), IsInjective(Cat(Cat(u, One(x)), v)), NEW list
  PROVE  Around(Cat(Cat(u, One(x)), v), x, list) = Cat(Cat(u, list), v)
<1> DEFINE s == u \o <<x>> \o v
           n == Len(u)
           m == Len(v)
           k == n + 1
<1>1. /\ s \in Seq(E) /\ Len(s) = n + 1 + m /\ s[n + 1] = x
      /\ \A i \in 1 .. n : s[i] = u[i]
      /\ \A i \in 1 .. m : s[n + 1 + i] = v[i]
  BY Parts
<1>2. n \in Nat /\ m \in Nat /\ DOMAIN s = 1 .. Len(s) /\ IsInjective(s)
  <2>1. n \in Nat /\ m \in Nat /\ DOMAIN s = 1 .. Len(s)
    BY <1>1, LenProperties
  <2>2. Cat(Cat(u, One(x)), v) = s
    BY DEF Cat, One
  <2>3. IsInjective(s)
    <3> HIDE DEF s
    <3> QED BY <2>2
  <2> QED BY <2>1, <2>3
<1> HIDE DEF s, n, m
<1>3. k \in 1 .. Len(s) /\ s[k] = x /\ \A i \in 1 .. Len(s) : s[i] = x => i = k
  <2>1. k \in 1 .. Len(s) /\ s[k] = x
    BY <1>1, <1>2
  <2>2. \A i, j \in DOMAIN s : s[i] = s[j] => i = j
    BY <1>2 DEF IsInjective
  <2> QED BY <1>2, <2>1, <2>2
<1>4. {i \in 1 .. Len(s) : s[i] = x} = {k}
  BY <1>3
<1>5. SelectInSeq(s, LAMBDA y : y = x) = k
  <2>1. Min({k}) = k
    <3>1. k \in Nat
      BY <1>2
    <3> QED
      BY <3>1 DEF Min
  <2> QED
    BY <1>4, <2>1 DEF SelectInSeq
<1>6. k # 0 /\ k - 1 = n
  BY <1>2
<1>7. SubSeq(s, 1, k - 1) = u
  <2> DEFINE a == SubSeq(s, 1, n)
  <2>1. a \in Seq(E) /\ Len(a) = n - 1 + 1 /\ \A i \in 1 .. n - 1 + 1 : a[i] = s[1 + i - 1]
    <3>1. 1 \in Nat \ {0} /\ n \in Int /\ 1 - 1 <= n /\ n <= Len(s)
      BY <1>1, <1>2
    <3> QED
      BY <1>1, <3>1, Segment
  <2> HIDE DEF a
  <2>2. n - 1 + 1 = n /\ \A i \in 1 .. n : 1 + i - 1 = i
    BY <1>2
  <2>3. Len(a) = n /\ \A i \in 1 .. n : a[i] = u[i]
    BY <1>1, <2>1, <2>2
  <2>4. a = u
    BY <2>1, <2>3, SeqEqual DEF n
  <2> QED
    BY <1>6, <2>4 DEF a
<1>8. SubSeq(s, k + 1, Len(s)) = v
  <2> DEFINE a == SubSeq(s, k + 1, Len(s))
  <2>1. a \in Seq(E) /\ Len(a) = Len(s) - (k + 1) + 1 /\ \A i \in 1 .. Len(s) - (k + 1) + 1 : a[i] = s[(k + 1) + i - 1]
    <3>1. k + 1 \in Nat \ {0} /\ Len(s) \in Int /\ (k + 1) - 1 <= Len(s) /\ Len(s) <= Len(s)
      BY <1>1, <1>2
    <3> QED
      BY <1>1, <3>1, Segment
  <2> HIDE DEF a
  <2>2. Len(s) - (k + 1) + 1 = m /\ \A i \in 1 .. m : (k + 1) + i - 1 = n + 1 + i
    BY <1>1, <1>2
  <2>3. Len(a) = m /\ \A i \in 1 .. m : a[i] = v[i]
    BY <1>1, <2>1, <2>2
  <2>4. a = v
    BY <2>1, <2>3, SeqEqual DEF m
  <2> QED
    BY <2>4 DEF a
<1> HIDE DEF k
<1>9. Around(s, x, list) = u \o list \o v
  BY <1>5, <1>6, <1>7, <1>8 DEF Around
<1> QED
  BY <1>9 DEF s, Cat, One

\* A sequence that does not have x stays.
LEMMA AroundAbsent ==
  ASSUME NEW E, NEW s \in Seq(E), NEW x, x \notin ToSet(s), NEW list
  PROVE  Around(s, x, list) = s
<1>1. DOMAIN s = 1 .. Len(s)
  BY LenProperties
<1>2. {i \in 1 .. Len(s) : s[i] = x} = {}
  BY <1>1 DEF ToSet
<1>3. SelectInSeq(s, LAMBDA y : y = x) = 0
  BY <1>2 DEF SelectInSeq
<1> QED
  BY <1>3 DEF Around

-----------------------------------------------------------------------------
(* The same of lists of nodes.                                             *)

\* The sequences of nodes.
Rows == Seq(Node)

\* The members of two lists put together.
LEMMA CatFacts ==
  ASSUME NEW s \in Rows, NEW t \in Rows
  PROVE  /\ Cat(s, t) \in Rows
         /\ ToSet(Cat(s, t)) = ToSet(s) \cup ToSet(t)
         /\ IsInjective(Cat(s, t)) <=> IsInjective(s) /\ IsInjective(t) /\ ToSet(s) \cap ToSet(t) = {}
<1>1. s \o t \in Seq(Node)
  BY ConcatProperties DEF Rows
<1>2. /\ ToSet(s \o t) = ToSet(s) \cup ToSet(t)
      /\ IsInjective(s \o t) <=> IsInjective(s) /\ IsInjective(t) /\ ToSet(s) \cap ToSet(t) = {}
  BY SetOfConcat DEF Rows
<1> QED BY <1>1, <1>2 DEF Cat, Rows

\* Three lists are put together in one way.
LEMMA CatAssoc ==
  ASSUME NEW r \in Rows, NEW s \in Rows, NEW t \in Rows
  PROVE  Cat(Cat(r, s), t) = Cat(r, Cat(s, t))
BY ConcatAssociative DEF Rows, Cat

\* Nothing is added by the empty list.
LEMMA CatNone ==
  /\ <<>> \in Rows
  /\ \A s \in Rows : Cat(s, <<>>) = s /\ Cat(<<>>, s) = s
BY ConcatEmptySeq, EmptySeq DEF Rows, Cat

\* Only the empty list has no members.
LEMMA EmptyList ==
  /\ ToSet(<<>>) = {} /\ IsInjective(<<>>)
  /\ \A s \in Rows : ToSet(s) = {} => s = <<>>
<1>1. ASSUME NEW s \in Rows, ToSet(s) = {} PROVE s = <<>>
  <2>1. s \in Seq(Node) /\ DOMAIN s = 1 .. Len(s) /\ Len(s) \in Nat
    BY LenProperties DEF Rows
  <2>2. 1 .. Len(s) = {}
    BY <1>1, <2>1 DEF ToSet
  <2>3. Len(s) = 0
    BY <2>1, <2>2
  <2> QED BY <2>1, <2>3, EmptySeq
<1> QED BY <1>1, SetOfEmpty

\* A list of one node.
LEMMA OneFacts ==
  ASSUME NEW x \in Node
  PROVE  One(x) \in Rows /\ ToSet(One(x)) = {x} /\ IsInjective(One(x))
<1>1. <<x>> \in Seq(Node)
  OBVIOUS
<1>2. ToSet(<<x>>) = {x} /\ IsInjective(<<x>>)
  BY SetOfOne
<1> QED BY <1>1, <1>2 DEF One, Rows

\* Two lists are sifted one by one.
LEMMA WithoutCat ==
  ASSUME NEW X, NEW s \in Rows, NEW t \in Rows
  PROVE  Without(Cat(s, t), X) = Cat(Without(s, X), Without(t, X))
BY WithoutConcat DEF Rows, Cat

\* What is left of a list: its members outside X, once each.
LEMMA WithoutList ==
  ASSUME NEW X, NEW s \in Rows
  PROVE  /\ Without(s, X) \in Rows /\ ToSet(Without(s, X)) = ToSet(s) \ X
         /\ IsInjective(s) => IsInjective(Without(s, X))
         /\ ToSet(s) \cap X = {} => Without(s, X) = s
<1>1. /\ Without(s, X) \in Rows /\ ToSet(Without(s, X)) = ToSet(s) \ X
      /\ IsInjective(s) => IsInjective(Without(s, X))
  BY WithoutFacts DEF Rows
<1>2. ASSUME ToSet(s) \cap X = {} PROVE Without(s, X) = s
  BY <1>2, WithoutNone DEF Rows
<1> QED BY <1>1, <1>2

\* A single node stays or goes.
LEMMA WithoutSingle ==
  ASSUME NEW x, NEW X
  PROVE  Without(One(x), X) = IF x \in X THEN <<>> ELSE One(x)
BY WithoutOne DEF One

\* What comes before a member of a list, and what comes after it.
LEMMA CatSplit ==
  ASSUME NEW s \in Rows, NEW x \in ToSet(s)
  PROVE  \E u, v \in Rows : s = Cat(u, Cat(One(x), v))
<1>0. x \in Node
  <2>1. DOMAIN s = 1 .. Len(s) /\ \A i \in 1 .. Len(s) : s[i] \in Node
    BY LenProperties, ElementOfSeq DEF Rows
  <2> QED BY <2>1 DEF ToSet
<1>1. \E u, v \in Seq(Node) : s = u \o <<x>> \o v
  BY SplitAt DEF Rows
<1>2. PICK u, v : u \in Seq(Node) /\ v \in Seq(Node) /\ s = u \o <<x>> \o v
  BY <1>1
<1>3. u \in Rows /\ v \in Rows /\ s = Cat(Cat(u, One(x)), v)
  BY <1>2 DEF Rows, Cat, One
<1>4. s = Cat(u, Cat(One(x), v))
  BY <1>0, <1>3, CatAssoc, OneFacts
<1> QED BY <1>3, <1>4

\* The place of x is taken by m, between what was around x.
LEMMA AroundCat ==
  ASSUME NEW u \in Rows, NEW x \in Node, NEW v \in Rows,
         IsInjective(Cat(u, Cat(One(x), v))), NEW m \in Rows
  PROVE  Around(Cat(u, Cat(One(x), v)), x, m) = Cat(u, Cat(m, v))
<1>1. Cat(u, Cat(One(x), v)) = Cat(Cat(u, One(x)), v)
  BY CatAssoc, OneFacts
<1>2. IsInjective(Cat(Cat(u, One(x)), v))
  BY <1>1
<1>3. Around(Cat(Cat(u, One(x)), v), x, m) = Cat(Cat(u, m), v)
  BY <1>2, AroundThere DEF Rows
<1>4. Cat(Cat(u, m), v) = Cat(u, Cat(m, v))
  BY CatAssoc
<1> QED BY <1>1, <1>3, <1>4

\* A list that x is not in stays as it is.
LEMMA AroundNone ==
  ASSUME NEW s \in Rows, NEW x, x \notin ToSet(s), NEW m
  PROVE  Around(s, x, m) = s
BY AroundAbsent DEF Rows

\* Taking out nodes and putting a list round another node are independent.
LEMMA WithoutAround ==
  ASSUME NEW X, NEW s \in Rows, IsInjective(s), NEW at \in Node, at \notin X, NEW m \in Rows
  PROVE  Without(Around(s, at, m), X) = Around(Without(s, X), at, Without(m, X))
<1>0. Without(s, X) \in Rows /\ ToSet(Without(s, X)) = ToSet(s) \ X /\ IsInjective(Without(s, X))
  BY WithoutList
<1>1. CASE at \in ToSet(s)
  <2>1. PICK u, v : u \in Rows /\ v \in Rows /\ s = Cat(u, Cat(One(at), v))
    BY <1>1, CatSplit
  <2> DEFINE o == One(at)
  <2>2. o \in Rows /\ Without(o, X) = o
    BY OneFacts, WithoutSingle
  <2>3. Around(s, at, m) = Cat(u, Cat(m, v))
    BY <2>1, AroundCat
  <2>4. Without(Cat(u, Cat(m, v)), X) = Cat(Without(u, X), Cat(Without(m, X), Without(v, X)))
    BY <2>1, WithoutCat, CatFacts
  <2>5. Without(s, X) = Cat(Without(u, X), Cat(o, Without(v, X)))
    BY <2>1, <2>2, WithoutCat, CatFacts
  <2>6. Without(u, X) \in Rows /\ Without(v, X) \in Rows /\ Without(m, X) \in Rows
    BY <2>1, WithoutList
  <2>7. Around(Without(s, X), at, Without(m, X)) = Cat(Without(u, X), Cat(Without(m, X), Without(v, X)))
    BY <1>0, <2>5, <2>6, AroundCat
  <2> QED BY <2>3, <2>4, <2>7
<1>2. CASE at \notin ToSet(s)
  <2>1. Around(s, at, m) = s
    BY <1>2, AroundNone
  <2>2. at \notin ToSet(Without(s, X))
    BY <1>0, <1>2
  <2>3. Around(Without(s, X), at, Without(m, X)) = Without(s, X)
    BY <1>0, <2>2, AroundNone
  <2> QED BY <2>1, <2>3
<1> QED BY <1>1, <1>2

\* A list in the place of a node, and another in the place of one of its
\* members.
LEMMA AroundAround ==
  ASSUME NEW s \in Rows, IsInjective(s), NEW at \in Node,
         NEW a \in Rows, NEW to \in Node, NEW b \in Rows, NEW m, m = Cat(a, Cat(One(to), b)),
         IsInjective(m), at \in ToSet(m), (ToSet(m) \ {at}) \cap ToSet(s) = {}, NEW z \in Rows
  PROVE  Around(Around(s, at, m), to, z) = Around(s, at, Cat(a, Cat(z, b)))
<1> DEFINE o == One(to)
           k == Cat(a, Cat(z, b))
<1>0. o \in Rows /\ m \in Rows /\ k \in Rows
  BY OneFacts, CatFacts
<1>1. /\ ToSet(m) = ToSet(a) \cup {to} \cup ToSet(b)
      /\ IsInjective(a) /\ IsInjective(b) /\ to \notin ToSet(a) /\ to \notin ToSet(b)
      /\ ToSet(a) \cap ToSet(b) = {}
  <2>1. ToSet(o) = {to}
    BY OneFacts
  <2>2. ToSet(Cat(o, b)) = {to} \cup ToSet(b) /\ Cat(o, b) \in Rows
    BY <1>0, <2>1, CatFacts
  <2>3. /\ ToSet(m) = ToSet(a) \cup ToSet(Cat(o, b))
        /\ IsInjective(a) /\ IsInjective(Cat(o, b)) /\ ToSet(a) \cap ToSet(Cat(o, b)) = {}
    BY <2>2, CatFacts
  <2>4. IsInjective(b) /\ ToSet(o) \cap ToSet(b) = {}
    BY <1>0, <2>3, CatFacts
  <2> QED BY <2>1, <2>2, <2>3, <2>4
<1> HIDE DEF o
<1>2. CASE at \in ToSet(s)
  <2>1. PICK u, v : u \in Rows /\ v \in Rows /\ s = Cat(u, Cat(One(at), v))
    BY <1>2, CatSplit
  <2>2. /\ IsInjective(u) /\ IsInjective(v) /\ ToSet(u) \cap ToSet(v) = {}
        /\ at \notin ToSet(u) /\ at \notin ToSet(v)
        /\ ToSet(s) = ToSet(u) \cup {at} \cup ToSet(v)
    <3>1. One(at) \in Rows /\ ToSet(One(at)) = {at}
      BY OneFacts
    <3>2. /\ Cat(One(at), v) \in Rows /\ ToSet(Cat(One(at), v)) = {at} \cup ToSet(v)
          /\ IsInjective(Cat(One(at), v)) <=> IsInjective(One(at)) /\ IsInjective(v) /\ {at} \cap ToSet(v) = {}
      BY <2>1, <3>1, CatFacts
    <3>3. /\ ToSet(s) = ToSet(u) \cup ToSet(Cat(One(at), v))
          /\ IsInjective(u) /\ IsInjective(Cat(One(at), v)) /\ ToSet(u) \cap ToSet(Cat(One(at), v)) = {}
      BY <2>1, <3>2, CatFacts
    <3> QED BY <3>2, <3>3
  <2>3. Around(s, at, m) = Cat(u, Cat(m, v)) /\ Around(s, at, k) = Cat(u, Cat(k, v))
    BY <1>0, <2>1, AroundCat
  <2> DEFINE c == Cat(u, a)
             d == Cat(b, v)
  <2>4. c \in Rows /\ d \in Rows
    BY <2>1, CatFacts
  <2>5. Cat(u, Cat(m, v)) = Cat(c, Cat(o, d))
    <3>1. Cat(m, v) = Cat(a, Cat(o, d))
      <4>1. Cat(o, b) \in Rows /\ m = Cat(a, Cat(o, b))
        BY <1>0, CatFacts DEF o
      <4>2. Cat(m, v) = Cat(a, Cat(Cat(o, b), v))
        BY <2>1, <4>1, CatAssoc
      <4> QED BY <1>0, <2>1, <4>2, CatAssoc
    <3>2. Cat(o, d) \in Rows
      BY <1>0, <2>4, CatFacts
    <3> QED BY <2>1, <3>1, <3>2, CatAssoc
  <2>6. Cat(u, Cat(k, v)) = Cat(c, Cat(z, d))
    <3>1. Cat(k, v) = Cat(a, Cat(z, d))
      <4>1. Cat(z, b) \in Rows
        BY CatFacts
      <4>2. Cat(k, v) = Cat(a, Cat(Cat(z, b), v))
        BY <2>1, <4>1, CatAssoc
      <4> QED BY <2>1, <4>2, CatAssoc
    <3>2. Cat(z, d) \in Rows
      BY <2>4, CatFacts
    <3> QED BY <2>1, <3>1, <3>2, CatAssoc
  <2>7. /\ ToSet(c) = ToSet(u) \cup ToSet(a) /\ ToSet(d) = ToSet(b) \cup ToSet(v)
        /\ IsInjective(c) <=> IsInjective(u) /\ IsInjective(a) /\ ToSet(u) \cap ToSet(a) = {}
        /\ IsInjective(d) <=> IsInjective(b) /\ IsInjective(v) /\ ToSet(b) \cap ToSet(v) = {}
    BY <2>1, CatFacts
  <2>8. \A x \in ToSet(m) : x \notin ToSet(u) /\ x \notin ToSet(v)
    BY <2>2
  <2> HIDE DEF k, c, d
  <2>9. /\ IsInjective(c) /\ IsInjective(d) /\ to \notin ToSet(c) /\ to \notin ToSet(d)
        /\ ToSet(c) \cap ToSet(d) = {}
    BY <1>1, <2>2, <2>7, <2>8
  <2>10. IsInjective(Cat(c, Cat(o, d)))
    <3>1. ToSet(o) = {to} /\ IsInjective(o)
      BY OneFacts DEF o
    <3>2. Cat(o, d) \in Rows /\ ToSet(Cat(o, d)) = {to} \cup ToSet(d) /\ IsInjective(Cat(o, d))
      BY <1>0, <2>4, <2>9, <3>1, CatFacts
    <3> QED BY <2>4, <2>9, <3>2, CatFacts
  <2>11. Around(Cat(c, Cat(o, d)), to, z) = Cat(c, Cat(z, d))
    BY <2>4, <2>10, AroundCat DEF o
  <2> QED BY <2>3, <2>5, <2>6, <2>11 DEF k
<1>3. CASE at \notin ToSet(s)
  <2>1. Around(s, at, m) = s /\ Around(s, at, k) = s
    BY <1>3, AroundNone
  <2>2. to \notin ToSet(s)
    BY <1>1, <1>3
  <2>3. Around(s, to, z) = s
    BY <2>2, AroundNone
  <2> QED BY <2>1, <2>3
<1> QED BY <1>2, <1>3

-----------------------------------------------------------------------------
(* Forests, and the nodes pulled out of one.                               *)

\* What a forest is made of.
IsForest(f) ==
  /\ f = [kids |-> f.kids, tops |-> f.tops]
  /\ f.kids \in [Node -> Rows] /\ f.tops \in SUBSET Rows

\* s is a row of f: the children of p, or, when p is Nil, a chain without a
\* parent.
Row(f, p, s) ==
  \/ p \in Node /\ s = f.kids[p]
  \/ p = Nil /\ s \in f.tops

\* No row has a node twice, and no chain is empty.
Orderly(f) ==
  /\ IsForest(f)
  /\ \A p, s : Row(f, p, s) => IsInjective(s)
  /\ <<>> \notin f.tops

\* Two forests with the same rows are the same.
LEMMA ForestsEqual ==
  ASSUME NEW f, NEW g, IsForest(f), IsForest(g), \A p \in Node : f.kids[p] = g.kids[p], f.tops = g.tops
  PROVE  f = g
BY DEF IsForest

\* The rows of a forest in which no node is twice in a row.
LEMMA RowFacts ==
  ASSUME NEW f, Orderly(f)
  PROVE  /\ IsForest(f) /\ DOMAIN f.kids = Node
         /\ \A p \in Node : f.kids[p] \in Rows /\ IsInjective(f.kids[p])
         /\ \A s \in f.tops : s \in Rows /\ IsInjective(s) /\ s # <<>>
         /\ \A p, s : Row(f, p, s) => s \in Rows /\ IsInjective(s)
BY DEF Orderly, IsForest, Row

\* What there is to show of such a forest.
LEMMA OrderlyWhen ==
  ASSUME NEW k, NEW t, k \in [Node -> Rows], \A p \in Node : IsInjective(k[p]),
         \A s \in t : s \in Rows /\ IsInjective(s) /\ s # <<>>
  PROVE  Orderly([kids |-> k, tops |-> t])
BY DEF Orderly, IsForest, Row

\* Every node is in one row, once.
Whole(f) ==
  /\ Orderly(f)
  /\ \A p, s, q, r : \A x : Row(f, p, s) /\ Row(f, q, r) /\ x \in ToSet(s) /\ x \in ToSet(r) => p = q /\ s = r
  /\ \A x \in Node : \E p, s : Row(f, p, s) /\ x \in ToSet(s)

\* The rows that are left when the nodes of X are pulled out.
LEMMA PullFacts ==
  ASSUME NEW f, Orderly(f), NEW X
  PROVE  /\ Orderly(Pull(f, X))
         /\ \A p \in Node : Pull(f, X).kids[p] = Without(f.kids[p], X)
         /\ Pull(f, X).tops = {Without(s, X) : s \in f.tops} \ {<<>>}
         /\ \A p, s : Row(Pull(f, X), p, s) => ToSet(s) \cap X = {}
<1> DEFINE k == [p \in Node |-> Without(f.kids[p], X)]
           t == {Without(s, X) : s \in f.tops} \ {<<>>}
<1>1. Pull(f, X) = [kids |-> k, tops |-> t]
  BY RowFacts DEF Pull
<1>2. \A p \in Node : /\ Without(f.kids[p], X) \in Rows /\ IsInjective(Without(f.kids[p], X))
                      /\ ToSet(Without(f.kids[p], X)) \cap X = {}
  BY RowFacts, WithoutList
<1>3. \A s \in f.tops : /\ Without(s, X) \in Rows /\ IsInjective(Without(s, X))
                        /\ ToSet(Without(s, X)) \cap X = {}
  BY RowFacts, WithoutList
<1>4. Orderly([kids |-> k, tops |-> t])
  <2>1. k \in [Node -> Rows] /\ \A p \in Node : IsInjective(k[p])
    BY <1>2
  <2>2. \A s \in t : s \in Rows /\ IsInjective(s) /\ s # <<>>
    BY <1>3
  <2> HIDE DEF k, t
  <2> QED
    BY <2>1, <2>2, OrderlyWhen
<1>5. \A p, s : Row([kids |-> k, tops |-> t], p, s) => ToSet(s) \cap X = {}
  BY <1>2, <1>3 DEF Row
<1> QED
  BY <1>1, <1>4, <1>5

\* First some nodes, then others.
LEMMA PullTwice ==
  ASSUME NEW f, Orderly(f), NEW X, NEW Y
  PROVE  Pull(Pull(f, X), Y) = Pull(f, X \cup Y)
<1> DEFINE g == Pull(f, X)
           h == Pull(g, Y)
           Z == X \cup Y
           e == Pull(f, Z)
<1>1. \A s \in Rows : Without(Without(s, X), Y) = Without(s, Z)
  BY WithoutTwice DEF Rows
<1>2. Without(<<>>, Y) = <<>> /\ Without(<<>>, Z) = <<>>
  BY WithoutEmpty
<1> HIDE DEF Z
<1>3. /\ Orderly(g) /\ (\A p \in Node : g.kids[p] = Without(f.kids[p], X))
      /\ g.tops = {Without(s, X) : s \in f.tops} \ {<<>>}
  BY PullFacts
<1> HIDE DEF g
<1>4. /\ Orderly(h) /\ (\A p \in Node : h.kids[p] = Without(g.kids[p], Y))
      /\ h.tops = {Without(s, Y) : s \in g.tops} \ {<<>>}
  BY <1>3, PullFacts
<1> HIDE DEF h
<1>5. /\ Orderly(e) /\ (\A p \in Node : e.kids[p] = Without(f.kids[p], Z))
      /\ e.tops = {Without(s, Z) : s \in f.tops} \ {<<>>}
  BY PullFacts
<1> HIDE DEF e
<1>6. \A p \in Node : h.kids[p] = e.kids[p]
  BY <1>1, <1>3, <1>4, <1>5, RowFacts
<1>7. \A s \in f.tops : s \in Rows
  BY RowFacts
<1>8. h.tops = e.tops
  <2>1. ASSUME NEW r \in h.tops PROVE r \in e.tops
    <3>1. PICK s \in f.tops : r = Without(Without(s, X), Y)
      BY <1>3, <1>4
    <3> QED BY <1>1, <1>4, <1>5, <1>7, <3>1
  <2>2. ASSUME NEW r \in e.tops PROVE r \in h.tops
    <3>1. PICK s \in f.tops : r = Without(s, Z)
      BY <1>5
    <3>2. r # <<>> /\ r = Without(Without(s, X), Y)
      BY <1>1, <1>5, <1>7, <3>1
    <3>3. Without(s, X) # <<>>
      BY <1>2, <3>2
    <3> QED BY <1>3, <1>4, <3>2, <3>3
  <2> QED
    BY <2>1, <2>2
<1>9. h = e
  BY <1>4, <1>5, <1>6, <1>8, RowFacts, ForestsEqual
<1> QED
  BY <1>9 DEF e, h, g, Z

\* Taking out what is in no row changes nothing.
LEMMA PullNone ==
  ASSUME NEW f, Orderly(f), NEW X, \A p, s : Row(f, p, s) => ToSet(s) \cap X = {}
  PROVE  Pull(f, X) = f
<1> DEFINE g == Pull(f, X)
<1>1. /\ Orderly(g) /\ (\A p \in Node : g.kids[p] = Without(f.kids[p], X))
      /\ g.tops = {Without(s, X) : s \in f.tops} \ {<<>>}
  BY PullFacts
<1> HIDE DEF g
<1>2. \A p, s : Row(f, p, s) => Without(s, X) = s
  BY RowFacts, WithoutList
<1>3. \A p \in Node : g.kids[p] = f.kids[p]
  BY <1>1, <1>2 DEF Row
<1>4. g.tops = f.tops
  <2>1. {Without(s, X) : s \in f.tops} = f.tops
    BY <1>2 DEF Row
  <2>2. <<>> \notin f.tops
    BY RowFacts
  <2> QED
    BY <1>1, <2>1, <2>2
<1>5. g = f
  BY <1>1, <1>3, <1>4, RowFacts, ForestsEqual
<1> QED
  BY <1>5 DEF g

-----------------------------------------------------------------------------
(* Nodes put into a forest.                                                *)

\* The members of a list after one of them was replaced by others.
LEMMA AroundList ==
  ASSUME NEW s \in Rows, IsInjective(s), NEW at \in Node, NEW m \in Rows
  PROVE  /\ Around(s, at, m) \in Rows
         /\ ToSet(Around(s, at, m)) = IF at \in ToSet(s) THEN (ToSet(s) \ {at}) \cup ToSet(m) ELSE ToSet(s)
         /\ IsInjective(m) /\ ToSet(m) \cap (ToSet(s) \ {at}) = {} => IsInjective(Around(s, at, m))
<1>1. CASE at \in ToSet(s)
  <2>1. PICK u, v : u \in Rows /\ v \in Rows /\ s = Cat(u, Cat(One(at), v))
    BY <1>1, CatSplit
  <2>2. One(at) \in Rows /\ ToSet(One(at)) = {at}
    BY OneFacts
  <2>3. /\ Cat(One(at), v) \in Rows /\ ToSet(Cat(One(at), v)) = {at} \cup ToSet(v)
        /\ IsInjective(Cat(One(at), v)) <=> IsInjective(One(at)) /\ IsInjective(v) /\ {at} \cap ToSet(v) = {}
    BY <2>1, <2>2, CatFacts
  <2>4. /\ ToSet(s) = ToSet(u) \cup ToSet(Cat(One(at), v))
        /\ IsInjective(u) /\ IsInjective(Cat(One(at), v)) /\ ToSet(u) \cap ToSet(Cat(One(at), v)) = {}
    BY <2>1, <2>3, CatFacts
  <2>5. ToSet(s) \ {at} = ToSet(u) \cup ToSet(v) /\ ToSet(u) \cap ToSet(v) = {} /\ IsInjective(v)
    BY <2>3, <2>4
  <2>6. /\ Cat(m, v) \in Rows /\ ToSet(Cat(m, v)) = ToSet(m) \cup ToSet(v)
        /\ IsInjective(Cat(m, v)) <=> IsInjective(m) /\ IsInjective(v) /\ ToSet(m) \cap ToSet(v) = {}
    BY <2>1, CatFacts
  <2>7. /\ Cat(u, Cat(m, v)) \in Rows
        /\ ToSet(Cat(u, Cat(m, v))) = ToSet(u) \cup ToSet(Cat(m, v))
        /\ IsInjective(Cat(u, Cat(m, v))) <=>
             IsInjective(u) /\ IsInjective(Cat(m, v)) /\ ToSet(u) \cap ToSet(Cat(m, v)) = {}
    BY <2>1, <2>6, CatFacts
  <2>8. Around(s, at, m) = Cat(u, Cat(m, v))
    BY <2>1, AroundCat
  <2>9. ToSet(Around(s, at, m)) = (ToSet(s) \ {at}) \cup ToSet(m)
    BY <2>5, <2>6, <2>7, <2>8
  <2>10. ASSUME IsInjective(m), ToSet(m) \cap (ToSet(s) \ {at}) = {}
         PROVE  IsInjective(Around(s, at, m))
    <3>1. ToSet(m) \cap ToSet(v) = {} /\ ToSet(u) \cap ToSet(Cat(m, v)) = {}
      BY <2>5, <2>6, <2>10
    <3> QED BY <2>4, <2>5, <2>6, <2>7, <2>8, <2>10, <3>1
  <2> QED BY <1>1, <2>7, <2>8, <2>9, <2>10
<1>2. CASE at \notin ToSet(s)
  <2>1. Around(s, at, m) = s
    BY <1>2, AroundNone
  <2> QED BY <1>2, <2>1
<1> QED BY <1>1, <1>2

\* The list that takes the place of at when l is put beside it.
Beside(how, at, l) == IF how = "next" THEN Cat(One(at), l) ELSE Cat(l, One(at))

\* The nodes of l, which are in no row, put where how and at say.
Place(g, how, at, l) ==
  IF how = "child" THEN [g EXCEPT !.kids[at] = Cat(@, l)] ELSE Splice(g, at, Beside(how, at, l))

\* The nodes of l moved there.
Put(f, how, at, l) == Place(Pull(f, ToSet(l)), how, at, l)

\* Where nl_node_add_nodes puts nodes: under at, behind it or in front of it.
How == {"child", "next", "previous"}

\* at with the new nodes beside it.
LEMMA BesideFacts ==
  ASSUME NEW how, NEW at \in Node, NEW l \in Rows, at \notin ToSet(l), IsInjective(l)
  PROVE  /\ Beside(how, at, l) \in Rows /\ ToSet(Beside(how, at, l)) = ToSet(l) \cup {at}
         /\ IsInjective(Beside(how, at, l)) /\ at \in ToSet(Beside(how, at, l))
<1>1. One(at) \in Rows /\ ToSet(One(at)) = {at} /\ IsInjective(One(at))
  BY OneFacts
<1>2. CASE how = "next"
  BY <1>1, <1>2, CatFacts DEF Beside
<1>3. CASE how # "next"
  BY <1>1, <1>3, CatFacts DEF Beside
<1> QED BY <1>2, <1>3

\* Sifting at and the nodes beside it.
LEMMA WithoutBeside ==
  ASSUME NEW how, NEW at \in Node, NEW l \in Rows, NEW X, at \notin X
  PROVE  Without(Beside(how, at, l), X) = Beside(how, at, Without(l, X))
<1>1. One(at) \in Rows /\ Without(One(at), X) = One(at)
  BY OneFacts, WithoutSingle
<1>2. CASE how = "next"
  BY <1>1, <1>2, WithoutCat DEF Beside
<1>3. CASE how # "next"
  BY <1>1, <1>3, WithoutCat DEF Beside
<1> QED BY <1>2, <1>3

\* One row of Place.
PlaceRow(s, how, at, l) == Around(s, at, Beside(how, at, l))

\* Putting nodes beside at changes every row in the same way.
LEMMA SpliceIs ==
  ASSUME NEW g, Orderly(g), NEW how \in How \ {"child"}, NEW at, NEW l
  PROVE  Place(g, how, at, l) = [kids |-> [p \in Node |-> PlaceRow(g.kids[p], how, at, l)],
                                 tops |-> {PlaceRow(s, how, at, l) : s \in g.tops}]
<1>1. DOMAIN g.kids = Node
  BY RowFacts
<1> QED BY <1>1 DEF Place, Splice, PlaceRow

\* Putting nodes under at extends its row.
LEMMA ExtendIs ==
  ASSUME NEW g, Orderly(g), NEW at \in Node, NEW l
  PROVE  Place(g, "child", at, l) = [kids |-> [p \in Node |-> IF p = at THEN Cat(g.kids[p], l) ELSE g.kids[p]],
                                     tops |-> g.tops]
<1>1. g = [kids |-> g.kids, tops |-> g.tops] /\ g.kids \in [Node -> Rows]
  BY DEF Orderly, IsForest
<1>2. Place(g, "child", at, l) = [g EXCEPT !.kids[at] = Cat(@, l)]
  BY DEF Place
<1>3. [g EXCEPT !.kids[at] = Cat(@, l)] = [kids |-> [g.kids EXCEPT ![at] = Cat(@, l)], tops |-> g.tops]
  BY <1>1
<1>4. [g.kids EXCEPT ![at] = Cat(@, l)] = [p \in Node |-> IF p = at THEN Cat(g.kids[p], l) ELSE g.kids[p]]
  BY <1>1
<1> QED BY <1>2, <1>3, <1>4

\* The rows after nodes that are in no row were put at the node at.
LEMMA PlaceFacts ==
  ASSUME NEW g, Orderly(g), NEW how \in How, NEW at \in Node,
         NEW l \in Rows, at \notin ToSet(l), IsInjective(l),
         \A p, s : Row(g, p, s) => ToSet(s) \cap ToSet(l) = {}
  PROVE  /\ Orderly(Place(g, how, at, l))
         /\ how = "child" =>
              /\ \A p \in Node : Place(g, how, at, l).kids[p] = IF p = at THEN Cat(g.kids[p], l) ELSE g.kids[p]
              /\ Place(g, how, at, l).tops = g.tops
         /\ how # "child" =>
              /\ \A p \in Node : Place(g, how, at, l).kids[p] = PlaceRow(g.kids[p], how, at, l)
              /\ Place(g, how, at, l).tops = {PlaceRow(s, how, at, l) : s \in g.tops}
<1>1. CASE how = "child"
  <2> DEFINE k == [p \in Node |-> IF p = at THEN Cat(g.kids[p], l) ELSE g.kids[p]]
  <2>1. Place(g, how, at, l) = [kids |-> k, tops |-> g.tops]
    BY <1>1, ExtendIs
  <2>2. \A p \in Node : g.kids[p] \in Rows /\ IsInjective(g.kids[p]) /\ ToSet(g.kids[p]) \cap ToSet(l) = {}
    BY RowFacts DEF Row
  <2>3. k \in [Node -> Rows] /\ \A p \in Node : IsInjective(k[p])
    BY <2>2, CatFacts
  <2>4. \A s \in g.tops : s \in Rows /\ IsInjective(s) /\ s # <<>>
    BY RowFacts
  <2>5. \A p \in Node : k[p] = IF p = at THEN Cat(g.kids[p], l) ELSE g.kids[p]
    OBVIOUS
  <2> HIDE DEF k
  <2>6. Orderly([kids |-> k, tops |-> g.tops])
    BY <2>3, <2>4, OrderlyWhen
  <2> QED BY <1>1, <2>1, <2>5, <2>6
<1>2. CASE how # "child"
  <2> DEFINE m == Beside(how, at, l)
             k == [p \in Node |-> PlaceRow(g.kids[p], how, at, l)]
             t == {PlaceRow(s, how, at, l) : s \in g.tops}
  <2>1. Place(g, how, at, l) = [kids |-> k, tops |-> t]
    BY <1>2, SpliceIs
  <2>2. m \in Rows /\ ToSet(m) = ToSet(l) \cup {at} /\ IsInjective(m)
    BY BesideFacts
  <2> HIDE DEF m
  <2>3. \A p, s : Row(g, p, s) => /\ s \in Rows /\ IsInjective(s)
                                  /\ PlaceRow(s, how, at, l) \in Rows
                                  /\ IsInjective(PlaceRow(s, how, at, l))
                                  /\ ToSet(s) \subseteq ToSet(PlaceRow(s, how, at, l))
    <3> SUFFICES ASSUME NEW p, NEW s, Row(g, p, s)
                 PROVE  /\ s \in Rows /\ IsInjective(s)
                        /\ Around(s, at, m) \in Rows
                        /\ IsInjective(Around(s, at, m))
                        /\ ToSet(s) \subseteq ToSet(Around(s, at, m))
      BY DEF PlaceRow, m
    <3>1. s \in Rows /\ IsInjective(s) /\ ToSet(s) \cap ToSet(l) = {}
      BY RowFacts
    <3>2. ToSet(m) \cap (ToSet(s) \ {at}) = {}
      BY <2>2, <3>1
    <3> QED BY <2>2, <3>1, <3>2, AroundList
  <2>4. k \in [Node -> Rows] /\ \A p \in Node : IsInjective(k[p])
    BY <2>3 DEF Row
  <2>5. \A s \in t : s \in Rows /\ IsInjective(s) /\ s # <<>>
    <3> SUFFICES ASSUME NEW r \in g.tops
                 PROVE  PlaceRow(r, how, at, l) \in Rows /\ IsInjective(PlaceRow(r, how, at, l)) /\ PlaceRow(r, how, at, l) # <<>>
      OBVIOUS
    <3>1. Row(g, Nil, r) /\ r # <<>>
      BY RowFacts DEF Row
    <3>2. r \in Rows /\ ToSet(r) \subseteq ToSet(PlaceRow(r, how, at, l))
      BY <2>3, <3>1
    <3>3. PlaceRow(r, how, at, l) # <<>>
      BY <3>1, <3>2, EmptyList
    <3> QED BY <2>3, <3>1, <3>3
  <2>6. (\A p \in Node : k[p] = PlaceRow(g.kids[p], how, at, l))
    OBVIOUS
  <2> HIDE DEF k
  <2>7. Orderly([kids |-> k, tops |-> t])
    <3> HIDE DEF t
    <3> QED BY <2>4, <2>5, OrderlyWhen
  <2> QED BY <1>2, <2>1, <2>6, <2>7
<1> QED BY <1>1, <1>2

-----------------------------------------------------------------------------
(* What moves do to one another.                                           *)

\* l can be put into g at the node at.
Room(g, at, l) ==
  /\ Orderly(g) /\ at \in Node /\ l \in Rows /\ at \notin ToSet(l) /\ IsInjective(l)
  /\ \A p, s : Row(g, p, s) => ToSet(s) \cap ToSet(l) = {}

\* The same, of nodes that there is room for.
LEMMA PlaceFree ==
  ASSUME NEW g, NEW at, NEW l, Room(g, at, l), NEW how \in How
  PROVE  /\ Orderly(Place(g, how, at, l))
         /\ how = "child" =>
              /\ \A p \in Node : Place(g, how, at, l).kids[p] = IF p = at THEN Cat(g.kids[p], l) ELSE g.kids[p]
              /\ Place(g, how, at, l).tops = g.tops
         /\ how # "child" =>
              /\ \A p \in Node : Place(g, how, at, l).kids[p] = PlaceRow(g.kids[p], how, at, l)
              /\ Place(g, how, at, l).tops = {PlaceRow(s, how, at, l) : s \in g.tops}
BY PlaceFacts DEF Room

\* One row after the nodes of l were put beside at.
LEMMA PlaceRowFacts ==
  ASSUME NEW s \in Rows, IsInjective(s), NEW how, NEW at \in Node, NEW l \in Rows,
         at \notin ToSet(l), IsInjective(l), ToSet(s) \cap ToSet(l) = {}
  PROVE  /\ PlaceRow(s, how, at, l) \in Rows /\ IsInjective(PlaceRow(s, how, at, l))
         /\ ToSet(PlaceRow(s, how, at, l)) = ToSet(s) \cup (IF at \in ToSet(s) THEN ToSet(l) ELSE {})
         /\ \A X : at \notin X => Without(PlaceRow(s, how, at, l), X) = PlaceRow(Without(s, X), how, at, Without(l, X))
<1> DEFINE m == Beside(how, at, l)
<1>1. m \in Rows /\ ToSet(m) = ToSet(l) \cup {at} /\ IsInjective(m)
  BY BesideFacts
<1>2. ASSUME NEW X, at \notin X
      PROVE  Without(PlaceRow(s, how, at, l), X) = PlaceRow(Without(s, X), how, at, Without(l, X))
  <2>1. Without(Around(s, at, m), X) = Around(Without(s, X), at, Without(m, X))
    BY <1>1, <1>2, WithoutAround
  <2>2. Without(m, X) = Beside(how, at, Without(l, X))
    BY <1>2, WithoutBeside
  <2> QED BY <2>1, <2>2 DEF PlaceRow
<1> HIDE DEF m
<1>3. ToSet(m) \cap (ToSet(s) \ {at}) = {}
  BY <1>1
<1>4. /\ Around(s, at, m) \in Rows /\ IsInjective(Around(s, at, m))
      /\ ToSet(Around(s, at, m)) = IF at \in ToSet(s) THEN (ToSet(s) \ {at}) \cup ToSet(m) ELSE ToSet(s)
  BY <1>1, <1>3, AroundList
<1>5. ToSet(Around(s, at, m)) = ToSet(s) \cup (IF at \in ToSet(s) THEN ToSet(l) ELSE {})
  BY <1>1, <1>4
<1> QED BY <1>2, <1>4, <1>5 DEF PlaceRow, m

\* Its members.
LEMMA PlaceRowSet ==
  ASSUME NEW s \in Rows, IsInjective(s), NEW how, NEW at \in Node, NEW l \in Rows,
         at \notin ToSet(l), IsInjective(l), ToSet(s) \cap ToSet(l) = {}
  PROVE  ToSet(PlaceRow(s, how, at, l)) = ToSet(s) \cup (IF at \in ToSet(s) THEN ToSet(l) ELSE {})
<1>1. CASE at \in ToSet(s)
  BY <1>1, PlaceRowFacts
<1>2. CASE at \notin ToSet(s)
  BY <1>2, PlaceRowFacts
<1> QED BY <1>1, <1>2

\* Nodes that are not at are taken out before or after.
LEMMA PullPlace ==
  ASSUME NEW g, NEW at, NEW l, Room(g, at, l), NEW how \in How, NEW X, at \notin X
  PROVE  /\ Pull(Place(g, how, at, l), X) = Place(Pull(g, X), how, at, Without(l, X))
         /\ Room(Pull(g, X), at, Without(l, X))
<1> DEFINE d == Place(g, how, at, l)
           e == Pull(d, X)
           h == Pull(g, X)
           w == Without(l, X)
           c == Place(h, how, at, w)
<1>0. /\ Orderly(g) /\ at \in Node /\ l \in Rows /\ at \notin ToSet(l) /\ IsInjective(l)
      /\ \A p, s : Row(g, p, s) => ToSet(s) \cap ToSet(l) = {}
  BY DEF Room
<1>1. /\ Orderly(h) /\ (\A p \in Node : h.kids[p] = Without(g.kids[p], X))
      /\ h.tops = {Without(s, X) : s \in g.tops} \ {<<>>}
  BY <1>0, PullFacts
<1>2. w \in Rows /\ ToSet(w) = ToSet(l) \ X /\ IsInjective(w) /\ at \notin ToSet(w)
  BY <1>0, WithoutList
<1>3. /\ \A p \in Node : g.kids[p] \in Rows /\ IsInjective(g.kids[p]) /\ ToSet(g.kids[p]) \cap ToSet(l) = {}
      /\ \A s \in g.tops : s \in Rows /\ IsInjective(s) /\ ToSet(s) \cap ToSet(l) = {}
  BY <1>0, RowFacts DEF Row
<1>4. Room(h, at, w)
  <2>1. /\ \A p \in Node : ToSet(Without(g.kids[p], X)) \cap ToSet(w) = {}
        /\ \A s \in g.tops : ToSet(Without(s, X)) \cap ToSet(w) = {}
    BY <1>2, <1>3, WithoutList
  <2>2. \A p, s : Row(h, p, s) => ToSet(s) \cap ToSet(w) = {}
    <3> HIDE DEF h, w
    <3> QED BY <1>1, <2>1 DEF Row
  <2> HIDE DEF h, w
  <2> QED BY <1>0, <1>1, <1>2, <2>2 DEF Room
<1>5. /\ Orderly(d)
      /\ how = "child" => /\ \A p \in Node : d.kids[p] = IF p = at THEN Cat(g.kids[p], l) ELSE g.kids[p]
                          /\ d.tops = g.tops
      /\ how # "child" => /\ \A p \in Node : d.kids[p] = PlaceRow(g.kids[p], how, at, l)
                          /\ d.tops = {PlaceRow(s, how, at, l) : s \in g.tops}
  BY PlaceFree
<1> HIDE DEF d
<1>6. /\ Orderly(e) /\ (\A p \in Node : e.kids[p] = Without(d.kids[p], X))
      /\ e.tops = {Without(s, X) : s \in d.tops} \ {<<>>}
  BY <1>5, PullFacts
<1> HIDE DEF e
<1> HIDE DEF h, w
<1>7. /\ Orderly(c)
      /\ how = "child" => /\ \A p \in Node : c.kids[p] = IF p = at THEN Cat(h.kids[p], w) ELSE h.kids[p]
                          /\ c.tops = h.tops
      /\ how # "child" => /\ \A p \in Node : c.kids[p] = PlaceRow(h.kids[p], how, at, w)
                          /\ c.tops = {PlaceRow(s, how, at, w) : s \in h.tops}
  BY <1>4, PlaceFree
<1> HIDE DEF c
<1>8. CASE how = "child"
  <2>1. \A p \in Node : e.kids[p] = c.kids[p]
    <3>1. \A p \in Node : Without(Cat(g.kids[p], l), X) = Cat(Without(g.kids[p], X), w)
      BY <1>0, <1>3, WithoutCat DEF w
    <3> QED BY <1>1, <1>5, <1>6, <1>7, <1>8, <3>1
  <2>2. e.tops = c.tops
    BY <1>1, <1>5, <1>6, <1>7, <1>8
  <2> QED BY <1>4, <1>6, <1>7, <2>1, <2>2, RowFacts, ForestsEqual DEF c, e, d, h, w
<1>9. CASE how # "child"
  <2>0. \A s \in Rows : IsInjective(s) /\ ToSet(s) \cap ToSet(l) = {} =>
                Without(PlaceRow(s, how, at, l), X) = PlaceRow(Without(s, X), how, at, w)
    BY <1>0, PlaceRowFacts DEF w
  <2>1. \A p \in Node : e.kids[p] = c.kids[p]
    BY <1>1, <1>3, <1>5, <1>6, <1>7, <1>9, <2>0
  <2>2. \A s \in g.tops : Without(PlaceRow(s, how, at, l), X) = PlaceRow(Without(s, X), how, at, w)
    BY <1>3, <2>0
  <2>3. \A r \in h.tops : PlaceRow(r, how, at, w) # <<>>
    <3> TAKE r \in h.tops
    <3>1. r \in Rows /\ IsInjective(r) /\ r # <<>> /\ ToSet(r) \cap ToSet(w) = {}
      BY <1>1, <1>4, RowFacts DEF Room, Row
    <3>2. ToSet(r) \subseteq ToSet(PlaceRow(r, how, at, w))
      <4>1. ToSet(PlaceRow(r, how, at, w)) = ToSet(r) \cup (IF at \in ToSet(r) THEN ToSet(w) ELSE {})
        BY <1>0, <1>2, <3>1, PlaceRowSet
      <4> QED BY <4>1
    <3> QED BY <3>1, <3>2, EmptyList
  <2>4. PlaceRow(<<>>, how, at, w) = <<>>
    <3>1. at \notin ToSet(<<>>) /\ <<>> \in Rows
      BY EmptyList, CatNone
    <3> QED BY <3>1, AroundNone DEF PlaceRow
  <2>5. e.tops = c.tops
    <3>1. ASSUME NEW r \in e.tops PROVE r \in c.tops
      <4>1. PICK s \in g.tops : r = PlaceRow(Without(s, X), how, at, w) /\ r # <<>>
        BY <1>5, <1>6, <1>9, <2>2
      <4>2. Without(s, X) # <<>>
        BY <2>4, <4>1
      <4>3. Without(s, X) \in h.tops
        BY <1>1, <4>2
      <4> QED BY <1>7, <1>9, <4>1, <4>3
    <3>2. ASSUME NEW r \in c.tops PROVE r \in e.tops
      <4>1. PICK s \in g.tops : r = PlaceRow(Without(s, X), how, at, w) /\ Without(s, X) \in h.tops
        BY <1>1, <1>7, <1>9
      <4>2. r # <<>>
        BY <2>3, <4>1
      <4> QED BY <1>5, <1>6, <1>9, <2>2, <4>1, <4>2
    <3> QED BY <3>1, <3>2
  <2> QED BY <1>4, <1>6, <1>7, <2>1, <2>5, RowFacts, ForestsEqual DEF c, e, d, h, w
<1> QED BY <1>8, <1>9

\* to is where the node behind l is linked: insert_after follows the node it
\* last linked.
AtEnd(how, at, l, to) ==
  IF how = "next" THEN \E a \in Rows : Cat(One(at), l) = Cat(a, One(to)) ELSE to = at

\* InFrontOf the first node is added, the next one goes to at.
LEMMA AtEndFirst ==
  ASSUME NEW how, NEW at \in Node
  PROVE  AtEnd(how, at, <<>>, at)
BY OneFacts, CatNone DEF AtEnd

\* Behind x is added, the next one goes behind x, or to at again.
LEMMA AtEndNext ==
  ASSUME NEW how, NEW at \in Node, NEW l \in Rows, NEW x \in Node, NEW to, AtEnd(how, at, l, to)
  PROVE  AtEnd(how, at, Cat(l, One(x)), IF how = "next" THEN x ELSE to)
<1>1. CASE how = "next"
  <2>1. Cat(One(at), Cat(l, One(x))) = Cat(Cat(One(at), l), One(x))
    BY OneFacts, CatAssoc
  <2>2. Cat(One(at), l) \in Rows
    BY OneFacts, CatFacts
  <2> QED BY <1>1, <2>1, <2>2 DEF AtEnd
<1>2. CASE how # "next"
  BY <1>2 DEF AtEnd
<1> QED BY <1>1, <1>2

\* to is a member of what is put beside at.
LEMMA AtEndMember ==
  ASSUME NEW how, NEW at \in Node, NEW l \in Rows, NEW to \in Node, AtEnd(how, at, l, to)
  PROVE  to \in ToSet(l) \cup {at}
<1>1. CASE how = "next"
  <2>1. PICK a : a \in Rows /\ Cat(One(at), l) = Cat(a, One(to))
    BY <1>1 DEF AtEnd
  <2>2. One(at) \in Rows /\ ToSet(One(at)) = {at} /\ One(to) \in Rows /\ ToSet(One(to)) = {to}
    BY OneFacts
  <2>3. ToSet(Cat(One(at), l)) = {at} \cup ToSet(l)
    BY <2>2, CatFacts
  <2>4. ToSet(Cat(a, One(to))) = ToSet(a) \cup {to}
    BY <2>1, <2>2, CatFacts
  <2> QED BY <2>1, <2>3, <2>4
<1>2. CASE how # "next"
  BY <1>2 DEF AtEnd
<1> QED BY <1>1, <1>2

\* One more node beside those already put.
LEMMA PlaceRowAgain ==
  ASSUME NEW s \in Rows, IsInjective(s), NEW how \in How \ {"child"}, NEW at \in Node, NEW l \in Rows,
         at \notin ToSet(l), IsInjective(l), ToSet(s) \cap ToSet(l) = {},
         NEW to \in Node, AtEnd(how, at, l, to), NEW x \in Node
  PROVE  PlaceRow(PlaceRow(s, how, at, l), how, to, One(x)) = PlaceRow(s, how, at, Cat(l, One(x)))
<1> DEFINE o == One(x)
           m == Beside(how, at, l)
<1>1. o \in Rows /\ One(to) \in Rows /\ One(at) \in Rows
  BY OneFacts
<1>2. m \in Rows /\ ToSet(m) = ToSet(l) \cup {at} /\ IsInjective(m) /\ at \in ToSet(m)
  BY BesideFacts
<1>3. (ToSet(m) \ {at}) \cap ToSet(s) = {}
  BY <1>2
<1>4. CASE how = "next"
  <2>1. PICK a : a \in Rows /\ Cat(One(at), l) = Cat(a, One(to))
    BY <1>4 DEF AtEnd
  <2> DEFINE z == Cat(One(to), o)
  <2>2. z \in Rows /\ z = Beside(how, to, o)
    BY <1>1, <1>4, CatFacts DEF Beside
  <2>3. m = Cat(a, Cat(One(to), <<>>))
    BY <1>1, <1>4, <2>1, CatNone DEF Beside
  <2>4. Cat(a, Cat(z, <<>>)) = Beside(how, at, Cat(l, o))
    <3>1. Cat(z, <<>>) = z
      BY <2>2, CatNone
    <3>2. Cat(a, Cat(One(to), o)) = Cat(Cat(One(at), l), o)
      BY <1>1, <2>1, CatAssoc
    <3>3. Cat(Cat(One(at), l), o) = Cat(One(at), Cat(l, o))
      BY <1>1, CatAssoc
    <3> QED BY <1>4, <3>1, <3>2, <3>3 DEF Beside
  <2> HIDE DEF m, z
  <2>5. Around(Around(s, at, m), to, z) = Around(s, at, Cat(a, Cat(z, <<>>)))
    <3> DEFINE b == <<>>
    <3>1. b \in Rows /\ m = Cat(a, Cat(One(to), b))
      BY <2>3, CatNone
    <3> HIDE DEF b
    <3>2. Around(Around(s, at, m), to, z) = Around(s, at, Cat(a, Cat(z, b)))
      BY <1>2, <1>3, <2>1, <2>2, <3>1, AroundAround
    <3> QED BY <3>2 DEF b
  <2> QED BY <2>2, <2>4, <2>5 DEF PlaceRow, m, o
<1>5. CASE how # "next"
  <2> DEFINE z == Cat(o, One(at))
  <2>1. to = at
    BY <1>5 DEF AtEnd
  <2>2. z \in Rows /\ z = Beside(how, to, o)
    BY <1>1, <1>5, <2>1, CatFacts DEF Beside
  <2>3. m = Cat(l, Cat(One(to), <<>>))
    BY <1>1, <1>5, <2>1, CatNone DEF Beside
  <2>4. Cat(l, Cat(z, <<>>)) = Beside(how, at, Cat(l, o))
    <3>1. Cat(z, <<>>) = z
      BY <2>2, CatNone
    <3>2. Cat(l, Cat(o, One(at))) = Cat(Cat(l, o), One(at))
      BY <1>1, CatAssoc
    <3> QED BY <1>5, <3>1, <3>2 DEF Beside
  <2> HIDE DEF m, z
  <2>5. Around(Around(s, at, m), to, z) = Around(s, at, Cat(l, Cat(z, <<>>)))
    <3> DEFINE b == <<>>
    <3>1. b \in Rows /\ m = Cat(l, Cat(One(to), b))
      BY <2>3, CatNone
    <3> HIDE DEF b
    <3>2. Around(Around(s, at, m), to, z) = Around(s, at, Cat(l, Cat(z, b)))
      BY <1>2, <1>3, <2>2, <3>1, AroundAround
    <3> QED BY <3>2 DEF b
  <2> QED BY <2>2, <2>4, <2>5 DEF PlaceRow, m, o
<1> QED BY <1>4, <1>5

\* One more node.
LEMMA PlaceAgain ==
  ASSUME NEW g, NEW at, NEW l, Room(g, at, l), NEW how \in How,
         NEW to \in Node, AtEnd(how, at, l, to), NEW x \in Node, x \notin ToSet(l), x # at
  PROVE  Place(Place(g, how, at, l), how, to, One(x)) = Place(g, how, at, Cat(l, One(x)))
<1> DEFINE o == One(x)
           d == Place(g, how, at, l)
           lx == Cat(l, o)
           e == Place(d, how, to, o)
           c == Place(g, how, at, lx)
<1>0. /\ Orderly(g) /\ at \in Node /\ l \in Rows /\ at \notin ToSet(l) /\ IsInjective(l)
      /\ \A p, s : Row(g, p, s) => ToSet(s) \cap ToSet(l) = {}
  BY DEF Room
<1>1. o \in Rows /\ ToSet(o) = {x} /\ IsInjective(o)
  BY OneFacts
<1> HIDE DEF o
<1>2. lx \in Rows /\ ToSet(lx) = ToSet(l) \cup {x} /\ IsInjective(lx)
  BY <1>0, <1>1, CatFacts
<1> HIDE DEF lx
<1>3. /\ \A p \in Node : g.kids[p] \in Rows /\ IsInjective(g.kids[p]) /\ ToSet(g.kids[p]) \cap ToSet(l) = {}
      /\ \A s \in g.tops : s \in Rows /\ IsInjective(s) /\ ToSet(s) \cap ToSet(l) = {}
  BY <1>0, RowFacts DEF Row
<1>4. Orderly(d)
  BY PlaceFree
<1>5. CASE how = "child"
  <2>1. d = [kids |-> [p \in Node |-> IF p = at THEN Cat(g.kids[p], l) ELSE g.kids[p]], tops |-> g.tops]
    BY <1>0, <1>5, ExtendIs
  <2>2. c = [kids |-> [p \in Node |-> IF p = at THEN Cat(g.kids[p], lx) ELSE g.kids[p]], tops |-> g.tops]
    BY <1>0, <1>5, ExtendIs
  <2>3. to = at
    BY <1>5 DEF AtEnd
  <2>4. e = [kids |-> [p \in Node |-> IF p = at THEN Cat(d.kids[p], o) ELSE d.kids[p]], tops |-> d.tops]
    BY <1>4, <1>5, <2>3, ExtendIs
  <2>5. Cat(Cat(g.kids[at], l), o) = Cat(g.kids[at], lx)
    BY <1>0, <1>1, <1>3, CatAssoc DEF lx
  <2> HIDE DEF d, e, c
  <2>6. e = c
    BY <2>1, <2>2, <2>4, <2>5
  <2> QED BY <2>6 DEF e, c, d, o, lx
<1>6. CASE how # "child"
  <2>1. d = [kids |-> [p \in Node |-> PlaceRow(g.kids[p], how, at, l)], tops |-> {PlaceRow(s, how, at, l) : s \in g.tops}]
    BY <1>0, <1>6, SpliceIs
  <2>2. c = [kids |-> [p \in Node |-> PlaceRow(g.kids[p], how, at, lx)], tops |-> {PlaceRow(s, how, at, lx) : s \in g.tops}]
    BY <1>0, <1>6, SpliceIs
  <2>3. e = [kids |-> [p \in Node |-> PlaceRow(d.kids[p], how, to, o)], tops |-> {PlaceRow(s, how, to, o) : s \in d.tops}]
    BY <1>4, <1>6, SpliceIs
  <2>4. \A s \in Rows : IsInjective(s) /\ ToSet(s) \cap ToSet(l) = {} =>
               PlaceRow(PlaceRow(s, how, at, l), how, to, o) = PlaceRow(s, how, at, lx)
    BY <1>0, <1>6, <1>1, PlaceRowAgain DEF lx, o
  <2> HIDE DEF d, e, c
  <2>5. \A p \in Node : PlaceRow(PlaceRow(g.kids[p], how, at, l), how, to, o) = PlaceRow(g.kids[p], how, at, lx)
    BY <1>3, <2>4
  <2>6. \A s \in g.tops : PlaceRow(PlaceRow(s, how, at, l), how, to, o) = PlaceRow(s, how, at, lx)
    BY <1>3, <2>4
  <2>7. e.kids = c.kids
    BY <2>1, <2>2, <2>3, <2>5
  <2>8. e.tops = c.tops
    BY <2>1, <2>2, <2>3, <2>6
  <2>9. e = c
    BY <2>2, <2>3, <2>7, <2>8
  <2> QED BY <2>9 DEF e, c, d, o, lx
<1> QED BY <1>5, <1>6

\* l can be moved to at.
Fit(f, at, l) == Orderly(f) /\ at \in Node /\ l \in Rows /\ at \notin ToSet(l) /\ IsInjective(l)

\* When the nodes are pulled out first there is room for them.
LEMMA FitFree ==
  ASSUME NEW f, NEW at, NEW l, Fit(f, at, l), NEW X, ToSet(l) \subseteq X
  PROVE  Room(Pull(f, X), at, l)
<1>1. Orderly(f) /\ at \in Node /\ l \in Rows /\ at \notin ToSet(l) /\ IsInjective(l)
  BY DEF Fit
<1>2. Orderly(Pull(f, X)) /\ \A p, s : Row(Pull(f, X), p, s) => ToSet(s) \cap X = {}
  BY <1>1, PullFacts
<1> QED BY <1>1, <1>2 DEF Room

\* Moving nodes leaves no node twice in a row.
LEMMA PutOrderly ==
  ASSUME NEW f, NEW at, NEW l, Fit(f, at, l), NEW how \in How
  PROVE  Orderly(Put(f, how, at, l))
<1>1. Room(Pull(f, ToSet(l)), at, l)
  BY FitFree
<1> QED BY <1>1, PlaceFree DEF Put

\* One more node is moved.
LEMMA PutAgain ==
  ASSUME NEW f, NEW at, NEW l, Fit(f, at, l), NEW how \in How,
         NEW to \in Node, AtEnd(how, at, l, to), NEW x \in Node, x \notin ToSet(l), x # at
  PROVE  Put(Put(f, how, at, l), how, to, One(x)) = Put(f, how, at, Cat(l, One(x)))
<1> DEFINE L == ToSet(l)
           lx == Cat(l, One(x))
<1>1. Orderly(f) /\ at \in Node /\ l \in Rows /\ at \notin ToSet(l) /\ IsInjective(l)
  BY DEF Fit
<1>2. One(x) \in Rows /\ ToSet(One(x)) = {x}
  BY OneFacts
<1>3. ToSet(lx) = L \cup {x}
  BY <1>1, <1>2, CatFacts
<1>4. Room(Pull(f, L), at, l)
  BY FitFree
<1>5. Pull(Place(Pull(f, L), how, at, l), {x}) = Place(Pull(Pull(f, L), {x}), how, at, Without(l, {x}))
  BY <1>4, PullPlace
<1>6. Without(l, {x}) = l
  BY <1>1, WithoutList
<1>7. Pull(Pull(f, L), {x}) = Pull(f, L \cup {x})
  BY <1>1, PullTwice
<1>8. Room(Pull(f, L \cup {x}), at, l)
  BY FitFree
<1>9. Place(Place(Pull(f, L \cup {x}), how, at, l), how, to, One(x)) = Place(Pull(f, L \cup {x}), how, at, lx)
  BY <1>8, PlaceAgain
<1>10. Put(Put(f, how, at, l), how, to, One(x)) = Place(Pull(Place(Pull(f, L), how, at, l), {x}), how, to, One(x))
  BY <1>2 DEF Put
<1>11. Put(f, how, at, lx) = Place(Pull(f, L \cup {x}), how, at, lx)
  BY <1>3 DEF Put
<1> QED BY <1>5, <1>6, <1>7, <1>9, <1>10, <1>11

\* Putting no nodes changes nothing.
LEMMA PlaceNone ==
  ASSUME NEW f, Orderly(f), NEW at \in Node, NEW how \in How
  PROVE  Place(f, how, at, <<>>) = f
<1> DEFINE e == <<>>
           d == Place(f, how, at, e)
<1>1. e \in Rows /\ ToSet(e) = {} /\ IsInjective(e) /\ \A s \in Rows : Cat(s, e) = s /\ Cat(e, s) = s
  BY EmptyList, CatNone
<1> HIDE DEF e
<1>2. Room(f, at, e)
  BY <1>1 DEF Room
<1>3. /\ Orderly(d)
      /\ how = "child" => /\ \A p \in Node : d.kids[p] = IF p = at THEN Cat(f.kids[p], e) ELSE f.kids[p]
                          /\ d.tops = f.tops
      /\ how # "child" => /\ \A p \in Node : d.kids[p] = PlaceRow(f.kids[p], how, at, e)
                          /\ d.tops = {PlaceRow(s, how, at, e) : s \in f.tops}
  BY <1>2, PlaceFree
<1> HIDE DEF d
<1>4. /\ \A p \in Node : f.kids[p] \in Rows /\ IsInjective(f.kids[p])
      /\ \A s \in f.tops : s \in Rows /\ IsInjective(s)
  BY RowFacts
<1>5. \A s \in Rows : IsInjective(s) => PlaceRow(s, how, at, e) = s
  <2> SUFFICES ASSUME NEW s \in Rows, IsInjective(s) PROVE PlaceRow(s, how, at, e) = s
    OBVIOUS
  <2>1. One(at) \in Rows
    BY OneFacts
  <2>2. Beside(how, at, e) = One(at)
    BY <1>1, <2>1 DEF Beside
  <2>3. CASE at \in ToSet(s)
    <3>1. PICK u, v : u \in Rows /\ v \in Rows /\ s = Cat(u, Cat(One(at), v))
      BY <2>3, CatSplit
    <3> QED BY <2>1, <2>2, <3>1, AroundCat DEF PlaceRow
  <2>4. CASE at \notin ToSet(s)
    BY <2>4, AroundNone DEF PlaceRow
  <2> QED BY <2>3, <2>4
<1>6. CASE how = "child"
  <2>1. \A p \in Node : d.kids[p] = f.kids[p]
    BY <1>1, <1>3, <1>4, <1>6
  <2> QED BY <1>3, <1>6, <2>1, RowFacts, ForestsEqual DEF d, e
<1>7. CASE how # "child"
  <2>1. \A p \in Node : d.kids[p] = f.kids[p]
    BY <1>3, <1>4, <1>5, <1>7
  <2>2. d.tops = f.tops
    BY <1>3, <1>4, <1>5, <1>7
  <2> QED BY <1>3, <2>1, <2>2, RowFacts, ForestsEqual DEF d, e
<1> QED BY <1>6, <1>7

\* Moving no nodes changes nothing.
LEMMA PutNone ==
  ASSUME NEW f, Orderly(f), NEW at \in Node, NEW how \in How
  PROVE  Put(f, how, at, <<>>) = f
<1>1. ToSet(<<>>) = {}
  BY EmptyList
<1>2. Pull(f, {}) = f
  BY PullNone
<1> QED BY <1>1, <1>2, PlaceNone DEF Put

\* A move is forgotten when what was moved is taken out again.
LEMMA PullPut ==
  ASSUME NEW f, NEW at, NEW l, Fit(f, at, l), NEW how \in How, NEW X, at \notin X, ToSet(l) \subseteq X
  PROVE  Pull(Put(f, how, at, l), X) = Pull(f, X)
<1> DEFINE g == Pull(f, ToSet(l))
<1>1. Orderly(f) /\ at \in Node /\ l \in Rows /\ at \notin ToSet(l) /\ IsInjective(l)
  BY DEF Fit
<1>2. Room(g, at, l)
  BY FitFree
<1>3. Pull(g, X) = Pull(f, X)
  <2>1. Pull(g, X) = Pull(f, ToSet(l) \cup X)
    BY <1>1, PullTwice
  <2>2. ToSet(l) \cup X = X
    OBVIOUS
  <2> QED BY <2>1, <2>2
<1> HIDE DEF g
<1>4. Pull(Place(g, how, at, l), X) = Place(Pull(g, X), how, at, Without(l, X))
  BY <1>2, PullPlace
<1>5. Without(l, X) = <<>>
  <2>1. Without(l, X) \in Rows /\ ToSet(Without(l, X)) = {}
    BY <1>1, WithoutList
  <2> QED BY <2>1, EmptyList
<1>6. Orderly(Pull(f, X))
  BY <1>1, PullFacts
<1>7. Place(Pull(f, X), how, at, <<>>) = Pull(f, X)
  BY <1>1, <1>6, PlaceNone
<1> QED BY <1>3, <1>4, <1>5, <1>7 DEF Put, g

\* Only the first of the nodes that were moved.
LEMMA PullPutFirst ==
  ASSUME NEW f, NEW at, NEW w \in Node, NEW r, Fit(f, at, Cat(One(w), r)), r \in Rows, NEW how \in How
  PROVE  Pull(Put(f, how, at, Cat(One(w), r)), {w}) = Pull(Put(f, how, at, r), {w})
<1> DEFINE l == Cat(One(w), r)
           L == ToSet(l)
           R == ToSet(r)
<1>0. Orderly(f) /\ at \in Node /\ l \in Rows /\ at \notin L /\ IsInjective(l)
  BY DEF Fit
<1>1. One(w) \in Rows /\ ToSet(One(w)) = {w} /\ Without(One(w), {w}) = <<>>
  BY OneFacts, WithoutSingle
<1>2. L = {w} \cup R /\ IsInjective(r) /\ w \notin R
  BY <1>0, <1>1, CatFacts
<1>3. Without(r, {w}) = r
  BY <1>2, WithoutList
<1>4. Without(l, {w}) = r
  BY <1>1, <1>3, WithoutCat, CatNone
<1> HIDE DEF l, L, R
<1>5. Fit(f, at, l) /\ Fit(f, at, r)
  BY <1>0, <1>2 DEF Fit, R, L
<1>6. Room(Pull(f, L), at, l) /\ Room(Pull(f, R), at, r)
  BY <1>5, FitFree DEF L, R
<1>7. at \notin {w}
  BY <1>0, <1>2
<1>8. Pull(Place(Pull(f, L), how, at, l), {w}) = Place(Pull(Pull(f, L), {w}), how, at, Without(l, {w}))
  BY <1>6, <1>7, PullPlace
<1>9. Pull(Place(Pull(f, R), how, at, r), {w}) = Place(Pull(Pull(f, R), {w}), how, at, Without(r, {w}))
  BY <1>6, <1>7, PullPlace
<1>10. Pull(Pull(f, L), {w}) = Pull(f, L \cup {w}) /\ Pull(Pull(f, R), {w}) = Pull(f, R \cup {w})
  BY <1>0, PullTwice
<1>11. L \cup {w} = R \cup {w}
  BY <1>2
<1> QED BY <1>3, <1>4, <1>8, <1>9, <1>10, <1>11 DEF Put, L, R, l

-----------------------------------------------------------------------------
(* Nodes taken out, each with its subtree.                                 *)

\* The rows after the nodes of X were detached.
LEMMA DetachFacts ==
  ASSUME NEW f, Orderly(f), NEW X \in SUBSET Node
  PROVE  /\ Orderly(Detach(f, X))
         /\ Detach(f, X) = [kids |-> Pull(f, X).kids, tops |-> Pull(f, X).tops \cup {One(x) : x \in X}]
         /\ \A p \in Node : Detach(f, X).kids[p] = Without(f.kids[p], X)
         /\ Detach(f, X).tops = ({Without(s, X) : s \in f.tops} \ {<<>>}) \cup {One(x) : x \in X}
<1> DEFINE g == Pull(f, X)
           d == Detach(f, X)
           S == {One(x) : x \in X}
<1>1. /\ Orderly(g) /\ (\A p \in Node : g.kids[p] = Without(f.kids[p], X))
      /\ g.tops = {Without(s, X) : s \in f.tops} \ {<<>>}
  BY PullFacts
<1>2. d = [g EXCEPT !.tops = @ \cup {<<x>> : x \in X}]
  BY DEF Detach
<1>3. S = {<<x>> : x \in X}
  BY DEF One
<1> HIDE DEF g, d, S
<1>4. g = [kids |-> g.kids, tops |-> g.tops] /\ g.kids \in [Node -> Rows]
  BY <1>1 DEF Orderly, IsForest
<1>5. d = [kids |-> g.kids, tops |-> g.tops \cup S]
  BY <1>2, <1>3, <1>4
<1>6. \A s \in S : s \in Rows /\ IsInjective(s) /\ s # <<>>
  <2> SUFFICES ASSUME NEW x \in X PROVE One(x) \in Rows /\ IsInjective(One(x)) /\ One(x) # <<>>
    BY DEF S
  <2>1. One(x) \in Rows /\ IsInjective(One(x)) /\ ToSet(One(x)) = {x}
    BY OneFacts
  <2>2. ToSet(<<>>) = {}
    BY EmptyList
  <2> QED BY <2>1, <2>2
<1>7. \A s \in g.tops : s \in Rows /\ IsInjective(s) /\ s # <<>>
  BY <1>1, RowFacts
<1>8. \A p \in Node : IsInjective(g.kids[p])
  BY <1>1, RowFacts
<1>9. Orderly([kids |-> g.kids, tops |-> g.tops \cup S])
  BY <1>4, <1>6, <1>7, <1>8, OrderlyWhen
<1>10. d.kids = g.kids /\ d.tops = g.tops \cup S
  BY <1>5
<1> QED BY <1>1, <1>5, <1>9, <1>10 DEF d, g, S

\* Only what is left when the nodes are gone matters.
LEMMA DetachOfPull ==
  ASSUME NEW f, NEW g, NEW X, Pull(f, X) = Pull(g, X)
  PROVE  Detach(f, X) = Detach(g, X)
BY DEF Detach

\* The rows after nodes have been taken out.
LEMMA DetachRows ==
  ASSUME NEW f, Orderly(f), NEW X \in SUBSET Node, NEW p, NEW w
  PROVE  Row(Detach(f, X), p, w) <=>
           \/ \E s : Row(f, p, s) /\ w = Without(s, X) /\ (p = Nil => w # <<>>)
           \/ p = Nil /\ \E x \in X : w = One(x)
<1>1. /\ \A q \in Node : Detach(f, X).kids[q] = Without(f.kids[q], X)
      /\ Detach(f, X).tops = ({Without(s, X) : s \in f.tops} \ {<<>>}) \cup {One(x) : x \in X}
  BY DetachFacts
<1>2. Nil \notin Node
  BY NilAssumption
<1> QED BY <1>1, <1>2 DEF Row

\* First of one set, then of another.
LEMMA WithoutBoth ==
  ASSUME NEW s \in Rows, NEW X, NEW Y
  PROVE  Without(Without(s, X), Y) = Without(s, X \cup Y)
<1>1. s \in Seq(Node)
  BY DEF Rows
<1> QED BY <1>1, WithoutTwice

\* Behind nodes were detached every node is still in exactly one row.
LEMMA DetachWhole ==
  ASSUME NEW f, Whole(f), NEW X \in SUBSET Node
  PROVE  Whole(Detach(f, X))
<1> DEFINE d == Detach(f, X)
<1>0. /\ Orderly(f)
      /\ \A p, s, q, r : \A x : Row(f, p, s) /\ Row(f, q, r) /\ x \in ToSet(s) /\ x \in ToSet(r) => p = q /\ s = r
      /\ \A x \in Node : \E p, s : Row(f, p, s) /\ x \in ToSet(s)
  BY DEF Whole
<1>1. Orderly(d)
  BY <1>0, DetachFacts
<1>2. \A p, w : Row(d, p, w) <=>
                  \/ \E s : Row(f, p, s) /\ w = Without(s, X) /\ (p = Nil => w # <<>>)
                  \/ p = Nil /\ \E x \in X : w = One(x)
  BY <1>0, DetachRows
<1> HIDE DEF d
<1>3. \A p, s : Row(f, p, s) => ToSet(Without(s, X)) = ToSet(s) \ X
  BY <1>0, RowFacts, WithoutList
<1>4. \A x \in X : ToSet(One(x)) = {x}
  BY OneFacts
<1>5. ASSUME NEW p, NEW s, NEW q, NEW r, NEW x, Row(d, p, s), Row(d, q, r), x \in ToSet(s), x \in ToSet(r)
      PROVE  p = q /\ s = r
  <2>1. CASE x \in X
    <3>1. ASSUME NEW a, NEW b, Row(d, a, b), x \in ToSet(b) PROVE a = Nil /\ b = One(x)
      BY <1>2, <1>3, <1>4, <2>1, <3>1
    <3> QED BY <1>5, <3>1
  <2>2. CASE x \notin X
    <3>1. ASSUME NEW a, NEW b, Row(d, a, b), x \in ToSet(b)
          PROVE  \E c : Row(f, a, c) /\ b = Without(c, X) /\ x \in ToSet(c)
      BY <1>2, <1>3, <1>4, <2>2, <3>1
    <3>2. PICK c : Row(f, p, c) /\ s = Without(c, X) /\ x \in ToSet(c)
      BY <1>5, <3>1
    <3>3. PICK e : Row(f, q, e) /\ r = Without(e, X) /\ x \in ToSet(e)
      BY <1>5, <3>1
    <3>4. p = q /\ c = e
      BY <1>0, <3>2, <3>3
    <3> QED BY <3>2, <3>3, <3>4
  <2> QED BY <2>1, <2>2
<1>6. ASSUME NEW x \in Node PROVE \E p, s : Row(d, p, s) /\ x \in ToSet(s)
  <2>1. CASE x \in X
    BY <1>2, <1>4, <2>1
  <2>2. CASE x \notin X
    <3>1. PICK p, s : Row(f, p, s) /\ x \in ToSet(s)
      BY <1>0
    <3>2. x \in ToSet(Without(s, X))
      BY <1>3, <2>2, <3>1
    <3>3. Without(s, X) # <<>>
      BY <3>2, EmptyList
    <3> QED BY <1>2, <3>1, <3>2, <3>3
  <2> QED BY <2>1, <2>2
<1> QED BY <1>1, <1>5, <1>6 DEF Whole, d

\* Nodes that are taken out later need not be taken out before.
LEMMA PullDetach ==
  ASSUME NEW f, Orderly(f), NEW X \in SUBSET Node, NEW Y, X \subseteq Y
  PROVE  Pull(Detach(f, X), Y) = Pull(f, Y)
<1> DEFINE d == Detach(f, X)
           e == Pull(d, Y)
           g == Pull(f, Y)
<1>1. /\ Orderly(d) /\ (\A p \in Node : d.kids[p] = Without(f.kids[p], X))
      /\ d.tops = ({Without(s, X) : s \in f.tops} \ {<<>>}) \cup {One(x) : x \in X}
  BY DetachFacts
<1> HIDE DEF d
<1>2. /\ Orderly(e) /\ (\A p \in Node : e.kids[p] = Without(d.kids[p], Y))
      /\ e.tops = {Without(s, Y) : s \in d.tops} \ {<<>>}
  BY <1>1, PullFacts
<1>3. /\ Orderly(g) /\ (\A p \in Node : g.kids[p] = Without(f.kids[p], Y))
      /\ g.tops = {Without(s, Y) : s \in f.tops} \ {<<>>}
  BY PullFacts
<1> HIDE DEF e, g
<1>4. X \cup Y = Y
  OBVIOUS
<1>5. \A s \in Rows : Without(Without(s, X), Y) = Without(s, Y)
  BY <1>4, WithoutBoth
<1>6. \A p \in Node : f.kids[p] \in Rows
  BY RowFacts
<1>7. \A s \in f.tops : s \in Rows
  BY RowFacts
<1>8. \A x \in X : Without(One(x), Y) = <<>>
  BY WithoutSingle
<1>9. Without(<<>>, Y) = <<>>
  BY WithoutEmpty
<1>10. \A p \in Node : e.kids[p] = g.kids[p]
  BY <1>1, <1>2, <1>3, <1>5, <1>6
<1>11. e.tops = g.tops
  <2>1. ASSUME NEW w \in e.tops PROVE w \in g.tops
    BY <1>1, <1>2, <1>3, <1>5, <1>7, <1>8
  <2>2. ASSUME NEW w \in g.tops PROVE w \in e.tops
    <3>1. PICK s \in f.tops : w = Without(s, Y) /\ w # <<>>
      BY <1>3
    <3>2. w = Without(Without(s, X), Y)
      BY <1>5, <1>7, <3>1
    <3>3. Without(s, X) # <<>>
      BY <1>9, <3>1, <3>2
    <3> QED BY <1>1, <1>2, <3>1, <3>2, <3>3
  <2> QED BY <2>1, <2>2
<1> QED BY <1>2, <1>3, <1>10, <1>11, RowFacts, ForestsEqual DEF e, g, d

\* Detaching twice.
LEMMA DetachTwice ==
  ASSUME NEW f, Orderly(f), NEW X \in SUBSET Node, NEW Y \in SUBSET Node
  PROVE  Detach(Detach(f, X), Y) = Detach(f, X \cup Y)
<1> DEFINE d == Detach(f, X)
           e == Detach(d, Y)
           Z == X \cup Y
           g == Detach(f, Z)
<1>1. /\ Orderly(d) /\ (\A p \in Node : d.kids[p] = Without(f.kids[p], X))
      /\ d.tops = ({Without(s, X) : s \in f.tops} \ {<<>>}) \cup {One(x) : x \in X}
  BY DetachFacts
<1> HIDE DEF d
<1>2. /\ Orderly(e) /\ (\A p \in Node : e.kids[p] = Without(d.kids[p], Y))
      /\ e.tops = ({Without(s, Y) : s \in d.tops} \ {<<>>}) \cup {One(x) : x \in Y}
  BY <1>1, DetachFacts
<1>3. Z \in SUBSET Node
  OBVIOUS
<1>4. \A s \in Rows : Without(Without(s, X), Y) = Without(s, Z)
  BY WithoutBoth
<1>5. \A x \in X : Without(One(x), Y) = IF x \in Y THEN <<>> ELSE One(x)
  BY WithoutSingle
<1>6. \A x \in Z : x \in X \/ x \in Y
  OBVIOUS
<1>7. \A x : x \in X \/ x \in Y => x \in Z
  OBVIOUS
<1> HIDE DEF Z
<1>8. /\ Orderly(g) /\ (\A p \in Node : g.kids[p] = Without(f.kids[p], Z))
      /\ g.tops = ({Without(s, Z) : s \in f.tops} \ {<<>>}) \cup {One(x) : x \in Z}
  BY <1>3, DetachFacts
<1> HIDE DEF e, g
<1>9. \A p \in Node : f.kids[p] \in Rows
  BY RowFacts
<1>10. \A s \in f.tops : s \in Rows
  BY RowFacts
<1>11. \A p \in Node : e.kids[p] = g.kids[p]
  BY <1>1, <1>2, <1>4, <1>8, <1>9
<1>12. Without(<<>>, Y) = <<>>
  BY WithoutEmpty
<1>13. \A x \in Node : One(x) # <<>>
  BY OneFacts, EmptyList
<1>14. e.tops = g.tops
  <2>1. ASSUME NEW w \in e.tops PROVE w \in g.tops
    BY <1>1, <1>2, <1>4, <1>5, <1>7, <1>8, <1>10, <2>1
  <2>2. ASSUME NEW w \in g.tops PROVE w \in e.tops
    <3>1. CASE w \in {One(x) : x \in Z}
      <4>1. PICK x \in Z : w = One(x)
        BY <3>1
      <4>2. CASE x \in Y
        BY <1>2, <4>1, <4>2
      <4>3. CASE x \notin Y
        <5>1. x \in X /\ w \in d.tops /\ Without(w, Y) = w /\ w # <<>>
          BY <1>1, <1>5, <1>6, <1>13, <4>1, <4>3
        <5> QED BY <1>2, <5>1
      <4> QED BY <4>2, <4>3
    <3>2. CASE w \in {Without(s, Z) : s \in f.tops} \ {<<>>}
      <4>1. PICK s \in f.tops : w = Without(s, Z) /\ w # <<>>
        BY <3>2
      <4>2. w = Without(Without(s, X), Y)
        BY <1>4, <1>10, <4>1
      <4>3. Without(s, X) # <<>>
        BY <1>12, <4>1, <4>2
      <4>4. Without(s, X) \in d.tops
        BY <1>1, <4>1, <4>3
      <4> QED BY <1>2, <4>1, <4>2, <4>4
    <3> QED BY <1>8, <2>2, <3>1, <3>2
  <2> QED BY <2>1, <2>2
<1> QED BY <1>2, <1>8, <1>11, <1>14, RowFacts, ForestsEqual DEF e, g, d, Z

\* n is a chain of its own.
Lone(f, n) == One(n) \in f.tops

\* Taking out what is on its own changes nothing.
LEMMA DetachLone ==
  ASSUME NEW f, Whole(f), NEW X \in SUBSET Node, \A x \in X : Lone(f, x)
  PROVE  Detach(f, X) = f
<1> DEFINE d == Detach(f, X)
<1>0. /\ Orderly(f)
      /\ \A p, s, q, r : \A x : Row(f, p, s) /\ Row(f, q, r) /\ x \in ToSet(s) /\ x \in ToSet(r) => p = q /\ s = r
  BY DEF Whole
<1>1. /\ Orderly(d) /\ (\A p \in Node : d.kids[p] = Without(f.kids[p], X))
      /\ d.tops = ({Without(s, X) : s \in f.tops} \ {<<>>}) \cup {One(x) : x \in X}
  BY <1>0, DetachFacts
<1> HIDE DEF d
<1>2. \A x \in X : Row(f, Nil, One(x)) /\ ToSet(One(x)) = {x} /\ Without(One(x), X) = <<>>
  BY OneFacts, WithoutSingle DEF Row, Lone
<1>3. ASSUME NEW p, NEW s, Row(f, p, s) PROVE Without(s, X) = s \/ (p = Nil /\ \E x \in X : s = One(x))
  <2>1. CASE ToSet(s) \cap X = {}
    BY <1>0, <1>3, <2>1, RowFacts, WithoutList
  <2>2. CASE ToSet(s) \cap X # {}
    <3>1. PICK x : x \in ToSet(s) /\ x \in X
      BY <2>2
    <3> QED BY <1>0, <1>2, <1>3, <3>1
  <2> QED BY <2>1, <2>2
<1>4. \A p \in Node : d.kids[p] = f.kids[p]
  <2>1. \A p \in Node : Row(f, p, f.kids[p]) /\ p # Nil
    BY NilAssumption DEF Row
  <2> QED BY <1>1, <1>3, <2>1
<1>5. \A s \in f.tops : Row(f, Nil, s) /\ s # <<>>
  BY <1>0, RowFacts DEF Row
<1>6. d.tops = f.tops
  <2>1. ASSUME NEW w \in d.tops PROVE w \in f.tops
    <3>1. CASE \E x \in X : w = One(x)
      BY <3>1 DEF Lone
    <3>2. CASE w # <<>> /\ \E s \in f.tops : w = Without(s, X)
      <4>1. PICK s \in f.tops : w = Without(s, X) /\ w # <<>>
        BY <3>2
      <4>2. Without(s, X) = s
        BY <1>2, <1>3, <1>5, <4>1
      <4> QED BY <4>1, <4>2
    <3> QED BY <1>1, <2>1, <3>1, <3>2
  <2>2. ASSUME NEW w \in f.tops PROVE w \in d.tops
    <3>1. Row(f, Nil, w) /\ w # <<>>
      BY <1>5
    <3>2. CASE Without(w, X) = w
      BY <1>1, <3>1, <3>2
    <3>3. CASE \E x \in X : w = One(x)
      BY <1>1, <3>3
    <3> QED BY <1>3, <3>1, <3>2, <3>3
  <2> QED BY <2>1, <2>2
<1> QED BY <1>0, <1>1, <1>4, <1>6, RowFacts, ForestsEqual DEF d

\* What is on its own stays so when other nodes are taken out.
LEMMA DetachKeepsLone ==
  ASSUME NEW f, Orderly(f), NEW X \in SUBSET Node, NEW y \in Node
  PROVE  Lone(f, y) \/ y \in X => Lone(Detach(f, X), y)
<1>1. Detach(f, X).tops = ({Without(s, X) : s \in f.tops} \ {<<>>}) \cup {One(x) : x \in X}
  BY DetachFacts
<1>2. Without(One(y), X) = IF y \in X THEN <<>> ELSE One(y)
  BY WithoutSingle
<1>3. One(y) # <<>>
  BY OneFacts, EmptyList
<1> QED BY <1>1, <1>2, <1>3 DEF Lone

-----------------------------------------------------------------------------
(* The changes of Forests in these terms.                                  *)

\* add_child: moved to the end of the children.
LEMMA UnderIs ==
  ASSUME NEW f, NEW p, NEW l
  PROVE  Under(f, p, l) = Put(f, "child", p, l)
BY DEF Under, Put, Place, Cat

\* add_next_sibling: moved behind the node.
LEMMA BehindIs ==
  ASSUME NEW f, NEW at, NEW l
  PROVE  Behind(f, at, l) = Put(f, "next", at, l)
BY DEF Behind, Put, Place, Beside, Cat, One

\* add_previous_sibling: moved in front of the node.
LEMMA InFrontOfIs ==
  ASSUME NEW f, NEW at, NEW l
  PROVE  InFrontOf(f, at, l) = Put(f, "previous", at, l)
BY DEF InFrontOf, Put, Place, Beside, Cat, One

\* prepend_child to a node without children: as add_child.
LEMMA FirstUnderNone ==
  ASSUME NEW f, Orderly(f), NEW p \in Node, NEW l \in Rows, f.kids[p] = <<>>
  PROVE  FirstUnder(f, p, l) = Put(f, "child", p, l)
<1> DEFINE g == Pull(f, ToSet(l))
<1>1. Orderly(g) /\ g.kids[p] = Without(f.kids[p], ToSet(l))
  BY PullFacts
<1>2. g.kids[p] = <<>>
  BY <1>1, WithoutEmpty
<1> HIDE DEF g
<1>3. FirstUnder(f, p, l) = [g EXCEPT !.kids[p] = Cat(l, @)]
  BY DEF FirstUnder, Cat, g
<1>4. Put(f, "child", p, l) = [g EXCEPT !.kids[p] = Cat(@, l)]
  BY DEF Put, Place, g
<1>5. Cat(l, <<>>) = l /\ Cat(<<>>, l) = l
  BY CatNone
<1>6. g = [kids |-> g.kids, tops |-> g.tops] /\ g.kids \in [Node -> Rows]
  BY <1>1 DEF Orderly, IsForest
<1>7. [g EXCEPT !.kids[p] = Cat(l, @)] = [g EXCEPT !.kids[p] = Cat(@, l)]
  BY <1>2, <1>5, <1>6
<1> QED BY <1>3, <1>4, <1>7

\* prepend_child to others: in front of the first child.
LEMMA FirstUnderFirst ==
  ASSUME NEW f, Whole(f), NEW p \in Node, NEW x \in Node, NEW r \in Rows,
         f.kids[p] = Cat(One(x), r), NEW l, Fit(f, x, l)
  PROVE  FirstUnder(f, p, l) = Put(f, "previous", x, l)
<1> DEFINE L == ToSet(l)
           g == Pull(f, L)
           w == Without(r, L)
           o == One(x)
           m == Beside("previous", x, l)
           k == [q \in Node |-> IF q = p THEN Cat(l, g.kids[q]) ELSE g.kids[q]]
           h == Put(f, "previous", x, l)
<1>0. /\ Orderly(f) /\ l \in Rows /\ x \notin L /\ IsInjective(l)
      /\ \A a, s, b, c : \A y : Row(f, a, s) /\ Row(f, b, c) /\ y \in ToSet(s) /\ y \in ToSet(c) => a = b /\ s = c
  BY DEF Whole, Fit
<1>1. o \in Rows /\ ToSet(o) = {x}
  BY OneFacts
<1>2. w \in Rows
  BY WithoutList
<1>3. /\ Orderly(g) /\ (\A q \in Node : g.kids[q] = Without(f.kids[q], L))
      /\ g.tops = {Without(s, L) : s \in f.tops} \ {<<>>}
  BY <1>0, PullFacts
<1>4. g.kids[p] = Cat(o, w)
  <2>1. Without(Cat(o, r), L) = Cat(Without(o, L), Without(r, L))
    BY <1>1, WithoutCat
  <2>2. Without(o, L) = o
    BY <1>0, WithoutSingle
  <2> QED BY <1>3, <2>1, <2>2
<1> HIDE DEF g, w, o
<1>5. m = Cat(l, o) /\ m \in Rows
  BY <1>0, <1>1, CatFacts DEF Beside, o
<1> HIDE DEF m
<1>6. \A a, s : Row(f, a, s) /\ x \in ToSet(s) => a = p
  <2>1. Row(f, p, f.kids[p]) /\ x \in ToSet(f.kids[p])
    BY <1>1, CatFacts DEF Row, o
  <2> QED BY <1>0, <2>1
<1>7. /\ \A s \in f.tops : s \in Rows /\ x \notin ToSet(s)
      /\ \A q \in Node : f.kids[q] \in Rows /\ (q # p => x \notin ToSet(f.kids[q]))
  <2>1. p # Nil
    BY NilAssumption
  <2> QED BY <1>0, <1>6, <2>1, RowFacts DEF Row
<1>8. \A q \in Node : PlaceRow(g.kids[q], "previous", x, l) = k[q]
  <2> SUFFICES ASSUME NEW q \in Node
               PROVE  Around(g.kids[q], x, m) = IF q = p THEN Cat(l, g.kids[q]) ELSE g.kids[q]
    BY DEF PlaceRow, m
  <2>1. g.kids[q] \in Rows /\ ToSet(g.kids[q]) = ToSet(f.kids[q]) \ L /\ IsInjective(g.kids[q])
    BY <1>3, <1>7, RowFacts, WithoutList
  <2>2. CASE q = p
    <3> DEFINE e == <<>>
    <3>1. e \in Rows /\ \A s \in Rows : Cat(e, s) = s
      BY CatNone
    <3> HIDE DEF e
    <3>2. g.kids[p] = Cat(e, Cat(o, w)) /\ Cat(o, w) \in Rows
      BY <1>1, <1>2, <1>4, <3>1, CatFacts
    <3>3. Around(g.kids[p], x, m) = Cat(e, Cat(m, w))
      BY <1>2, <1>5, <2>1, <2>2, <3>1, <3>2, AroundCat DEF o
    <3>4. Cat(e, Cat(m, w)) = Cat(m, w)
      BY <1>2, <1>5, <3>1, CatFacts
    <3>5. Cat(m, w) = Cat(l, Cat(o, w))
      BY <1>0, <1>1, <1>2, <1>5, CatAssoc
    <3> QED BY <1>4, <2>2, <3>3, <3>4, <3>5
  <2>3. CASE q # p
    BY <1>7, <2>1, <2>3, AroundNone
  <2> QED BY <2>2, <2>3
<1>9. {PlaceRow(s, "previous", x, l) : s \in g.tops} = g.tops
  <2>1. \A s \in g.tops : PlaceRow(s, "previous", x, l) = s
    <3> SUFFICES ASSUME NEW s \in g.tops PROVE Around(s, x, m) = s
      BY DEF PlaceRow, m
    <3>1. PICK c \in f.tops : s = Without(c, L)
      BY <1>3
    <3>2. s \in Rows /\ x \notin ToSet(s)
      BY <1>7, <3>1, WithoutList
    <3> QED BY <3>2, AroundNone
  <2> QED BY <2>1
<1>10. h = [kids |-> [q \in Node |-> PlaceRow(g.kids[q], "previous", x, l)],
            tops |-> {PlaceRow(s, "previous", x, l) : s \in g.tops}]
  BY <1>3, SpliceIs DEF Put, How, g
<1>11. h = [kids |-> k, tops |-> g.tops]
  BY <1>8, <1>9, <1>10
<1>12. FirstUnder(f, p, l) = [g EXCEPT !.kids[p] = Cat(l, @)]
  BY DEF FirstUnder, Cat, g
<1>13. g = [kids |-> g.kids, tops |-> g.tops] /\ g.kids \in [Node -> Rows]
  BY <1>3 DEF Orderly, IsForest
<1>14. [g EXCEPT !.kids[p] = Cat(l, @)] = [kids |-> k, tops |-> g.tops]
  BY <1>13
<1> QED BY <1>11, <1>12, <1>14 DEF h

\* A node has a parent when it is in the row of one.
LEMMA HasParentIs ==
  ASSUME NEW f, Orderly(f), NEW n
  PROVE  HasParent(f, n) <=> \E p \in Node : n \in ToSet(f.kids[p])
<1>1. DOMAIN f.kids = Node
  BY RowFacts
<1>2. \A p \in Node : Contains(f.kids[p], n) <=> n \in ToSet(f.kids[p])
  <2> TAKE p \in Node
  <2>1. f.kids[p] \in Seq(Node)
    BY RowFacts DEF Rows
  <2>2. DOMAIN f.kids[p] = 1 .. Len(f.kids[p])
    BY <2>1, LenProperties
  <2> QED BY <2>2 DEF Contains, ToSet
<1> QED BY <1>1, <1>2 DEF HasParent

\* The same move, whatever was done to what is moved before.
LEMMA PutOfPull ==
  ASSUME NEW f, NEW g, NEW how, NEW at, NEW l, Pull(f, ToSet(l)) = Pull(g, ToSet(l))
  PROVE  Put(f, how, at, l) = Put(g, how, at, l)
BY DEF Put

\* A node is linked to a place under which, or beside which, it is not yet.
LEMMA PutChildKids ==
  ASSUME NEW f, NEW at, NEW l, Fit(f, at, l), NEW how \in How, NEW q \in Node,
         how = "child" => q # at, how # "child" => at \notin ToSet(f.kids[q])
  PROVE  Put(f, how, at, l).kids[q] = Without(f.kids[q], ToSet(l))
<1> DEFINE g == Pull(f, ToSet(l))
<1>0. Orderly(f) /\ at \in Node /\ l \in Rows
  BY DEF Fit
<1>1. g.kids[q] = Without(f.kids[q], ToSet(l))
  BY <1>0, PullFacts
<1>2. Room(g, at, l)
  BY FitFree
<1> HIDE DEF g
<1>3. CASE how = "child"
  <2>1. Place(g, how, at, l).kids[q] = g.kids[q]
    BY <1>2, <1>3, PlaceFree
  <2> QED BY <1>1, <2>1 DEF Put, g
<1>4. CASE how # "child"
  <2>1. Place(g, how, at, l).kids[q] = PlaceRow(g.kids[q], how, at, l)
    BY <1>2, <1>4, PlaceFree
  <2>2. f.kids[q] \in Rows
    BY <1>0, RowFacts
  <2>3. g.kids[q] \in Rows /\ at \notin ToSet(g.kids[q])
    BY <1>1, <1>4, <2>2, WithoutList
  <2>4. PlaceRow(g.kids[q], how, at, l) = g.kids[q]
    BY <2>3, AroundNone DEF PlaceRow
  <2> QED BY <1>1, <2>1, <2>4 DEF Put, g
<1> QED BY <1>3, <1>4

-----------------------------------------------------------------------------
(* The ends of a list, and its neighbours.                                 *)

\* The first member of s, d if there is none.
HeadOr(s, d) == IF s = <<>> THEN d ELSE s[1]

\* The last member of s, d if there is none.
LastOr(s, d) == IF s = <<>> THEN d ELSE s[Len(s)]

\* The empty list has no ends.
LEMMA EndsNone ==
  ASSUME NEW d
  PROVE  HeadOr(<<>>, d) = d /\ LastOr(<<>>, d) = d
BY DEF HeadOr, LastOr

\* A node alone is both ends.
LEMMA EndsOne ==
  ASSUME NEW x \in Node, NEW d
  PROVE  HeadOr(One(x), d) = x /\ LastOr(One(x), d) = x /\ One(x) # <<>>
<1>1. <<x>> # <<>> /\ <<x>>[1] = x /\ Len(<<x>>) = 1
  OBVIOUS
<1> QED BY <1>1 DEF HeadOr, LastOr, One

\* The ends are members.
LEMMA EndsIn ==
  ASSUME NEW s \in Rows, NEW d
  PROVE  /\ s # <<>> => HeadOr(s, d) \in ToSet(s) /\ LastOr(s, d) \in ToSet(s)
         /\ s = <<>> => HeadOr(s, d) = d /\ LastOr(s, d) = d
<1>1. DOMAIN s = 1 .. Len(s) /\ Len(s) \in Nat /\ (Len(s) = 0 => s = <<>>)
  BY LenProperties, EmptySeq DEF Rows
<1>2. ASSUME s # <<>> PROVE s[1] \in ToSet(s) /\ s[Len(s)] \in ToSet(s)
  <2>1. 1 \in DOMAIN s /\ Len(s) \in DOMAIN s
    BY <1>1, <1>2
  <2> QED BY <2>1 DEF ToSet
<1> QED BY <1>2 DEF HeadOr, LastOr

\* The ends of two lists put together.
LEMMA EndsCat ==
  ASSUME NEW s \in Rows, NEW t \in Rows, NEW d
  PROVE  /\ HeadOr(Cat(s, t), d) = HeadOr(s, HeadOr(t, d))
         /\ LastOr(Cat(s, t), d) = LastOr(t, LastOr(s, d))
         /\ Cat(s, t) = <<>> <=> s = <<>> /\ t = <<>>
<1>0. \A w \in Rows : Cat(w, <<>>) = w /\ Cat(<<>>, w) = w
  BY CatNone
<1>1. CASE s = <<>>
  BY <1>0, <1>1 DEF HeadOr, LastOr
<1>2. CASE t = <<>>
  BY <1>0, <1>2 DEF HeadOr, LastOr
<1>3. CASE s # <<>> /\ t # <<>>
  <2> DEFINE w == s \o t
             n == Len(s)
             m == Len(t)
  <2>1. /\ w \in Seq(Node) /\ Len(w) = n + m
        /\ \A i \in 1 .. n + m : w[i] = IF i <= n THEN s[i] ELSE t[i - n]
    BY ConcatProperties DEF Rows
  <2>2. n \in Nat /\ m \in Nat /\ (n = 0 => s = <<>>) /\ (m = 0 => t = <<>>)
    BY LenProperties, EmptySeq DEF Rows
  <2>3. Len(<<>>) = 0
    OBVIOUS
  <2> HIDE DEF w, n, m
  <2>4. n > 0 /\ m > 0
    BY <1>3, <2>2
  <2>5. 1 \in 1 .. n + m /\ 1 <= n /\ n + m \in 1 .. n + m /\ ~(n + m <= n) /\ (n + m) - n = m /\ n + m # 0
    BY <2>2, <2>4
  <2>6. w # <<>> /\ w[1] = s[1] /\ w[Len(w)] = t[m]
    BY <2>1, <2>3, <2>5
  <2> QED BY <1>3, <2>6 DEF HeadOr, LastOr, Cat, w, m
<1> QED BY <1>1, <1>2, <1>3

\* There is one way to split a list at a node.
LEMMA SplitOnce ==
  ASSUME NEW u \in Rows, NEW v \in Rows, NEW a \in Rows, NEW b \in Rows, NEW x \in Node,
         IsInjective(Cat(u, Cat(One(x), v))), Cat(u, Cat(One(x), v)) = Cat(a, Cat(One(x), b))
  PROVE  u = a /\ v = b
<1> DEFINE s == u \o <<x>> \o v
           r == a \o <<x>> \o b
           n == Len(u)
           m == Len(v)
           i == Len(a)
           j == Len(b)
<1>1. s = Cat(u, Cat(One(x), v)) /\ r = Cat(a, Cat(One(x), b))
  <2>1. Cat(Cat(u, One(x)), v) = Cat(u, Cat(One(x), v)) /\ Cat(Cat(a, One(x)), b) = Cat(a, Cat(One(x), b))
    BY OneFacts, CatAssoc
  <2> QED BY <2>1 DEF Cat, One
<1>2. /\ s \in Seq(Node) /\ Len(s) = n + 1 + m /\ s[n + 1] = x
      /\ \A k \in 1 .. n : s[k] = u[k]
      /\ \A k \in 1 .. m : s[n + 1 + k] = v[k]
  BY Parts DEF Rows
<1>3. /\ r \in Seq(Node) /\ Len(r) = i + 1 + j /\ r[i + 1] = x
      /\ \A k \in 1 .. i : r[k] = a[k]
      /\ \A k \in 1 .. j : r[i + 1 + k] = b[k]
  BY Parts DEF Rows
<1>4. n \in Nat /\ m \in Nat /\ i \in Nat /\ j \in Nat
  BY LenProperties DEF Rows
<1> HIDE DEF s, r, n, m, i, j
<1>5. s = r /\ IsInjective(s)
  BY <1>1
<1>6. DOMAIN s = 1 .. Len(s)
  BY <1>2, LenProperties
<1>7. n = i
  <2>1. n + 1 \in DOMAIN s /\ i + 1 \in DOMAIN s
    <3>1. n + 1 \in 1 .. n + 1 + m /\ i + 1 \in 1 .. i + 1 + j
      BY <1>4
    <3> QED BY <1>2, <1>3, <1>5, <1>6, <3>1
  <2>2. n + 1 = i + 1
    BY <1>2, <1>3, <1>5, <2>1 DEF IsInjective
  <2> QED BY <1>4, <2>2
<1>8. m = j
  BY <1>2, <1>3, <1>4, <1>5, <1>7
<1>9. u = a
  BY <1>2, <1>3, <1>5, <1>7, SeqEqual DEF Rows, n, i
<1>10. v = b
  BY <1>2, <1>3, <1>5, <1>7, <1>8, SeqEqual DEF Rows, m, j
<1> QED BY <1>9, <1>10

\* x follows u and precedes v in s.
Cut(s, u, x, v) == u \in Rows /\ v \in Rows /\ x \in Node /\ s = Cat(u, Cat(One(x), v))

\* The members of s before x, x, and those behind it.
LEMMA CutFacts ==
  ASSUME NEW s, NEW u, NEW x, NEW v, Cut(s, u, x, v)
  PROVE  /\ s \in Rows /\ u \in Rows /\ v \in Rows /\ x \in Node /\ s # <<>>
         /\ ToSet(s) = ToSet(u) \cup {x} \cup ToSet(v)
         /\ IsInjective(s) <=> /\ IsInjective(u) /\ IsInjective(v)
                               /\ x \notin ToSet(u) /\ x \notin ToSet(v)
                               /\ ToSet(u) \cap ToSet(v) = {}
<1> DEFINE o == One(x)
           w == Cat(o, v)
<1>1. u \in Rows /\ v \in Rows /\ x \in Node /\ s = Cat(u, w)
  BY DEF Cut
<1>2. o \in Rows /\ ToSet(o) = {x} /\ IsInjective(o) /\ o # <<>>
  BY <1>1, OneFacts, EndsOne
<1> HIDE DEF o
<1>3. /\ w \in Rows /\ ToSet(w) = {x} \cup ToSet(v)
      /\ IsInjective(w) <=> IsInjective(v) /\ {x} \cap ToSet(v) = {}
  BY <1>1, <1>2, CatFacts
<1>4. w # <<>>
  BY <1>1, <1>2, EndsCat
<1> HIDE DEF w
<1>5. /\ s \in Rows /\ ToSet(s) = ToSet(u) \cup ToSet(w)
      /\ IsInjective(s) <=> IsInjective(u) /\ IsInjective(w) /\ ToSet(u) \cap ToSet(w) = {}
  BY <1>1, <1>3, CatFacts
<1>6. s # <<>>
  BY <1>1, <1>3, <1>4, EndsCat
<1> QED BY <1>1, <1>3, <1>5, <1>6

\* Every member has a place.
LEMMA CutThere ==
  ASSUME NEW s \in Rows, NEW x \in ToSet(s)
  PROVE  \E u, v : Cut(s, u, x, v)
<1>1. x \in Node
  <2>1. DOMAIN s = 1 .. Len(s) /\ \A i \in 1 .. Len(s) : s[i] \in Node
    BY LenProperties, ElementOfSeq DEF Rows
  <2> QED BY <2>1 DEF ToSet
<1> QED BY <1>1, CatSplit DEF Cut

\* It has one place.
LEMMA CutOnce ==
  ASSUME NEW s, IsInjective(s), NEW x, NEW u, NEW v, NEW a, NEW b, Cut(s, u, x, v), Cut(s, a, x, b)
  PROVE  u = a /\ v = b
<1>1. /\ u \in Rows /\ v \in Rows /\ x \in Node /\ s = Cat(u, Cat(One(x), v))
      /\ a \in Rows /\ b \in Rows /\ s = Cat(a, Cat(One(x), b))
  BY DEF Cut
<1>2. IsInjective(Cat(u, Cat(One(x), v))) /\ Cat(u, Cat(One(x), v)) = Cat(a, Cat(One(x), b))
  BY <1>1
<1> QED BY <1>1, <1>2, SplitOnce

\* A cut of one of two lists is a cut of both together.
LEMMA CutLeft ==
  ASSUME NEW s, NEW t \in Rows, NEW u, NEW x, NEW v, Cut(s, u, x, v)
  PROVE  Cut(Cat(s, t), u, x, Cat(v, t))
<1>1. u \in Rows /\ v \in Rows /\ x \in Node /\ s = Cat(u, Cat(One(x), v))
  BY DEF Cut
<1>2. One(x) \in Rows /\ Cat(v, t) \in Rows /\ Cat(One(x), v) \in Rows
  BY <1>1, OneFacts, CatFacts
<1>3. Cat(s, t) = Cat(u, Cat(One(x), Cat(v, t)))
  BY <1>1, <1>2, CatAssoc
<1> QED BY <1>1, <1>2, <1>3 DEF Cut

\* A place in the second of two lists.
LEMMA CutRight ==
  ASSUME NEW s \in Rows, NEW t, NEW u, NEW x, NEW v, Cut(t, u, x, v)
  PROVE  Cut(Cat(s, t), Cat(s, u), x, v)
<1>1. u \in Rows /\ v \in Rows /\ x \in Node /\ t = Cat(u, Cat(One(x), v))
  BY DEF Cut
<1>2. One(x) \in Rows /\ Cat(s, u) \in Rows /\ Cat(One(x), v) \in Rows
  BY <1>1, OneFacts, CatFacts
<1>3. Cat(s, t) = Cat(Cat(s, u), Cat(One(x), v))
  BY <1>1, <1>2, CatAssoc
<1> QED BY <1>1, <1>2, <1>3 DEF Cut

\* The place of a node alone.
LEMMA CutOne ==
  ASSUME NEW x \in Node, NEW u, NEW y, NEW v, Cut(One(x), u, y, v)
  PROVE  y = x /\ u = <<>> /\ v = <<>>
<1>1. ToSet(One(x)) = {x} /\ IsInjective(One(x))
  BY OneFacts
<1>2. /\ y \in ToSet(One(x)) /\ y \notin ToSet(u) /\ y \notin ToSet(v)
      /\ ToSet(u) \subseteq {x} /\ ToSet(v) \subseteq {x} /\ u \in Rows /\ v \in Rows
  BY <1>1, CutFacts
<1>3. y = x /\ ToSet(u) = {} /\ ToSet(v) = {}
  BY <1>1, <1>2
<1> QED BY <1>2, <1>3, EmptyList

-----------------------------------------------------------------------------
(* A list that the pointers of a tree link.                                *)

\* The links of t have the nodes of s, in this order, between l and r under p.
Run(t, s, p, l, r) ==
  \A u, v, x : Cut(s, u, x, v) =>
    t.parent[x] = p /\ t.prev[x] = LastOr(u, l) /\ t.next[x] = HeadOr(v, r)

\* No nodes are always linked.
LEMMA RunNone ==
  ASSUME NEW t, NEW p, NEW l, NEW r
  PROVE  Run(t, <<>>, p, l, r)
BY CutFacts DEF Run

\* One node is linked by its own three pointers.
LEMMA RunOne ==
  ASSUME NEW t, NEW x \in Node, NEW p, NEW l, NEW r
  PROVE  Run(t, One(x), p, l, r) <=> t.parent[x] = p /\ t.prev[x] = l /\ t.next[x] = r
<1>1. Cut(One(x), <<>>, x, <<>>)
  <2>1. <<>> \in Rows /\ One(x) \in Rows /\ Cat(One(x), <<>>) = One(x) /\ Cat(<<>>, One(x)) = One(x)
    BY CatNone, OneFacts
  <2> QED BY <2>1 DEF Cut
<1>2. LastOr(<<>>, l) = l /\ HeadOr(<<>>, r) = r
  BY EndsNone
<1>3. ASSUME Run(t, One(x), p, l, r) PROVE t.parent[x] = p /\ t.prev[x] = l /\ t.next[x] = r
  BY <1>1, <1>2, <1>3 DEF Run
<1>4. ASSUME t.parent[x] = p /\ t.prev[x] = l /\ t.next[x] = r PROVE Run(t, One(x), p, l, r)
  <2> SUFFICES ASSUME NEW u, NEW v, NEW y, Cut(One(x), u, y, v)
               PROVE  t.parent[y] = p /\ t.prev[y] = LastOr(u, l) /\ t.next[y] = HeadOr(v, r)
    BY DEF Run
  <2>1. y = x /\ u = <<>> /\ v = <<>>
    BY CutOne
  <2> QED BY <1>2, <1>4, <2>1
<1> QED BY <1>3, <1>4

\* Two runs that meet make one.
LEMMA RunCat ==
  ASSUME NEW t, NEW a \in Rows, NEW b \in Rows, IsInjective(Cat(a, b)), NEW p, NEW l, NEW r
  PROVE  Run(t, Cat(a, b), p, l, r) <=> Run(t, a, p, l, HeadOr(b, r)) /\ Run(t, b, p, LastOr(a, l), r)
<1> DEFINE s == Cat(a, b)
           h == HeadOr(b, r)
           z == LastOr(a, l)
<1>0. s \in Rows /\ ToSet(s) = ToSet(a) \cup ToSet(b) /\ IsInjective(s)
  BY CatFacts
<1>1. ASSUME NEW u, NEW x, NEW v, Cut(a, u, x, v)
      PROVE  Cut(s, u, x, Cat(v, b)) /\ HeadOr(Cat(v, b), r) = HeadOr(v, h)
  <2>1. v \in Rows
    BY <1>1 DEF Cut
  <2> QED BY <1>1, <2>1, CutLeft, EndsCat
<1>2. ASSUME NEW u, NEW x, NEW v, Cut(b, u, x, v)
      PROVE  Cut(s, Cat(a, u), x, v) /\ LastOr(Cat(a, u), l) = LastOr(u, z)
  <2>1. u \in Rows
    BY <1>2 DEF Cut
  <2> QED BY <1>2, <2>1, CutRight, EndsCat
<1> HIDE DEF s, h, z
<1>3. ASSUME Run(t, s, p, l, r) PROVE Run(t, a, p, l, h) /\ Run(t, b, p, z, r)
  BY <1>1, <1>2, <1>3 DEF Run
<1>4. ASSUME Run(t, a, p, l, h), Run(t, b, p, z, r) PROVE Run(t, s, p, l, r)
  <2> SUFFICES ASSUME NEW u, NEW v, NEW x, Cut(s, u, x, v)
               PROVE  t.parent[x] = p /\ t.prev[x] = LastOr(u, l) /\ t.next[x] = HeadOr(v, r)
    BY DEF Run
  <2>1. x \in ToSet(s)
    BY CutFacts
  <2>2. CASE x \in ToSet(a)
    <3>1. PICK c, d : Cut(a, c, x, d)
      BY <2>2, CutThere
    <3>2. Cut(s, c, x, Cat(d, b)) /\ HeadOr(Cat(d, b), r) = HeadOr(d, h)
      BY <1>1, <3>1
    <3>3. u = c /\ v = Cat(d, b)
      BY <1>0, <3>2, CutOnce
    <3> QED BY <1>4, <3>1, <3>2, <3>3 DEF Run
  <2>3. CASE x \in ToSet(b)
    <3>1. PICK c, d : Cut(b, c, x, d)
      BY <2>3, CutThere
    <3>2. Cut(s, Cat(a, c), x, d) /\ LastOr(Cat(a, c), l) = LastOr(c, z)
      BY <1>2, <3>1
    <3>3. u = Cat(a, c) /\ v = d
      BY <1>0, <3>2, CutOnce
    <3> QED BY <1>4, <3>1, <3>2, <3>3 DEF Run
  <2> QED BY <1>0, <2>1, <2>2, <2>3
<1> QED BY <1>3, <1>4 DEF s, h, z

\* What a cut says of a run.
LEMMA RunCut ==
  ASSUME NEW t, NEW s, IsInjective(s), NEW u, NEW x, NEW v, Cut(s, u, x, v), NEW p, NEW l, NEW r
  PROVE  Run(t, s, p, l, r) <=> /\ Run(t, u, p, l, x) /\ Run(t, v, p, x, r)
                                /\ t.parent[x] = p /\ t.prev[x] = LastOr(u, l) /\ t.next[x] = HeadOr(v, r)
<1> DEFINE o == One(x)
           w == Cat(o, v)
<1>1. u \in Rows /\ v \in Rows /\ x \in Node /\ s = Cat(u, w)
  BY DEF Cut
<1>2. o \in Rows /\ \A d : HeadOr(o, d) = x /\ LastOr(o, d) = x
  BY <1>1, OneFacts, EndsOne
<1>3. \A q, a, b : Run(t, o, q, a, b) <=> t.parent[x] = q /\ t.prev[x] = a /\ t.next[x] = b
  BY <1>1, RunOne
<1> HIDE DEF o
<1>4. w \in Rows /\ HeadOr(w, r) = x
  BY <1>1, <1>2, CatFacts, EndsCat
<1>5. IsInjective(w) /\ IsInjective(Cat(u, w))
  BY <1>1, <1>4, CatFacts
<1>6. Run(t, s, p, l, r) <=> Run(t, u, p, l, HeadOr(w, r)) /\ Run(t, w, p, LastOr(u, l), r)
  <2> HIDE DEF w
  <2> QED BY <1>1, <1>4, <1>5, RunCat
<1>7. Run(t, w, p, LastOr(u, l), r) <=> Run(t, o, p, LastOr(u, l), HeadOr(v, r)) /\ Run(t, v, p, LastOr(o, LastOr(u, l)), r)
  BY <1>1, <1>2, <1>5, RunCat
<1> QED BY <1>2, <1>3, <1>4, <1>6, <1>7

\* Other links change nothing, and the ends may change.
LEMMA RunFrame ==
  ASSUME NEW t, NEW q, NEW s \in Rows, IsInjective(s), NEW p, NEW l, NEW r, NEW a, NEW b,
         Run(t, s, p, l, r),
         \A x \in ToSet(s) : /\ q.parent[x] = t.parent[x]
                             /\ q.prev[x] = IF x = HeadOr(s, Nil) THEN a ELSE t.prev[x]
                             /\ q.next[x] = IF x = LastOr(s, Nil) THEN b ELSE t.next[x]
  PROVE  Run(q, s, p, a, b)
<1> SUFFICES ASSUME NEW u, NEW v, NEW x, Cut(s, u, x, v)
             PROVE  q.parent[x] = p /\ q.prev[x] = LastOr(u, a) /\ q.next[x] = HeadOr(v, b)
  BY DEF Run
<1>1. /\ u \in Rows /\ v \in Rows /\ x \in Node /\ x \in ToSet(s) /\ x \notin ToSet(u) /\ x \notin ToSet(v)
  BY CutFacts
<1>2. t.parent[x] = p /\ t.prev[x] = LastOr(u, l) /\ t.next[x] = HeadOr(v, r)
  BY DEF Run
<1> DEFINE o == One(x)
           w == Cat(o, v)
<1>3. o \in Rows /\ (\A d : HeadOr(o, d) = x /\ LastOr(o, d) = x) /\ s = Cat(u, w)
  BY <1>1, OneFacts, EndsOne DEF Cut
<1> HIDE DEF o
<1>4. w \in Rows /\ HeadOr(w, Nil) = x /\ \A d : LastOr(w, d) = LastOr(v, x)
  <2>1. w \in Rows
    BY <1>1, <1>3, CatFacts
  <2>2. HeadOr(w, Nil) = HeadOr(o, HeadOr(v, Nil))
    BY <1>1, <1>3, EndsCat
  <2>3. ASSUME NEW d PROVE LastOr(w, d) = LastOr(v, x)
    <3>1. LastOr(w, d) = LastOr(v, LastOr(o, d))
      BY <1>1, <1>3, EndsCat
    <3> QED BY <1>3, <3>1
  <2> QED BY <1>3, <2>1, <2>2, <2>3
<1> HIDE DEF w
<1>5. HeadOr(s, Nil) = HeadOr(u, x) /\ LastOr(s, Nil) = LastOr(v, x)
  BY <1>1, <1>3, <1>4, EndsCat
<1>6. /\ u = <<>> => HeadOr(u, x) = x /\ LastOr(u, a) = a
      /\ u # <<>> => HeadOr(u, x) \in ToSet(u) /\ LastOr(u, a) = LastOr(u, l)
  BY <1>1, EndsIn DEF LastOr
<1>7. /\ v = <<>> => LastOr(v, x) = x /\ HeadOr(v, b) = b
      /\ v # <<>> => LastOr(v, x) \in ToSet(v) /\ HeadOr(v, b) = HeadOr(v, r)
  BY <1>1, EndsIn DEF HeadOr
<1> QED BY <1>1, <1>2, <1>5, <1>6, <1>7

\* The neighbours of x, at the ends of the list too.
LEMMA CutEnds ==
  ASSUME NEW s, NEW u, NEW x, NEW v, Cut(s, u, x, v), IsInjective(s)
  PROVE  /\ HeadOr(s, Nil) = HeadOr(u, x) /\ LastOr(s, Nil) = LastOr(v, x)
         /\ u = <<>> <=> x = HeadOr(s, Nil)
         /\ v = <<>> <=> x = LastOr(s, Nil)
<1>1. /\ u \in Rows /\ v \in Rows /\ x \in Node /\ x \notin ToSet(u) /\ x \notin ToSet(v)
  BY CutFacts
<1> DEFINE o == One(x)
           w == Cat(o, v)
<1>2. o \in Rows /\ (\A d : HeadOr(o, d) = x /\ LastOr(o, d) = x) /\ s = Cat(u, w)
  BY <1>1, OneFacts, EndsOne DEF Cut
<1> HIDE DEF o
<1>3. w \in Rows
  BY <1>1, <1>2, CatFacts
<1>4. HeadOr(w, Nil) = x
  <2>1. HeadOr(w, Nil) = HeadOr(o, HeadOr(v, Nil))
    BY <1>1, <1>2, EndsCat
  <2> QED BY <1>2, <2>1
<1>5. LastOr(w, LastOr(u, Nil)) = LastOr(v, x)
  <2>1. LastOr(w, LastOr(u, Nil)) = LastOr(v, LastOr(o, LastOr(u, Nil)))
    BY <1>1, <1>2, EndsCat
  <2> QED BY <1>2, <2>1
<1> HIDE DEF w
<1>6. HeadOr(s, Nil) = HeadOr(u, x) /\ LastOr(s, Nil) = LastOr(v, x)
  BY <1>1, <1>2, <1>3, <1>4, <1>5, EndsCat
<1>7. /\ u = <<>> => HeadOr(u, x) = x
      /\ u # <<>> => HeadOr(u, x) \in ToSet(u)
  BY <1>1, EndsIn
<1>8. /\ v = <<>> => LastOr(v, x) = x
      /\ v # <<>> => LastOr(v, x) \in ToSet(v)
  BY <1>1, EndsIn
<1> QED BY <1>1, <1>6, <1>7, <1>8

\* Only the pointers of its nodes matter to a run.
LEMMA RunSame ==
  ASSUME NEW t, NEW q, NEW s \in Rows, NEW p, NEW l, NEW r, Run(t, s, p, l, r),
         \A x \in ToSet(s) : q.parent[x] = t.parent[x] /\ q.prev[x] = t.prev[x] /\ q.next[x] = t.next[x]
  PROVE  Run(q, s, p, l, r)
<1> SUFFICES ASSUME NEW u, NEW v, NEW x, Cut(s, u, x, v)
             PROVE  q.parent[x] = p /\ q.prev[x] = LastOr(u, l) /\ q.next[x] = HeadOr(v, r)
  BY DEF Run
<1>1. x \in ToSet(s)
  BY CutFacts
<1> QED BY <1>1 DEF Run

\* Only what follows the last node is new.
LEMMA RunLast ==
  ASSUME NEW t, NEW q, NEW s \in Rows, IsInjective(s), NEW p, NEW l, NEW r, NEW b, Run(t, s, p, l, r),
         \A x \in ToSet(s) : /\ q.parent[x] = t.parent[x] /\ q.prev[x] = t.prev[x]
                             /\ q.next[x] = IF x = LastOr(s, Nil) THEN b ELSE t.next[x]
  PROVE  Run(q, s, p, l, b)
<1> SUFFICES ASSUME NEW u, NEW v, NEW x, Cut(s, u, x, v)
             PROVE  q.parent[x] = p /\ q.prev[x] = LastOr(u, l) /\ q.next[x] = HeadOr(v, b)
  BY DEF Run
<1>1. v \in Rows /\ x \in ToSet(s)
  BY CutFacts
<1>2. t.parent[x] = p /\ t.prev[x] = LastOr(u, l) /\ t.next[x] = HeadOr(v, r)
  BY DEF Run
<1>3. v = <<>> <=> x = LastOr(s, Nil)
  BY CutEnds
<1> QED BY <1>1, <1>2, <1>3 DEF HeadOr

\* Only what precedes the first node is new.
LEMMA RunFirst ==
  ASSUME NEW t, NEW q, NEW s \in Rows, IsInjective(s), NEW p, NEW l, NEW r, NEW a, Run(t, s, p, l, r),
         \A x \in ToSet(s) : /\ q.parent[x] = t.parent[x] /\ q.next[x] = t.next[x]
                             /\ q.prev[x] = IF x = HeadOr(s, Nil) THEN a ELSE t.prev[x]
  PROVE  Run(q, s, p, a, r)
<1> SUFFICES ASSUME NEW u, NEW v, NEW x, Cut(s, u, x, v)
             PROVE  q.parent[x] = p /\ q.prev[x] = LastOr(u, a) /\ q.next[x] = HeadOr(v, r)
  BY DEF Run
<1>1. u \in Rows /\ x \in ToSet(s)
  BY CutFacts
<1>2. t.parent[x] = p /\ t.prev[x] = LastOr(u, l) /\ t.next[x] = HeadOr(v, r)
  BY DEF Run
<1>3. u = <<>> <=> x = HeadOr(s, Nil)
  BY CutEnds
<1> QED BY <1>1, <1>2, <1>3 DEF LastOr

-----------------------------------------------------------------------------
(* The forest that a tree shows.                                           *)

\* first_child and last_child point to the ends of the children.
Ends(t, f) == \A p \in Node : t.first[p] = HeadOr(f.kids[p], Nil) /\ t.last[p] = LastOr(f.kids[p], Nil)

\* The pointers of t link the rows of f, and every node is in one row.
Shows(t, f) ==
  /\ t \in Tree /\ Whole(f) /\ Ends(t, f)
  /\ \A p, s : Row(f, p, s) => Run(t, s, p, Nil, Nil)

\* Where a node is.
At(t, f, x, p, s, u, v) ==
  /\ Row(f, p, s) /\ Cut(s, u, x, v) /\ IsInjective(s) /\ s \in Rows /\ p \in Link
  /\ t.parent[x] = p /\ t.prev[x] = LastOr(u, Nil) /\ t.next[x] = HeadOr(v, Nil)
  /\ Run(t, s, p, Nil, Nil) /\ Run(t, u, p, Nil, x) /\ Run(t, v, p, x, Nil)

\* Where a node of a row stands in it, and what its pointers are.
LEMMA RowAt ==
  ASSUME NEW t, NEW f, Shows(t, f), NEW p, NEW s, Row(f, p, s), NEW x \in ToSet(s)
  PROVE  \E u, v : At(t, f, x, p, s, u, v)
<1>1. s \in Rows /\ IsInjective(s) /\ p \in Link /\ Run(t, s, p, Nil, Nil)
  BY RowFacts DEF Shows, Whole, Row, Link
<1>2. PICK u, v : Cut(s, u, x, v)
  BY <1>1, CutThere
<1>3. /\ Run(t, u, p, Nil, x) /\ Run(t, v, p, x, Nil)
      /\ t.parent[x] = p /\ t.prev[x] = LastOr(u, Nil) /\ t.next[x] = HeadOr(v, Nil)
  BY <1>1, <1>2, RunCut
<1> QED BY <1>1, <1>2, <1>3 DEF At

\* Every node stands in some row.
LEMMA NodeAt ==
  ASSUME NEW t, NEW f, Shows(t, f), NEW x \in Node
  PROVE  \E p, s, u, v : At(t, f, x, p, s, u, v)
<1>1. PICK p, s : Row(f, p, s) /\ x \in ToSet(s)
  BY DEF Shows, Whole
<1> QED BY <1>1, RowAt

\* What the pointers of t say of f.
LEMMA FirstShown ==
  ASSUME NEW t, NEW f, Shows(t, f), NEW p \in Node
  PROVE  /\ t.first[p] = Nil <=> f.kids[p] = <<>>
         /\ t.first[p] # Nil => t.first[p] \in Node /\ \E r : Cut(f.kids[p], <<>>, t.first[p], r)
<1>1. f.kids[p] \in Rows /\ IsInjective(f.kids[p]) /\ t.first[p] = HeadOr(f.kids[p], Nil)
  BY RowFacts DEF Shows, Whole, Ends
<1>2. t.first[p] \in Link
  BY DEF Shows, Tree
<1>3. CASE f.kids[p] = <<>>
  BY <1>1, <1>3, EndsIn
<1>4. CASE f.kids[p] # <<>>
  <2>1. t.first[p] \in ToSet(f.kids[p])
    BY <1>1, <1>4, EndsIn
  <2>2. PICK u, v : Cut(f.kids[p], u, t.first[p], v)
    BY <1>1, <2>1, CutThere
  <2>3. u = <<>> /\ t.first[p] \in Node
    BY <1>1, <2>2, CutEnds, CutFacts
  <2> QED BY <1>4, <2>2, <2>3, NilAssumption
<1> QED BY <1>3, <1>4

\* The parent pointer names the row.
LEMMA ParentShown ==
  ASSUME NEW t, NEW f, Shows(t, f), NEW x \in Node
  PROVE  /\ \A p \in Node : x \in ToSet(f.kids[p]) <=> t.parent[x] = p
         /\ t.parent[x] = Nil <=> \A p \in Node : x \notin ToSet(f.kids[p])
<1>1. PICK p, s, u, v : At(t, f, x, p, s, u, v)
  BY NodeAt
<1>2. Row(f, p, s) /\ x \in ToSet(s) /\ t.parent[x] = p /\ p \in Link
  BY <1>1, CutFacts DEF At
<1>3. \A q \in Node : Row(f, q, f.kids[q]) /\ q # Nil
  BY NilAssumption DEF Row
<1>4. ASSUME NEW q, NEW r, Row(f, q, r), x \in ToSet(r) PROVE p = q /\ s = r
  BY <1>2, <1>4 DEF Shows, Whole
<1>5. p \in Node => s = f.kids[p]
  BY <1>2, NilAssumption DEF Row
<1> QED BY <1>2, <1>3, <1>4, <1>5 DEF Link

\* A node without any link is on its own, and nothing is under it.
LEMMA IsolatedShown ==
  ASSUME NEW t, NEW f, Shows(t, f), NEW x \in Node
  PROVE  /\ t.parent[x] = Nil /\ t.prev[x] = Nil /\ t.next[x] = Nil => Lone(f, x)
         /\ Isolated(t, x) => Lone(f, x) /\ f.kids[x] = <<>>
<1>1. ASSUME t.parent[x] = Nil /\ t.prev[x] = Nil /\ t.next[x] = Nil PROVE Lone(f, x)
  <2>1. PICK p, s, u, v : At(t, f, x, p, s, u, v)
    BY NodeAt
  <2>2. /\ Row(f, p, s) /\ Cut(s, u, x, v) /\ s \in Rows /\ p = Nil
        /\ LastOr(u, Nil) = Nil /\ HeadOr(v, Nil) = Nil
    BY <1>1, <2>1 DEF At
  <2>3. u \in Rows /\ v \in Rows /\ s = Cat(u, Cat(One(x), v))
    BY <2>2 DEF Cut
  <2>4. u = <<>> /\ v = <<>>
    <3>1. Nil \notin ToSet(u) /\ Nil \notin ToSet(v)
      <4>1. ASSUME NEW w \in Rows, Nil \in ToSet(w) PROVE FALSE
        <5>1. PICK a, b : Cut(w, a, Nil, b)
          BY <4>1, CutThere
        <5> QED BY <5>1, CutFacts, NilAssumption
      <4> QED BY <2>3, <4>1
    <3> QED BY <2>2, <2>3, <3>1, EndsIn
  <2>5. s = One(x)
    <3>1. Cat(One(x), <<>>) = One(x) /\ Cat(<<>>, One(x)) = One(x)
      BY OneFacts, CatNone
    <3> QED BY <2>3, <2>4, <3>1
  <2> QED BY <2>2, <2>5, NilAssumption DEF Row, Lone
<1> QED BY <1>1, FirstShown DEF Isolated

-----------------------------------------------------------------------------
(* lxb_dom_node_remove detaches one node of the forest.                    *)

\* The pointers around a node that is unlinked.
LEMMA RemoveReads ==
  ASSUME NEW t \in Tree, NEW n \in Node, NEW x \in Node
  PROVE  LET q == RemoveNode(t, n)
         IN /\ q.parent[x] = IF x = n THEN Nil ELSE t.parent[x]
            /\ q.prev[x] = IF x = n THEN Nil ELSE IF x = t.next[n] THEN t.prev[n] ELSE t.prev[x]
            /\ q.next[x] = IF x = n THEN Nil ELSE IF x = t.prev[n] THEN t.next[n] ELSE t.next[x]
            /\ q.first[x] = IF x = t.parent[n] /\ t.first[x] = n THEN t.next[n] ELSE t.first[x]
            /\ q.last[x] = IF x = t.parent[n] /\ t.last[x] = n THEN t.prev[n] ELSE t.last[x]
BY DEF RemoveNode, Tree

\* The pointers stay pointers.
LEMMA RemoveType ==
  ASSUME NEW t \in Tree, NEW n \in Node
  PROVE  RemoveNode(t, n) \in Tree
BY DEF RemoveNode, Tree, Link

\* A node that is not in a list is neither at its ends.
LEMMA EndsOutside ==
  ASSUME NEW s \in Rows, NEW x \in Node, x \notin ToSet(s)
  PROVE  x # HeadOr(s, Nil) /\ x # LastOr(s, Nil)
BY EndsIn, NilAssumption

\* lxb_dom_node_remove takes a node out of its row.
LEMMA RemoveShows ==
  ASSUME NEW t, NEW f, Shows(t, f), NEW n \in Node
  PROVE  Shows(RemoveNode(t, n), Detach(f, {n}))
<1> DEFINE q == RemoveNode(t, n)
           g == Detach(f, {n})
<1>0. t \in Tree /\ Whole(f) /\ Orderly(f)
  BY DEF Shows, Whole
<1>1. q \in Tree /\ Whole(g) /\ Orderly(g)
  <2>1. q \in Tree
    BY <1>0, RemoveType
  <2>2. {n} \in SUBSET Node
    OBVIOUS
  <2>3. Whole(g)
    BY <1>0, <2>2, DetachWhole
  <2> QED BY <2>1, <2>3 DEF Whole
<1>2. \A p, w : Row(g, p, w) => \/ \E s : Row(f, p, s) /\ w = Without(s, {n})
                                \/ p = Nil /\ w = One(n)
  BY <1>0, DetachRows
<1>3. \A p \in Node : g.kids[p] = Without(f.kids[p], {n})
  BY <1>0, DetachFacts
<1>4. PICK m, e, u, v : At(t, f, n, m, e, u, v)
  BY NodeAt
<1> DEFINE l == LastOr(u, Nil)
           r == HeadOr(v, Nil)
<1>5. /\ Row(f, m, e) /\ Cut(e, u, n, v) /\ IsInjective(e) /\ e \in Rows /\ m \in Link
      /\ t.parent[n] = m /\ t.prev[n] = l /\ t.next[n] = r
      /\ Run(t, u, m, Nil, n) /\ Run(t, v, m, n, Nil)
  BY <1>4 DEF At
<1>6. /\ u \in Rows /\ v \in Rows /\ ToSet(e) = ToSet(u) \cup {n} \cup ToSet(v)
      /\ IsInjective(u) /\ IsInjective(v) /\ n \notin ToSet(u) /\ n \notin ToSet(v)
      /\ ToSet(u) \cap ToSet(v) = {}
  BY <1>5, CutFacts
<1>7. \A x \in Node : x = l => x \in ToSet(u)
  BY <1>6, EndsOutside
<1>8. \A x \in Node : x = r => x \in ToSet(v)
  BY <1>6, EndsOutside
<1>9. /\ Nil \notin Node
      /\ \A x \in Node : /\ q.parent[x] = IF x = n THEN Nil ELSE t.parent[x]
                         /\ q.prev[x] = IF x = n THEN Nil ELSE IF x = r THEN l ELSE t.prev[x]
                         /\ q.next[x] = IF x = n THEN Nil ELSE IF x = l THEN r ELSE t.next[x]
                         /\ q.first[x] = IF x = m /\ t.first[x] = n THEN r ELSE t.first[x]
                         /\ q.last[x] = IF x = m /\ t.last[x] = n THEN l ELSE t.last[x]
  BY <1>0, <1>5, RemoveReads, NilAssumption
<1>10. \A s \in Rows : ToSet(s) \subseteq Node
  <2> SUFFICES ASSUME NEW s \in Rows, NEW x \in ToSet(s) PROVE x \in Node
    OBVIOUS
  <2>1. PICK a, b : Cut(s, a, x, b)
    BY CutThere
  <2> QED BY <2>1, CutFacts
<1> HIDE DEF q, g
<1>11. Without(e, {n}) = Cat(u, v)
  <2>1. Without(u, {n}) = u /\ Without(v, {n}) = v /\ Without(One(n), {n}) = <<>>
    BY <1>6, WithoutList, WithoutSingle
  <2>2. One(n) \in Rows /\ e = Cat(u, Cat(One(n), v)) /\ Cat(One(n), v) \in Rows
    BY <1>5, <1>6, OneFacts, CatFacts DEF Cut
  <2>3. Without(e, {n}) = Cat(Without(u, {n}), Cat(Without(One(n), {n}), Without(v, {n})))
    BY <1>6, <2>2, WithoutCat
  <2> QED BY <1>6, <2>1, <2>3, CatNone
<1>12. ASSUME NEW p, NEW s, Row(f, p, s), n \in ToSet(s) PROVE p = m /\ s = e
  BY <1>5, <1>6, <1>12 DEF Shows, Whole
<1>13. ASSUME NEW p, NEW s, Row(f, p, s), n \notin ToSet(s)
       PROVE  Without(s, {n}) = s /\ \A x \in ToSet(s) : x \in Node /\ x # n /\ x # l /\ x # r
  <2>1. s \in Rows
    BY <1>0, <1>13, RowFacts
  <2>2. ASSUME NEW x \in ToSet(s), x \in ToSet(u) \/ x \in ToSet(v) PROVE FALSE
    <3>1. s = e
      BY <1>5, <1>6, <1>13, <2>2 DEF Shows, Whole
    <3> QED BY <1>6, <1>13, <3>1
  <2> QED BY <1>7, <1>8, <1>10, <1>13, <2>1, <2>2, WithoutList
<1>14. IsInjective(Cat(u, v)) /\ Cat(u, v) \in Rows
  BY <1>6, CatFacts
<1>15. Run(q, Cat(u, v), m, Nil, Nil)
  <2>1. Run(q, u, m, Nil, r)
    <3>1. \A x \in ToSet(u) : /\ q.parent[x] = t.parent[x] /\ q.prev[x] = t.prev[x]
                              /\ q.next[x] = IF x = l THEN r ELSE t.next[x]
      BY <1>6, <1>8, <1>9, <1>10
    <3>2. l = LastOr(u, Nil)
      OBVIOUS
    <3> HIDE DEF l, r
    <3> QED BY <1>5, <1>6, <3>1, <3>2, RunLast
  <2>2. Run(q, v, m, l, Nil)
    <3>1. \A x \in ToSet(v) : /\ q.parent[x] = t.parent[x] /\ q.next[x] = t.next[x]
                              /\ q.prev[x] = IF x = r THEN l ELSE t.prev[x]
      BY <1>6, <1>7, <1>9, <1>10
    <3> QED BY <1>5, <1>6, <3>1, RunFirst
  <2> QED BY <1>6, <1>14, <2>1, <2>2, RunCat
<1>16. ASSUME NEW p, NEW w, Row(g, p, w) PROVE Run(q, w, p, Nil, Nil)
  <2>1. CASE \E s : Row(f, p, s) /\ w = Without(s, {n})
    <3>1. PICK s : Row(f, p, s) /\ w = Without(s, {n})
      BY <2>1
    <3>2. CASE n \in ToSet(s)
      BY <1>11, <1>12, <1>15, <3>1, <3>2
    <3>3. CASE n \notin ToSet(s)
      <4>1. w = s /\ \A x \in ToSet(s) : x \in Node /\ x # n /\ x # l /\ x # r
        BY <1>13, <3>1, <3>3
      <4>2. s \in Rows /\ Run(t, s, p, Nil, Nil)
        BY <1>0, <3>1, RowFacts DEF Shows
      <4>3. \A x \in ToSet(s) : q.parent[x] = t.parent[x] /\ q.prev[x] = t.prev[x] /\ q.next[x] = t.next[x]
        BY <1>9, <4>1
      <4> QED BY <4>1, <4>2, <4>3, RunSame
    <3> QED BY <3>2, <3>3
  <2>2. CASE p = Nil /\ w = One(n)
    BY <1>9, <2>2, RunOne
  <2> QED BY <1>2, <1>16, <2>1, <2>2
<1>17. ASSUME NEW p \in Node
       PROVE  q.first[p] = HeadOr(g.kids[p], Nil) /\ q.last[p] = LastOr(g.kids[p], Nil)
  <2>1. Row(f, p, f.kids[p]) /\ t.first[p] = HeadOr(f.kids[p], Nil) /\ t.last[p] = LastOr(f.kids[p], Nil)
    BY DEF Row, Shows, Ends
  <2>2. CASE n \in ToSet(f.kids[p])
    <3>1. p = m /\ f.kids[p] = e /\ g.kids[p] = Cat(u, v)
      BY <1>3, <1>11, <1>12, <2>1, <2>2
    <3>2. HeadOr(Cat(u, v), Nil) = HeadOr(u, r) /\ LastOr(Cat(u, v), Nil) = LastOr(v, l)
      BY <1>6, EndsCat
    <3>3. /\ HeadOr(e, Nil) = HeadOr(u, n) /\ LastOr(e, Nil) = LastOr(v, n)
      BY <1>5, CutEnds
    <3>4. /\ u = <<>> => HeadOr(u, n) = n /\ HeadOr(u, r) = r
          /\ u # <<>> => HeadOr(u, n) \in ToSet(u) /\ HeadOr(u, r) = HeadOr(u, n)
      BY <1>6, EndsIn DEF HeadOr
    <3>5. /\ v = <<>> => LastOr(v, n) = n /\ LastOr(v, l) = l
          /\ v # <<>> => LastOr(v, n) \in ToSet(v) /\ LastOr(v, l) = LastOr(v, n)
      BY <1>6, EndsIn DEF LastOr
    <3> HIDE DEF l, r
    <3> QED BY <1>6, <1>9, <2>1, <3>1, <3>2, <3>3, <3>4, <3>5
  <2>3. CASE n \notin ToSet(f.kids[p])
    <3>1. g.kids[p] = f.kids[p]
      BY <1>3, <1>13, <2>1, <2>3
    <3>2. f.kids[p] \in Rows
      BY <1>0, RowFacts
    <3>3. n # t.first[p] /\ n # t.last[p]
      BY <2>1, <2>3, <3>2, EndsOutside
    <3> QED BY <1>9, <2>1, <3>1, <3>3
  <2> QED BY <2>2, <2>3
<1> QED BY <1>1, <1>16, <1>17 DEF Shows, Ends, q, g

-----------------------------------------------------------------------------
(* Linking a lone node puts it into one row of the forest.                 *)

\* The row s of p after n was put where how and at say.
Grown(how, at, n, p, s) ==
  IF how = "child" THEN (IF p = at THEN Cat(s, One(n)) ELSE s) ELSE PlaceRow(s, how, at, One(n))

\* n, which is on its own, can be put at the node at.
Ready(f, at, n) == Whole(f) /\ n \in Node /\ at \in Node /\ at # n /\ Lone(f, n)

\* What can be linked, and where to.
LEMMA ReadyFacts ==
  ASSUME NEW f, NEW at, NEW n, Ready(f, at, n)
  PROVE  /\ Orderly(f) /\ n \in Node /\ at \in Node /\ at # n /\ One(n) \in f.tops
         /\ Fit(f, at, One(n)) /\ ToSet(One(n)) = {n} /\ One(n) \in Rows
         /\ \A p, s : Row(f, p, s) /\ n \in ToSet(s) => p = Nil /\ s = One(n)
<1>1. Whole(f) /\ n \in Node /\ at \in Node /\ at # n /\ One(n) \in f.tops
  BY DEF Ready, Lone
<1>2. One(n) \in Rows /\ ToSet(One(n)) = {n} /\ IsInjective(One(n))
  BY <1>1, OneFacts
<1>3. Orderly(f) /\ Row(f, Nil, One(n))
  BY <1>1 DEF Whole, Row
<1>4. Fit(f, at, One(n))
  BY <1>1, <1>2, <1>3 DEF Fit
<1>5. \A p, s : Row(f, p, s) /\ n \in ToSet(s) => p = Nil /\ s = One(n)
  BY <1>1, <1>2, <1>3 DEF Whole
<1> QED BY <1>1, <1>2, <1>3, <1>4, <1>5

\* The rows that are left when n is taken out.
LEMMA PullLone ==
  ASSUME NEW f, NEW at, NEW n, Ready(f, at, n)
  PROVE  /\ Orderly(Pull(f, {n}))
         /\ Pull(f, {n}).kids = f.kids
         /\ Pull(f, {n}).tops = f.tops \ {One(n)}
<1> DEFINE h == Pull(f, {n})
<1>0. /\ Orderly(f) /\ n \in Node /\ One(n) \in f.tops /\ ToSet(One(n)) = {n} /\ One(n) \in Rows
      /\ \A p, s : Row(f, p, s) /\ n \in ToSet(s) => p = Nil /\ s = One(n)
  BY ReadyFacts
<1>1. /\ Orderly(h) /\ (\A p \in Node : h.kids[p] = Without(f.kids[p], {n}))
      /\ h.tops = {Without(s, {n}) : s \in f.tops} \ {<<>>}
  BY <1>0, PullFacts
<1> HIDE DEF h
<1>2. \A p, s : Row(f, p, s) /\ n \notin ToSet(s) => Without(s, {n}) = s
  BY <1>0, RowFacts, WithoutList
<1>3. Without(One(n), {n}) = <<>>
  BY WithoutSingle
<1>4. \A p \in Node : h.kids[p] = f.kids[p]
  <2>1. \A p \in Node : Row(f, p, f.kids[p]) /\ p # Nil
    BY NilAssumption DEF Row
  <2> QED BY <1>0, <1>1, <1>2, <2>1
<1>5. h.kids = f.kids
  <2>1. h.kids \in [Node -> Rows] /\ f.kids \in [Node -> Rows]
    BY <1>0, <1>1 DEF Orderly, IsForest
  <2> QED BY <1>4, <2>1
<1>6. \A s \in f.tops : Row(f, Nil, s) /\ s # <<>>
  BY <1>0, RowFacts DEF Row
<1>7. \A s \in f.tops : s # One(n) => n \notin ToSet(s) /\ Without(s, {n}) = s
  <2> TAKE s \in f.tops
  <2> HAVE s # One(n)
  <2>1. Row(f, Nil, s)
    BY <1>6
  <2>2. n \notin ToSet(s)
    BY <1>0, <2>1
  <2> QED BY <1>2, <2>1, <2>2
<1>8. h.tops = f.tops \ {One(n)}
  <2>1. ASSUME NEW w \in h.tops PROVE w \in f.tops \ {One(n)}
    <3>1. PICK s \in f.tops : w = Without(s, {n}) /\ w # <<>>
      BY <1>1
    <3>2. s # One(n)
      BY <1>3, <3>1
    <3> QED BY <1>7, <3>1, <3>2
  <2>2. ASSUME NEW w \in f.tops, w # One(n) PROVE w \in h.tops
    <3>1. Without(w, {n}) = w /\ w # <<>>
      BY <1>6, <1>7, <2>2
    <3> QED BY <1>1, <3>1
  <2> QED BY <2>1, <2>2
<1> QED BY <1>1, <1>5, <1>8 DEF h

\* The rows after n was put at the node at: those before, one of them grown.
LEMMA PutLoneRows ==
  ASSUME NEW f, NEW at, NEW n, Ready(f, at, n), NEW how \in How, NEW p, NEW w
  PROVE  Row(Put(f, how, at, One(n)), p, w) <=>
           \E s : Row(f, p, s) /\ n \notin ToSet(s) /\ w = Grown(how, at, n, p, s)
<1> DEFINE o == One(n)
           h == Pull(f, {n})
           g == Place(h, how, at, o)
<1>0. /\ Orderly(f) /\ n \in Node /\ at \in Node /\ o \in f.tops /\ ToSet(o) = {n} /\ o \in Rows
      /\ Fit(f, at, o)
      /\ \A a, s : Row(f, a, s) /\ n \in ToSet(s) => a = Nil /\ s = o
  BY ReadyFacts
<1>1. h.kids = f.kids /\ h.tops = f.tops \ {o}
  BY PullLone
<1>2. Room(h, at, o)
  BY <1>0, FitFree
<1>3. Put(f, how, at, o) = g
  BY <1>0 DEF Put
<1> HIDE DEF h, o
<1>4. /\ how = "child" => /\ \A a \in Node : g.kids[a] = IF a = at THEN Cat(h.kids[a], o) ELSE h.kids[a]
                          /\ g.tops = h.tops
      /\ how # "child" => /\ \A a \in Node : g.kids[a] = PlaceRow(h.kids[a], how, at, o)
                          /\ g.tops = {PlaceRow(s, how, at, o) : s \in h.tops}
  BY <1>2, PlaceFree
<1> HIDE DEF g
<1>5. Nil \notin Node /\ at # Nil
  BY <1>0, NilAssumption
<1>6. Row(g, p, w) <=> \E s : Row(f, p, s) /\ s # o /\ w = Grown(how, at, n, p, s)
  <2>1. \A a \in Node : f.kids[a] # o
    BY <1>0, <1>5 DEF Row
  <2>2. CASE how = "child"
    BY <1>1, <1>4, <1>5, <2>1, <2>2 DEF Row, Grown, o
  <2>3. CASE how # "child"
    BY <1>1, <1>4, <1>5, <2>1, <2>3 DEF Row, Grown, o
  <2> QED BY <2>2, <2>3
<1>7. \A s : Row(f, p, s) => (s # o <=> n \notin ToSet(s))
  BY <1>0
<1> QED BY <1>3, <1>6, <1>7 DEF o

\* The row that takes n.
Host(f, how, at, m, e) == Row(f, m, e) /\ IF how = "child" THEN m = at ELSE at \in ToSet(e)

\* Only the row of the host grows, and by n.
LEMMA GrownSet ==
  ASSUME NEW f, NEW at, NEW n, Ready(f, at, n), NEW how \in How, NEW p, NEW s, Row(f, p, s), n \notin ToSet(s)
  PROVE  /\ ToSet(Grown(how, at, n, p, s)) = ToSet(s) \cup IF Host(f, how, at, p, s) THEN {n} ELSE {}
         /\ ~Host(f, how, at, p, s) => Grown(how, at, n, p, s) = s
         /\ Grown(how, at, n, p, s) \in Rows /\ IsInjective(Grown(how, at, n, p, s))
<1> DEFINE o == One(n)
<1>0. /\ Orderly(f) /\ n \in Node /\ at \in Node /\ at # n /\ ToSet(o) = {n} /\ o \in Rows /\ IsInjective(o)
  BY ReadyFacts, OneFacts
<1>1. s \in Rows /\ IsInjective(s)
  BY <1>0, RowFacts
<1> HIDE DEF o
<1>2. CASE how = "child"
  <2>1. /\ Cat(s, o) \in Rows /\ ToSet(Cat(s, o)) = ToSet(s) \cup {n} /\ IsInjective(Cat(s, o))
    BY <1>0, <1>1, CatFacts
  <2> QED BY <1>0, <1>1, <1>2, <2>1 DEF Grown, Host, o
<1>3. CASE how # "child"
  <2>1. /\ ToSet(PlaceRow(s, how, at, o)) = ToSet(s) \cup (IF at \in ToSet(s) THEN ToSet(o) ELSE {})
        /\ PlaceRow(s, how, at, o) \in Rows /\ IsInjective(PlaceRow(s, how, at, o))
    <3>1. at \notin ToSet(o) /\ ToSet(s) \cap ToSet(o) = {}
      BY <1>0
    <3>2. ToSet(PlaceRow(s, how, at, o)) = ToSet(s) \cup (IF at \in ToSet(s) THEN ToSet(o) ELSE {})
      BY <1>0, <1>1, <3>1, PlaceRowSet
    <3>3. PlaceRow(s, how, at, o) \in Rows /\ IsInjective(PlaceRow(s, how, at, o))
      BY <1>0, <1>1, <3>1, PlaceRowFacts
    <3> QED BY <3>2, <3>3
  <2>2. at \notin ToSet(s) => PlaceRow(s, how, at, o) = s
    BY <1>1, AroundNone DEF PlaceRow
  <2> QED BY <1>0, <1>3, <2>1, <2>2 DEF Grown, Host, o
<1> QED BY <1>2, <1>3

\* One row is the host.
LEMMA OneHost ==
  ASSUME NEW f, NEW at, NEW n, Ready(f, at, n), NEW how \in How
  PROVE  /\ \E m, e : Host(f, how, at, m, e) /\ n \notin ToSet(e)
         /\ \A m, e, p, s : Host(f, how, at, m, e) /\ Host(f, how, at, p, s) => m = p /\ e = s
<1>0. /\ Orderly(f) /\ n \in Node /\ at \in Node /\ at # n /\ ToSet(One(n)) = {n} /\ Nil \notin Node
      /\ \A p, s : Row(f, p, s) /\ n \in ToSet(s) => p = Nil /\ s = One(n)
      /\ \A p, s, q, r : \A x : Row(f, p, s) /\ Row(f, q, r) /\ x \in ToSet(s) /\ x \in ToSet(r) => p = q /\ s = r
      /\ \A x \in Node : \E p, s : Row(f, p, s) /\ x \in ToSet(s)
  BY ReadyFacts, NilAssumption DEF Ready, Whole
<1>1. CASE how = "child"
  <2>1. Host(f, how, at, at, f.kids[at]) /\ n \notin ToSet(f.kids[at])
    BY <1>0, <1>1 DEF Host, Row
  <2> QED BY <1>0, <1>1, <2>1 DEF Host, Row
<1>2. CASE how # "child"
  <2>1. PICK p, s : Row(f, p, s) /\ at \in ToSet(s)
    BY <1>0
  <2>2. n \notin ToSet(s)
    BY <1>0, <2>1
  <2> QED BY <1>0, <1>2, <2>1, <2>2 DEF Host
<1> QED BY <1>1, <1>2

\* Every node is in exactly one row again.
LEMMA PutLoneWhole ==
  ASSUME NEW f, NEW at, NEW n, Ready(f, at, n), NEW how \in How
  PROVE  Whole(Put(f, how, at, One(n)))
<1> DEFINE g == Put(f, how, at, One(n))
<1>0. /\ Fit(f, at, One(n)) /\ n \in Node /\ ToSet(One(n)) = {n}
      /\ \A p, s : Row(f, p, s) /\ n \in ToSet(s) => p = Nil /\ s = One(n)
      /\ \A p, s, q, r : \A x : Row(f, p, s) /\ Row(f, q, r) /\ x \in ToSet(s) /\ x \in ToSet(r) => p = q /\ s = r
      /\ \A x \in Node : \E p, s : Row(f, p, s) /\ x \in ToSet(s)
  BY ReadyFacts DEF Ready, Whole
<1>1. Orderly(g)
  BY <1>0, PutOrderly
<1>2. \A p, w : Row(g, p, w) <=> \E s : Row(f, p, s) /\ n \notin ToSet(s) /\ w = Grown(how, at, n, p, s)
  BY PutLoneRows
<1> HIDE DEF g
<1>3. \A p, s : Row(f, p, s) /\ n \notin ToSet(s) =>
        ToSet(Grown(how, at, n, p, s)) = ToSet(s) \cup IF Host(f, how, at, p, s) THEN {n} ELSE {}
  BY GrownSet
<1>4. \A m, e, p, s : Host(f, how, at, m, e) /\ Host(f, how, at, p, s) => m = p /\ e = s
  BY OneHost
<1>5. ASSUME NEW p, NEW s, NEW q, NEW r, NEW x, Row(g, p, s), Row(g, q, r), x \in ToSet(s), x \in ToSet(r)
      PROVE  p = q /\ s = r
  <2>1. PICK c : Row(f, p, c) /\ n \notin ToSet(c) /\ s = Grown(how, at, n, p, c)
    BY <1>2, <1>5
  <2>2. PICK e : Row(f, q, e) /\ n \notin ToSet(e) /\ r = Grown(how, at, n, q, e)
    BY <1>2, <1>5
  <2>3. CASE x = n
    <3>1. Host(f, how, at, p, c) /\ Host(f, how, at, q, e)
      BY <1>3, <1>5, <2>1, <2>2, <2>3
    <3> QED BY <1>4, <2>1, <2>2, <3>1
  <2>4. CASE x # n
    <3>1. x \in ToSet(c) /\ x \in ToSet(e)
      BY <1>3, <1>5, <2>1, <2>2, <2>4
    <3>2. p = q /\ c = e
      BY <1>0, <2>1, <2>2, <3>1
    <3> QED BY <2>1, <2>2, <3>2
  <2> QED BY <2>3, <2>4
<1>6. ASSUME NEW x \in Node PROVE \E p, s : Row(g, p, s) /\ x \in ToSet(s)
  <2>1. CASE x = n
    <3>1. PICK m, e : Host(f, how, at, m, e) /\ n \notin ToSet(e)
      BY OneHost
    <3>2. Row(f, m, e)
      BY <3>1 DEF Host
    <3> QED BY <1>2, <1>3, <2>1, <3>1, <3>2
  <2>2. CASE x # n
    <3>1. PICK p, s : Row(f, p, s) /\ x \in ToSet(s)
      BY <1>0
    <3>2. n \notin ToSet(s)
      BY <1>0, <2>2, <3>1
    <3> QED BY <1>2, <1>3, <3>1, <3>2
  <2> QED BY <2>1, <2>2
<1> QED BY <1>1, <1>5, <1>6 DEF Whole, g

\* It is enough to look at the row that grows.
LEMMA GrownShows ==
  ASSUME NEW t, NEW f, Shows(t, f), NEW at, NEW n, Ready(f, at, n), NEW how \in How, NEW q \in Tree,
         NEW m, NEW e, Host(f, how, at, m, e), n \notin ToSet(e), NEW G, G = Grown(how, at, n, m, e),
         \A x \in Node : x \notin ToSet(e) /\ x # n =>
           q.parent[x] = t.parent[x] /\ q.prev[x] = t.prev[x] /\ q.next[x] = t.next[x],
         Run(q, G, m, Nil, Nil),
         \A p \in Node : /\ q.first[p] = IF p = m THEN HeadOr(G, Nil) ELSE t.first[p]
                         /\ q.last[p] = IF p = m THEN LastOr(G, Nil) ELSE t.last[p]
  PROVE  Shows(q, Put(f, how, at, One(n)))
<1> DEFINE g == Put(f, how, at, One(n))
<1>1. Whole(g)
  BY PutLoneWhole
<1>2. \A p, w : Row(g, p, w) <=> \E s : Row(f, p, s) /\ n \notin ToSet(s) /\ w = Grown(how, at, n, p, s)
  BY PutLoneRows
<1> HIDE DEF g
<1>3. \A p, s : Row(f, p, s) /\ n \notin ToSet(s) /\ ~Host(f, how, at, p, s) =>
        Grown(how, at, n, p, s) = s
  BY GrownSet
<1>4. \A p, s : Host(f, how, at, p, s) => m = p /\ e = s
  BY OneHost
<1>5. ASSUME NEW p, NEW w, Row(g, p, w) PROVE Run(q, w, p, Nil, Nil)
  <2>1. PICK s : Row(f, p, s) /\ n \notin ToSet(s) /\ w = Grown(how, at, n, p, s)
    BY <1>2, <1>5
  <2>2. CASE Host(f, how, at, p, s)
    BY <1>4, <2>1, <2>2
  <2>3. CASE ~Host(f, how, at, p, s)
    <3>1. w = s
      BY <1>3, <2>1, <2>3
    <3>2. s \in Rows /\ Run(t, s, p, Nil, Nil)
      BY <2>1, RowFacts DEF Shows, Whole
    <3>3. \A x \in ToSet(s) : x \in Node /\ x # n /\ x \notin ToSet(e)
      <4>1. ASSUME NEW x \in ToSet(s), x \in ToSet(e) PROVE FALSE
        <5>1. Row(f, m, e)
          BY DEF Host
        <5>2. m = p /\ e = s
          BY <2>1, <4>1, <5>1 DEF Shows, Whole
        <5> QED BY <2>3, <5>2
      <4>2. \A x \in ToSet(s) : x \in Node
        <5> TAKE x \in ToSet(s)
        <5>1. PICK a, b : Cut(s, a, x, b)
          BY <3>2, CutThere
        <5> QED BY <5>1, CutFacts
      <4> QED BY <2>1, <4>1, <4>2
    <3> QED BY <3>1, <3>2, <3>3, RunSame
  <2> QED BY <2>2, <2>3
<1>6. ASSUME NEW p \in Node PROVE q.first[p] = HeadOr(g.kids[p], Nil) /\ q.last[p] = LastOr(g.kids[p], Nil)
  <2>1. PICK s : Row(f, p, s) /\ n \notin ToSet(s) /\ g.kids[p] = Grown(how, at, n, p, s)
    <3>1. Row(g, p, g.kids[p])
      BY DEF Row
    <3> QED BY <1>2, <3>1
  <2>2. s = f.kids[p] /\ t.first[p] = HeadOr(s, Nil) /\ t.last[p] = LastOr(s, Nil)
    BY <2>1, NilAssumption DEF Row, Shows, Ends
  <2>3. CASE p = m
    <3>1. s = e
      BY <2>1, <2>2, <2>3, NilAssumption DEF Host, Row
    <3> QED BY <2>1, <2>3, <3>1
  <2>4. CASE p # m
    <3>1. ~Host(f, how, at, p, s)
      BY <1>4, <2>4
    <3> QED BY <1>3, <2>1, <2>2, <2>4, <3>1
  <2> QED BY <2>3, <2>4
<1> QED BY <1>1, <1>5, <1>6 DEF Shows, Ends, g

\* The pointers after each insertion.
LEMMA InsertChildReads ==
  ASSUME NEW t \in Tree, NEW at \in Node, NEW n \in Node
  PROVE  LET q == InsertChild(t, at, n)
         IN /\ q \in Tree
            /\ \A x \in Node :
                 /\ q.parent[x] = IF x = n THEN at ELSE t.parent[x]
                 /\ q.prev[x] = IF x = n THEN t.last[at] ELSE t.prev[x]
                 /\ q.next[x] = IF x = n THEN Nil ELSE IF x = t.last[at] THEN n ELSE t.next[x]
                 /\ q.first[x] = IF x = at /\ t.last[at] = Nil THEN n ELSE t.first[x]
                 /\ q.last[x] = IF x = at THEN n ELSE t.last[x]
BY DEF InsertChild, Tree, Link

\* The pointers after lxb_dom_node_insert_before.
LEMMA InsertBeforeReads ==
  ASSUME NEW t \in Tree, NEW at \in Node, NEW n \in Node
  PROVE  LET q == InsertBefore(t, at, n)
         IN /\ q \in Tree
            /\ \A x \in Node :
                 /\ q.parent[x] = IF x = n THEN t.parent[at] ELSE t.parent[x]
                 /\ q.prev[x] = IF x = at THEN n ELSE IF x = n THEN t.prev[at] ELSE t.prev[x]
                 /\ q.next[x] = IF x = n THEN at ELSE IF x = t.prev[at] THEN n ELSE t.next[x]
                 /\ q.first[x] = IF x = t.parent[at] /\ t.prev[at] = Nil THEN n ELSE t.first[x]
                 /\ q.last[x] = t.last[x]
BY DEF InsertBefore, Tree, Link

\* The pointers after lxb_dom_node_insert_after.
LEMMA InsertAfterReads ==
  ASSUME NEW t \in Tree, NEW at \in Node, NEW n \in Node
  PROVE  LET q == InsertAfter(t, at, n)
         IN /\ q \in Tree
            /\ \A x \in Node :
                 /\ q.parent[x] = IF x = n THEN t.parent[at] ELSE t.parent[x]
                 /\ q.prev[x] = IF x = n THEN at ELSE IF x = t.next[at] THEN n ELSE t.prev[x]
                 /\ q.next[x] = IF x = at THEN n ELSE IF x = n THEN t.next[at] ELSE t.next[x]
                 /\ q.first[x] = t.first[x]
                 /\ q.last[x] = IF x = t.parent[at] /\ t.next[at] = Nil THEN n ELSE t.last[x]
BY DEF InsertAfter, Tree, Link

\* The members of a list are nodes.
LEMMA ListOfNodes ==
  ASSUME NEW s \in Rows, NEW x \in ToSet(s)
  PROVE  x \in Node
<1>1. PICK a, b : Cut(s, a, x, b)
  BY CutThere
<1> QED BY <1>1, CutFacts

\* lxb_dom_node_insert_child puts a lone node under at, behind its children.
LEMMA InsertChildShows ==
  ASSUME NEW t, NEW f, Shows(t, f), NEW at, NEW n, Ready(f, at, n)
  PROVE  Shows(InsertChild(t, at, n), Put(f, "child", at, One(n)))
<1> DEFINE q == InsertChild(t, at, n)
           e == f.kids[at]
           l == LastOr(e, Nil)
           o == One(n)
           G == Cat(e, o)
<1>0. /\ Orderly(f) /\ n \in Node /\ at \in Node /\ at # n /\ o \in Rows /\ ToSet(o) = {n}
      /\ \A p, s : Row(f, p, s) /\ n \in ToSet(s) => p = Nil /\ s = o
  BY ReadyFacts
<1>1. t \in Tree /\ Row(f, at, e) /\ e \in Rows /\ IsInjective(e) /\ Run(t, e, at, Nil, Nil) /\ Nil \notin Node
  BY <1>0, RowFacts, NilAssumption DEF Shows, Row
<1>2. n \notin ToSet(e)
  BY <1>0, <1>1
<1>3. t.last[at] = l /\ t.first[at] = HeadOr(e, Nil)
  BY <1>0 DEF Shows, Ends
<1>4. q \in Tree
  BY <1>0, <1>1, InsertChildReads
<1>5. \A x \in Node :
                 /\ q.parent[x] = IF x = n THEN at ELSE t.parent[x]
                 /\ q.prev[x] = IF x = n THEN l ELSE t.prev[x]
                 /\ q.next[x] = IF x = n THEN Nil ELSE IF x = l THEN n ELSE t.next[x]
                 /\ q.first[x] = IF x = at /\ l = Nil THEN n ELSE t.first[x]
                 /\ q.last[x] = IF x = at THEN n ELSE t.last[x]
  BY <1>0, <1>1, <1>3, InsertChildReads
<1>6. \A d : HeadOr(o, d) = n /\ LastOr(o, d) = n
  BY <1>0, EndsOne
<1>7. \A a, b, c : Run(q, o, a, b, c) <=> q.parent[n] = a /\ q.prev[n] = b /\ q.next[n] = c
  BY <1>0, RunOne
<1>8. \A x \in ToSet(e) : x \in Node /\ x # n
  BY <1>1, <1>2, ListOfNodes
<1> HIDE DEF q, e, o
<1>9. IsInjective(G) /\ HeadOr(G, Nil) = HeadOr(e, n) /\ LastOr(G, Nil) = n
  <2>1. IsInjective(o)
    BY <1>0, OneFacts DEF o
  <2>2. ToSet(e) \cap ToSet(o) = {}
    BY <1>0, <1>2
  <2>3. IsInjective(G)
    BY <1>0, <1>1, <2>1, <2>2, CatFacts
  <2>4. HeadOr(G, Nil) = HeadOr(e, HeadOr(o, Nil)) /\ LastOr(G, Nil) = LastOr(o, LastOr(e, Nil))
    BY <1>0, <1>1, EndsCat
  <2> QED BY <1>6, <2>3, <2>4
<1>10. /\ e = <<>> => HeadOr(e, n) = n /\ l = Nil
       /\ e # <<>> => HeadOr(e, n) = HeadOr(e, Nil) /\ l \in ToSet(e)
  BY <1>1, EndsIn DEF HeadOr
<1>11. Run(q, e, at, Nil, n)
  <2>1. \A x \in ToSet(e) : /\ q.parent[x] = t.parent[x] /\ q.prev[x] = t.prev[x]
                            /\ q.next[x] = IF x = LastOr(e, Nil) THEN n ELSE t.next[x]
    BY <1>5, <1>8
  <2> QED BY <1>1, <2>1, RunLast
<1>12. Run(q, o, at, l, Nil)
  BY <1>0, <1>5, <1>7
<1>13. Run(q, G, at, Nil, Nil)
  <2>1. HeadOr(o, Nil) = n
    BY <1>6
  <2>2. Run(q, e, at, Nil, HeadOr(o, Nil)) /\ Run(q, o, at, LastOr(e, Nil), Nil)
    BY <1>11, <1>12, <2>1
  <2> QED BY <1>0, <1>1, <1>9, <2>2, RunCat
<1>14. Host(f, "child", at, at, e) /\ G = Grown("child", at, n, at, e)
  BY <1>1 DEF Host, Grown, o
<1> HIDE DEF G
<1>15. \A x \in Node : x \notin ToSet(e) /\ x # n =>
           q.parent[x] = t.parent[x] /\ q.prev[x] = t.prev[x] /\ q.next[x] = t.next[x]
  BY <1>1, <1>5, <1>10, <1>8
<1>16. \A p \in Node : /\ q.first[p] = IF p = at THEN HeadOr(G, Nil) ELSE t.first[p]
                       /\ q.last[p] = IF p = at THEN LastOr(G, Nil) ELSE t.last[p]
  BY <1>1, <1>3, <1>5, <1>8, <1>9, <1>10
<1>17. "child" \in How
  BY DEF How
<1>18. Shows(q, Put(f, "child", at, One(n)))
  BY <1>2, <1>4, <1>13, <1>14, <1>15, <1>16, <1>17, GrownShows
<1> QED BY <1>18 DEF q

\* lxb_dom_node_insert_after puts a lone node behind at.
LEMMA InsertAfterShows ==
  ASSUME NEW t, NEW f, Shows(t, f), NEW at, NEW n, Ready(f, at, n)
  PROVE  Shows(InsertAfter(t, at, n), Put(f, "next", at, One(n)))
<1> DEFINE q == InsertAfter(t, at, n)
           o == One(n)
<1>0. /\ Orderly(f) /\ n \in Node /\ at \in Node /\ at # n /\ o \in Rows /\ ToSet(o) = {n} /\ Nil \notin Node
      /\ t \in Tree
      /\ \A p, s : Row(f, p, s) /\ n \in ToSet(s) => p = Nil /\ s = o
  BY ReadyFacts, NilAssumption DEF Shows
<1>1. PICK m, e, u, v : At(t, f, at, m, e, u, v)
  BY <1>0, NodeAt
<1> DEFINE r == HeadOr(v, Nil)
           w == Cat(o, v)
           G == Cat(u, Cat(One(at), w))
<1>2. /\ Row(f, m, e) /\ Cut(e, u, at, v) /\ IsInjective(e) /\ e \in Rows
      /\ t.parent[at] = m /\ t.prev[at] = LastOr(u, Nil) /\ t.next[at] = r
      /\ Run(t, u, m, Nil, at) /\ Run(t, v, m, at, Nil)
  BY <1>1 DEF At
<1>3. /\ u \in Rows /\ v \in Rows /\ ToSet(e) = ToSet(u) \cup {at} \cup ToSet(v)
      /\ IsInjective(u) /\ IsInjective(v) /\ at \notin ToSet(u) /\ at \notin ToSet(v)
      /\ ToSet(u) \cap ToSet(v) = {}
  BY <1>2, CutFacts
<1>4. n \notin ToSet(e)
  <2>1. ASSUME n \in ToSet(e) PROVE FALSE
    <3>1. ToSet(e) = {n}
      BY <1>0, <1>2, <2>1
    <3> QED BY <1>0, <1>3, <3>1
  <2> QED BY <2>1
<1>5. q \in Tree
  BY <1>0, InsertAfterReads
<1>6. \A x \in Node :
                 /\ q.parent[x] = IF x = n THEN m ELSE t.parent[x]
                 /\ q.prev[x] = IF x = n THEN at ELSE IF x = r THEN n ELSE t.prev[x]
                 /\ q.next[x] = IF x = at THEN n ELSE IF x = n THEN r ELSE t.next[x]
                 /\ q.first[x] = t.first[x]
                 /\ q.last[x] = IF x = m /\ r = Nil THEN n ELSE t.last[x]
  BY <1>0, <1>2, InsertAfterReads
<1>7. \A x \in ToSet(u) \cup ToSet(v) : x \in Node /\ x # n /\ x # at
  BY <1>3, <1>4, ListOfNodes
<1>8. /\ v = <<>> => r = Nil /\ LastOr(v, n) = n /\ LastOr(v, at) = at
      /\ v # <<>> => r \in ToSet(v) /\ LastOr(v, n) = LastOr(v, at)
  BY <1>3, EndsIn DEF LastOr
<1> HIDE DEF q
<1>9. Cut(w, <<>>, n, v) /\ w \in Rows /\ ToSet(w) = {n} \cup ToSet(v) /\ IsInjective(w)
  <2>1. w \in Rows /\ Cat(<<>>, w) = w /\ <<>> \in Rows
    BY <1>0, <1>3, CatFacts, CatNone
  <2>2. Cut(w, <<>>, n, v)
    BY <1>0, <1>3, <2>1 DEF Cut
  <2>3. /\ ToSet(w) = ToSet(<<>>) \cup {n} \cup ToSet(v)
        /\ IsInjective(w) <=> /\ IsInjective(<<>>) /\ IsInjective(v)
                               /\ n \notin ToSet(<<>>) /\ n \notin ToSet(v)
                               /\ ToSet(<<>>) \cap ToSet(v) = {}
    BY <2>2, CutFacts
  <2>4. ToSet(<<>>) = {} /\ IsInjective(<<>>)
    BY EmptyList
  <2> HIDE DEF w
  <2> QED BY <1>3, <1>4, <2>1, <2>2, <2>3, <2>4
<1>10. HeadOr(w, Nil) = n /\ LastOr(w, at) = LastOr(v, n)
  <2>1. HeadOr(o, HeadOr(v, Nil)) = n /\ LastOr(o, at) = n
    BY <1>0, EndsOne
  <2>2. HeadOr(w, Nil) = HeadOr(o, HeadOr(v, Nil)) /\ LastOr(w, at) = LastOr(v, LastOr(o, at))
    BY <1>0, <1>3, EndsCat
  <2> QED BY <2>1, <2>2
<1>11. G = Grown("next", at, n, m, e)
  <2>1. One(at) \in Rows /\ Cat(One(at), o) \in Rows
    BY <1>0, OneFacts, CatFacts
  <2>2. e = Cat(u, Cat(One(at), v)) /\ IsInjective(Cat(u, Cat(One(at), v)))
    BY <1>2 DEF Cut
  <2>3. Around(Cat(u, Cat(One(at), v)), at, Cat(One(at), o)) = Cat(u, Cat(Cat(One(at), o), v))
    BY <1>0, <1>3, <2>1, <2>2, AroundCat
  <2>4. Cat(Cat(One(at), o), v) = Cat(One(at), w)
    BY <1>0, <1>3, <2>1, CatAssoc
  <2> QED BY <2>2, <2>3, <2>4 DEF Grown, PlaceRow, Beside
<1> HIDE DEF w
<1>12. Cut(G, u, at, w)
  BY <1>0, <1>3, <1>9 DEF Cut
<1> HIDE DEF G
<1>13. IsInjective(G)
  <2>1. at \notin ToSet(w) /\ ToSet(u) \cap ToSet(w) = {}
    BY <1>0, <1>3, <1>4, <1>9
  <2> QED BY <1>3, <1>9, <1>12, <2>1, CutFacts
<1>14. HeadOr(G, Nil) = HeadOr(u, at) /\ LastOr(G, Nil) = LastOr(v, n)
  BY <1>10, <1>12, <1>13, CutEnds
<1>15. HeadOr(e, Nil) = HeadOr(u, at) /\ LastOr(e, Nil) = LastOr(v, at)
  BY <1>2, CutEnds
<1>16. Run(q, u, m, Nil, at)
  <2>1. \A x \in ToSet(u) : q.parent[x] = t.parent[x] /\ q.prev[x] = t.prev[x] /\ q.next[x] = t.next[x]
    BY <1>0, <1>3, <1>6, <1>7, <1>8
  <2> QED BY <1>2, <1>3, <2>1, RunSame
<1>17. Run(q, v, m, n, Nil)
  <2>1. \A x \in ToSet(v) : /\ q.parent[x] = t.parent[x] /\ q.next[x] = t.next[x]
                            /\ q.prev[x] = IF x = HeadOr(v, Nil) THEN n ELSE t.prev[x]
    BY <1>6, <1>7
  <2> QED BY <1>2, <1>3, <2>1, RunFirst
<1>18. Run(q, w, m, at, Nil)
  <2>1. Run(q, <<>>, m, at, n)
    BY RunNone
  <2>2. q.parent[n] = m /\ q.prev[n] = LastOr(<<>>, at) /\ q.next[n] = HeadOr(v, Nil)
    BY <1>0, <1>6, EndsNone
  <2> QED BY <1>9, <1>17, <2>1, <2>2, RunCut
<1>19. Run(q, G, m, Nil, Nil)
  <2>1. q.parent[at] = m /\ q.prev[at] = LastOr(u, Nil) /\ q.next[at] = HeadOr(w, Nil)
    <3>1. at # r
      BY <1>0, <1>3, <1>8
    <3> QED BY <1>0, <1>2, <1>6, <1>10, <3>1
  <2> QED BY <1>12, <1>13, <1>16, <1>18, <2>1, RunCut
<1>20. Host(f, "next", at, m, e) /\ "next" \in How
  BY <1>2, <1>3 DEF Host, How
<1>21. \A x \in Node : x \notin ToSet(e) /\ x # n =>
           q.parent[x] = t.parent[x] /\ q.prev[x] = t.prev[x] /\ q.next[x] = t.next[x]
  BY <1>0, <1>3, <1>6, <1>8
<1>22. \A p \in Node : /\ q.first[p] = IF p = m THEN HeadOr(G, Nil) ELSE t.first[p]
                       /\ q.last[p] = IF p = m THEN LastOr(G, Nil) ELSE t.last[p]
  <2> TAKE p \in Node
  <2>1. p = m => t.first[p] = HeadOr(e, Nil) /\ t.last[p] = LastOr(e, Nil)
    BY <1>2, <1>0 DEF Row, Shows, Ends
  <2> HIDE DEF r
  <2> QED BY <1>0, <1>6, <1>7, <1>8, <1>14, <1>15, <2>1
<1>23. Shows(q, Put(f, "next", at, One(n)))
  BY <1>4, <1>5, <1>11, <1>19, <1>20, <1>21, <1>22, GrownShows
<1> QED BY <1>23 DEF q

\* lxb_dom_node_insert_before puts a lone node in front of at.
LEMMA InsertBeforeShows ==
  ASSUME NEW t, NEW f, Shows(t, f), NEW at, NEW n, Ready(f, at, n)
  PROVE  Shows(InsertBefore(t, at, n), Put(f, "previous", at, One(n)))
<1> DEFINE q == InsertBefore(t, at, n)
           o == One(n)
           c == One(at)
<1>0. /\ Orderly(f) /\ n \in Node /\ at \in Node /\ at # n /\ o \in Rows /\ ToSet(o) = {n} /\ Nil \notin Node
      /\ t \in Tree
      /\ \A p, s : Row(f, p, s) /\ n \in ToSet(s) => p = Nil /\ s = o
  BY ReadyFacts, NilAssumption DEF Shows
<1>1. PICK m, e, u, v : At(t, f, at, m, e, u, v)
  BY <1>0, NodeAt
<1> DEFINE l == LastOr(u, Nil)
           w == Cat(c, v)
           G == Cat(u, Cat(o, w))
<1>2. /\ Row(f, m, e) /\ Cut(e, u, at, v) /\ IsInjective(e) /\ e \in Rows
      /\ t.parent[at] = m /\ t.prev[at] = l /\ t.next[at] = HeadOr(v, Nil)
      /\ Run(t, u, m, Nil, at) /\ Run(t, v, m, at, Nil)
  BY <1>1 DEF At
<1>3. /\ u \in Rows /\ v \in Rows /\ ToSet(e) = ToSet(u) \cup {at} \cup ToSet(v)
      /\ IsInjective(u) /\ IsInjective(v) /\ at \notin ToSet(u) /\ at \notin ToSet(v)
      /\ ToSet(u) \cap ToSet(v) = {}
  BY <1>2, CutFacts
<1>4. n \notin ToSet(e)
  <2>1. ASSUME n \in ToSet(e) PROVE FALSE
    <3>1. ToSet(e) = {n}
      BY <1>0, <1>2, <2>1
    <3> QED BY <1>0, <1>3, <3>1
  <2> QED BY <2>1
<1>5. q \in Tree
  BY <1>0, InsertBeforeReads
<1>6. \A x \in Node :
                 /\ q.parent[x] = IF x = n THEN m ELSE t.parent[x]
                 /\ q.prev[x] = IF x = at THEN n ELSE IF x = n THEN l ELSE t.prev[x]
                 /\ q.next[x] = IF x = n THEN at ELSE IF x = l THEN n ELSE t.next[x]
                 /\ q.first[x] = IF x = m /\ l = Nil THEN n ELSE t.first[x]
                 /\ q.last[x] = t.last[x]
  BY <1>0, <1>2, InsertBeforeReads
<1>7. \A x \in ToSet(u) \cup ToSet(v) : x \in Node /\ x # n /\ x # at
  BY <1>3, <1>4, ListOfNodes
<1>8. /\ u = <<>> => l = Nil /\ HeadOr(u, n) = n /\ HeadOr(u, at) = at
      /\ u # <<>> => l \in ToSet(u) /\ HeadOr(u, n) = HeadOr(u, at)
  BY <1>3, EndsIn DEF HeadOr
<1> HIDE DEF q
<1>9. Cut(w, <<>>, at, v) /\ w \in Rows /\ ToSet(w) = {at} \cup ToSet(v) /\ IsInjective(w)
  <2>1. c \in Rows
    BY <1>0, OneFacts
  <2>2. w \in Rows /\ Cat(<<>>, w) = w /\ <<>> \in Rows
    BY <1>0, <1>3, <2>1, CatFacts, CatNone
  <2>3. Cut(w, <<>>, at, v)
    BY <1>0, <1>3, <2>2 DEF Cut
  <2>4. /\ ToSet(w) = ToSet(<<>>) \cup {at} \cup ToSet(v)
        /\ IsInjective(w) <=> /\ IsInjective(<<>>) /\ IsInjective(v)
                               /\ at \notin ToSet(<<>>) /\ at \notin ToSet(v)
                               /\ ToSet(<<>>) \cap ToSet(v) = {}
    BY <2>3, CutFacts
  <2>5. ToSet(<<>>) = {} /\ IsInjective(<<>>)
    BY EmptyList
  <2> HIDE DEF w
  <2> QED BY <1>3, <2>2, <2>3, <2>4, <2>5
<1>10. HeadOr(w, Nil) = at /\ LastOr(w, n) = LastOr(v, at)
  <2>1. HeadOr(c, HeadOr(v, Nil)) = at /\ LastOr(c, n) = at /\ c \in Rows
    BY <1>0, EndsOne, OneFacts
  <2>2. HeadOr(w, Nil) = HeadOr(c, HeadOr(v, Nil)) /\ LastOr(w, n) = LastOr(v, LastOr(c, n))
    BY <1>3, <2>1, EndsCat
  <2> QED BY <2>1, <2>2
<1>11. G = Grown("previous", at, n, m, e)
  <2>1. c \in Rows /\ Cat(o, c) \in Rows
    BY <1>0, OneFacts, CatFacts
  <2>2. e = Cat(u, Cat(One(at), v)) /\ IsInjective(Cat(u, Cat(One(at), v)))
    BY <1>2 DEF Cut
  <2>3. Around(Cat(u, Cat(One(at), v)), at, Cat(o, c)) = Cat(u, Cat(Cat(o, c), v))
    BY <1>0, <1>3, <2>1, <2>2, AroundCat
  <2>4. Cat(Cat(o, c), v) = Cat(o, w)
    BY <1>0, <1>3, <2>1, CatAssoc
  <2> QED BY <2>2, <2>3, <2>4 DEF Grown, PlaceRow, Beside
<1> HIDE DEF w
<1>12. Cut(G, u, n, w)
  BY <1>0, <1>3, <1>9 DEF Cut
<1> HIDE DEF G
<1>13. IsInjective(G)
  <2>1. n \notin ToSet(w) /\ n \notin ToSet(u) /\ ToSet(u) \cap ToSet(w) = {}
    BY <1>0, <1>3, <1>4, <1>9
  <2> QED BY <1>3, <1>9, <1>12, <2>1, CutFacts
<1>14. HeadOr(G, Nil) = HeadOr(u, n) /\ LastOr(G, Nil) = LastOr(v, at)
  BY <1>10, <1>12, <1>13, CutEnds
<1>15. HeadOr(e, Nil) = HeadOr(u, at) /\ LastOr(e, Nil) = LastOr(v, at)
  BY <1>2, CutEnds
<1>16. Run(q, u, m, Nil, n)
  <2>1. \A x \in ToSet(u) : /\ q.parent[x] = t.parent[x] /\ q.prev[x] = t.prev[x]
                            /\ q.next[x] = IF x = LastOr(u, Nil) THEN n ELSE t.next[x]
    BY <1>6, <1>7
  <2> QED BY <1>2, <1>3, <2>1, RunLast
<1>17. Run(q, v, m, at, Nil)
  <2>1. \A x \in ToSet(v) : q.parent[x] = t.parent[x] /\ q.prev[x] = t.prev[x] /\ q.next[x] = t.next[x]
    BY <1>0, <1>3, <1>6, <1>7, <1>8
  <2> QED BY <1>2, <1>3, <2>1, RunSame
<1>18. Run(q, w, m, n, Nil)
  <2>1. Run(q, <<>>, m, n, at)
    BY RunNone
  <2>2. q.parent[at] = m /\ q.prev[at] = LastOr(<<>>, n) /\ q.next[at] = HeadOr(v, Nil)
    <3>1. at # l
      BY <1>0, <1>3, <1>8
    <3> QED BY <1>0, <1>2, <1>6, <3>1, EndsNone
  <2> DEFINE z == <<>>
  <2>3. /\ Run(q, z, m, n, at) /\ q.parent[at] = m /\ q.prev[at] = LastOr(z, n)
        /\ q.next[at] = HeadOr(v, Nil) /\ Cut(w, z, at, v)
    BY <1>9, <2>1, <2>2
  <2> HIDE DEF z
  <2>4. IsInjective(w) /\ Run(q, v, m, at, Nil)
    BY <1>9, <1>17
  <2> QED BY ONLY <2>3, <2>4, RunCut
<1>19. Run(q, G, m, Nil, Nil)
  <2>1. q.parent[n] = m /\ q.prev[n] = LastOr(u, Nil) /\ q.next[n] = HeadOr(w, Nil)
    BY <1>0, <1>6, <1>10
  <2> QED BY <1>12, <1>13, <1>16, <1>18, <2>1, RunCut
<1>20. Host(f, "previous", at, m, e) /\ "previous" \in How
  BY <1>2, <1>3 DEF Host, How
<1>21. \A x \in Node : x \notin ToSet(e) /\ x # n =>
           q.parent[x] = t.parent[x] /\ q.prev[x] = t.prev[x] /\ q.next[x] = t.next[x]
  BY <1>0, <1>3, <1>6, <1>8
<1>22. \A p \in Node : /\ q.first[p] = IF p = m THEN HeadOr(G, Nil) ELSE t.first[p]
                       /\ q.last[p] = IF p = m THEN LastOr(G, Nil) ELSE t.last[p]
  <2> TAKE p \in Node
  <2>1. p = m => t.first[p] = HeadOr(e, Nil) /\ t.last[p] = LastOr(e, Nil)
    BY <1>2, <1>0 DEF Row, Shows, Ends
  <2> HIDE DEF l
  <2> QED BY <1>0, <1>6, <1>7, <1>8, <1>14, <1>15, <2>1
<1>23. Shows(q, Put(f, "previous", at, One(n)))
  BY <1>4, <1>5, <1>11, <1>19, <1>20, <1>21, <1>22, GrownShows
<1> QED BY <1>23 DEF q

-----------------------------------------------------------------------------
(* Walking along the next pointers of a row.                               *)

\* Every node of a list at a place of its own: a list of nodes without
\* repetition is no longer than there are nodes.
LEMMA ListLen ==
  ASSUME IsFiniteSet(Node), NEW s \in Rows, IsInjective(s)
  PROVE  Len(s) \in Nat /\ Len(s) <= Cardinality(Node)
<1>1. Len(s) \in Nat /\ DOMAIN s = 1 .. Len(s) /\ \A i \in 1 .. Len(s) : s[i] \in Node
  BY LenProperties, ElementOfSeq DEF Rows
<1>2. s = [i \in 1 .. Len(s) |-> s[i]]
  <2>1. s \in Seq(Node)
    BY DEF Rows
  <2> QED BY <2>1, LenProperties
<1> DEFINE n == Len(s)
<1>3. s \in Injection(1 .. n, Node)
  BY <1>1, <1>2 DEF Injection, IsInjective
<1>4. IsFiniteSet(1 .. n) /\ Cardinality(1 .. n) = n
  BY <1>1, FS_Interval
<1> HIDE DEF n
<1>5. Cardinality(1 .. n) <= Cardinality(Node)
  BY <1>3, <1>4, FS_Injection
<1> QED BY <1>1, <1>4, <1>5 DEF n

\* A list begins with its first node.
LEMMA CutFirst ==
  ASSUME NEW s \in Rows, IsInjective(s), s # <<>>
  PROVE  \E v : Cut(s, <<>>, HeadOr(s, Nil), v) /\ Len(v) \in Nat /\ Len(s) = Len(v) + 1
<1>1. HeadOr(s, Nil) \in ToSet(s)
  BY EndsIn
<1>2. PICK u, v : Cut(s, u, HeadOr(s, Nil), v)
  BY <1>1, CutThere
<1>3. u = <<>>
  BY <1>2, CutEnds
<1> DEFINE x == HeadOr(s, Nil)
<1>4. v \in Rows /\ x \in Node /\ s = Cat(One(x), v)
  <2>1. v \in Rows /\ x \in Node /\ s = Cat(<<>>, Cat(One(x), v))
    BY <1>2, <1>3 DEF Cut
  <2>2. Cat(One(x), v) \in Rows
    BY <2>1, OneFacts, CatFacts
  <2> QED BY <2>1, <2>2, CatNone
<1>5. Len(<<x>> \o v) = Len(<<x>>) + Len(v) /\ Len(<<x>>) = 1 /\ Len(v) \in Nat
  <2>1. <<x>> \in Seq(Node) /\ v \in Seq(Node)
    BY <1>4 DEF Rows
  <2> HIDE DEF x
  <2> QED BY <2>1, ConcatProperties, LenProperties
<1> QED BY <1>2, <1>3, <1>4, <1>5 DEF Cat, One

\* The function that ChainFrom follows the links with.
Follows(t, n, g) ==
  g = [k \in 0 .. n |-> [y \in Link |->
         IF k = 0 \/ y = Nil THEN <<>> ELSE Cat(One(y), g[k - 1][t.next[y]])]]

\* The nodes met in n steps, by recursion on n.
LEMMA FollowsExists ==
  ASSUME NEW t, \A y \in Node : t.next[y] \in Link, NEW n \in Nat
  PROVE  \E g : Follows(t, n, g)
<1> DEFINE S == {m \in Nat : \E g : Follows(t, m, g)}
<1>1. 0 \in S
  <2> DEFINE g == [k \in 0 .. 0 |-> [y \in Link |-> <<>>]]
  <2>1. Follows(t, 0, g)
    BY DEF Follows
  <2> QED BY <2>1
<1>2. ASSUME NEW m \in Nat, m \in S PROVE m + 1 \in S
  <2>1. PICK g : Follows(t, m, g)
    BY <1>2
  <2> DEFINE Row1(d, k) == [y \in Link |-> IF k = 0 \/ y = Nil THEN <<>> ELSE Cat(One(y), d[k - 1][t.next[y]])]
             h == [k \in 0 .. m + 1 |-> Row1(g, k)]
  <2>2. \A k \in 0 .. m : h[k] = g[k]
    <3> TAKE k \in 0 .. m
    <3>1. g[k] = Row1(g, k)
      BY <2>1 DEF Follows
    <3>2. k \in 0 .. m + 1
      OBVIOUS
    <3> HIDE DEF Row1
    <3> QED BY <3>1, <3>2
  <2>3. \A k \in 0 .. m + 1 : Row1(g, k) = Row1(h, k)
    <3> TAKE k \in 0 .. m + 1
    <3>1. CASE k = 0
      BY <3>1
    <3>2. CASE k # 0
      <4>1. k - 1 \in 0 .. m
        BY <3>2
      <4>2. h[k - 1] = g[k - 1]
        BY <2>2, <4>1
      <4> HIDE DEF h
      <4> QED BY <4>2
    <3> QED BY <3>1, <3>2
  <2>4. h = [k \in 0 .. m + 1 |-> Row1(h, k)]
    <3> HIDE DEF Row1
    <3> QED BY <2>3
  <2>5. Follows(t, m + 1, h)
    <3> HIDE DEF h
    <3> QED BY <2>4 DEF Follows
  <2> QED BY <2>5
<1> HIDE DEF S
<1>3. S \in SUBSET Nat
  BY DEF S
<1>4. n \in S
  BY <1>1, <1>2, <1>3, SetInduction
<1> QED BY <1>4 DEF S

\* Following next from the first node of a run reads the run.
LEMMA FollowsReads ==
  ASSUME NEW t, \A y \in Node : t.next[y] \in Link, NEW n \in Nat, NEW g, Follows(t, n, g)
  PROVE  \A v \in Rows : \A p, l :
           IsInjective(v) /\ Run(t, v, p, l, Nil) /\ Len(v) <= n => g[n][HeadOr(v, Nil)] = v
<1> DEFINE Reads(k) == \A v \in Rows : \A p, l :
             IsInjective(v) /\ Run(t, v, p, l, Nil) /\ Len(v) <= k => g[k][HeadOr(v, Nil)] = v
           S == {k \in Nat : k <= n => Reads(k)}
<1>0. \A k \in 0 .. n : \A y \in Link :
        g[k][y] = IF k = 0 \/ y = Nil THEN <<>> ELSE Cat(One(y), g[k - 1][t.next[y]])
  <2> DEFINE b(k, y) == IF k = 0 \/ y = Nil THEN <<>> ELSE Cat(One(y), g[k - 1][t.next[y]])
  <2>1. g = [k \in 0 .. n |-> [y \in Link |-> b(k, y)]]
    BY DEF Follows
  <2> HIDE DEF b
  <2>2. \A k \in 0 .. n : \A y \in Link : g[k][y] = b(k, y)
    BY <2>1
  <2> QED BY <2>2 DEF b
<1>1. \A s \in Rows : Len(s) \in Nat /\ (Len(s) = 0 => s = <<>>)
  BY LenProperties, EmptySeq DEF Rows
<1>2. 0 \in S
  <2>1. Reads(0)
    <3> SUFFICES ASSUME NEW v \in Rows, Len(v) <= 0 PROVE g[0][HeadOr(v, Nil)] = v
      OBVIOUS
    <3>1. v = <<>>
      BY <1>1
    <3>2. HeadOr(v, Nil) = Nil /\ Nil \in Link /\ 0 \in 0 .. n
      BY <3>1, EndsNone DEF Link
    <3> QED BY <1>0, <3>1, <3>2
  <2> QED BY <2>1
<1>3. ASSUME NEW k \in Nat, k \in S PROVE k + 1 \in S
  <2> SUFFICES ASSUME k + 1 <= n PROVE Reads(k + 1)
    OBVIOUS
  <2>1. Reads(k) /\ k + 1 \in 0 .. n /\ k + 1 # 0 /\ (k + 1) - 1 = k
    BY <1>3
  <2> SUFFICES ASSUME NEW v \in Rows, NEW p, NEW l, IsInjective(v), Run(t, v, p, l, Nil), Len(v) <= k + 1
               PROVE  g[k + 1][HeadOr(v, Nil)] = v
    OBVIOUS
  <2>2. CASE v = <<>>
    <3>1. HeadOr(v, Nil) = Nil /\ Nil \in Link
      BY <2>2, EndsNone DEF Link
    <3> QED BY <1>0, <2>1, <2>2, <3>1
  <2>3. CASE v # <<>>
    <3> DEFINE x == HeadOr(v, Nil)
               z == <<>>
    <3>1. PICK r : Cut(v, z, x, r) /\ Len(r) \in Nat /\ Len(v) = Len(r) + 1
      BY <2>3, CutFirst
    <3> HIDE DEF x, z, S, Reads
    <3>2. r \in Rows /\ x \in Node /\ IsInjective(r)
      BY <3>1, CutFacts
    <3>8. Run(t, r, p, x, Nil) /\ t.next[x] = HeadOr(r, Nil)
      <4>1. Run(t, v, p, l, Nil) <=> /\ Run(t, z, p, l, x) /\ Run(t, r, p, x, Nil)
                                     /\ t.parent[x] = p /\ t.prev[x] = LastOr(z, l) /\ t.next[x] = HeadOr(r, Nil)
        <5>1. Cut(v, z, x, r) /\ IsInjective(v)
          BY <3>1
        <5> QED BY ONLY <5>1, RunCut
      <4> QED BY <4>1
    <3>3. Len(r) <= k
      BY <3>1
    <3>4. g[k][HeadOr(r, Nil)] = r
      BY <2>1, <3>2, <3>3, <3>8 DEF Reads
    <3>5. x \in Link /\ x # Nil
      BY <3>2, NilAssumption DEF Link
    <3>6. g[k + 1][x] = Cat(One(x), r)
      BY <1>0, <2>1, <3>4, <3>5, <3>8
    <3>7. v = Cat(One(x), r)
      <4>1. v = Cat(<<>>, Cat(One(x), r)) /\ Cat(One(x), r) \in Rows
        BY <3>1, <3>2, OneFacts, CatFacts DEF Cut, z
      <4> QED BY <4>1, CatNone
    <3> QED BY <3>6, <3>7 DEF x
  <2> QED BY <2>2, <2>3
<1> HIDE DEF S
<1>4. S \in SUBSET Nat
  BY DEF S
<1>5. n \in S
  BY <1>2, <1>3, <1>4, SetInduction
<1> QED BY <1>5 DEF S
=============================================================================
