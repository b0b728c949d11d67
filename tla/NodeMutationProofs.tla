-------------------------- MODULE NodeMutationProofs --------------------------
(***************************************************************************)
(* For any number of nodes, arguments and parsed nodes, the calls of       *)
(* NodeMutation never break the links of the forest and never leave a      *)
(* freed node reachable.                                                   *)
(***************************************************************************)
EXTENDS NodeMutation, DomTreeProofs

LiveRoles == {"node", "fragment", "document"}

Distinct(s) == \A i, j \in DOMAIN s : s[i] = s[j] => i = j

-----------------------------------------------------------------------------
(* One move.                                                               *)

\* Unlinking a node and linking it beside or under a node that it is not above
\* keeps the forest, changes one parent, and touches no lone node.  Every loop
\* of nl_node_add_nodes consists of such moves.
Moved(t, how, to, n) == Attach(RemoveNode(t, n), how, to, n)

LEMMA MoveForest ==
  ASSUME NEW t \in Tree, WellLinked(t), Acyclic(t), NEW how \in Positions,
         NEW to \in Node, NEW n \in Node, NoneAbove(t, {n}, to)
  PROVE  /\ Moved(t, how, to, n) \in Tree
         /\ WellLinked(Moved(t, how, to, n))
         /\ Acyclic(Moved(t, how, to, n))
<1> DEFINE r == RemoveNode(t, n)
<1>1. r \in Tree /\ WellLinked(r) /\ Acyclic(r) /\ Loose(r, n)
  BY RemoveNodeType, RemoveWellLinked, RemoveAcyclic, RemoveLoose
<1>2. NoneAbove(r, {n}, to)
  BY RemoveNoneAbove
<1>3. n # to /\ r.parent[to] # n
  BY <1>1, <1>2, NoneAboveSelf, NilAssumption
<1> HIDE DEF r
<1>4. CASE how = "child"
  <2>1. Moved(t, how, to, n) = InsertChild(r, to, n)
    BY <1>4 DEF Moved, Attach, r
  <2> QED BY <2>1, <1>1, <1>2, <1>3, InsertChildType, InsertChildWellLinked,
             InsertChildAcyclic
<1>5. CASE how = "next"
  <2>1. Moved(t, how, to, n) = InsertAfter(r, to, n)
    BY <1>5 DEF Moved, Attach, r
  <2> QED BY <2>1, <1>1, <1>2, <1>3, InsertAfterType, InsertAfterWellLinked,
             InsertAfterAcyclic
<1>6. CASE how = "previous"
  <2>1. Moved(t, how, to, n) = InsertBefore(r, to, n)
    BY <1>6 DEF Moved, Attach, r
  <2> QED BY <2>1, <1>1, <1>2, <1>3, InsertBeforeType, InsertBeforeWellLinked,
             InsertBeforeAcyclic
<1> QED BY <1>4, <1>5, <1>6 DEF Positions

\* A move gives the node the target or the target's parent for a parent.
LEMMA MoveParent ==
  ASSUME NEW t \in Tree, NEW how \in Positions, NEW to \in Node, NEW n \in Node,
         n # to
  PROVE  Hung(t, Moved(t, how, to, n), n, to)
<1>1. RemoveNode(t, n).parent = [t.parent EXCEPT ![n] = Nil]
  BY DEF RemoveNode
<1>2. RemoveNode(t, n).parent[to] = t.parent[to]
  BY <1>1 DEF Tree
<1>3. ASSUME NEW p
      PROVE  [RemoveNode(t, n).parent EXCEPT ![n] = p] = [t.parent EXCEPT ![n] = p]
  BY <1>1 DEF Tree
<1>4. CASE how = "child"
  BY <1>3, <1>4 DEF Moved, Attach, InsertChild, Hung
<1>5. CASE how = "next"
  BY <1>2, <1>3, <1>5 DEF Moved, Attach, InsertAfter, Hung
<1>6. CASE how = "previous"
  BY <1>2, <1>3, <1>6 DEF Moved, Attach, InsertBefore, Hung
<1> QED BY <1>4, <1>5, <1>6 DEF Positions

\* A move leaves alone what has no part in it.
LEMMA MoveKeepsLoose ==
  ASSUME NEW t \in Tree, WellLinked(t), Acyclic(t), NEW how \in Positions,
         NEW to \in Node, NEW n \in Node, n # to,
         NEW x \in Node, x # n, x # to
  PROVE  /\ Loose(t, x) => Loose(Moved(t, how, to, n), x)
         /\ Isolated(t, x) => Isolated(Moved(t, how, to, n), x)
<1> DEFINE r == RemoveNode(t, n)
<1>1. r \in Tree /\ WellLinked(r) /\ Acyclic(r) /\ Loose(r, n)
  BY RemoveNodeType, RemoveWellLinked, RemoveAcyclic, RemoveLoose
<1>2. /\ Loose(t, x) => Loose(r, x)
      /\ Isolated(t, x) => Isolated(r, x)
  BY RemoveKeepsLoose
<1>3. Isolated(r, x) => \A y \in Node : r.parent[y] # x
  BY <1>1, NoFirstNoChild DEF Isolated
<1> HIDE DEF r
<1>4. CASE how = "child"
  <2>1. Moved(t, how, to, n) = InsertChild(r, to, n)
    BY <1>4 DEF Moved, Attach, r
  <2>2. /\ Loose(r, x) => Loose(InsertChild(r, to, n), x)
        /\ Isolated(r, x) => Isolated(InsertChild(r, to, n), x)
    BY <1>1, <1>3, NilAssumption
    DEF InsertChild, WellLinked, Tree, Link, Loose, Isolated
  <2> QED BY <2>1, <2>2, <1>2
<1>5. CASE how = "next"
  <2>1. Moved(t, how, to, n) = InsertAfter(r, to, n)
    BY <1>5 DEF Moved, Attach, r
  <2>2. /\ Loose(r, x) => Loose(InsertAfter(r, to, n), x)
        /\ Isolated(r, x) => Isolated(InsertAfter(r, to, n), x)
    BY <1>1, <1>3, NilAssumption
    DEF InsertAfter, WellLinked, Tree, Link, Loose, Isolated
  <2> QED BY <2>1, <2>2, <1>2
<1>6. CASE how = "previous"
  <2>1. Moved(t, how, to, n) = InsertBefore(r, to, n)
    BY <1>6 DEF Moved, Attach, r
  <2>2. /\ Loose(r, x) => Loose(InsertBefore(r, to, n), x)
        /\ Isolated(r, x) => Isolated(InsertBefore(r, to, n), x)
    BY <1>1, <1>3, NilAssumption
    DEF InsertBefore, WellLinked, Tree, Link, Loose, Isolated
  <2> QED BY <2>1, <2>2, <1>2
<1> QED BY <1>4, <1>5, <1>6 DEF Positions

-----------------------------------------------------------------------------
(* The inductive invariant: besides the forest, what each loop knows about *)
(* the nodes it has yet to move.                                           *)

\* Only nodes that can be arguments ever hang under another one.
RootsOnTop == \A n \in Node : dom.parent[n] # Nil => role[n] = "node"

UnusedIsolated == \A n \in Unused : Isolated(dom, n)

IsLive(n) == n \in Node /\ role[n] \in LiveRoles

AllMovable(s) == \A i \in DOMAIN s : role[s[i]] = "node"

\* The argument of the call can be linked to y.
Fits(y) ==
  /\ call.src = "node" =>
       /\ call.arg # <<>> /\ role[call.arg[1]] = "node"
       /\ NoneAbove(dom, {call.arg[1]}, y)
  /\ call.src = "set" =>
       /\ Distinct(call.arg) /\ AllMovable(call.arg)
       /\ NoneAbove(dom, Members(call.arg), y)
  /\ call.src = "fragment" =>
       /\ call.frag \in Node /\ role[call.frag] = "fragment"
       /\ NoneAbove(dom, {call.frag}, y)
  /\ call.src = "string" => call.frag = Nil

\* The root of a parsed String.
IsScratch(r) == r \in Node /\ role[r] = "scratch" /\ Loose(dom, r)

\* wrap is filling its own DocumentFragment, call.at: neither that nor the
\* nodes of X are above the node wrapped.
WrapInv(X) ==
  call.name = "wrap" =>
    /\ call.how = "child" /\ call.src = "string"
    /\ role[call.at] = "fragment"
    /\ IsLive(call.self) /\ role[call.self] = "node"
    /\ NoneAbove(dom, {call.at} \cup X, call.self)

NodeInv ==
  call.pc = "node" =>
    /\ call.name # "wrap" /\ IsLive(call.at) /\ call.cur = call.at
    /\ call.src = "node" /\ Fits(call.at)

SetInv ==
  call.pc = "nodeset" =>
    /\ IsLive(call.at) /\ IsLive(call.cur)
    /\ Distinct(call.todo) /\ AllMovable(call.todo)
    /\ NoneAbove(dom, Members(call.todo), Target)
    /\ WrapInv(Members(call.todo))

FragmentInv ==
  call.pc = "fragment" =>
    /\ call.name # "wrap" /\ IsLive(call.at) /\ IsLive(call.cur)
    /\ call.frag \in Node /\ NoneAbove(dom, {call.frag}, Target)
    /\ role[call.frag] = "fragment" \/ IsScratch(call.frag)

ParseInv ==
  call.pc = "parse" =>
    /\ IsLive(call.at) /\ call.cur = call.at
    /\ call.frag # Nil => /\ IsScratch(call.frag)
                          /\ NoneAbove(dom, {call.frag}, call.at)
    /\ WrapInv({call.frag} \ {Nil})
    /\ call.arg = <<>>

ReleaseInv ==
  call.pc = "release" =>
    /\ call.name \in {"parse", "wrap"} /\ IsLive(call.at)
    /\ call.cur = call.at
    /\ IsScratch(call.frag)
    /\ Distinct(call.arg) /\ AllMovable(call.arg)
    /\ \A i \in DOMAIN call.arg : dom.parent[call.arg[i]] = Nil
    /\ WrapInv({call.frag} \cup Members(call.arg))

ClearInv ==
  call.pc \in {"collect", "clear"} =>
    /\ call.name = "children=" /\ call.how = "child"
    /\ IsLive(call.at) /\ call.self \in Node /\ Fits(call.at)
    /\ call.src = "string" => call.arg = <<>>

EmptyInv ==
  call.pc = "empty" =>
    /\ IsLive(call.self) /\ call.self \in Node /\ call.cur \in Node /\ role[call.cur] = "node"
    /\ Loose(dom, call.cur) /\ NoneAbove(dom, {call.cur}, call.self)

UnlinkInv == call.pc = "unlink" => call.self \in Node

PlaceInv ==
  call.pc = "place" =>
    /\ call.self \in Node /\ role[call.self] = "node"
    /\ call.frag = Nil => call.cur \in Node /\ role[call.cur] = "node"
    /\ call.frag # Nil => call.frag \in Node
    /\ call.src = "string" => call.frag # Nil
    /\ Wrapper # Nil => NoneAbove(dom, {Wrapper}, call.self)

AdoptInv ==
  call.pc = "adopt" =>
    /\ call.self \in Node /\ role[call.self] = "node"
    /\ call.cur \in Node /\ role[call.cur] = "node"
    /\ NoneAbove(dom, {call.self}, call.cur)

\* replace unlinks the node it was called on.
ReplaceInv == call.name = "replace" => call.self \in Node

CallInv ==
  /\ NodeInv /\ SetInv /\ FragmentInv /\ ParseInv /\ ReleaseInv /\ ClearInv
  /\ EmptyInv /\ UnlinkInv /\ PlaceInv /\ AdoptInv /\ ReplaceInv

ForestInv == LinksOfForest /\ RootsOnTop /\ UnusedIsolated

IInv == TypeOK /\ ForestInv /\ CallInv
-----------------------------------------------------------------------------
(* Steps on the tree.                                                      *)

\* A move of a node that can be an argument keeps the forest's invariants.
LEMMA MoveStep ==
  ASSUME TypeOK, ForestInv, NEW how \in Positions, NEW to \in Node,
         IsLive(to), NEW n \in Node, role[n] = "node",
         NoneAbove(dom, {n}, to),
         dom' = Moved(dom, how, to, n), role' = role
  PROVE  /\ dom' \in Tree /\ role' \in [Node -> Roles] /\ ForestInv'
         /\ n # to /\ Hung(dom, dom', n, to)
<1>1. dom' \in Tree /\ LinksOfForest'
  BY MoveForest DEF TypeOK, ForestInv, LinksOfForest
<1>2. n # to
  BY NoneAboveSelf DEF TypeOK
<1>3. RootsOnTop'
  <2>1. \A x \in Node : x # n => dom'.parent[x] = dom.parent[x]
    <3>1. PICK p \in {to, dom.parent[to]} :
                 dom'.parent = [dom.parent EXCEPT ![n] = p]
      BY MoveParent, <1>2 DEF TypeOK, Hung
    <3>2. DOMAIN dom.parent = Node
      BY DEF TypeOK, Tree
    <3> QED BY <3>1, <3>2
  <2> QED BY <2>1 DEF RootsOnTop, ForestInv
<1>4. UnusedIsolated'
  <2> SUFFICES ASSUME NEW x \in Unused PROVE Isolated(dom', x)
    BY DEF UnusedIsolated, Unused
  <2>1. x \in Node /\ x # n /\ x # to /\ Isolated(dom, x)
    BY DEF Unused, IsLive, LiveRoles, UnusedIsolated, ForestInv
  <2> QED BY <1>2, <2>1, MoveKeepsLoose
          DEF TypeOK, ForestInv, LinksOfForest
<1>5. Hung(dom, dom', n, to)
  BY <1>2, MoveParent DEF TypeOK
<1> QED BY <1>1, <1>2, <1>3, <1>4, <1>5 DEF ForestInv, TypeOK

\* So does a removal.
LEMMA RemoveStep ==
  ASSUME TypeOK, ForestInv, NEW n \in Node, dom' = RemoveNode(dom, n),
         role' = role
  PROVE  dom' \in Tree /\ role' \in [Node -> Roles] /\ ForestInv'
<1>1. dom' \in Tree /\ LinksOfForest'
  BY RemoveNodeType, RemoveWellLinked, RemoveAcyclic
  DEF TypeOK, ForestInv, LinksOfForest
<1>2. RootsOnTop'
  <2>1. \A x \in Node : dom'.parent[x] # Nil => dom'.parent[x] = dom.parent[x]
    BY DEF TypeOK, Tree, RemoveNode
  <2> QED BY <2>1 DEF RootsOnTop, ForestInv
<1>3. UnusedIsolated'
  BY RemoveKeepsLoose
  DEF UnusedIsolated, Unused, TypeOK, ForestInv, LinksOfForest
<1> QED BY <1>1, <1>2, <1>3 DEF ForestInv, TypeOK

\* And whatever leaves tree and roles alone.
LEMMA StillStep ==
  ASSUME TypeOK, ForestInv, dom' = dom, role' = role
  PROVE  dom' \in Tree /\ role' \in [Node -> Roles] /\ ForestInv'
  BY DEF TypeOK, ForestInv, LinksOfForest, RootsOnTop, UnusedIsolated, Unused

\* Allocating a node.
LEMMA AllocateStep ==
  ASSUME TypeOK, ForestInv, NEW n \in Unused, NEW r \in Roles \ {"unused"},
         dom' = dom, role' = [role EXCEPT ![n] = r]
  PROVE  dom' \in Tree /\ role' \in [Node -> Roles] /\ ForestInv'
<1>1. RootsOnTop'
  BY DEF ForestInv, RootsOnTop, UnusedIsolated, Unused, Isolated, TypeOK
<1>2. UnusedIsolated'
  BY DEF ForestInv, UnusedIsolated, Unused, TypeOK
<1> QED BY <1>1, <1>2 DEF TypeOK, ForestInv, LinksOfForest, Unused

\* Freeing a node that is nowhere and has no child.
LEMMA FreeStep ==
  ASSUME TypeOK, ForestInv, NEW n \in Node, Isolated(dom, n),
         dom' = dom, role' = [role EXCEPT ![n] = "unused"]
  PROVE  dom' \in Tree /\ role' \in [Node -> Roles] /\ ForestInv'
<1>1. RootsOnTop'
  BY DEF ForestInv, RootsOnTop, Isolated, TypeOK
<1>2. UnusedIsolated'
  BY DEF ForestInv, UnusedIsolated, Unused, TypeOK
<1> QED BY <1>1, <1>2 DEF TypeOK, ForestInv, LinksOfForest, Roles

\* A call that has only to return has no obligations left.
LEMMA FinishStep ==
  ASSUME TypeOK, NEW name \in Names, NEW self \in Link, NEW arg \in Seq(Node),
         name = "replace" => self \in Node, Finish(name, self, arg)
  PROVE  call' \in Calls /\ settled' \in Tree /\ CallInv'
<1>1. call' = [Idle EXCEPT !.pc = "return", !.name = name, !.self = self,
                           !.arg = arg]
  BY DEF Finish
<1>2. call' \in Calls
  <2>1. call' = [pc |-> "return", name |-> name, self |-> self, how |-> "child",
                 at |-> Nil, src |-> "node", frag |-> Nil, arg |-> arg,
                 todo |-> <<>>, cur |-> Nil]
    BY <1>1 DEF Idle
  <2>2. "return" \in Pcs /\ "child" \in Positions /\ "node" \in Sources
    BY DEF Pcs, Positions, Sources
  <2>3. Nil \in Link /\ <<>> \in Seq(Node)
    BY DEF Link
  <2> QED BY <2>1, <2>2, <2>3 DEF Calls
<1>3. call'.pc = "return" /\ call'.name = name /\ call'.self = self
  BY <1>1 DEF Idle
<1>4. CallInv'
  BY <1>3 DEF CallInv, NodeInv, SetInv, FragmentInv, ParseInv, ReleaseInv,
     ClearInv, EmptyInv, UnlinkInv, PlaceInv, AdoptInv, ReplaceInv
<1> QED BY <1>2, <1>4 DEF Finish, TypeOK

-----------------------------------------------------------------------------
(* The calls.                                                              *)

\* What Arguments lets through fits.
LEMMA ArgumentsFit ==
  ASSUME TypeOK, NEW y \in Node, NEW a \in Arguments(y)
  PROVE  /\ a[1] \in Sources \ {"other"} /\ a[2] \in Link /\ a[3] \in Seq(Node)
         /\ a[1] = "node" => /\ a[3] # <<>> /\ role[a[3][1]] = "node"
                             /\ NoneAbove(dom, {a[3][1]}, y)
         /\ a[1] = "set" => /\ Distinct(a[3]) /\ AllMovable(a[3])
                            /\ NoneAbove(dom, Members(a[3]), y)
         /\ a[1] = "fragment" => /\ a[2] \in Node /\ role[a[2]] = "fragment"
                                 /\ NoneAbove(dom, {a[2]}, y)
         /\ a[1] = "string" => a[2] = Nil /\ a[3] = <<>>
<1>1. CASE \E x \in {n \in Movable : NoneAbove(dom, {n}, y)} :
              a = <<"node", Nil, <<x>>>>
  <2>1. PICK x \in {n \in Movable : NoneAbove(dom, {n}, y)} :
               a = <<"node", Nil, <<x>>>>
    BY <1>1
  <2>2. x \in Node /\ role[x] = "node" /\ NoneAbove(dom, {x}, y)
    BY DEF Movable
  <2>3. <<x>> \in Seq(Node) /\ <<x>> # <<>> /\ <<x>>[1] = x
    BY <2>2
  <2>4. a[1] = "node" /\ a[2] = Nil /\ a[3] = <<x>>
    BY <2>1
  <2> QED BY <2>2, <2>3, <2>4 DEF Sources, Link
<1>2. CASE \E s \in {l \in NodeLists : NoneAbove(dom, Members(l), y)} :
              a = <<"set", Nil, s>>
  <2>1. PICK s \in {l \in NodeLists : NoneAbove(dom, Members(l), y)} :
               a = <<"set", Nil, s>>
    BY <1>2
  <2>2. PICK k \in 0 .. MaxArg : /\ s \in [1 .. k -> Movable]
                                 /\ \A i, j \in 1 .. k : s[i] = s[j] => i = j
    BY DEF NodeLists
  <2>3. k \in Nat /\ Movable \subseteq Node
    BY BoundAssumption DEF Movable
  <2>4. s \in Seq(Node)
    BY <2>2, <2>3
  <2>5. Distinct(s)
    BY <2>2 DEF Distinct
  <2>6. AllMovable(s)
    BY <2>2 DEF AllMovable, Movable
  <2>7. a[1] = "set" /\ a[2] = Nil /\ a[3] = s
    BY <2>1
  <2> QED BY <2>4, <2>5, <2>6, <2>7 DEF Sources, Link
<1>3. CASE \E f \in {g \in Node : role[g] = "fragment" /\ NoneAbove(dom, {g}, y)} :
              a = <<"fragment", f, <<>>>>
  BY <1>3 DEF Sources, Link
<1>4. CASE a = <<"string", Nil, <<>>>>
  BY <1>4 DEF Sources, Link
<1> QED BY <1>1, <1>2, <1>3, <1>4 DEF Arguments

\* add_child, add_sibling and their callers start with a legal argument.
LEMMA BeginAddStep ==
  ASSUME IInv, NEW name \in Names \ {"wrap"}, NEW self \in Node,
         NEW how \in Positions, NEW at \in Live, NEW a \in Arguments(at),
         BeginAdd(name, self, how, at, a)
  PROVE  IInv'
<1>1. at \in Node /\ IsLive(at)
  BY DEF Live, IsLive, LiveRoles
<1>2. /\ a[1] \in Sources \ {"other"} /\ a[2] \in Link /\ a[3] \in Seq(Node)
      /\ a[1] = "node" => /\ a[3] # <<>> /\ role[a[3][1]] = "node"
                          /\ NoneAbove(dom, {a[3][1]}, at)
      /\ a[1] = "set" => /\ Distinct(a[3]) /\ AllMovable(a[3])
                         /\ NoneAbove(dom, Members(a[3]), at)
      /\ a[1] = "fragment" => /\ a[2] \in Node /\ role[a[2]] = "fragment"
                              /\ NoneAbove(dom, {a[2]}, at)
      /\ a[1] = "string" => a[2] = Nil /\ a[3] = <<>>
  BY <1>1, ArgumentsFit DEF IInv
<1>3. call' = [pc |-> EntryOf(a[1]), name |-> name, self |-> self, how |-> how,
               at |-> at, src |-> a[1], frag |-> a[2], arg |-> a[3],
               todo |-> a[3], cur |-> at]
  BY DEF BeginAdd, Begin
<1>4. dom' = dom /\ role' = role /\ settled' = settled
  BY DEF BeginAdd, Begin
<1>5. dom' \in Tree /\ role' \in [Node -> Roles] /\ ForestInv'
  BY <1>4, StillStep DEF IInv
<1>6. EntryOf(a[1]) \in Pcs
  BY <1>2 DEF EntryOf, Sources, Pcs
<1>7. call' \in Calls
  BY <1>1, <1>2, <1>3, <1>6 DEF Calls, Link
<1>8. TypeOK'
  BY <1>4, <1>5, <1>7 DEF TypeOK, IInv
<1>9. IsLive(at)' /\ (call.at)' = at /\ (call.cur)' = at /\ Target' = at
      /\ (call.name)' = name /\ (call.pc)' = EntryOf(a[1]) /\ (call.arg)' = a[3]
      /\ (call.frag)' = a[2] /\ (call.src)' = a[1] /\ (call.todo)' = a[3]
      /\ (call.self)' = self
  BY <1>1, <1>3, <1>4 DEF IsLive, Target
<1>10. CallInv'
  <2>1. CASE a[1] = "node"
    <3>1. NodeInv'
      BY <1>2, <1>4, <1>9, <2>1 DEF NodeInv, Fits
    <3> QED BY <3>1, <1>9, <2>1 DEF EntryOf, CallInv, NodeInv, SetInv, FragmentInv,
       ParseInv, ReleaseInv, ClearInv, EmptyInv, UnlinkInv, PlaceInv, AdoptInv, ReplaceInv
  <2>2. CASE a[1] = "set"
    <3>1. SetInv'
      BY <1>2, <1>4, <1>9, <2>2 DEF SetInv, WrapInv, Distinct, AllMovable
    <3> QED BY <3>1, <1>9, <2>2 DEF EntryOf, CallInv, NodeInv, SetInv, FragmentInv,
       ParseInv, ReleaseInv, ClearInv, EmptyInv, UnlinkInv, PlaceInv, AdoptInv, ReplaceInv
  <2>3. CASE a[1] = "fragment"
    <3>1. FragmentInv'
      BY <1>2, <1>4, <1>9, <2>3 DEF FragmentInv
    <3> QED BY <3>1, <1>9, <2>3 DEF EntryOf, CallInv, NodeInv, SetInv, FragmentInv,
       ParseInv, ReleaseInv, ClearInv, EmptyInv, UnlinkInv, PlaceInv, AdoptInv, ReplaceInv
  <2>4. CASE a[1] = "string"
    <3>1. ParseInv'
      BY <1>2, <1>4, <1>9, <2>4 DEF ParseInv, WrapInv
    <3> QED BY <3>1, <1>9, <2>4 DEF EntryOf, CallInv, NodeInv, SetInv, FragmentInv,
       ParseInv, ReleaseInv, ClearInv, EmptyInv, UnlinkInv, PlaceInv, AdoptInv, ReplaceInv
  <2> QED BY <1>2, <2>1, <2>2, <2>3, <2>4 DEF Sources
<1> QED BY <1>5, <1>8, <1>10 DEF IInv

-----------------------------------------------------------------------------
(* The loops of nl_node_add_nodes.                                         *)

\* After the last node replace and wrap go on, the others return.
LEMMA AddedStep ==
  ASSUME IInv, NEW arg \in Seq(Node), Added(arg),
         call.name = "wrap" =>
           /\ role'[call.at] = "fragment" /\ call.at \in Node
           /\ call.self \in Node /\ role'[call.self] = "node"
           /\ dom'.first[call.at] # Nil =>
                NoneAbove(dom', {dom'.first[call.at]}, call.self)
  PROVE  call' \in Calls /\ settled' \in Tree /\ CallInv'
<1>0. call \in Calls /\ settled \in Tree /\ ReplaceInv
  BY DEF IInv, TypeOK, CallInv
<1>1. CASE call.name = "replace"
  <2>1. call' = [call EXCEPT !.pc = "unlink", !.arg = arg] /\ settled' = settled
    BY <1>1 DEF Added
  <2>2. call' \in Calls
    BY <1>0, <2>1 DEF Calls, Pcs
  <2>3. call'.pc = "unlink" /\ call'.name = call.name /\ call'.self = call.self
    BY <1>0, <2>1 DEF Calls
  <2>4. CallInv'
    BY <1>0, <1>1, <2>3 DEF CallInv, NodeInv, SetInv, FragmentInv, ParseInv, ReleaseInv, ClearInv,
      EmptyInv, UnlinkInv, PlaceInv, AdoptInv, ReplaceInv
  <2> QED BY <1>0, <2>1, <2>2, <2>4
<1>2. CASE call.name = "wrap"
  <2>1. call' = [call EXCEPT !.pc = "place", !.frag = call.at] /\ settled' = settled
    BY <1>2 DEF Added
  <2>2. call' \in Calls
    BY <1>0, <2>1 DEF Calls, Pcs
  <2>3. /\ call'.pc = "place" /\ call'.name = call.name
        /\ call'.self = call.self /\ call'.frag = call.at
    BY <1>0, <2>1 DEF Calls
  <2>4. PlaceInv'
    BY <1>2, <2>3, NilAssumption DEF PlaceInv, Wrapper
  <2>5. CallInv'
    BY <1>2, <2>3, <2>4 DEF CallInv, NodeInv, SetInv, FragmentInv, ParseInv, ReleaseInv, ClearInv,
      EmptyInv, UnlinkInv, PlaceInv, AdoptInv, ReplaceInv
  <2> QED BY <1>0, <2>1, <2>2, <2>5
<1>3. CASE call.name \notin {"replace", "wrap"}
  <2>1. Finish(call.name, call.self, arg)
    BY <1>3 DEF Added, Finished
  <2>2. call.name \in Names /\ call.self \in Link
    BY <1>0 DEF Calls
  <2> QED BY <1>3, <2>1, <2>2, FinishStep DEF IInv
<1> QED BY <1>1, <1>2, <1>3

LEMMA AddNodeStep == ASSUME IInv, AddNode PROVE IInv'
<1>1. NodeInv /\ call.pc = "node" /\ call \in Calls
  BY DEF IInv, CallInv, AddNode, TypeOK
<1>2. /\ call.name # "wrap" /\ IsLive(call.at) /\ call.at \in Node
      /\ call.arg # <<>> /\ role[call.arg[1]] = "node"
      /\ NoneAbove(dom, {call.arg[1]}, call.at) /\ Target = call.at
  BY <1>1 DEF NodeInv, Fits, IsLive, Target
<1>3. call.arg \in Seq(Node) /\ call.arg[1] \in Node /\ call.how \in Positions
  BY <1>1, <1>2 DEF Calls
<1>4. dom' = Moved(dom, call.how, call.at, call.arg[1]) /\ role' = role
  BY <1>2 DEF AddNode, MoveToTarget, Moved
<1>5. dom' \in Tree /\ role' \in [Node -> Roles] /\ ForestInv'
  BY <1>2, <1>3, <1>4, MoveStep DEF IInv
<1>6. call' \in Calls /\ settled' \in Tree /\ CallInv'
  BY <1>2, <1>3, AddedStep DEF AddNode
<1> QED BY <1>5, <1>6 DEF IInv, TypeOK

\* What is left of a NodeSet still fits: the node just linked is not in it, and
\* none of it is above the next target.
LEMMA AddNextOfSetStep == ASSUME IInv, AddNextOfSet PROVE IInv'
<1> SUFFICES ASSUME NEW n, NEW rest, NEW to, n = Head(call.todo),
                    rest = Tail(call.todo), to = Target
             PROVE  IInv'
  OBVIOUS
<1>1. SetInv /\ call.pc = "nodeset" /\ call.todo # <<>> /\ call \in Calls
      /\ dom \in Tree
  BY DEF IInv, CallInv, AddNextOfSet, TypeOK
<1>2. call.todo \in Seq(Node) /\ call.how \in Positions
  BY <1>1 DEF Calls
<1>3. n \in Node /\ rest \in Seq(Node) /\ n = call.todo[1]
      /\ 1 \in DOMAIN call.todo
  BY <1>1, <1>2
<1>4. \A i \in DOMAIN rest : i + 1 \in DOMAIN call.todo /\ rest[i] = call.todo[i + 1]
  BY <1>1, <1>2
<1>5. Distinct(rest)
  <2>1. DOMAIN rest \subseteq Int
    BY <1>3
  <2> QED BY <1>1, <1>4, <2>1 DEF SetInv, Distinct
<1>6. AllMovable(rest) /\ role[n] = "node"
  BY <1>1, <1>3, <1>4 DEF SetInv, AllMovable
<1>7. n \notin Members(rest)
  <2> SUFFICES ASSUME NEW i \in DOMAIN rest, rest[i] = n PROVE FALSE
    BY DEF Members
  <2>1. i \in Nat /\ i >= 1
    BY <1>3
  <2>2. i + 1 = 1
    BY <1>1, <1>3, <1>4 DEF SetInv, Distinct
  <2> QED BY <2>1, <2>2
<1>8. Members(rest) \subseteq Members(call.todo) /\ n \in Members(call.todo)
  BY <1>3, <1>4 DEF Members
<1>9. to \in Node /\ IsLive(to) /\ NoneAbove(dom, Members(call.todo), to)
  BY <1>1 DEF SetInv, Target, IsLive
<1>10. NoneAbove(dom, {n}, to) /\ NoneAbove(dom, Members(rest), to)
  BY <1>1, <1>8, <1>9, NoneAboveFewer
<1>11. dom' = Moved(dom, call.how, to, n) /\ role' = role
  BY DEF AddNextOfSet, MoveToTarget, Moved
<1>12. dom' \in Tree /\ role' \in [Node -> Roles] /\ ForestInv'
  BY <1>2, <1>3, <1>6, <1>9, <1>10, <1>11, MoveStep DEF IInv
<1>13. call' = [call EXCEPT !.cur = n, !.todo = rest] /\ settled' = settled
  BY DEF AddNextOfSet
<1>14. call' \in Calls
  BY <1>1, <1>3, <1>13 DEF Calls, Link
<1>15. /\ call'.pc = "nodeset" /\ call'.cur = n /\ call'.todo = rest
       /\ call'.at = call.at /\ call'.how = call.how /\ call'.name = call.name
       /\ call'.self = call.self /\ call'.src = call.src
  BY <1>1, <1>13 DEF Calls
<1>16. Hung(dom, dom', n, to)
  BY <1>2, <1>3, <1>6, <1>9, <1>10, <1>11, MoveStep DEF IInv
<1>170. ASSUME NEW X, n \in X, NEW y \in Node, NoneAbove(dom, X, y)
        PROVE  NoneAbove(dom', X, y)
  BY <1>1, <1>3, <1>9, <1>12, <1>16, <1>170, HangNoneAbove
<1>17. NoneAbove(dom', Members(rest), Target')
  <2>1. CASE call.how = "next"
    <3>1. Target' = n
      BY <1>15, <2>1 DEF Target
    <3>2. NoneAbove(dom', Members(rest), n)
      BY <1>1, <1>3, <1>7, <1>9, <1>10, <1>12, <1>16, HungNoneAbove
    <3> QED BY <3>1, <3>2
  <2>2. CASE call.how # "next"
    <3>1. Target' = to
      BY <1>15, <2>2 DEF Target
    <3>2. NoneAbove(dom', Members(call.todo), to)
      BY <1>8, <1>9, <1>170
    <3> QED BY <3>1, <3>2, <1>8, <1>9, <1>12, NoneAboveFewer
  <2> QED BY <2>1, <2>2
<1>18. ASSUME call.name = "wrap"
       PROVE  /\ call.how = "child" /\ call.src = "string"
              /\ role[call.at] = "fragment"
              /\ call.self \in Node /\ role[call.self] = "node"
              /\ NoneAbove(dom', {call.at} \cup Members(rest), call.self)
  <2>1. WrapInv(Members(call.todo))
    BY <1>1 DEF SetInv
  <2>2. call.self \in Node /\ NoneAbove(dom, {call.at} \cup Members(call.todo), call.self)
    BY <1>18, <2>1 DEF WrapInv, IsLive
  <2>3. NoneAbove(dom', {call.at} \cup Members(call.todo), call.self)
    <3>1. n \in {call.at} \cup Members(call.todo)
      BY <1>8
    <3> QED BY <3>1, <2>2, <1>170
  <2>4. NoneAbove(dom', {call.at} \cup Members(rest), call.self)
    BY <2>2, <2>3, <1>8, <1>12, NoneAboveFewer
  <2> QED BY <1>18, <2>1, <2>2, <2>4 DEF WrapInv
<1>19. SetInv'
  <2>1. /\ call.at \in Node /\ role'[call.at] \in LiveRoles
        /\ role'[n] \in LiveRoles
    BY <1>1, <1>6, <1>11 DEF SetInv, IsLive, LiveRoles
  <2>2. AllMovable(rest)'
    BY <1>6, <1>11 DEF AllMovable
  <2>3. NoneAbove(dom', Members(call'.todo), Target')
    BY <1>15, <1>17
  <2>4. WrapInv(Members(call.todo))'
    BY <1>11, <1>15, <1>18 DEF WrapInv, IsLive, LiveRoles
  <2> QED BY <1>3, <1>5, <1>15, <2>1, <2>2, <2>3, <2>4
          DEF SetInv, AllMovable, IsLive
<1>20. ReplaceInv'
  BY <1>15 DEF ReplaceInv, IInv, CallInv
<1>21. CallInv'
  BY <1>15, <1>19, <1>20 DEF CallInv, NodeInv, SetInv, FragmentInv, ParseInv, ReleaseInv, ClearInv,
      EmptyInv, UnlinkInv, PlaceInv, AdoptInv, ReplaceInv
<1> QED BY <1>12, <1>13, <1>14, <1>21 DEF IInv, TypeOK

LEMMA SetExhaustedStep == ASSUME IInv, SetExhausted PROVE IInv'
<1>1. SetInv /\ call.pc = "nodeset" /\ call.todo = <<>> /\ call \in Calls
      /\ dom \in Tree
  BY DEF IInv, CallInv, SetExhausted, TypeOK
<1>2. dom' = dom /\ role' = role /\ Added(call.arg) /\ call.arg \in Seq(Node)
  BY <1>1 DEF SetExhausted, Calls
<1>3. dom' \in Tree /\ role' \in [Node -> Roles] /\ ForestInv'
  BY <1>2, StillStep DEF IInv
<1>4. ASSUME call.name = "wrap"
      PROVE  /\ role[call.at] = "fragment" /\ call.at \in Node
             /\ call.self \in Node /\ role[call.self] = "node"
             /\ dom.first[call.at] # Nil =>
                  NoneAbove(dom, {dom.first[call.at]}, call.self)
  <2>1. /\ role[call.at] = "fragment" /\ call.at \in Node
        /\ call.self \in Node /\ role[call.self] = "node"
        /\ NoneAbove(dom, {call.at} \cup Members(call.todo), call.self)
    BY <1>1, <1>4 DEF SetInv, WrapInv, IsLive
  <2>2. NoneAbove(dom, {call.at}, call.self)
    BY <1>1, <2>1, NoneAboveFewer
  <2>3. ASSUME dom.first[call.at] # Nil
        PROVE  NoneAbove(dom, {dom.first[call.at]}, call.self)
    <3>1. dom.first[call.at] \in Node /\ dom.parent[dom.first[call.at]] = call.at
      BY <1>1, <2>1, <2>3 DEF IInv, ForestInv, LinksOfForest, WellLinked, Tree, Link
    <3>2. NoneAbove(dom, {call.at} \cup {dom.first[call.at]}, call.self)
      BY <1>1, <2>1, <2>2, <3>1, NilAssumption, ChildNotAbove
    <3> QED BY <3>2, <1>1, <2>1, NoneAboveFewer
  <2> QED BY <2>1, <2>3
<1>5. call' \in Calls /\ settled' \in Tree /\ CallInv'
  BY <1>2, <1>4, AddedStep
<1> QED BY <1>3, <1>5 DEF IInv, TypeOK

\* The first node of a fragment can be moved wherever the fragment is not above.
LEMMA AddFirstOfFragmentStep == ASSUME IInv, AddFirstOfFragment PROVE IInv'
<1> SUFFICES ASSUME NEW n, NEW to, NEW f, n = dom.first[call.frag], to = Target,
                    f = call.frag
             PROVE  IInv'
  OBVIOUS
<1>1. /\ FragmentInv /\ call.pc = "fragment" /\ n # Nil /\ call \in Calls
      /\ dom \in Tree /\ WellLinked(dom)
  BY DEF IInv, CallInv, AddFirstOfFragment, TypeOK, ForestInv, LinksOfForest
<1>2. /\ f \in Node /\ NoneAbove(dom, {f}, to) /\ to \in Node /\ IsLive(to)
      /\ call.name # "wrap" /\ call.how \in Positions
      /\ role[f] = "fragment" \/ IsScratch(f)
  BY <1>1 DEF FragmentInv, Target, IsLive, Calls
<1>3. n \in Node /\ dom.parent[n] = f
  BY <1>1, <1>2 DEF Tree, Link, WellLinked
<1>4. role[n] = "node" /\ f # Nil
  BY <1>2, <1>3, NilAssumption DEF IInv, ForestInv, RootsOnTop
<1>5. NoneAbove(dom, {f} \cup {n}, to)
  BY <1>1, <1>2, <1>3, <1>4, ChildNotAbove
<1>6. NoneAbove(dom, {n}, to)
  BY <1>1, <1>2, <1>5, NoneAboveFewer
<1>7. dom' = Moved(dom, call.how, to, n) /\ role' = role
  BY DEF AddFirstOfFragment, MoveToTarget, Moved
<1>8. /\ dom' \in Tree /\ role' \in [Node -> Roles] /\ ForestInv'
      /\ n # to /\ Hung(dom, dom', n, to)
  BY <1>2, <1>3, <1>4, <1>6, <1>7, MoveStep DEF IInv
<1>9. /\ call' = [call EXCEPT !.cur = n, !.arg = Append(call.arg, n)]
      /\ settled' = settled
  BY DEF AddFirstOfFragment
<1>10. call' \in Calls
  <2>1. Append(call.arg, n) \in Seq(Node)
    BY <1>1, <1>3 DEF Calls
  <2> QED BY <1>1, <1>3, <1>9, <2>1 DEF Calls, Link
<1>11. /\ call'.pc = "fragment" /\ call'.cur = n /\ call'.frag = f
       /\ call'.at = call.at /\ call'.how = call.how /\ call'.name = call.name
       /\ call'.self = call.self
  BY <1>1, <1>9 DEF Calls
<1>12. NoneAbove(dom', {f}, Target')
  <2>1. CASE call.how = "next"
    <3>1. Target' = n
      BY <1>11, <2>1 DEF Target
    <3>2. n \notin {f}
      BY <1>1, <1>2, <1>3, NilAssumption DEF IInv, ForestInv, LinksOfForest,
         Acyclic, Loops
    <3>3. NoneAbove(dom', {f}, n)
      BY <1>1, <1>2, <1>3, <1>6, <1>8, <3>2, HungNoneAbove
    <3> QED BY <3>1, <3>3
  <2>2. CASE call.how # "next"
    <3>1. Target' = to
      BY <1>11, <2>2 DEF Target
    <3>2. NoneAbove(dom', {f} \cup {n}, to)
      BY <1>1, <1>2, <1>3, <1>5, <1>8, HangNoneAbove
    <3> QED BY <3>1, <3>2, <1>2, <1>8, NoneAboveFewer
  <2> QED BY <2>1, <2>2
<1>13. role'[f] = "fragment" \/ IsScratch(f)'
  <2>1. CASE role[f] = "fragment"
    BY <1>7, <2>1
  <2>2. CASE IsScratch(f)
    <3>1. f # to /\ f # n
      BY <1>2, <1>4, <2>2 DEF IsScratch, IsLive, LiveRoles
    <3>2. Loose(dom', f)
      BY <1>1, <1>2, <1>3, <1>7, <1>8, <2>2, <3>1, MoveKeepsLoose
      DEF IsScratch, IInv, ForestInv, LinksOfForest
    <3> QED BY <1>2, <1>7, <2>2, <3>2 DEF IsScratch
  <2> QED BY <1>2, <2>1, <2>2
<1>14. /\ call.at \in Node /\ role'[call.at] \in LiveRoles
       /\ n \in Node /\ role'[n] \in LiveRoles
  BY <1>1, <1>3, <1>4, <1>7 DEF FragmentInv, IsLive, LiveRoles
<1>15. FragmentInv'
  BY <1>2, <1>11, <1>12, <1>13, <1>14 DEF FragmentInv, IsLive, IsScratch
<1>16. ReplaceInv'
  BY <1>11 DEF ReplaceInv, IInv, CallInv
<1>17. CallInv'
  BY <1>11, <1>15, <1>16 DEF CallInv, NodeInv, SetInv, FragmentInv, ParseInv, ReleaseInv, ClearInv,
      EmptyInv, UnlinkInv, PlaceInv, AdoptInv, ReplaceInv
<1> QED BY <1>8, <1>9, <1>10, <1>17 DEF IInv, TypeOK

\* What a String was parsed under is freed when it is empty and nowhere.
LEMMA FreeScratchStep ==
  ASSUME TypeOK, ForestInv, NEW f \in Node, f = call.frag, dom.first[f] = Nil,
         role[f] = "fragment" \/ IsScratch(f), FreeScratch, dom' = dom
  PROVE  /\ dom' \in Tree /\ role' \in [Node -> Roles] /\ ForestInv'
         /\ \A x \in Node : role[x] # "scratch" => role'[x] = role[x]
<1>1. CASE role[f] = "scratch"
  <2>1. Isolated(dom, f)
    BY <1>1, LooseAndEmpty DEF TypeOK, ForestInv, LinksOfForest, IsScratch
  <2>2. role' = [role EXCEPT ![f] = "unused"]
    BY <1>1 DEF FreeScratch
  <2>3. \A x \in Node : role[x] # "scratch" => role'[x] = role[x]
    BY <1>1, <2>2 DEF TypeOK
  <2> QED BY <2>1, <2>2, <2>3, FreeStep
<1>2. CASE role[f] # "scratch"
  <2>1. role' = role
    BY <1>2 DEF FreeScratch
  <2> QED BY <2>1, StillStep
<1> QED BY <1>1, <1>2

LEMMA FragmentExhaustedStep == ASSUME IInv, FragmentExhausted PROVE IInv'
<1>1. FragmentInv /\ call.pc = "fragment" /\ call \in Calls
  BY DEF IInv, CallInv, FragmentExhausted, TypeOK
<1>2. /\ dom' = dom /\ dom.first[call.frag] = Nil /\ FreeScratch /\ Added(call.arg)
      /\ call.frag \in Node /\ call.arg \in Seq(Node) /\ call.name # "wrap"
      /\ role[call.frag] = "fragment" \/ IsScratch(call.frag)
  BY <1>1 DEF FragmentExhausted, FragmentInv, Calls
<1>3. dom' \in Tree /\ role' \in [Node -> Roles] /\ ForestInv'
  BY <1>2, FreeScratchStep DEF IInv
<1>4. call' \in Calls /\ settled' \in Tree /\ CallInv'
  BY <1>2, AddedStep
<1> QED BY <1>3, <1>4 DEF IInv, TypeOK

LEMMA UnlinkStep == ASSUME IInv, Unlink PROVE IInv'
<1>1. call \in Calls /\ call.self \in Node /\ call.arg \in Seq(Node)
      /\ call.name \in Names /\ call.self \in Link
  BY DEF IInv, CallInv, UnlinkInv, Unlink, TypeOK, Calls
<1>2. dom' = RemoveNode(dom, call.self) /\ role' = role
      /\ Finish(call.name, call.self, call.arg)
  BY DEF Unlink, Finished
<1>3. dom' \in Tree /\ role' \in [Node -> Roles] /\ ForestInv'
  BY <1>1, <1>2, RemoveStep DEF IInv
<1>4. call' \in Calls /\ settled' \in Tree /\ CallInv'
  BY <1>1, <1>2, FinishStep DEF IInv
<1> QED BY <1>3, <1>4 DEF IInv, TypeOK
-----------------------------------------------------------------------------
(* Parsing a String.                                                       *)

\* The new root is above nothing: no slot that is free has a child.
LEMMA ParseRootStep == ASSUME IInv, ParseRoot PROVE IInv'
<1>1. ParseInv /\ call.pc = "parse" /\ call.frag = Nil /\ call \in Calls
      /\ dom \in Tree /\ WellLinked(dom) /\ Acyclic(dom)
  BY DEF IInv, CallInv, ParseRoot, TypeOK, ForestInv, LinksOfForest
<1>2. PICK r \in Unused : /\ role' = [role EXCEPT ![r] = "scratch"]
                          /\ call' = [call EXCEPT !.frag = r]
  BY DEF ParseRoot
<1>3. dom' = dom /\ settled' = settled
  BY DEF ParseRoot
<1>4. dom' \in Tree /\ role' \in [Node -> Roles] /\ ForestInv'
  BY <1>2, <1>3, AllocateStep DEF IInv, Roles
<1>5. r \in Node /\ role[r] = "unused" /\ Isolated(dom, r)
  BY DEF Unused, IInv, ForestInv, UnusedIsolated
<1>6. \A x \in Node : dom.parent[x] # r
  BY <1>1, <1>5, NoFirstNoChild DEF Isolated
<1>7. \A y \in Node : IsLive(y) => role'[y] = role[y] /\ y # r
  BY <1>2, <1>5 DEF IsLive, LiveRoles, IInv, TypeOK
<1>8. /\ call' \in Calls /\ call'.pc = "parse" /\ call'.frag = r
      /\ call'.at = call.at /\ call'.cur = call.cur /\ call'.name = call.name
      /\ call'.self = call.self /\ call'.arg = call.arg /\ call'.how = call.how
      /\ call'.src = call.src
  BY <1>1, <1>2, <1>5 DEF Calls, Link
<1>9. call.at \in Node /\ IsLive(call.at)
  BY <1>1 DEF ParseInv, IsLive
<1>10. NoneAbove(dom, {r}, call.at)
  <2>1. NoneAbove(dom, {}, call.at)
    BY <1>9 DEF NoneAbove, IInv, TypeOK, Tree, Link
  <2>2. NoneAbove(dom, {} \cup {r}, call.at)
    BY <1>1, <1>5, <1>6, <1>7, <1>9, <2>1, ChildlessNotAbove
  <2> QED BY <2>2, <1>1, <1>9, NoneAboveFewer
<1>11. ASSUME call.name = "wrap"
       PROVE  /\ call.how = "child" /\ call.src = "string"
              /\ role'[call.at] = "fragment"
              /\ call.self \in Node /\ role'[call.self] = "node"
              /\ NoneAbove(dom, {call.at} \cup {r}, call.self)
  <2>1. WrapInv({call.frag} \ {Nil})
    BY <1>1 DEF ParseInv
  <2>2. /\ call.how = "child" /\ call.src = "string"
        /\ role[call.at] = "fragment"
        /\ IsLive(call.self) /\ call.self \in Node /\ role[call.self] = "node"
        /\ NoneAbove(dom, {call.at} \cup ({call.frag} \ {Nil}), call.self)
    BY <1>11, <2>1 DEF WrapInv, IsLive
  <2>3. NoneAbove(dom, {call.at}, call.self)
    BY <1>1, <2>2, NoneAboveFewer
  <2>4. NoneAbove(dom, {call.at} \cup {r}, call.self)
    BY <1>1, <1>5, <1>6, <1>7, <2>2, <2>3, ChildlessNotAbove
  <2> QED BY <1>7, <1>9, <2>2, <2>4
<1>12. WrapInv({call.frag} \ {Nil})'
  <2>1. {call'.frag} \ {Nil} = {r}
    BY <1>5, <1>8, NilAssumption
  <2> QED BY <2>1, <1>3, <1>8, <1>11 DEF WrapInv, IsLive, LiveRoles
<1>13. role'[r] = "scratch" /\ Loose(dom', r)
  BY <1>2, <1>3, <1>5 DEF Isolated, Loose, IInv, TypeOK
<1>14. ParseInv'
  BY <1>1, <1>3, <1>5, <1>7, <1>8, <1>9, <1>10, <1>12, <1>13
  DEF ParseInv, IsLive, IsScratch
<1>15. ReplaceInv'
  BY <1>8 DEF ReplaceInv, IInv, CallInv
<1>16. CallInv'
  BY <1>8, <1>14, <1>15 DEF CallInv, NodeInv, SetInv, FragmentInv, ParseInv, ReleaseInv, ClearInv,
      EmptyInv, UnlinkInv, PlaceInv, AdoptInv, ReplaceInv
<1> QED BY <1>3, <1>4, <1>8, <1>16 DEF IInv, TypeOK

\* Adding a parsed node under the root is a move of a node that was nowhere.
LEMMA ParseNodeStep == ASSUME IInv, ParseNode PROVE IInv'
<1> SUFFICES ASSUME NEW f, f = call.frag
             PROVE  IInv'
  OBVIOUS
<1>1. ParseInv /\ call.pc = "parse" /\ f # Nil /\ call \in Calls
      /\ dom \in Tree /\ WellLinked(dom) /\ Acyclic(dom)
  BY DEF IInv, CallInv, ParseNode, TypeOK, ForestInv, LinksOfForest
<1>2. PICK u \in Unused : /\ dom' = InsertChild(dom, f, u)
                          /\ role' = [role EXCEPT ![u] = "node"]
                          /\ call' = [call EXCEPT !.todo = Append(call.todo, u)]
  BY DEF ParseNode
<1>3. settled' = settled
  BY DEF ParseNode
<1>4. u \in Node /\ role[u] = "unused" /\ Isolated(dom, u) /\ Loose(dom, u)
  BY DEF Unused, IInv, ForestInv, UnusedIsolated, Isolated, Loose
<1>5. \A x \in Node : dom.parent[x] # u
  BY <1>1, <1>4, NoFirstNoChild DEF Isolated
<1>6. /\ f \in Node /\ role[f] = "scratch" /\ Loose(dom, f)
      /\ NoneAbove(dom, {f}, call.at) /\ call.at \in Node /\ IsLive(call.at)
  BY <1>1 DEF ParseInv, IsScratch, IsLive
<1>7. u # f
  BY <1>4, <1>6
<1>8. dom' = Moved(dom, "child", f, u)
  <2>1. RemoveNode(dom, u) = dom
    BY <1>1, <1>4, RemoveNothing
  <2> QED BY <1>2, <2>1 DEF Moved, Attach
<1>9. NoneAbove(dom, {u}, f)
  <2>1. dom.parent[f] = Nil
    BY <1>6 DEF Loose
  <2> QED BY <1>1, <1>6, <1>7, <2>1, TopNoneAbove
<1>10. dom' \in Tree /\ LinksOfForest' /\ Hung(dom, dom', u, f) /\ Loose(dom', f)
  <2>1. "child" \in Positions
    BY DEF Positions
  <2>2. dom' \in Tree /\ LinksOfForest'
    BY <1>1, <1>4, <1>6, <1>8, <1>9, <2>1, MoveForest DEF LinksOfForest
  <2>3. Hung(dom, dom', u, f)
    BY <1>1, <1>4, <1>6, <1>7, <1>8, <2>1, MoveParent
  <2>4. Loose(dom', f)
    BY <1>1, <1>2, <1>4, <1>6, <1>7, NilAssumption
    DEF InsertChild, Loose, WellLinked, Tree, Link
  <2> QED BY <2>2, <2>3, <2>4
<1>11. RootsOnTop'
  <2>1. \A x \in Node : x # u => dom'.parent[x] = dom.parent[x]
    BY <1>2 DEF InsertChild, IInv, TypeOK, Tree
  <2> QED BY <1>2, <2>1 DEF RootsOnTop, IInv, ForestInv, TypeOK
<1>12. UnusedIsolated'
  <2> SUFFICES ASSUME NEW x \in Node, role'[x] = "unused" PROVE Isolated(dom', x)
    BY DEF UnusedIsolated, Unused
  <2>1. x # u /\ role[x] = "unused"
    BY <1>2, <1>4 DEF IInv, TypeOK
  <2>2. x # f /\ Isolated(dom, x) /\ "child" \in Positions
    BY <1>6, <2>1 DEF IInv, ForestInv, UnusedIsolated, Unused, Positions
  <2> QED BY <1>1, <1>4, <1>6, <1>7, <1>8, <2>1, <2>2, MoveKeepsLoose
<1>13. role' \in [Node -> Roles] /\ \A y \in Node : y # u => role'[y] = role[y]
  BY <1>2 DEF IInv, TypeOK, Roles
<1>14. /\ call' \in Calls /\ call'.pc = "parse" /\ call'.frag = f
       /\ call'.at = call.at /\ call'.cur = call.cur /\ call'.name = call.name
       /\ call'.self = call.self /\ call'.arg = call.arg /\ call'.how = call.how
       /\ call'.src = call.src
  <2>1. Append(call.todo, u) \in Seq(Node)
    BY <1>1, <1>4 DEF Calls
  <2> QED BY <1>1, <1>2, <2>1 DEF Calls
<1>15. ASSUME NEW X, NEW y \in Node, NoneAbove(dom, X, y), y # u
       PROVE  NoneAbove(dom', X, y)
  <2>1. NoneAbove(dom, X \cup {u}, y)
    BY <1>1, <1>4, <1>5, <1>15, ChildlessNotAbove
  <2>2. NoneAbove(dom', X \cup {u}, y)
    BY <1>1, <1>4, <1>6, <1>10, <1>15, <2>1, HangNoneAbove
  <2> QED BY <1>10, <1>15, <2>2, NoneAboveFewer
<1>16. call.at # u /\ NoneAbove(dom', {f}, call.at)
  BY <1>4, <1>6, <1>15 DEF IsLive, LiveRoles
<1>17. WrapInv({call.frag} \ {Nil})'
  <2> SUFFICES ASSUME call.name = "wrap"
               PROVE  /\ call.how = "child" /\ call.src = "string"
                      /\ role'[call.at] = "fragment"
                      /\ call.self \in Node /\ role'[call.self] = "node"
                      /\ NoneAbove(dom', {call.at} \cup ({f} \ {Nil}), call.self)
    BY <1>14 DEF WrapInv, IsLive, LiveRoles
  <2>1. WrapInv({call.frag} \ {Nil})
    BY <1>1 DEF ParseInv
  <2>2. /\ call.how = "child" /\ call.src = "string"
        /\ role[call.at] = "fragment"
        /\ IsLive(call.self) /\ call.self \in Node /\ role[call.self] = "node"
        /\ NoneAbove(dom, {call.at} \cup ({f} \ {Nil}), call.self)
    BY <2>1 DEF WrapInv, IsLive
  <2>3. call.self # u
    BY <1>4, <2>2
  <2> QED BY <1>6, <1>13, <1>15, <1>16, <2>2, <2>3
<1>18. ParseInv'
  BY <1>1, <1>6, <1>10, <1>7, <1>13, <1>14, <1>16, <1>17
  DEF ParseInv, IsLive, IsScratch
<1>19. ReplaceInv'
  BY <1>14 DEF ReplaceInv, IInv, CallInv
<1>20. CallInv'
  BY <1>14, <1>18, <1>19 DEF CallInv, NodeInv, SetInv, FragmentInv, ParseInv, ReleaseInv, ClearInv,
      EmptyInv, UnlinkInv, PlaceInv, AdoptInv, ReplaceInv
<1> QED BY <1>3, <1>10, <1>11, <1>12, <1>13, <1>14, <1>20 DEF IInv, TypeOK, ForestInv

LEMMA ParseDoneStep == ASSUME IInv, ParseDone PROVE IInv'
<1>1. ParseInv /\ call.pc = "parse" /\ call.frag # Nil /\ call \in Calls
  BY DEF IInv, CallInv, ParseDone, TypeOK
<1>2. /\ dom' = dom /\ role' = role /\ settled' = settled
      /\ call' = [call EXCEPT !.todo = <<>>,
                              !.pc = IF call.name \in {"parse", "wrap"}
                                       THEN "release" ELSE "fragment"]
  BY DEF ParseDone
<1>3. dom' \in Tree /\ role' \in [Node -> Roles] /\ ForestInv'
  BY <1>2, StillStep DEF IInv
<1>4. /\ call' \in Calls
      /\ call'.pc = IF call.name \in {"parse", "wrap"} THEN "release" ELSE "fragment"
      /\ call'.frag = call.frag /\ call'.at = call.at /\ call'.cur = call.cur
      /\ call'.name = call.name /\ call'.self = call.self /\ call'.arg = <<>>
      /\ call'.how = call.how /\ call'.src = call.src /\ call.arg = <<>>
  <2>1. call.arg = <<>>
    BY <1>1 DEF ParseInv
  <2> QED BY <1>1, <1>2, <2>1 DEF Calls, Pcs
<1>5. ReplaceInv'
  BY <1>4 DEF ReplaceInv, IInv, CallInv
<1>6. /\ IsLive(call.at) /\ call.cur = call.at /\ IsScratch(call.frag)
      /\ NoneAbove(dom, {call.frag}, call.at)
      /\ WrapInv({call.frag} \ {Nil})
  BY <1>1 DEF ParseInv
<1>7. CASE call.name \in {"parse", "wrap"}
  <2>1. Members(<<>>) = {}
    BY DEF Members
  <2>2. {call.frag} \ {Nil} = {call.frag} \cup Members(<<>>)
    BY <1>1, <2>1
  <2>3. WrapInv({call.frag} \cup Members(<<>>))'
    BY <1>2, <1>4, <1>6, <2>2, <2>1 DEF WrapInv, IsLive
  <2>4. Distinct(<<>>) /\ \A i \in DOMAIN <<>> : FALSE
    BY DEF Distinct
  <2>5. ReleaseInv'
    BY <1>2, <1>4, <1>6, <1>7, <2>3, <2>4
    DEF ReleaseInv, IsLive, IsScratch, AllMovable
  <2>6. CallInv'
    BY <1>4, <1>5, <1>7, <2>5 DEF CallInv, NodeInv, SetInv, FragmentInv, ParseInv, ReleaseInv, ClearInv,
      EmptyInv, UnlinkInv, PlaceInv, AdoptInv, ReplaceInv
  <2> QED BY <1>2, <1>3, <1>4, <2>6 DEF IInv, TypeOK
<1>8. CASE call.name \notin {"parse", "wrap"}
  <2>1. Target' = call.at
    BY <1>4, <1>6 DEF Target
  <2>2. FragmentInv'
    BY <1>2, <1>4, <1>6, <1>8, <2>1 DEF FragmentInv, IsLive, IsScratch
  <2>3. CallInv'
    BY <1>4, <1>5, <1>8, <2>2 DEF CallInv, NodeInv, SetInv, FragmentInv, ParseInv, ReleaseInv, ClearInv,
      EmptyInv, UnlinkInv, PlaceInv, AdoptInv, ReplaceInv
  <2> QED BY <1>2, <1>3, <1>4, <2>3 DEF IInv, TypeOK
<1> QED BY <1>7, <1>8

\* A released node has no parent, so it is not met again.
LEMMA ReleaseFirstStep == ASSUME IInv, ReleaseFirst PROVE IInv'
<1> SUFFICES ASSUME NEW n, NEW f, NEW old, n = dom.first[call.frag], f = call.frag,
                    old = call.arg
             PROVE  IInv'
  OBVIOUS
<1>1. /\ ReleaseInv /\ call.pc = "release" /\ n # Nil /\ call \in Calls
      /\ dom \in Tree /\ WellLinked(dom)
  BY DEF IInv, CallInv, ReleaseFirst, TypeOK, ForestInv, LinksOfForest
<1>2. /\ call.name \in {"parse", "wrap"} /\ IsLive(call.at) /\ call.cur = call.at
      /\ f \in Node /\ role[f] = "scratch" /\ Loose(dom, f)
      /\ Distinct(old) /\ AllMovable(old)
      /\ \A i \in DOMAIN old : dom.parent[old[i]] = Nil
  BY <1>1 DEF ReleaseInv, IsScratch
<1>3. n \in Node /\ dom.parent[n] = f /\ f # Nil
  BY <1>1, <1>2, NilAssumption DEF Tree, Link, WellLinked
<1>4. role[n] = "node" /\ n # f
  BY <1>2, <1>3 DEF IInv, ForestInv, RootsOnTop
<1>5. dom' = RemoveNode(dom, n) /\ role' = role /\ settled' = settled
  BY DEF ReleaseFirst
<1>6. dom' \in Tree /\ role' \in [Node -> Roles] /\ ForestInv'
  BY <1>3, <1>5, RemoveStep DEF IInv
<1>7. old \in Seq(Node) /\ Append(old, n) \in Seq(Node)
  BY <1>1, <1>3 DEF Calls
<1>8. /\ call' \in Calls /\ call'.pc = "release" /\ call'.frag = f
      /\ call'.at = call.at /\ call'.cur = call.cur /\ call'.name = call.name
      /\ call'.self = call.self /\ call'.arg = Append(old, n)
      /\ call'.how = call.how /\ call'.src = call.src
  BY <1>1, <1>7 DEF ReleaseFirst, Calls
<1>9. \A i \in DOMAIN Append(old, n) :
         \/ i \in DOMAIN old /\ Append(old, n)[i] = old[i]
         \/ i \notin DOMAIN old /\ i = Len(old) + 1 /\ Append(old, n)[i] = n
  BY <1>7
<1>10. \A i \in DOMAIN old : old[i] # n
  BY <1>2, <1>3
<1>11. Distinct(Append(old, n))
  BY <1>2, <1>9, <1>10 DEF Distinct
<1>12. AllMovable(Append(old, n)) /\ AllMovable(Append(old, n))'
  BY <1>2, <1>4, <1>5, <1>9 DEF AllMovable
<1>13. \A i \in DOMAIN Append(old, n) : dom'.parent[Append(old, n)[i]] = Nil
  <2>1. dom'.parent = [dom.parent EXCEPT ![n] = Nil]
    BY <1>5 DEF RemoveNode
  <2>2. \A i \in DOMAIN old : old[i] \in Node
    BY <1>7
  <2> QED BY <1>1, <1>2, <1>3, <1>9, <2>1, <2>2 DEF Tree
<1>14. Loose(dom', f)
  BY <1>1, <1>2, <1>3, <1>5, RemoveKeepsLoose
<1>15. Members(Append(old, n)) = Members(old) \cup {n}
  <2>1. \A i \in DOMAIN old : i \in DOMAIN Append(old, n) /\ Append(old, n)[i] = old[i]
    BY <1>7
  <2>2. Len(old) + 1 \in DOMAIN Append(old, n) /\ Append(old, n)[Len(old) + 1] = n
    BY <1>7
  <2> QED BY <1>9, <2>1, <2>2 DEF Members
<1>16. ASSUME call.name = "wrap"
       PROVE  /\ call.how = "child" /\ call.src = "string"
              /\ role[call.at] = "fragment"
              /\ call.self \in Node /\ role[call.self] = "node"
              /\ NoneAbove(dom', {call.at} \cup ({f} \cup Members(Append(old, n))),
                           call.self)
  <2>1. WrapInv({call.frag} \cup Members(call.arg))
    BY <1>1 DEF ReleaseInv
  <2>2. /\ call.how = "child" /\ call.src = "string"
        /\ role[call.at] = "fragment"
        /\ call.self \in Node /\ role[call.self] = "node"
        /\ NoneAbove(dom, {call.at} \cup ({f} \cup Members(old)), call.self)
    BY <1>16, <2>1 DEF WrapInv, IsLive
  <2>3. NoneAbove(dom, ({call.at} \cup ({f} \cup Members(old))) \cup {n}, call.self)
    <3>1. dom.parent[n] \in {call.at} \cup ({f} \cup Members(old)) /\ dom.parent[n] # Nil
      BY <1>3
    <3> QED BY <1>1, <1>3, <2>2, <3>1, ChildNotAbove
  <2>4. NoneAbove(dom, {call.at} \cup ({f} \cup Members(Append(old, n))), call.self)
    BY <1>1, <1>15, <2>2, <2>3, NoneAboveFewer
  <2>5. NoneAbove(dom', {call.at} \cup ({f} \cup Members(Append(old, n))), call.self)
    BY <1>1, <1>3, <1>5, <2>2, <2>4, RemoveNoneAbove
  <2> QED BY <2>2, <2>5
<1>17. WrapInv({call.frag} \cup Members(call.arg))'
  BY <1>5, <1>8, <1>16 DEF WrapInv, IsLive, LiveRoles
<1>18. ReleaseInv'
  BY <1>2, <1>5, <1>8, <1>11, <1>12, <1>13, <1>14, <1>17
  DEF ReleaseInv, IsLive, IsScratch, AllMovable
<1>19. ReplaceInv'
  BY <1>8 DEF ReplaceInv, IInv, CallInv
<1>20. CallInv'
  BY <1>8, <1>18, <1>19 DEF CallInv, NodeInv, SetInv, FragmentInv, ParseInv, ReleaseInv, ClearInv,
      EmptyInv, UnlinkInv, PlaceInv, AdoptInv, ReplaceInv
<1> QED BY <1>5, <1>6, <1>8, <1>20 DEF IInv, TypeOK

LEMMA ReleaseDoneStep == ASSUME IInv, ReleaseDone PROVE IInv'
<1> SUFFICES ASSUME NEW list, list = call.arg
             PROVE  IInv'
  OBVIOUS
<1>1. ReleaseInv /\ call.pc = "release" /\ call \in Calls /\ dom \in Tree
  BY DEF IInv, CallInv, ReleaseDone, TypeOK
<1>2. /\ call.name \in {"parse", "wrap"} /\ IsLive(call.at) /\ call.cur = call.at
      /\ call.frag \in Node /\ IsScratch(call.frag)
      /\ Distinct(list) /\ AllMovable(list)
      /\ WrapInv({call.frag} \cup Members(list))
  BY <1>1 DEF ReleaseInv, IsScratch
<1>3. dom' = dom /\ dom.first[call.frag] = Nil /\ FreeScratch
  BY DEF ReleaseDone
<1>4. /\ dom' \in Tree /\ role' \in [Node -> Roles] /\ ForestInv'
      /\ \A x \in Node : role[x] # "scratch" => role'[x] = role[x]
  BY <1>2, <1>3, FreeScratchStep DEF IInv
<1>5. list \in Seq(Node) /\ call.name \in Names /\ call.self \in Link
  BY <1>1 DEF Calls
<1>6. CASE call.name = "wrap"
  <2>1. call' = [call EXCEPT !.pc = "nodeset", !.todo = list] /\ settled' = settled
    BY <1>6 DEF ReleaseDone
  <2>2. /\ call' \in Calls /\ call'.pc = "nodeset" /\ call'.todo = list
        /\ call'.at = call.at /\ call'.cur = call.cur /\ call'.name = call.name
        /\ call'.self = call.self /\ call'.how = call.how /\ call'.src = call.src
    BY <1>1, <1>5, <2>1 DEF Calls, Pcs
  <2>3. /\ call.how = "child" /\ call.src = "string"
        /\ role[call.at] = "fragment" /\ call.at \in Node
        /\ call.self \in Node /\ role[call.self] = "node"
        /\ NoneAbove(dom, {call.at} \cup ({call.frag} \cup Members(list)), call.self)
    BY <1>2, <1>6 DEF WrapInv, IsLive
  <2>4. /\ role'[call.at] = "fragment" /\ role'[call.self] = "node"
        /\ NoneAbove(dom', {call.at} \cup Members(list), call.self)
    BY <1>1, <1>3, <1>4, <2>3, NoneAboveFewer
  <2>5. \A i \in DOMAIN list : role'[list[i]] = "node"
    BY <1>2, <1>4, <1>5 DEF AllMovable
  <2>6. NoneAbove(dom', Members(list), call.at)
    <3>1. dom.parent[call.at] = Nil
      BY <2>3 DEF IInv, ForestInv, RootsOnTop
    <3>2. call.at \notin Members(list)
      BY <1>2, <2>3 DEF Members, AllMovable
    <3> QED BY <1>1, <1>3, <2>3, <3>1, <3>2, TopNoneAbove
  <2>7. Target' = call.at
    BY <2>2, <2>3 DEF Target
  <2>8. WrapInv(Members(call.todo))'
    BY <2>2, <2>3, <2>4 DEF WrapInv, IsLive, LiveRoles
  <2>9. SetInv'
    BY <1>2, <2>2, <2>3, <2>4, <2>5, <2>6, <2>7, <2>8
    DEF SetInv, IsLive, LiveRoles, AllMovable
  <2>10. ReplaceInv'
    BY <1>6, <2>2 DEF ReplaceInv
  <2>11. CallInv'
    BY <2>2, <2>9, <2>10 DEF CallInv, NodeInv, SetInv, FragmentInv, ParseInv, ReleaseInv, ClearInv,
      EmptyInv, UnlinkInv, PlaceInv, AdoptInv, ReplaceInv
  <2> QED BY <1>4, <2>1, <2>2, <2>11 DEF IInv, TypeOK
<1>7. CASE call.name # "wrap"
  <2>1. Finish(call.name, call.self, list)
    BY <1>7 DEF ReleaseDone, Finished
  <2>2. call' \in Calls /\ settled' \in Tree /\ CallInv'
    BY <1>2, <1>5, <1>7, <2>1, FinishStep DEF IInv
  <2> QED BY <1>4, <2>2 DEF IInv, TypeOK
<1> QED BY <1>6, <1>7

-----------------------------------------------------------------------------
(* children=.                                                              *)

LEMMA CollectChildStep == ASSUME IInv, CollectChild PROVE IInv'
<1>1. ClearInv /\ call.pc = "collect" /\ call \in Calls /\ dom \in Tree
      /\ call.cur # Nil
  BY DEF IInv, CallInv, CollectChild, TypeOK
<1>2. /\ dom' = dom /\ role' = role /\ settled' = settled
      /\ call' = [call EXCEPT !.todo = Append(call.todo, call.cur),
                              !.cur = dom.next[call.cur]]
  BY DEF CollectChild
<1>3. dom' \in Tree /\ role' \in [Node -> Roles] /\ ForestInv'
  BY <1>2, StillStep DEF IInv
<1>4. call.cur \in Node /\ dom.next[call.cur] \in Link
      /\ Append(call.todo, call.cur) \in Seq(Node)
  BY <1>1 DEF Calls, Link, Tree
<1>5. /\ call' \in Calls /\ call'.pc = "collect" /\ call'.frag = call.frag
      /\ call'.at = call.at /\ call'.name = call.name /\ call'.self = call.self
      /\ call'.arg = call.arg /\ call'.how = call.how /\ call'.src = call.src
  BY <1>1, <1>2, <1>4 DEF Calls
<1>6. Fits(call.at)'
  BY <1>1, <1>2, <1>5 DEF ClearInv, Fits, AllMovable
<1>7. ClearInv' /\ ReplaceInv'
  BY <1>1, <1>2, <1>5, <1>6 DEF ClearInv, IsLive, ReplaceInv
<1>8. CallInv'
  BY <1>5, <1>7 DEF CallInv, NodeInv, SetInv, FragmentInv, ParseInv, ReleaseInv, ClearInv,
      EmptyInv, UnlinkInv, PlaceInv, AdoptInv, ReplaceInv
<1> QED BY <1>2, <1>3, <1>5, <1>8 DEF IInv, TypeOK

LEMMA CollectedStep == ASSUME IInv, Collected PROVE IInv'
<1>1. ClearInv /\ call.pc = "collect" /\ call \in Calls
  BY DEF IInv, CallInv, Collected, TypeOK
<1>2. /\ dom' = dom /\ role' = role /\ settled' = settled
      /\ call' = [call EXCEPT !.pc = "clear"]
  BY DEF Collected
<1>3. dom' \in Tree /\ role' \in [Node -> Roles] /\ ForestInv'
  BY <1>2, StillStep DEF IInv
<1>4. /\ call' \in Calls /\ call'.pc = "clear" /\ call'.frag = call.frag
      /\ call'.at = call.at /\ call'.name = call.name /\ call'.self = call.self
      /\ call'.arg = call.arg /\ call'.how = call.how /\ call'.src = call.src
  BY <1>1, <1>2 DEF Calls, Pcs
<1>5. Fits(call.at)'
  BY <1>1, <1>2, <1>4 DEF ClearInv, Fits, AllMovable
<1>6. ClearInv' /\ ReplaceInv'
  BY <1>1, <1>2, <1>4, <1>5 DEF ClearInv, IsLive, ReplaceInv
<1>7. CallInv'
  BY <1>4, <1>6 DEF CallInv, NodeInv, SetInv, FragmentInv, ParseInv, ReleaseInv, ClearInv,
      EmptyInv, UnlinkInv, PlaceInv, AdoptInv, ReplaceInv
<1> QED BY <1>2, <1>3, <1>4, <1>7 DEF IInv, TypeOK

LEMMA ClearNextStep == ASSUME IInv, ClearNext PROVE IInv'
<1>1. ClearInv /\ call.pc = "clear" /\ call.todo # <<>> /\ call \in Calls
      /\ dom \in Tree /\ call.at \in Node
  BY DEF IInv, CallInv, ClearNext, TypeOK, ClearInv, IsLive
<1>2. /\ dom' = RemoveNode(dom, Head(call.todo)) /\ role' = role
      /\ settled' = settled /\ call' = [call EXCEPT !.todo = Tail(call.todo)]
  BY DEF ClearNext
<1>3. Head(call.todo) \in Node /\ Tail(call.todo) \in Seq(Node)
  BY <1>1 DEF Calls
<1>4. dom' \in Tree /\ role' \in [Node -> Roles] /\ ForestInv'
  BY <1>2, <1>3, RemoveStep DEF IInv
<1>5. /\ call' \in Calls /\ call'.pc = "clear" /\ call'.frag = call.frag
      /\ call'.at = call.at /\ call'.name = call.name /\ call'.self = call.self
      /\ call'.arg = call.arg /\ call'.how = call.how /\ call'.src = call.src
  BY <1>1, <1>2, <1>3 DEF Calls
<1>6. \A X : NoneAbove(dom, X, call.at) => NoneAbove(dom', X, call.at)
  BY <1>1, <1>2, <1>3, RemoveNoneAbove
<1>7. Fits(call.at)'
  BY <1>1, <1>2, <1>5, <1>6 DEF ClearInv, Fits, AllMovable
<1>8. ClearInv' /\ ReplaceInv'
  BY <1>1, <1>2, <1>5, <1>7 DEF ClearInv, IsLive, ReplaceInv, IInv, CallInv
<1>9. CallInv'
  BY <1>5, <1>8 DEF CallInv, NodeInv, SetInv, FragmentInv, ParseInv, ReleaseInv, ClearInv,
      EmptyInv, UnlinkInv, PlaceInv, AdoptInv, ReplaceInv
<1> QED BY <1>2, <1>4, <1>5, <1>9 DEF IInv, TypeOK

LEMMA ClearedStep == ASSUME IInv, Cleared PROVE IInv'
<1>1. ClearInv /\ call.pc = "clear" /\ call \in Calls
  BY DEF IInv, CallInv, Cleared, TypeOK
<1>2. dom' = dom /\ role' = role
  BY DEF Cleared
<1>3. dom' \in Tree /\ role' \in [Node -> Roles] /\ ForestInv'
  BY <1>2, StillStep DEF IInv
<1>4. CASE call.src = "other"
  <2>1. Finish("clear", call.self, <<>>)
    BY <1>4 DEF Cleared
  <2>2. "clear" \in Names /\ call.self \in Link /\ <<>> \in Seq(Node)
    BY <1>1 DEF Names, Calls
  <2>3. call' \in Calls /\ settled' \in Tree /\ CallInv'
    BY <2>1, <2>2, FinishStep DEF IInv
  <2> QED BY <1>3, <2>3 DEF IInv, TypeOK
<1>5. CASE call.src # "other"
  <2>1. /\ settled' = settled
        /\ call' = [call EXCEPT !.pc = EntryOf(call.src), !.todo = call.arg,
                                !.cur = call.at]
    BY <1>5 DEF Cleared
  <2>2. EntryOf(call.src) \in {"node", "nodeset", "fragment", "parse"}
        /\ call.src \in Sources
    BY <1>1, <1>5 DEF EntryOf, Calls, Sources
  <2>3. /\ call' \in Calls /\ call'.pc = EntryOf(call.src)
        /\ call'.frag = call.frag /\ call'.at = call.at /\ call'.cur = call.at
        /\ call'.name = call.name /\ call'.self = call.self
        /\ call'.arg = call.arg /\ call'.todo = call.arg
        /\ call'.how = call.how /\ call'.src = call.src
    BY <1>1, <2>1, <2>2 DEF Calls, Pcs
  <2>4. /\ call.name = "children=" /\ call.how = "child" /\ IsLive(call.at)
        /\ call.at \in Node /\ Fits(call.at)
        /\ call.src = "string" => call.arg = <<>>
    BY <1>1 DEF ClearInv, IsLive
  <2>5. Target' = call.at
    BY <2>3, <2>4 DEF Target
  <2>6. ReplaceInv'
    BY <2>3, <2>4 DEF ReplaceInv
  <2>7. ASSUME call.src = "node" PROVE CallInv'
    <3>1. NodeInv'
      BY <1>2, <2>3, <2>4, <2>7 DEF NodeInv, Fits, IsLive, EntryOf
    <3>2. call'.pc = "node"
      BY <2>3, <2>7 DEF EntryOf
    <3> QED BY <2>6, <3>1, <3>2 DEF CallInv, NodeInv, SetInv, FragmentInv, ParseInv, ReleaseInv, ClearInv,
      EmptyInv, UnlinkInv, PlaceInv, AdoptInv, ReplaceInv
  <2>8. ASSUME call.src = "set" PROVE CallInv'
    <3>1. SetInv'
      BY <1>2, <2>3, <2>4, <2>5, <2>8 DEF SetInv, Fits, IsLive, AllMovable, WrapInv
    <3>2. call'.pc = "nodeset"
      BY <2>3, <2>8 DEF EntryOf
    <3> QED BY <2>6, <3>1, <3>2 DEF CallInv, NodeInv, SetInv, FragmentInv, ParseInv, ReleaseInv, ClearInv,
      EmptyInv, UnlinkInv, PlaceInv, AdoptInv, ReplaceInv
  <2>9. ASSUME call.src = "fragment" PROVE CallInv'
    <3>1. FragmentInv'
      BY <1>2, <2>3, <2>4, <2>5, <2>9 DEF FragmentInv, Fits, IsLive
    <3>2. call'.pc = "fragment"
      BY <2>3, <2>9 DEF EntryOf
    <3> QED BY <2>6, <3>1, <3>2 DEF CallInv, NodeInv, SetInv, FragmentInv, ParseInv, ReleaseInv, ClearInv,
      EmptyInv, UnlinkInv, PlaceInv, AdoptInv, ReplaceInv
  <2>10. ASSUME call.src = "string" PROVE CallInv'
    <3>1. ParseInv'
      BY <1>2, <2>3, <2>4, <2>10 DEF ParseInv, Fits, IsLive, WrapInv
    <3>2. call'.pc = "parse"
      BY <2>3, <2>10 DEF EntryOf
    <3> QED BY <2>6, <3>1, <3>2 DEF CallInv, NodeInv, SetInv, FragmentInv, ParseInv, ReleaseInv, ClearInv,
      EmptyInv, UnlinkInv, PlaceInv, AdoptInv, ReplaceInv
  <2>11. CallInv'
    BY <1>5, <2>2, <2>7, <2>8, <2>9, <2>10 DEF Sources
  <2> QED BY <1>3, <2>1, <2>3, <2>11 DEF IInv, TypeOK
<1> QED BY <1>4, <1>5
-----------------------------------------------------------------------------
(* content=.                                                               *)

\* A node that was just allocated is above nothing else.
LEMMA FreshNotAbove ==
  ASSUME IInv, NEW n \in Unused, NEW y \in Node, y # n
  PROVE  NoneAbove(dom, {n}, y) /\ Loose(dom, n) /\ n \in Node
<1>1. n \in Node /\ Isolated(dom, n) /\ dom \in Tree /\ WellLinked(dom) /\ Acyclic(dom)
  BY DEF Unused, IInv, ForestInv, LinksOfForest, UnusedIsolated, TypeOK
<1>2. \A x \in Node : dom.parent[x] # n
  BY <1>1, NoFirstNoChild DEF Isolated
<1>3. NoneAbove(dom, {}, y)
  BY <1>1 DEF NoneAbove, Tree, Link
<1>4. NoneAbove(dom, {} \cup {n}, y)
  BY <1>1, <1>2, <1>3, ChildlessNotAbove
<1>5. NoneAbove(dom, {n}, y)
  BY <1>1, <1>4, NoneAboveFewer
<1> QED BY <1>1, <1>5 DEF Isolated, Loose

LEMMA SetContentStep ==
  ASSUME IInv, NEW self \in Live, SetContent(self) PROVE IInv'
<1>1. PICK text \in Unused :
        /\ role' = [role EXCEPT ![text] = "node"]
        /\ call' = [Idle EXCEPT !.pc = "empty", !.name = "content=",
                                !.self = self, !.cur = text]
  BY DEF SetContent
<1>2. dom' = dom /\ settled' = settled
  BY DEF SetContent
<1>3. dom' \in Tree /\ role' \in [Node -> Roles] /\ ForestInv'
  BY <1>1, <1>2, AllocateStep DEF IInv, Roles
<1>4. self \in Node /\ text \in Node /\ self # text /\ role'[self] \in LiveRoles
  BY <1>1 DEF Live, Unused, LiveRoles, IInv, TypeOK
<1>5. NoneAbove(dom, {text}, self) /\ Loose(dom, text)
  BY <1>4, FreshNotAbove
<1>6. call' = [pc |-> "empty", name |-> "content=", self |-> self, how |-> "child",
               at |-> Nil, src |-> "node", frag |-> Nil, arg |-> <<>>,
               todo |-> <<>>, cur |-> text]
  BY <1>1 DEF Idle
<1>7. call' \in Calls
  <2>1. "empty" \in Pcs /\ "content=" \in Names /\ "child" \in Positions
        /\ "node" \in Sources /\ Nil \in Link /\ <<>> \in Seq(Node)
        /\ self \in Link /\ text \in Link
    BY <1>4 DEF Pcs, Names, Positions, Sources, Link
  <2> QED BY <1>6, <2>1 DEF Calls
<1>8. EmptyInv' /\ ReplaceInv'
  BY <1>1, <1>2, <1>4, <1>5, <1>6 DEF EmptyInv, ReplaceInv, IsLive, IInv, TypeOK
<1>9. CallInv'
  BY <1>6, <1>8 DEF CallInv, NodeInv, SetInv, FragmentInv, ParseInv, ReleaseInv, ClearInv,
      EmptyInv, UnlinkInv, PlaceInv, AdoptInv, ReplaceInv
<1> QED BY <1>2, <1>3, <1>7, <1>9 DEF IInv, TypeOK

LEMMA DetachFirstStep == ASSUME IInv, DetachFirst PROVE IInv'
<1> SUFFICES ASSUME NEW n, n = dom.first[call.self]
             PROVE  IInv'
  OBVIOUS
<1>1. /\ IsLive(call.self) /\ call.self \in Node /\ call.cur \in Node /\ role[call.cur] = "node"
      /\ Loose(dom, call.cur) /\ NoneAbove(dom, {call.cur}, call.self)
      /\ call.pc = "empty" /\ dom \in Tree /\ WellLinked(dom) /\ n # Nil
  BY DEF IInv, CallInv, EmptyInv, DetachFirst, TypeOK, ForestInv, LinksOfForest
<1>2. n \in Node
  BY <1>1 DEF Tree, Link
<1>3. dom' = RemoveNode(dom, n) /\ role' = role /\ call' = call /\ settled' = settled
  BY DEF DetachFirst
<1>4. dom' \in Tree /\ role' \in [Node -> Roles] /\ ForestInv'
  BY <1>2, <1>3, RemoveStep DEF IInv
<1>5. Loose(dom', call.cur) /\ NoneAbove(dom', {call.cur}, call.self)
  BY <1>1, <1>2, <1>3, RemoveKeepsLoose, RemoveNoneAbove
<1>6. EmptyInv' /\ ReplaceInv'
  BY <1>1, <1>3, <1>5 DEF EmptyInv, IsLive, ReplaceInv, IInv, CallInv
<1>7. CallInv'
  BY <1>1, <1>3, <1>6 DEF CallInv, NodeInv, SetInv, FragmentInv, ParseInv, ReleaseInv, ClearInv,
      EmptyInv, UnlinkInv, PlaceInv, AdoptInv, ReplaceInv
<1> QED BY <1>3, <1>4, <1>7 DEF IInv, TypeOK

LEMMA InsertTextStep == ASSUME IInv, InsertText PROVE IInv'
<1>1. /\ IsLive(call.self) /\ call.self \in Node /\ call.cur \in Node /\ role[call.cur] = "node"
      /\ Loose(dom, call.cur) /\ NoneAbove(dom, {call.cur}, call.self)
      /\ dom \in Tree /\ WellLinked(dom) /\ Acyclic(dom) /\ call \in Calls
  BY DEF IInv, CallInv, EmptyInv, InsertText, TypeOK, ForestInv, LinksOfForest
<1>2. dom' = InsertChild(dom, call.self, call.cur) /\ role' = role
      /\ Finish(call.name, call.self, <<call.cur>>)
  BY DEF InsertText, Finished
<1>3. call.self # call.cur
  BY <1>1, NoneAboveSelf
<1>4. dom' = Moved(dom, "child", call.self, call.cur)
  <2>1. RemoveNode(dom, call.cur) = dom
    BY <1>1, RemoveNothing
  <2> QED BY <1>2, <2>1 DEF Moved, Attach
<1>5. dom' \in Tree /\ role' \in [Node -> Roles] /\ ForestInv'
  <2>1. "child" \in Positions
    BY DEF Positions
  <2>2. dom' \in Tree /\ LinksOfForest'
    BY <1>1, <1>4, <2>1, MoveForest DEF LinksOfForest
  <2>3. RootsOnTop'
    <3>1. \A x \in Node : x # call.cur => dom'.parent[x] = dom.parent[x]
      BY <1>1, <1>2 DEF InsertChild, Tree
    <3> QED BY <1>1, <1>2, <3>1 DEF RootsOnTop, IInv, ForestInv
  <2>4. UnusedIsolated'
    <3> SUFFICES ASSUME NEW x \in Unused PROVE Isolated(dom', x)
      BY <1>2 DEF UnusedIsolated, Unused
    <3>1. x \in Node /\ x # call.cur /\ Isolated(dom, x)
      BY <1>1 DEF Unused, IInv, ForestInv, UnusedIsolated
    <3>2. CASE x # call.self
      BY <1>1, <1>3, <1>4, <2>1, <3>1, <3>2, MoveKeepsLoose
    <3>3. CASE x = call.self
      BY <1>1, <3>3 DEF Unused, IsLive, LiveRoles
    <3> QED BY <3>2, <3>3
  <2> QED BY <1>2, <2>2, <2>3, <2>4 DEF ForestInv, IInv, TypeOK
<1>6. call' \in Calls /\ settled' \in Tree /\ CallInv'
  <2>1. <<call.cur>> \in Seq(Node) /\ call.name \in Names /\ call.self \in Link
    BY <1>1 DEF Calls
  <2> QED BY <1>1, <1>2, <2>1, FinishStep DEF IInv
<1> QED BY <1>5, <1>6 DEF IInv, TypeOK

-----------------------------------------------------------------------------
(* new, remove, destroy, parse and the start of children=.                 *)

LEMMA NewStep == ASSUME IInv, New PROVE IInv'
<1>1. PICK n \in Unused : role' = [role EXCEPT ![n] = "node"]
  BY DEF New
<1>2. dom' = dom /\ Finish("new", Nil, <<>>)
  BY DEF New
<1>3. dom' \in Tree /\ role' \in [Node -> Roles] /\ ForestInv'
  BY <1>1, <1>2, AllocateStep DEF IInv, Roles
<1>4. "new" \in Names /\ Nil \in Link /\ <<>> \in Seq(Node)
  BY DEF Names, Link
<1>5. call' \in Calls /\ settled' \in Tree /\ CallInv'
  BY <1>2, <1>4, FinishStep DEF IInv
<1> QED BY <1>3, <1>5 DEF IInv, TypeOK

LEMMA UnparentStep ==
  ASSUME IInv, NEW self \in Live, Unparent(self) PROVE IInv'
<1>1. self \in Node /\ dom' = RemoveNode(dom, self) /\ role' = role
      /\ Finish("remove", self, <<>>)
  BY DEF Unparent, Live
<1>2. dom' \in Tree /\ role' \in [Node -> Roles] /\ ForestInv'
  BY <1>1, RemoveStep DEF IInv
<1>3. "remove" \in Names /\ self \in Link /\ <<>> \in Seq(Node)
  BY <1>1 DEF Names, Link
<1>4. call' \in Calls /\ settled' \in Tree /\ CallInv'
  BY <1>1, <1>3, FinishStep DEF IInv
<1> QED BY <1>2, <1>4 DEF IInv, TypeOK

\* A node without children is isolated once it has been unlinked.
LEMMA DestroyStep ==
  ASSUME IInv, NEW self \in Movable, Destroy(self) PROVE IInv'
<1>1. /\ self \in Node /\ dom.first[self] = Nil /\ dom' = RemoveNode(dom, self)
      /\ role' = [role EXCEPT ![self] = "unused"]
      /\ Finish("destroy", self, <<>>)
  BY DEF Destroy, Movable
<1>2. dom \in Tree /\ WellLinked(dom) /\ Acyclic(dom) /\ role \in [Node -> Roles]
      /\ RootsOnTop /\ UnusedIsolated
  BY DEF IInv, TypeOK, ForestInv, LinksOfForest
<1>3. dom' \in Tree /\ WellLinked(dom') /\ Acyclic(dom') /\ Loose(dom', self)
  BY <1>1, <1>2, RemoveNodeType, RemoveWellLinked, RemoveAcyclic, RemoveLoose
<1>4. dom'.first[self] = Nil
  <2>1. dom.parent[self] # self
    <3>1. ~Loops(dom.parent)
      BY <1>2 DEF Acyclic
    <3>2. ~ \A x \in {self} : dom.parent[x] \in {self}
      BY <1>1, <3>1, {self} \in SUBSET Node, {self} # {} DEF Loops
    <3> QED BY <3>2
  <2> QED BY <1>1, <2>1 DEF RemoveNode
<1>5. Isolated(dom', self)
  BY <1>1, <1>3, <1>4, LooseAndEmpty
<1>6. RootsOnTop'
  <2>1. \A x \in Node : x # self => dom'.parent[x] = dom.parent[x]
    BY <1>1, <1>2 DEF RemoveNode, Tree
  <2> QED BY <1>1, <1>2, <1>5, <2>1 DEF RootsOnTop, Isolated
<1>7. UnusedIsolated'
  <2> SUFFICES ASSUME NEW x \in Node, role'[x] = "unused"
               PROVE  Isolated(dom', x)
    BY DEF UnusedIsolated, Unused
  <2>1. CASE x = self
    BY <1>5, <2>1
  <2>2. CASE x # self
    <3>1. Isolated(dom, x)
      BY <1>1, <1>2, <2>2 DEF UnusedIsolated, Unused
    <3> QED BY <1>1, <1>2, <3>1, RemoveKeepsLoose
  <2> QED BY <2>1, <2>2
<1>8. role' \in [Node -> Roles]
  BY <1>1, <1>2 DEF Roles
<1>9. "destroy" \in Names /\ self \in Link /\ <<>> \in Seq(Node)
  BY <1>1 DEF Names, Link
<1>10. call' \in Calls /\ settled' \in Tree /\ CallInv'
  BY <1>1, <1>9, FinishStep DEF IInv
<1> QED BY <1>3, <1>6, <1>7, <1>8, <1>10 DEF IInv, TypeOK, ForestInv, LinksOfForest

LEMMA ParseStep ==
  ASSUME IInv, NEW self \in Live, Parse(self) PROVE IInv'
<1>1. self \in Node /\ IsLive(self)
  BY DEF Live, IsLive, LiveRoles
<1>2. /\ dom' = dom /\ role' = role /\ settled' = settled
      /\ call' = [pc |-> "parse", name |-> "parse", self |-> self, how |-> "child",
                  at |-> self, src |-> "string", frag |-> Nil, arg |-> <<>>,
                  todo |-> <<>>, cur |-> self]
  BY DEF Parse, Begin
<1>3. dom' \in Tree /\ role' \in [Node -> Roles] /\ ForestInv'
  BY <1>2, StillStep DEF IInv
<1>4. call' \in Calls
  BY <1>1, <1>2 DEF Calls, Link, Pcs, Names, Positions, Sources
<1>5. ParseInv'
  BY <1>1, <1>2 DEF ParseInv, WrapInv, IsLive
<1>6. CallInv'
  BY <1>2, <1>5 DEF CallInv, NodeInv, SetInv, FragmentInv, ParseInv, ReleaseInv, ClearInv,
      EmptyInv, UnlinkInv, PlaceInv, AdoptInv, ReplaceInv
<1> QED BY <1>2, <1>3, <1>4, <1>6 DEF IInv, TypeOK

LEMMA SetChildrenStep ==
  ASSUME IInv, NEW self \in Live, SetChildren(self) PROVE IInv'
<1>1. self \in Node /\ IsLive(self) /\ dom \in Tree
  BY DEF Live, IsLive, LiveRoles, IInv, TypeOK
<1>2. PICK a \in Arguments(self) \cup {<<"other", Nil, <<>>>>} :
        call' = [pc |-> "collect", name |-> "children=", self |-> self,
                 how |-> "child", at |-> self, src |-> a[1], frag |-> a[2],
                 arg |-> a[3], todo |-> <<>>, cur |-> dom.first[self]]
  BY DEF SetChildren
<1>3. dom' = dom /\ role' = role /\ settled' = settled
  BY DEF SetChildren
<1>4. dom' \in Tree /\ role' \in [Node -> Roles] /\ ForestInv'
  BY <1>3, StillStep DEF IInv
<1>5. /\ a[1] \in Sources /\ a[2] \in Link /\ a[3] \in Seq(Node)
      /\ a[1] = "node" => /\ a[3] # <<>> /\ role[a[3][1]] = "node"
                          /\ NoneAbove(dom, {a[3][1]}, self)
      /\ a[1] = "set" => /\ Distinct(a[3]) /\ AllMovable(a[3])
                         /\ NoneAbove(dom, Members(a[3]), self)
      /\ a[1] = "fragment" => /\ a[2] \in Node /\ role[a[2]] = "fragment"
                              /\ NoneAbove(dom, {a[2]}, self)
      /\ a[1] = "string" => a[2] = Nil /\ a[3] = <<>>
  <2>1. CASE a \in Arguments(self)
    BY <1>1, <2>1, ArgumentsFit DEF IInv
  <2>2. CASE a = <<"other", Nil, <<>>>>
    BY <2>2 DEF Sources, Link
  <2> QED BY <2>1, <2>2
<1>6. /\ call'.pc = "collect" /\ call'.name = "children=" /\ call'.how = "child"
      /\ call'.self = self /\ call'.at = self /\ call'.src = a[1]
      /\ call'.frag = a[2] /\ call'.arg = a[3]
  BY <1>2
<1>7. call' \in Calls
  <2>1. dom.first[self] \in Link /\ self \in Link /\ <<>> \in Seq(Node)
    BY <1>1 DEF Tree, Link
  <2>2. "collect" \in Pcs /\ "children=" \in Names /\ "child" \in Positions
    BY DEF Pcs, Names, Positions
  <2> QED BY <1>2, <1>5, <2>1, <2>2 DEF Calls
<1>8. Fits(self)'
  BY <1>3, <1>5, <1>6 DEF Fits, AllMovable
<1>9. ClearInv' /\ ReplaceInv'
  BY <1>1, <1>3, <1>5, <1>6, <1>8 DEF ClearInv, IsLive, ReplaceInv
<1>10. CallInv'
  BY <1>6, <1>9 DEF CallInv, NodeInv, SetInv, FragmentInv, ParseInv, ReleaseInv, ClearInv,
      EmptyInv, UnlinkInv, PlaceInv, AdoptInv, ReplaceInv
<1> QED BY <1>3, <1>4, <1>7, <1>10 DEF IInv, TypeOK
-----------------------------------------------------------------------------
(* wrap.                                                                   *)

LEMMA WrapFragmentStep ==
  ASSUME IInv, NEW self \in Movable, WrapFragment(self) PROVE IInv'
<1>1. self \in Node /\ role[self] = "node"
  BY DEF Movable
<1>2. PICK f \in Node :
        /\ dom.first[f] # Nil /\ NoneAbove(dom, {dom.first[f]}, self)
        /\ Begin("place", "wrap", self, "child", self, <<"fragment", f, <<>>>>)
  BY DEF WrapFragment
<1>3. /\ dom' = dom /\ role' = role /\ settled' = settled
      /\ call' = [pc |-> "place", name |-> "wrap", self |-> self, how |-> "child",
                  at |-> self, src |-> "fragment", frag |-> f, arg |-> <<>>,
                  todo |-> <<>>, cur |-> self]
  BY <1>2 DEF Begin
<1>4. dom' \in Tree /\ role' \in [Node -> Roles] /\ ForestInv'
  BY <1>3, StillStep DEF IInv
<1>5. call' \in Calls
  BY <1>1, <1>3 DEF Calls, Link, Pcs, Names, Positions, Sources
<1>6. PlaceInv'
  BY <1>1, <1>2, <1>3, NilAssumption DEF PlaceInv, Wrapper
<1>7. CallInv'
  BY <1>3, <1>6 DEF CallInv, NodeInv, SetInv, FragmentInv, ParseInv, ReleaseInv, ClearInv,
      EmptyInv, UnlinkInv, PlaceInv, AdoptInv, ReplaceInv
<1> QED BY <1>3, <1>4, <1>5, <1>7 DEF IInv, TypeOK

LEMMA WrapNodeStep ==
  ASSUME IInv, NEW self \in Movable, WrapNode(self) PROVE IInv'
<1>1. self \in Node /\ role[self] = "node" /\ role \in [Node -> Roles]
  BY DEF Movable, IInv, TypeOK
<1>2. PICK clone \in Unused :
        /\ role' = [role EXCEPT ![clone] = "node"]
        /\ call' = [Idle EXCEPT !.pc = "place", !.name = "wrap", !.self = self,
                                !.cur = clone]
  BY DEF WrapNode
<1>3. dom' = dom /\ settled' = settled
  BY DEF WrapNode
<1>4. dom' \in Tree /\ role' \in [Node -> Roles] /\ ForestInv'
  BY <1>2, <1>3, AllocateStep DEF IInv, Roles
<1>5. clone \in Node /\ clone # self /\ NoneAbove(dom, {clone}, self)
  BY <1>1, FreshNotAbove DEF Unused
<1>6. call' = [pc |-> "place", name |-> "wrap", self |-> self, how |-> "child",
               at |-> Nil, src |-> "node", frag |-> Nil, arg |-> <<>>,
               todo |-> <<>>, cur |-> clone]
  BY <1>2 DEF Idle
<1>7. call' \in Calls
  BY <1>1, <1>5, <1>6 DEF Calls, Link, Pcs, Names, Positions, Sources
<1>8. role'[self] = "node" /\ role'[clone] = "node"
  BY <1>1, <1>2, <1>5
<1>9. PlaceInv'
  BY <1>1, <1>3, <1>5, <1>6, <1>8 DEF PlaceInv, Wrapper
<1>10. CallInv'
  BY <1>6, <1>9 DEF CallInv, NodeInv, SetInv, FragmentInv, ParseInv, ReleaseInv, ClearInv,
      EmptyInv, UnlinkInv, PlaceInv, AdoptInv, ReplaceInv
<1> QED BY <1>3, <1>4, <1>7, <1>10 DEF IInv, TypeOK

\* The DocumentFragment that wrap makes for a String is above nothing.
LEMMA WrapStringStep ==
  ASSUME IInv, NEW self \in Movable, WrapString(self) PROVE IInv'
<1>1. self \in Node /\ role[self] = "node" /\ role \in [Node -> Roles]
  BY DEF Movable, IInv, TypeOK
<1>2. PICK f \in Unused :
        /\ role' = [role EXCEPT ![f] = "fragment"]
        /\ call' = [Idle EXCEPT !.pc = "parse", !.name = "wrap", !.self = self,
                                !.at = f, !.src = "string", !.cur = f]
  BY DEF WrapString
<1>3. dom' = dom /\ settled' = settled
  BY DEF WrapString
<1>4. dom' \in Tree /\ role' \in [Node -> Roles] /\ ForestInv'
  BY <1>2, <1>3, AllocateStep DEF IInv, Roles
<1>5. f \in Node /\ f # self /\ NoneAbove(dom, {f}, self)
  BY <1>1, FreshNotAbove DEF Unused
<1>6. call' = [pc |-> "parse", name |-> "wrap", self |-> self, how |-> "child",
               at |-> f, src |-> "string", frag |-> Nil, arg |-> <<>>,
               todo |-> <<>>, cur |-> f]
  BY <1>2 DEF Idle
<1>7. call' \in Calls
  BY <1>1, <1>5, <1>6 DEF Calls, Link, Pcs, Names, Positions, Sources
<1>8. role'[self] = "node" /\ role'[f] = "fragment"
  BY <1>1, <1>2, <1>5
<1>9. {f} \cup ({Nil} \ {Nil}) = {f}
  OBVIOUS
<1>10. ParseInv'
  BY <1>1, <1>3, <1>5, <1>6, <1>8, <1>9 DEF ParseInv, WrapInv, IsLive, LiveRoles
<1>11. CallInv'
  BY <1>6, <1>10 DEF CallInv, NodeInv, SetInv, FragmentInv, ParseInv, ReleaseInv, ClearInv,
      EmptyInv, UnlinkInv, PlaceInv, AdoptInv, ReplaceInv
<1> QED BY <1>3, <1>4, <1>7, <1>11 DEF IInv, TypeOK

LEMMA NoWrapperStep == ASSUME IInv, NoWrapper PROVE IInv'
<1>1. dom' = dom /\ role' = role /\ Finish("new", Nil, <<>>)
  BY DEF NoWrapper
<1>2. dom' \in Tree /\ role' \in [Node -> Roles] /\ ForestInv'
  BY <1>1, StillStep DEF IInv
<1>3. "new" \in Names /\ Nil \in Link /\ <<>> \in Seq(Node)
  BY DEF Names, Link
<1>4. call' \in Calls /\ settled' \in Tree /\ CallInv'
  BY <1>1, <1>3, FinishStep DEF IInv
<1> QED BY <1>2, <1>4 DEF IInv, TypeOK

\* The wrapper is put after the node, where the node is not above it.
LEMMA PlaceWrapperStep == ASSUME IInv, PlaceWrapper PROVE IInv'
<1> SUFFICES ASSUME NEW w, w = Wrapper PROVE IInv'
  OBVIOUS
<1> DEFINE self == call.self
           t == RemoveNode(dom, w)
<1>1. /\ call.pc = "place" /\ w # Nil /\ self \in Node /\ role[self] = "node"
      /\ call \in Calls /\ dom \in Tree /\ WellLinked(dom) /\ Acyclic(dom)
      /\ RootsOnTop /\ NoneAbove(dom, {w}, self)
  BY DEF PlaceWrapper, IInv, CallInv, PlaceInv, TypeOK, ForestInv, LinksOfForest
<1>2. w \in Node /\ role[w] = "node"
  <2>1. CASE call.frag = Nil
    BY <2>1 DEF IInv, CallInv, PlaceInv, PlaceWrapper, Wrapper
  <2>2. CASE call.frag # Nil
    <3>1. call.frag \in Node /\ w = dom.first[call.frag]
      BY <2>2 DEF IInv, CallInv, PlaceInv, PlaceWrapper, Wrapper
    <3>2. w \in Node /\ dom.parent[w] = call.frag
      BY <1>1, <3>1 DEF WellLinked, Tree, Link
    <3> QED BY <1>1, <2>2, <3>2 DEF RootsOnTop
  <2> QED BY <2>1, <2>2
<1>3. w # self
  BY <1>1, NoneAboveSelf
<1>4. t \in Tree /\ WellLinked(t) /\ Acyclic(t) /\ Loose(t, w)
      /\ t.parent = [dom.parent EXCEPT ![w] = Nil]
  BY <1>1, <1>2, RemoveNodeType, RemoveWellLinked, RemoveAcyclic, RemoveLoose
  DEF RemoveNode
<1> HIDE DEF t
<1>5. ASSUME dom.parent[self] = Nil
      PROVE  /\ dom' \in Tree /\ role' \in [Node -> Roles] /\ ForestInv'
             /\ NoneAbove(dom', {self}, w)
  <2>1. dom' = RemoveNode(dom, w) /\ role' = role
    BY <1>5 DEF PlaceWrapper
  <2>2. dom' \in Tree /\ role' \in [Node -> Roles] /\ ForestInv'
    BY <1>2, <2>1, RemoveStep DEF IInv
  <2>3. dom'.parent[w] = Nil
    BY <1>4, <2>1 DEF Loose, t
  <2> QED BY <1>2, <1>3, <2>2, <2>3, TopNoneAbove
<1>6. ASSUME dom.parent[self] # Nil
      PROVE  /\ dom' \in Tree /\ role' \in [Node -> Roles] /\ ForestInv'
             /\ NoneAbove(dom', {self}, w)
  <2>1. dom' = Moved(dom, "next", self, w) /\ role' = role
    BY <1>6 DEF PlaceWrapper, Moved, Attach
  <2>2. "next" \in Positions /\ IsLive(self)
    BY <1>1 DEF Positions, IsLive, LiveRoles
  <2>3. dom' \in Tree /\ role' \in [Node -> Roles] /\ ForestInv'
    BY <1>1, <1>2, <2>1, <2>2, MoveStep DEF IInv
  <2>4. t.parent[self] = dom.parent[self] /\ dom.parent[self] \in Node
    BY <1>1, <1>3, <1>4, <1>6 DEF Tree, Link
  <2>5. NoneAbove(t, {self}, t.parent[self])
    BY <1>1, <1>4, <1>6, <2>4, NotAboveParent DEF Acyclic
  <2>6. PICK A \in SUBSET Node :
               /\ t.parent[self] \in A /\ A \cap {self} = {}
               /\ \A z \in A : t.parent[z] \in A \cup {Nil}
    BY <2>5 DEF NoneAbove
  <2>7. dom'.parent = [t.parent EXCEPT ![w] = t.parent[self]]
    BY <2>1 DEF Moved, Attach, InsertAfter, t
  <2> DEFINE B == A \cup {w}
  <2>8. B \in SUBSET Node /\ w \in B /\ B \cap {self} = {}
    BY <1>2, <1>3, <2>6
  <2>9. \A z \in B : dom'.parent[z] \in B \cup {Nil}
    BY <1>2, <1>4, <2>6, <2>7 DEF Tree
  <2>10. NoneAbove(dom', {self}, w)
    BY <2>8, <2>9 DEF NoneAbove
  <2> QED BY <2>3, <2>10
<1>7. /\ dom' \in Tree /\ role' \in [Node -> Roles] /\ ForestInv'
      /\ NoneAbove(dom', {self}, w)
  BY <1>5, <1>6
<1>8. role' = role /\ settled' = settled
      /\ call' = [call EXCEPT !.pc = "adopt", !.cur = w,
                     !.arg = IF call.src = "string"
                               THEN <<w, call.frag>> \o SubSeq(call.arg, 2, Len(call.arg))
                               ELSE <<w>>]
  BY DEF PlaceWrapper
<1>9. (IF call.src = "string"
        THEN <<w, call.frag>> \o SubSeq(call.arg, 2, Len(call.arg))
        ELSE <<w>>) \in Seq(Node)
  <2>1. CASE call.src = "string"
    <3>1. call.frag \in Node
      BY <1>1, <2>1 DEF IInv, CallInv, PlaceInv
    <3>2. <<w, call.frag>> \in Seq(Node)
      BY <1>2, <3>1
    <3>3. SubSeq(call.arg, 2, Len(call.arg)) \in Seq(Node)
      <4>1. call.arg \in Seq(Node) /\ 2 \in Int /\ Len(call.arg) \in Int
        BY <1>1 DEF Calls
      <4>2. \A i \in 2 .. Len(call.arg) : call.arg[i] \in Node
        BY <4>1
      <4> QED BY <4>1, <4>2, SubSeqProperties
    <3> QED BY <2>1, <3>2, <3>3, ConcatProperties
  <2>2. CASE call.src # "string"
    BY <1>2, <2>2
  <2> QED BY <2>1, <2>2
<1>10. /\ call' \in Calls /\ call'.pc = "adopt" /\ call'.cur = w
       /\ call'.name = call.name /\ call'.self = call.self
  BY <1>1, <1>2, <1>8, <1>9 DEF Calls, Pcs, Link
<1>11. AdoptInv' /\ ReplaceInv'
  BY <1>1, <1>2, <1>7, <1>8, <1>10 DEF AdoptInv, ReplaceInv
<1>12. CallInv'
  BY <1>10, <1>11 DEF CallInv, NodeInv, SetInv, FragmentInv, ParseInv, ReleaseInv, ClearInv,
      EmptyInv, UnlinkInv, PlaceInv, AdoptInv, ReplaceInv
<1> QED BY <1>7, <1>8, <1>10, <1>12 DEF IInv, TypeOK

LEMMA AdoptStep == ASSUME IInv, Adopt PROVE IInv'
<1>1. /\ call.self \in Node /\ role[call.self] = "node" /\ call.cur \in Node
      /\ role[call.cur] = "node" /\ NoneAbove(dom, {call.self}, call.cur)
      /\ call \in Calls
  BY DEF Adopt, IInv, CallInv, AdoptInv, TypeOK
<1>2. dom' = Moved(dom, "child", call.cur, call.self) /\ role' = role
      /\ Finish(call.name, call.self, call.arg)
  BY DEF Adopt, Moved, Attach, Finished
<1>3. "child" \in Positions /\ IsLive(call.cur)
  BY <1>1 DEF Positions, IsLive, LiveRoles
<1>4. dom' \in Tree /\ role' \in [Node -> Roles] /\ ForestInv'
  BY <1>1, <1>2, <1>3, MoveStep DEF IInv
<1>5. call' \in Calls /\ settled' \in Tree /\ CallInv'
  <2>1. call.name \in Names /\ call.self \in Link /\ call.arg \in Seq(Node)
    BY <1>1 DEF Calls, Link
  <2> QED BY <1>1, <1>2, <2>1, FinishStep DEF IInv
<1> QED BY <1>4, <1>5 DEF IInv, TypeOK
-----------------------------------------------------------------------------
(* The invariant holds.                                                    *)

LEMMA InitStep == Init => IInv
<1> SUFFICES ASSUME Init PROVE IInv
  OBVIOUS
<1>1. dom = Scattered /\ dom \in Tree /\ settled \in Tree
  BY DEF Init, Scattered, NoLinks, Tree, Link
<1>2. WellLinked(dom)
  BY <1>1, NilAssumption DEF Scattered, NoLinks, WellLinked
<1>3. Acyclic(dom)
  <2>1. ~Loops(NoLinks)
    BY NilAssumption DEF NoLinks, Loops
  <2> QED BY <1>1, <2>1 DEF Scattered, Acyclic
<1>4. RootsOnTop /\ UnusedIsolated
  BY <1>1 DEF Scattered, NoLinks, RootsOnTop, UnusedIsolated, Unused, Isolated
<1>5. role \in [Node -> Roles]
  BY DEF Init, Roles
<1>6. call = [pc |-> "idle", name |-> "none", self |-> Nil,
                              how |-> "child", at |-> Nil, src |-> "node",
                              frag |-> Nil, arg |-> <<>>, todo |-> <<>>,
                              cur |-> Nil]
  BY DEF Init, Idle
<1>7. call \in Calls
  <2>1. Nil \in Link /\ <<>> \in Seq(Node)
    BY DEF Link
  <2> QED BY <1>6, <2>1 DEF Calls, Pcs, Names, Positions, Sources
<1>8. CallInv
  BY <1>6 DEF CallInv, NodeInv, SetInv, FragmentInv, ParseInv, ReleaseInv, ClearInv,
      EmptyInv, UnlinkInv, PlaceInv, AdoptInv, ReplaceInv
<1> QED BY <1>1, <1>2, <1>3, <1>4, <1>5, <1>7, <1>8
        DEF IInv, TypeOK, ForestInv, LinksOfForest

LEMMA ReturnStep == ASSUME IInv, Return PROVE IInv'
<1>1. dom' = dom /\ role' = role /\ call' = Idle /\ settled' = dom
  BY DEF Return
<1>2. dom' \in Tree /\ role' \in [Node -> Roles] /\ ForestInv'
  BY <1>1, StillStep DEF IInv
<1>3. call' = [pc |-> "idle", name |-> "none", self |-> Nil, how |-> "child",
               at |-> Nil, src |-> "node", frag |-> Nil, arg |-> <<>>,
               todo |-> <<>>, cur |-> Nil]
  BY <1>1 DEF Idle
<1>4. call' \in Calls
  <2>1. Nil \in Link /\ <<>> \in Seq(Node)
    BY DEF Link
  <2> QED BY <1>3, <2>1 DEF Calls, Pcs, Names, Positions, Sources
<1>5. CallInv'
  BY <1>3 DEF CallInv, NodeInv, SetInv, FragmentInv, ParseInv, ReleaseInv, ClearInv,
      EmptyInv, UnlinkInv, PlaceInv, AdoptInv, ReplaceInv
<1> QED BY <1>1, <1>2, <1>4, <1>5 DEF IInv, TypeOK

LEMMA StutterStep == ASSUME IInv, UNCHANGED vars PROVE IInv'
<1>1. dom' = dom /\ role' = role /\ call' = call /\ settled' = settled
  BY DEF vars
<1>2. TypeOK' /\ ForestInv'
  BY <1>1, StillStep DEF IInv, TypeOK
<1>3. Target' = Target /\ Wrapper' = Wrapper
  BY <1>1 DEF Target, Wrapper
<1>4. NodeInv' /\ SetInv' /\ FragmentInv' /\ ParseInv'
  BY <1>1, <1>3 DEF IInv, CallInv, NodeInv, SetInv, FragmentInv, ParseInv,
     Fits, AllMovable, IsLive, IsScratch, WrapInv
<1>5. ReleaseInv' /\ ClearInv' /\ EmptyInv' /\ UnlinkInv'
  BY <1>1 DEF IInv, CallInv, ReleaseInv, ClearInv, EmptyInv, UnlinkInv,
     Fits, AllMovable, IsLive, IsScratch, WrapInv
<1>6. PlaceInv' /\ AdoptInv' /\ ReplaceInv'
  BY <1>1, <1>3 DEF IInv, CallInv, PlaceInv, AdoptInv, ReplaceInv
<1> QED BY <1>2, <1>4, <1>5, <1>6 DEF IInv, CallInv

\* Every method that adds an argument beside or under self, or beside the first
\* child of self.
LEMMA AddStep ==
  ASSUME IInv, ~PrependOwnFirst, NEW self \in Live,
         \/ AddChild(self) \/ AddNextSibling(self) \/ AddPreviousSibling(self)
         \/ PrependChild(self) \/ Replace(self)
  PROVE  IInv'
<1>1. self \in Node /\ dom \in Tree
  BY DEF Live, IInv, TypeOK
<1>2. /\ {"child", "next", "previous"} \subseteq Positions
      /\ {"add_child", "add_next_sibling", "add_previous_sibling",
          "prepend_child", "replace"} \subseteq Names \ {"wrap"}
  BY DEF Positions, Names
<1>3. CASE AddChild(self)
  BY <1>1, <1>2, <1>3, BeginAddStep DEF AddChild
<1>4. CASE AddNextSibling(self)
  BY <1>1, <1>2, <1>4, BeginAddStep DEF AddNextSibling
<1>5. CASE AddPreviousSibling(self)
  BY <1>1, <1>2, <1>5, BeginAddStep DEF AddPreviousSibling
<1>6. CASE Replace(self)
  BY <1>1, <1>2, <1>6, BeginAddStep DEF Replace
<1>7. CASE PrependChild(self)
  <2>1. CASE dom.first[self] = Nil
    BY <1>1, <1>2, <1>7, <2>1, BeginAddStep DEF PrependChild
  <2>2. CASE dom.first[self] # Nil
    <3> DEFINE first == dom.first[self]
    <3>1. first \in Node /\ dom.parent[first] = self
      BY <1>1, <2>2 DEF IInv, ForestInv, LinksOfForest, WellLinked, Tree, Link
    <3>2. first \in Live
      BY <1>1, <3>1, NilAssumption DEF IInv, ForestInv, RootsOnTop, Live
    <3>3. PICK a \in Arguments(first) :
                 BeginAdd("prepend_child", self, "previous", first, a)
      BY <1>7, <2>2 DEF PrependChild
    <3> QED BY <1>1, <1>2, <3>2, <3>3, BeginAddStep
  <2> QED BY <2>1, <2>2
<1> QED BY <1>3, <1>4, <1>5, <1>6, <1>7

LEMMA InductiveStep ==
  ASSUME ~PrependOwnFirst PROVE IInv /\ [Next]_vars => IInv'
<1> SUFFICES ASSUME IInv, [Next]_vars PROVE IInv'
  OBVIOUS
<1>1. CASE Call
  BY <1>1, NewStep, AddStep, SetChildrenStep, ParseStep, UnparentStep,
     SetContentStep, DestroyStep, WrapFragmentStep, WrapStringStep, WrapNodeStep
  DEF Call
<1>2. CASE Continue
  BY <1>2, AddNodeStep, AddNextOfSetStep, SetExhaustedStep,
     AddFirstOfFragmentStep, FragmentExhaustedStep, UnlinkStep, ParseRootStep,
     ParseNodeStep, ParseDoneStep, ReleaseFirstStep, ReleaseDoneStep,
     CollectChildStep, CollectedStep, ClearNextStep, ClearedStep,
     DetachFirstStep, InsertTextStep, PlaceWrapperStep, NoWrapperStep,
     AdoptStep, ReturnStep
  DEF Continue
<1>3. CASE UNCHANGED vars
  BY <1>3, StutterStep
<1> QED BY <1>1, <1>2, <1>3 DEF Next

\* The strengthened invariant holds of every behaviour whose calls do not
\* prepend a node's own first child.
THEOREM Invariance ==
  ASSUME ~PrependOwnFirst PROVE Spec => []IInv
<1>1. Init => IInv
  BY InitStep
<1>2. IInv /\ [Next]_vars => IInv'
  BY InductiveStep
<1> QED BY <1>1, <1>2, PTL DEF Spec

\* The variables of NodeMutation keep their types.
THEOREM TypeCorrect ==
  ASSUME ~PrependOwnFirst PROVE Spec => []TypeOK
<1>1. IInv => TypeOK
  BY DEF IInv
<1> QED BY <1>1, Invariance, PTL

\* After every pointer update of every mutation of nl_node.c and node.rb the
\* links are those of a forest, however many nodes there are.
THEOREM ForestKept ==
  ASSUME ~PrependOwnFirst PROVE Spec => []LinksOfForest
<1>1. IInv => LinksOfForest
  BY DEF IInv, ForestInv
<1> QED BY <1>1, Invariance, PTL

\* A node that has been freed, or not yet allocated, is linked to nothing and
\* nothing is linked to it.
THEOREM FreedNodesUnreachable ==
  ASSUME ~PrependOwnFirst PROVE Spec => []UnusedUnreachable
<1>1. IInv => UnusedUnreachable
  <2> SUFFICES ASSUME IInv, NEW u \in Unused
               PROVE  Isolated(dom, u) /\ \A x \in Node : dom.parent[x] # u
    BY DEF UnusedUnreachable
  <2>1. u \in Node /\ Isolated(dom, u) /\ dom \in Tree /\ WellLinked(dom) /\ Acyclic(dom)
    BY DEF Unused, IInv, ForestInv, LinksOfForest, UnusedIsolated, TypeOK
  <2> QED BY <2>1, NoFirstNoChild DEF Isolated
<1> QED BY <1>1, Invariance, PTL

-----------------------------------------------------------------------------
(* What OrderedForest is shown of a tree.                                  *)

\* Walking the next pointers from the first of a run reads the run.
LEMMA ChainReads ==
  ASSUME IsFiniteSet(Node), NEW t \in Tree, NEW v \in Rows, IsInjective(v),
         NEW p, NEW l, Run(t, v, p, l, Nil)
  PROVE  ChainFrom(t, HeadOr(v, Nil)) = v
<1> DEFINE n == Cardinality(Node)
           g == CHOOSE g : Follows(t, n, g)
           x == HeadOr(v, Nil)
<1>1. (\A y \in Node : t.next[y] \in Link) /\ n \in Nat /\ Len(v) <= n
  BY ListLen, FS_CardinalityType DEF Tree
<1>2. ChainFrom(t, x) = g[n][x]
  BY DEF ChainFrom, Follows, Cat, One
<1> HIDE DEF n, x
<1>3. Follows(t, n, g)
  BY <1>1, FollowsExists
<1> HIDE DEF g
<1>4. g[n][x] = v
  BY <1>1, <1>3, FollowsReads DEF x
<1> QED BY <1>2, <1>4 DEF x

\* ForestOf reads the forest that the pointers show.
LEMMA ForestShown ==
  ASSUME IsFiniteSet(Node), NEW t, NEW f, Shows(t, f)
  PROVE  ForestOf(t) = f
<1>1. t \in Tree /\ Orderly(f) /\ \A p, s : Row(f, p, s) => s \in Rows /\ IsInjective(s) /\ Run(t, s, p, Nil, Nil)
  BY RowFacts DEF Shows, Whole
<1>2. \A p, s : Row(f, p, s) => ChainFrom(t, HeadOr(s, Nil)) = s
  BY <1>1, ChainReads
<1>3. \A p \in Node : Children(t, p) = f.kids[p]
  <2> TAKE p \in Node
  <2>1. Row(f, p, f.kids[p]) /\ t.first[p] = HeadOr(f.kids[p], Nil)
    BY DEF Row, Shows, Ends
  <2> QED BY <1>2, <2>1 DEF Children
<1> DEFINE heads == {x \in Node : t.parent[x] = Nil /\ t.prev[x] = Nil}
           z == <<>>
<1>4. ASSUME NEW s \in f.tops PROVE HeadOr(s, Nil) \in heads /\ ChainFrom(t, HeadOr(s, Nil)) = s
  <2> DEFINE x == HeadOr(s, Nil)
  <2>1. Row(f, Nil, s) /\ s # <<>>
    BY <1>1, RowFacts DEF Row
  <2>2. PICK v : Cut(s, z, x, v)
    BY <1>1, <2>1, CutFirst
  <2>3. LastOr(z, Nil) = Nil
    BY EndsNone
  <2> HIDE DEF x, z
  <2>4. s \in Rows /\ IsInjective(s) /\ Run(t, s, Nil, Nil, Nil) /\ ChainFrom(t, HeadOr(s, Nil)) = s
    BY <1>1, <1>2, <2>1
  <2>5. t.parent[x] = Nil /\ t.prev[x] = Nil /\ x \in Node
    BY <2>2, <2>3, <2>4, CutFacts DEF Run
  <2> QED BY <2>4, <2>5 DEF x
<1>5. ASSUME NEW x \in heads PROVE ChainFrom(t, x) \in f.tops
  <2>1. PICK p, s, u, v : At(t, f, x, p, s, u, v)
    BY NodeAt
  <2>2. Row(f, p, s) /\ Cut(s, u, x, v) /\ IsInjective(s) /\ p = Nil /\ LastOr(u, Nil) = Nil
    BY <2>1 DEF At
  <2>3. u \in Rows /\ (u # <<>> => LastOr(u, Nil) \in Node)
    <3>1. u \in Rows
      BY <2>2 DEF Cut
    <3> QED BY <3>1, EndsIn, ListOfNodes
  <2>4. u = <<>>
    BY <2>2, <2>3, NilAssumption
  <2>5. x = HeadOr(s, Nil)
    BY <2>2, <2>4, CutEnds
  <2>6. ChainFrom(t, x) = s
    BY <1>2, <2>2, <2>5
  <2> QED BY <2>2, <2>6, NilAssumption DEF Row
<1>6. TopChains(t) = f.tops
  <2>1. TopChains(t) = {ChainFrom(t, x) : x \in heads}
    BY DEF TopChains
  <2> HIDE DEF heads
  <2> QED BY <1>4, <1>5, <2>1
<1>7. f = [kids |-> f.kids, tops |-> f.tops] /\ f.kids = [p \in Node |-> f.kids[p]]
  BY <1>1 DEF Orderly, IsForest
<1>8. [p \in Node |-> Children(t, p)] = [p \in Node |-> f.kids[p]]
  BY <1>3
<1> QED BY <1>6, <1>7, <1>8 DEF ForestOf

\* Every node on its own.
Trivial == [kids |-> [n \in Node |-> <<>>], tops |-> {One(n) : n \in Node}]

\* The tree before the first call shows that forest.
LEMMA TrivialShown == Shows(Scattered, Trivial)
<1> DEFINE f == Trivial
           t == Scattered
<1>1. t \in Tree
  BY DEF Scattered, Tree, NoLinks, Link
<1>2. \A p \in Node : f.kids[p] = <<>>
  BY DEF Trivial
<1>3. Orderly(f)
  <2>1. [n \in Node |-> <<>>] \in [Node -> Rows] /\ \A p \in Node : IsInjective([n \in Node |-> <<>>][p])
    BY CatNone, EmptyList
  <2>2. \A s \in {One(n) : n \in Node} : s \in Rows /\ IsInjective(s) /\ s # <<>>
    BY OneFacts, EndsOne
  <2> QED BY <2>1, <2>2, OrderlyWhen DEF Trivial
<1>4. \A p, s : Row(f, p, s) <=> (p \in Node /\ s = <<>>) \/ (p = Nil /\ \E n \in Node : s = One(n))
  BY <1>2 DEF Row, Trivial
<1>5. \A n \in Node : ToSet(One(n)) = {n}
  BY OneFacts
<1>6. ToSet(<<>>) = {}
  BY EmptyList
<1>7. Whole(f)
  <2> HIDE DEF f, t
  <2>1. ASSUME NEW p, NEW s, NEW x, Row(f, p, s), x \in ToSet(s)
        PROVE  p = Nil /\ x \in Node /\ s = One(x)
    <3>1. ~(s = <<>>)
      BY <1>6, <2>1
    <3>2. PICK n \in Node : s = One(n) /\ p = Nil
      BY <1>4, <2>1, <3>1
    <3>3. x = n
      BY <1>5, <2>1, <3>2
    <3> QED BY <3>2, <3>3
  <2>2. \A p, s, q, r : \A x : Row(f, p, s) /\ Row(f, q, r) /\ x \in ToSet(s) /\ x \in ToSet(r) => p = q /\ s = r
    <3> TAKE p, s, q, r
    <3> TAKE x
    <3> HAVE Row(f, p, s) /\ Row(f, q, r) /\ x \in ToSet(s) /\ x \in ToSet(r)
    <3>1. p = Nil /\ s = One(x)
      BY <2>1
    <3>2. q = Nil /\ r = One(x)
      BY <2>1
    <3> QED BY <3>1, <3>2
  <2>3. \A x \in Node : \E p, s : Row(f, p, s) /\ x \in ToSet(s)
    <3> TAKE x \in Node
    <3>1. Row(f, Nil, One(x)) /\ x \in ToSet(One(x))
      BY <1>4, <1>5
    <3> QED BY <3>1
  <2> QED BY <1>3, <2>2, <2>3 DEF Whole
<1>8. Ends(t, f)
  <2>1. \A p \in Node : t.first[p] = Nil /\ t.last[p] = Nil
    BY DEF Scattered, NoLinks
  <2> QED BY <1>2, <2>1, EndsNone DEF Ends
<1>9. \A p, s : Row(f, p, s) => Run(t, s, p, Nil, Nil)
  <2>1. \A n \in Node : t.parent[n] = Nil /\ t.prev[n] = Nil /\ t.next[n] = Nil
    BY DEF Scattered, NoLinks
  <2> QED BY <1>4, <2>1, RunNone, RunOne
<1> QED BY <1>1, <1>7, <1>8, <1>9 DEF Shows

\* A move takes the node out and puts it at the target.
LEMMA MovedShows ==
  ASSUME NEW t, NEW f, Shows(t, f), NEW how \in How, NEW to \in Node, NEW n \in Node, n # to
  PROVE  Shows(Moved(t, how, to, n), Put(f, how, to, One(n)))
<1> DEFINE q == RemoveNode(t, n)
           g == Detach(f, {n})
<1>1. Shows(q, g)
  BY RemoveShows
<1>2. Ready(g, to, n)
  <2>1. Orderly(f) /\ {n} \in SUBSET Node
    BY DEF Shows, Whole
  <2>2. Lone(g, n)
    BY <2>1, DetachKeepsLone
  <2> QED BY <1>1, <2>2 DEF Ready, Shows
<1>3. Put(g, how, to, One(n)) = Put(f, how, to, One(n))
  <2>1. Orderly(f) /\ {n} \in SUBSET Node /\ ToSet(One(n)) = {n}
    BY OneFacts DEF Shows, Whole
  <2>2. Pull(g, {n}) = Pull(f, {n})
    BY <2>1, PullDetach
  <2> HIDE DEF g
  <2> QED BY <2>1, <2>2, PutOfPull
<1> HIDE DEF q, g
<1>4. CASE how = "child"
  BY <1>1, <1>2, <1>3, <1>4, InsertChildShows DEF Moved, Attach, q
<1>5. CASE how = "next"
  BY <1>1, <1>2, <1>3, <1>5, InsertAfterShows DEF Moved, Attach, q
<1>6. CASE how = "previous"
  BY <1>1, <1>2, <1>3, <1>6, InsertBeforeShows DEF Moved, Attach, q
<1> QED BY <1>4, <1>5, <1>6 DEF How

-----------------------------------------------------------------------------
(* The changes of OrderedForest, by the name of the call.                  *)

\* wrap with a String: what was parsed is under its DocumentFragment.
Parsed(arg, f) == IF Len(arg) = 1 THEN f ELSE Under(f, arg[2], SubSeq(arg, 3, Len(arg)))

\* The wrapper is behind the node if that has a parent, and on its own if not.
Placed(arg, self, f) ==
  IF HasParent(f, self) THEN Behind(Parsed(arg, f), self, One(arg[1]))
  ELSE Detach(Parsed(arg, f), {arg[1]})

\* OrderedForest!Applied, with the parts of the call as arguments of their own.
Effect(name, self, arg, f) ==
  CASE name \in {"new", "parse"}       -> f
    [] name \in {"remove", "destroy"}  -> Detach(f, {self})
    [] name = "add_child"              -> Under(f, self, arg)
    [] name = "prepend_child"          -> FirstUnder(f, self, arg)
    [] name = "add_next_sibling"       -> Behind(f, self, arg)
    [] name = "add_previous_sibling"   -> InFrontOf(f, self, arg)
    [] name = "replace"  -> Detach(InFrontOf(f, self, arg), {self})
    [] name = "clear"    -> Emptied(f, self)
    [] name \in {"children=", "content="} -> Under(Emptied(f, self), self, arg)
    [] name = "wrap"     -> Under(Placed(arg, self, f), arg[1], One(self))

\* An operator of Forests means the same inside the instance OrderedForest.
LEMMA PromiseWithout ==
  \A s, X : Promise!Without(s, X) = Without(s, X)
BY DEF Promise!Without, Without, Promise!FoldLeft, FoldLeft, Promise!MapThenFoldSet, MapThenFoldSet,
       Promise!Max, Max

LEMMA PromiseToSet ==
  \A s : Promise!ToSet(s) = ToSet(s)
BY DEF Promise!ToSet, ToSet

LEMMA PromisePull ==
  \A f, X : Promise!Pull(f, X) = Pull(f, X)
BY PromiseWithout DEF Promise!Pull, Pull

LEMMA PromiseDetach ==
  \A f, X : Promise!Detach(f, X) = Detach(f, X)
BY PromisePull DEF Promise!Detach, Detach

LEMMA PromiseAround ==
  \A s, at, l : Promise!Around(s, at, l) = Around(s, at, l)
BY DEF Promise!Around, Around, Promise!SelectInSeq, SelectInSeq, Promise!Min, Min

LEMMA PromiseSplice ==
  \A f, at, l : Promise!Splice(f, at, l) = Splice(f, at, l)
BY PromiseAround DEF Promise!Splice, Splice

LEMMA PromiseUnder ==
  \A f, p, l : Promise!Under(f, p, l) = Under(f, p, l)
BY PromisePull, PromiseToSet DEF Promise!Under, Under

LEMMA PromiseFirstUnder ==
  \A f, p, l : Promise!FirstUnder(f, p, l) = FirstUnder(f, p, l)
BY PromisePull, PromiseToSet DEF Promise!FirstUnder, FirstUnder

LEMMA PromiseInFrontOf ==
  \A f, at, l : Promise!InFrontOf(f, at, l) = InFrontOf(f, at, l)
BY PromisePull, PromiseToSet, PromiseSplice DEF Promise!InFrontOf, InFrontOf

LEMMA PromiseBehind ==
  \A f, at, l : Promise!Behind(f, at, l) = Behind(f, at, l)
BY PromisePull, PromiseToSet, PromiseSplice DEF Promise!Behind, Behind

LEMMA PromiseHasParent ==
  \A f, n : Promise!HasParent(f, n) <=> HasParent(f, n)
BY DEF Promise!HasParent, HasParent, Promise!Contains, Contains

LEMMA PromiseEmptied ==
  \A f, p : Promise!Emptied(f, p) = Emptied(f, p)
BY PromiseDetach, PromiseToSet DEF Promise!Emptied, Emptied

\* The change of a call is its Effect.
LEMMA PromiseApplied ==
  ASSUME NEW name, NEW self, NEW arg, NEW f
  PROVE  Promise!Applied([name |-> name, self |-> self, arg |-> arg], f) = Effect(name, self, arg, f)
BY PromiseDetach, PromiseUnder, PromiseFirstUnder, PromiseInFrontOf, PromiseBehind, PromiseHasParent, PromiseEmptied
   DEF Promise!Applied, Effect, Placed, Parsed, One

-----------------------------------------------------------------------------
(* How far a call has come: the forest shown now, from the one it began with.*)

\* The children of n.
Kids(f, n) == ToSet(f.kids[n])

\* The forest that the nodes are added to.
Start(name, self, f) == IF name = "children=" THEN Emptied(f, self) ELSE f

\* What nl_node_add_nodes is told is what the call's name means.
Aimed(name, self, how, at, f) ==
  \/ name \in {"add_child", "children="} /\ how = "child" /\ at = self
  \/ name = "add_next_sibling" /\ how = "next" /\ at = self
  \/ name \in {"add_previous_sibling", "replace"} /\ how = "previous" /\ at = self
  \/ name = "prepend_child" /\ how = "child" /\ at = self /\ f.kids[self] = <<>>
  \/ name = "prepend_child" /\ how = "previous" /\ \E r : Cut(f.kids[self], <<>>, at, r)
  \/ name = "wrap" /\ how = "child" /\ at # self /\ f.kids[at] = <<>>

\* Where the next node goes: behind the last one added, or to the same place.
TargetOf(c) == IF c.how = "next" THEN c.cur ELSE c.at

\* The forest that the nodes of this call are added to.
StartOf(c, f) == Start(c.name, c.self, f)

\* self, how and at are those of the named method.
AimedOf(c, f) == c.self \in Node /\ Aimed(c.name, c.self, c.how, c.at, f)

\* The nodes of arg have been added.
Linked(c, arg, d, f) ==
  /\ AimedOf(c, f) /\ Fit(StartOf(c, f), c.at, arg)
  /\ d = Put(StartOf(c, f), c.how, c.at, arg)
  /\ c.name = "wrap" => c.src = "string" /\ c.self \notin ToSet(arg)

\* One node is about to be added; nothing has moved but what children= removed.
AtNode(c, d, f) ==
  /\ AimedOf(c, f) /\ c.name # "wrap" /\ d = StartOf(c, f)
  /\ \E x \in Node : c.arg = One(x) /\ x # c.at

\* A NodeSet is being added: the nodes before todo have been.
AtSet(c, d, f) ==
  /\ AimedOf(c, f) /\ Fit(StartOf(c, f), c.at, c.arg)
  /\ c.name = "wrap" => c.src = "string" /\ c.self \notin ToSet(c.arg)
  /\ \E done : /\ done \in Rows /\ c.arg = Cat(done, c.todo)
               /\ d = Put(StartOf(c, f), c.how, c.at, done)
               /\ AtEnd(c.how, c.at, done, TargetOf(c))

\* A String is being parsed into a DocumentFragment no one else has.
AtParse(c, d, f) ==
  /\ c.name = "parse" \/ AimedOf(c, f)
  /\ c.name = "wrap" => c.src = "string"
  /\ c.frag = Nil => d = StartOf(c, f)
  /\ c.frag # Nil => Detach(d, Kids(d, c.frag)) = StartOf(c, f)

\* The children of a fragment are being added: those in c.arg have been.
AtFragment(c, d, f) ==
  /\ AimedOf(c, f) /\ c.name # "wrap" /\ c.at # c.frag
  /\ \E g, X : /\ Fit(g, c.at, c.arg)
               /\ X \subseteq Kids(g, c.frag) /\ c.at \notin Kids(g, c.frag)
               /\ StartOf(c, f) = Detach(g, X)
               /\ d = Put(g, c.how, c.at, c.arg)
               /\ AtEnd(c.how, c.at, c.arg, TargetOf(c))

\* The children of the fragment are being taken out, each on its own.
AtRelease(c, d, f) ==
  /\ c.name = "parse" \/ (c.name = "wrap" /\ AimedOf(c, f) /\ c.src = "string")
  /\ Detach(d, ToSet(c.arg) \cup Kids(d, c.frag)) = f
  /\ \A x \in ToSet(c.arg) : Lone(d, x)

\* The argument of a children= that has still to be added.
Waiting(c, f) ==
  /\ AimedOf(c, f) /\ c.name = "children="
  /\ c.src = "node" => \E x \in Node : c.arg = One(x)
  /\ c.src = "fragment" => c.arg = <<>>

\* The children of self are being noted; nothing has moved.
AtCollect(c, d, f) ==
  /\ Waiting(c, f) /\ d = f
  /\ \E rest \in Rows : f.kids[c.self] = Cat(c.todo, rest) /\ c.cur = HeadOr(rest, Nil)

\* The children that were noted are being removed one by one.
AtClear(c, d, f) ==
  /\ Waiting(c, f)
  /\ \E X : /\ X \subseteq Kids(f, c.self) /\ d = Detach(f, X)
            /\ X \cup ToSet(c.todo) = Kids(f, c.self)

\* content= has parted the children and is about to add the text.
AtEmpty(c, d, f) ==
  /\ c.name = "content=" /\ Lone(d, c.cur)
  /\ \E X : X \subseteq Kids(f, c.self) /\ d = Detach(f, X)

\* replace has added the nodes and is about to remove self.
AtUnlink(c, d, f) == c.name = "replace" /\ d = Put(f, "previous", c.self, c.arg)

\* wrap has its wrapper and has not placed it.
AtPlace(c, d, f) ==
  /\ c.name = "wrap"
  /\ c.src # "string" => d = f
  /\ c.src = "string" =>
       /\ d = Put(f, "child", c.frag, c.arg) /\ Fit(f, c.frag, c.arg)
       /\ f.kids[c.frag] = <<>> /\ c.self \notin ToSet(c.arg)

\* wrap has placed its wrapper and is about to put self into it.
AtAdopt(c, d, f) ==
  /\ c.name = "wrap" /\ d = Placed(c.arg, c.self, f)
  /\ c.arg[1] = c.cur

\* All of the call has happened.
AtReturn(c, d, f) == c.name # "none" /\ d = Effect(c.name, c.self, c.arg, f)

\* Where the call is says what it has done.
Stage(c, d, f) ==
  /\ c.pc = "idle" => d = f
  /\ c.pc = "node" => AtNode(c, d, f)
  /\ c.pc = "nodeset" => AtSet(c, d, f)
  /\ c.pc = "parse" => AtParse(c, d, f)
  /\ c.pc = "fragment" => AtFragment(c, d, f)
  /\ c.pc = "release" => AtRelease(c, d, f)
  /\ c.pc = "collect" => AtCollect(c, d, f)
  /\ c.pc = "clear" => AtClear(c, d, f)
  /\ c.pc = "empty" => AtEmpty(c, d, f)
  /\ c.pc = "unlink" => AtUnlink(c, d, f)
  /\ c.pc = "place" => AtPlace(c, d, f)
  /\ c.pc = "adopt" => AtAdopt(c, d, f)
  /\ c.pc = "return" => AtReturn(c, d, f)

\* The tree is at this stage of the call between the forest settled shows and
\* the one the call promises.
Underway == \E d, f : Shows(dom, d) /\ Shows(settled, f) /\ Stage(call, d, f)

\* Each stage of its own.
LEMMA StageIs ==
  ASSUME NEW c, NEW d, NEW f
  PROVE  /\ c.pc = "idle" => (Stage(c, d, f) <=> d = f)
         /\ c.pc = "node" => (Stage(c, d, f) <=> AtNode(c, d, f))
         /\ c.pc = "nodeset" => (Stage(c, d, f) <=> AtSet(c, d, f))
         /\ c.pc = "parse" => (Stage(c, d, f) <=> AtParse(c, d, f))
         /\ c.pc = "fragment" => (Stage(c, d, f) <=> AtFragment(c, d, f))
         /\ c.pc = "release" => (Stage(c, d, f) <=> AtRelease(c, d, f))
         /\ c.pc = "collect" => (Stage(c, d, f) <=> AtCollect(c, d, f))
         /\ c.pc = "clear" => (Stage(c, d, f) <=> AtClear(c, d, f))
         /\ c.pc = "empty" => (Stage(c, d, f) <=> AtEmpty(c, d, f))
         /\ c.pc = "unlink" => (Stage(c, d, f) <=> AtUnlink(c, d, f))
         /\ c.pc = "place" => (Stage(c, d, f) <=> AtPlace(c, d, f))
         /\ c.pc = "adopt" => (Stage(c, d, f) <=> AtAdopt(c, d, f))
         /\ c.pc = "return" => (Stage(c, d, f) <=> AtReturn(c, d, f))
BY DEF Stage

\* The members of a list are nodes.
LEMMA ListNodes ==
  ASSUME NEW s \in Rows
  PROVE  ToSet(s) \in SUBSET Node
BY ListOfNodes

\* The children of a node are a list without repetition.
LEMMA KidsFacts ==
  ASSUME NEW f, Whole(f), NEW p \in Node
  PROVE  Orderly(f) /\ f.kids[p] \in Rows /\ IsInjective(f.kids[p]) /\ Kids(f, p) \in SUBSET Node
<1>1. Orderly(f)
  BY DEF Whole
<1> QED BY <1>1, RowFacts, ListNodes DEF Kids

\* Every node is in one row before anything is added.
LEMMA StartFacts ==
  ASSUME NEW f, Whole(f), NEW self \in Node, NEW name
  PROVE  Whole(Start(name, self, f)) /\ Orderly(Start(name, self, f))
<1>1. Kids(f, self) \in SUBSET Node
  BY KidsFacts
<1>2. Whole(Detach(f, Kids(f, self)))
  BY <1>1, DetachWhole
<1>3. Whole(Start(name, self, f))
  BY <1>2 DEF Start, Emptied, Kids
<1> QED BY <1>3 DEF Whole

\* Adding the nodes where the call aims is what the call promises.
LEMMA AimApplied ==
  ASSUME NEW f, Whole(f), NEW self \in Node, NEW name \in Names \ {"wrap", "replace"}, NEW how, NEW at,
         NEW arg, Aimed(name, self, how, at, f), Fit(Start(name, self, f), at, arg)
  PROVE  Put(Start(name, self, f), how, at, arg) = Effect(name, self, arg, f)
<1> DEFINE g == Start(name, self, f)
<1>1. Orderly(f) /\ arg \in Rows /\ at \in Node
  BY DEF Whole, Fit
<1>2. CASE name = "add_child"
  BY <1>2, UnderIs DEF Aimed, Start, Effect
<1>3. CASE name = "children="
  BY <1>3, UnderIs DEF Aimed, Start, Effect
<1>4. CASE name = "add_next_sibling"
  BY <1>4, BehindIs DEF Aimed, Start, Effect
<1>5. CASE name = "add_previous_sibling"
  BY <1>5, InFrontOfIs DEF Aimed, Start, Effect
<1>6. CASE name = "prepend_child"
  <2>1. g = f /\ Effect(name, self, arg, f) = FirstUnder(f, self, arg)
    BY <1>6 DEF Start, Effect
  <2>2. CASE how = "child" /\ at = self /\ f.kids[self] = <<>>
    BY <1>1, <2>1, <2>2, FirstUnderNone
  <2>3. CASE how = "previous" /\ \E r : Cut(f.kids[self], <<>>, at, r)
    <3>1. PICK r : Cut(f.kids[self], <<>>, at, r)
      BY <2>3
    <3>2. r \in Rows /\ f.kids[self] = Cat(One(at), r)
      <4>1. r \in Rows /\ f.kids[self] = Cat(<<>>, Cat(One(at), r)) /\ Cat(One(at), r) \in Rows
        BY <1>1, <3>1, OneFacts, CatFacts DEF Cut
      <4> QED BY <4>1, CatNone
    <3>3. Fit(f, at, arg)
      BY <2>1
    <3> QED BY <1>1, <2>1, <2>3, <3>2, <3>3, FirstUnderFirst
  <2> QED BY <1>6, <2>2, <2>3 DEF Aimed
<1> QED BY <1>2, <1>3, <1>4, <1>5, <1>6 DEF Aimed

\* The nodes have been added: nl_node_add_nodes returns.
LEMMA AddedStage ==
  ASSUME TypeOK, NEW d, NEW f, Whole(f), NEW arg, arg = call.arg, Linked(call, arg, d, f), Added(arg)
  PROVE  Stage(call', d, f)
<1> DEFINE c == call
<1>1. c \in Calls /\ AimedOf(c, f) /\ Fit(StartOf(c, f), c.at, arg) /\ d = Put(StartOf(c, f), c.how, c.at, arg)
  BY DEF TypeOK, Linked
<1>2. CASE c.name = "replace"
  <2>1. call' = [call EXCEPT !.pc = "unlink", !.arg = arg]
    BY <1>2 DEF Added
  <2>2. call'.pc = "unlink" /\ call'.name = "replace" /\ call'.self = c.self /\ call'.arg = arg
    BY <1>1, <1>2, <2>1 DEF Calls
  <2>3. d = Put(f, "previous", c.self, arg)
    BY <1>1, <1>2 DEF AimedOf, Aimed, StartOf, Start
  <2> QED BY <2>2, <2>3, StageIs DEF AtUnlink
<1>3. CASE c.name = "wrap"
  <2>1. call' = [call EXCEPT !.pc = "place", !.frag = call.at]
    BY <1>3 DEF Added
  <2>2. /\ call'.pc = "place" /\ call'.name = "wrap" /\ call'.self = c.self /\ call'.arg = arg
        /\ call'.frag = c.at /\ call'.src = c.src
    BY <1>1, <1>3, <2>1 DEF Calls
  <2>3. /\ d = Put(f, "child", c.at, arg) /\ f.kids[c.at] = <<>> /\ Fit(f, c.at, arg)
        /\ c.self \notin ToSet(arg) /\ c.src = "string"
    BY <1>1, <1>3 DEF AimedOf, Aimed, StartOf, Start, Linked
  <2> QED BY <2>2, <2>3, StageIs DEF AtPlace
<1>4. CASE c.name # "replace" /\ c.name # "wrap"
  <2>1. Finished(arg)
    BY <1>4 DEF Added
  <2>2. call'.pc = "return" /\ call'.name = c.name /\ call'.self = c.self /\ call'.arg = arg
    BY <2>1 DEF Finished, Finish, Idle
  <2>3. c.name \in Names \ {"wrap", "replace"} /\ c.name # "none" /\ c.self \in Node
    BY <1>1, <1>4 DEF Calls, AimedOf, Aimed
  <2>4. d = Effect(c.name, c.self, arg, f)
    BY <1>1, <2>3, AimApplied DEF AimedOf, StartOf
  <2> QED BY <2>2, <2>3, <2>4, StageIs DEF AtReturn
<1> QED BY <1>2, <1>3, <1>4

-----------------------------------------------------------------------------
(* The loops of nl_node_add_nodes.                                         *)

\* A list that is not empty: its first node, and the others.
LEMMA HeadTail ==
  ASSUME NEW s \in Rows, s # <<>>
  PROVE  Head(s) \in Node /\ Tail(s) \in Rows /\ s = Cat(One(Head(s)), Tail(s)) /\ Head(s) \in ToSet(s)
<1> DEFINE h == Head(s)
           r == Tail(s)
<1>1. h \in Node /\ r \in Rows
  BY HeadTailProperties DEF Rows
<1>2. s = <<h>> \o r
  BY SMT DEF Rows
<1>3. s = Cat(One(h), r)
  BY <1>2 DEF Cat, One
<1> HIDE DEF h, r
<1>4. ToSet(One(h)) = {h} /\ One(h) \in Rows
  BY <1>1, OneFacts
<1>5. ToSet(Cat(One(h), r)) = ToSet(One(h)) \cup ToSet(r)
  BY <1>1, <1>4, CatFacts
<1>6. h \in ToSet(s)
  BY <1>3, <1>4, <1>5
<1> QED BY <1>1, <1>3, <1>6 DEF h, r

\* Appending a node.
LEMMA AppendIs ==
  ASSUME NEW s \in Rows, NEW x \in Node
  PROVE  Append(s, x) = Cat(s, One(x))
BY AppendProperties DEF Rows, Cat, One

\* NodeMutation names the members of a sequence Members.
LEMMA MembersIs ==
  \A s : Members(s) = ToSet(s)
BY DEF Members, ToSet

\* and sequences without repetition Distinct.
LEMMA DistinctIs ==
  \A s : Distinct(s) <=> IsInjective(s)
BY DEF Distinct, IsInjective

\* The types that every step needs.
LEMMA CallTypes ==
  ASSUME TypeOK
  PROVE  /\ dom \in Tree /\ call.how \in How /\ call.arg \in Rows /\ call.todo \in Rows
         /\ call.name \in Names /\ call.self \in Link /\ call.at \in Link /\ call.cur \in Link
         /\ call.frag \in Link
BY DEF TypeOK, Calls, Positions, How, Rows

\* nl_node_add_nodes adds one node.
LEMMA AddNodeStage ==
  ASSUME IInv, NEW d, NEW f, Shows(dom, d), Shows(settled, f), Stage(call, d, f), AddNode
  PROVE  \E e : Shows(dom', e) /\ Stage(call', e, f)
<1> DEFINE g == StartOf(call, f)
           at == call.at
<1>1. AtNode(call, d, f)
  BY StageIs DEF AddNode
<1>2. PICK x \in Node : call.arg = One(x) /\ x # at
  BY <1>1 DEF AtNode
<1>3. AimedOf(call, f) /\ d = g /\ call.name # "wrap" /\ call.self \in Node
  BY <1>1 DEF AtNode, AimedOf
<1>4. call.cur = at /\ at \in Node /\ call.how \in How /\ TypeOK
  BY CallTypes DEF IInv, CallInv, NodeInv, AddNode, IsLive
<1>5. Target = at /\ call.arg[1] = x
  BY <1>2, <1>4 DEF Target, One
<1> DEFINE e == Put(d, call.how, at, One(x))
<1>6. Shows(dom', e)
  <2>1. dom' = Moved(dom, call.how, at, x)
    BY <1>5 DEF AddNode, MoveToTarget, Moved
  <2> QED BY <1>2, <1>4, <2>1, MovedShows
<1>7. Whole(f) /\ Orderly(g)
  BY <1>3, StartFacts DEF StartOf, Shows
<1>8. Fit(g, at, One(x))
  BY <1>2, <1>4, <1>7, OneFacts DEF Fit
<1> HIDE DEF g, at
<1>9. Linked(call, call.arg, e, f)
  BY <1>2, <1>3, <1>8 DEF Linked, g, at
<1>10. Stage(call', e, f)
  BY <1>4, <1>7, <1>9, AddedStage DEF AddNode
<1> QED BY <1>6, <1>10

\* nl_node_add_nodes adds the next node of a NodeSet.
LEMMA AddNextOfSetStage ==
  ASSUME IInv, NEW d, NEW f, Shows(dom, d), Shows(settled, f), Stage(call, d, f), AddNextOfSet
  PROVE  \E e : Shows(dom', e) /\ Stage(call', e, f)
<1> DEFINE g == StartOf(call, f)
           at == call.at
           to == Target
           x == Head(call.todo)
           how == call.how
<1>1. AtSet(call, d, f)
  BY StageIs DEF AddNextOfSet
<1>2. PICK done : /\ done \in Rows /\ call.arg = Cat(done, call.todo)
                  /\ d = Put(g, how, at, done)
                  /\ AtEnd(how, at, done, to)
  BY <1>1 DEF AtSet, TargetOf, Target
<1>3. TypeOK /\ how \in How /\ call.todo \in Rows /\ call.todo # <<>> /\ call.arg \in Rows
  BY CallTypes DEF IInv, AddNextOfSet
<1>4. x \in Node /\ Tail(call.todo) \in Rows /\ call.todo = Cat(One(x), Tail(call.todo)) /\ x \in ToSet(call.todo)
  BY <1>3, HeadTail
<1>5. at \in Node /\ to \in Node
  BY DEF IInv, CallInv, SetInv, AddNextOfSet, IsLive, Target
<1>6. Fit(g, at, call.arg)
  BY <1>1 DEF AtSet
<1>7. /\ IsInjective(done) /\ x \notin ToSet(done) /\ x # at /\ Fit(g, at, done)
  <2>1. /\ ToSet(call.arg) = ToSet(done) \cup ToSet(call.todo)
        /\ IsInjective(call.arg) <=> IsInjective(done) /\ IsInjective(call.todo) /\ ToSet(done) \cap ToSet(call.todo) = {}
    BY <1>2, <1>3, CatFacts
  <2> QED BY <1>2, <1>4, <1>6, <2>1 DEF Fit
<1>8. x # to
  <2>1. to \in ToSet(done) \cup {at}
    BY <1>2, <1>5, AtEndMember
  <2> QED BY <1>7, <2>1
<1> DEFINE e == Put(d, how, to, One(x))
<1>9. Shows(dom', e)
  <2>1. dom' = Moved(dom, how, to, x)
    BY DEF AddNextOfSet, MoveToTarget, Moved
  <2> HIDE DEF how, to, x
  <2> QED BY <1>3, <1>4, <1>5, <1>8, <2>1, MovedShows
<1>10. e = Put(g, how, at, Cat(done, One(x)))
  <2> HIDE DEF how, to, x, at, g
  <2> QED BY <1>2, <1>3, <1>4, <1>5, <1>7, PutAgain
<1>11. call.arg = Cat(Cat(done, One(x)), Tail(call.todo)) /\ Cat(done, One(x)) \in Rows
  <2> HIDE DEF x
  <2>1. One(x) \in Rows
    BY <1>4, OneFacts
  <2>2. Cat(Cat(done, One(x)), Tail(call.todo)) = Cat(done, Cat(One(x), Tail(call.todo)))
    BY <1>2, <1>4, <2>1, CatAssoc
  <2> QED BY <1>2, <1>4, <2>1, <2>2, CatFacts
<1> DEFINE c == call'
<1>12. /\ c.pc = "nodeset" /\ c.name = call.name /\ c.self = call.self /\ c.how = how /\ c.at = at /\ c.src = call.src
       /\ c.arg = call.arg /\ c.todo = Tail(call.todo) /\ c.cur = x
  BY <1>3 DEF AddNextOfSet, TypeOK, Calls
<1>13. AtEnd(how, at, Cat(done, One(x)), TargetOf(c))
  <2>1. TargetOf(c) = IF how = "next" THEN x ELSE to
    BY <1>12 DEF TargetOf, Target
  <2> HIDE DEF how, to, x, at, c
  <2> QED BY <1>2, <1>4, <1>5, <2>1, AtEndNext
<1>14. AtSet(c, e, f)
  <2>1. StartOf(c, f) = g /\ (AimedOf(c, f) <=> AimedOf(call, f))
    BY <1>12 DEF StartOf, AimedOf
  <2>2. AimedOf(call, f) /\ (call.name = "wrap" => call.src = "string" /\ call.self \notin ToSet(call.arg))
    BY <1>1 DEF AtSet
  <2> HIDE DEF c, e, g, how, at, x, to
  <2> QED BY <1>6, <1>10, <1>11, <1>12, <1>13, <2>1, <2>2 DEF AtSet
<1>15. Stage(c, e, f)
  <2> HIDE DEF c, e
  <2> QED BY <1>12, <1>14, StageIs
<1> QED BY <1>9, <1>15

\* The NodeSet has been added.
LEMMA SetExhaustedStage ==
  ASSUME IInv, NEW d, NEW f, Shows(dom, d), Shows(settled, f), Stage(call, d, f), SetExhausted
  PROVE  \E e : Shows(dom', e) /\ Stage(call', e, f)
<1>1. AtSet(call, d, f)
  BY StageIs DEF SetExhausted
<1>2. PICK done : /\ done \in Rows /\ call.arg = Cat(done, call.todo)
                  /\ d = Put(StartOf(call, f), call.how, call.at, done)
  BY <1>1 DEF AtSet
<1>3. call.arg = done
  BY <1>2, CatNone DEF SetExhausted
<1>4. Linked(call, call.arg, d, f)
  BY <1>1, <1>2, <1>3 DEF AtSet, Linked
<1>5. Stage(call', d, f)
  BY <1>4, AddedStage DEF SetExhausted, IInv, Shows
<1> QED BY <1>5 DEF SetExhausted

\* The first child of a node that has one.
LEMMA FirstKid ==
  ASSUME NEW t, NEW f, Shows(t, f), NEW p \in Node
  PROVE  /\ t.first[p] # Nil => t.first[p] \in Node /\ t.first[p] \in Kids(f, p)
         /\ t.first[p] = Nil => Kids(f, p) = {} /\ f.kids[p] = <<>>
<1>1. CASE t.first[p] # Nil
  <2>1. PICK r : Cut(f.kids[p], <<>>, t.first[p], r)
    BY <1>1, FirstShown
  <2> QED BY <1>1, <2>1, CutFacts DEF Kids
<1>2. CASE t.first[p] = Nil
  BY <1>2, FirstShown, EmptyList DEF Kids
<1> QED BY <1>1, <1>2

\* nl_node_add_nodes adds the first child of the fragment.
LEMMA AddFirstOfFragmentStage ==
  ASSUME IInv, NEW d, NEW f, Shows(dom, d), Shows(settled, f), Stage(call, d, f), AddFirstOfFragment
  PROVE  \E e : Shows(dom', e) /\ Stage(call', e, f)
<1> DEFINE at == call.at
           to == Target
           how == call.how
           l == call.arg
           frag == call.frag
           x == dom.first[frag]
           c == call'
<1>1. AtFragment(call, d, f)
  BY StageIs DEF AddFirstOfFragment
<1>2. PICK g, X : /\ Fit(g, at, l)
                  /\ X \subseteq Kids(g, frag) /\ at \notin Kids(g, frag)
                  /\ StartOf(call, f) = Detach(g, X)
                  /\ d = Put(g, how, at, l)
                  /\ AtEnd(how, at, l, to)
  BY <1>1 DEF AtFragment, TargetOf, Target
<1>3. TypeOK /\ how \in How /\ l \in Rows /\ at \in Node /\ to \in Node /\ frag \in Node /\ at # frag
  BY <1>1, CallTypes DEF IInv, CallInv, FragmentInv, AddFirstOfFragment, IsLive, Target, AtFragment
<1>4. x \in Node /\ x \in Kids(d, frag)
  BY <1>3, FirstKid DEF AddFirstOfFragment
<1>5. /\ c.pc = "fragment" /\ c.name = call.name /\ c.self = call.self /\ c.how = how /\ c.at = at /\ c.src = call.src
      /\ c.frag = frag /\ c.arg = Append(l, x) /\ c.cur = x
  BY <1>3 DEF AddFirstOfFragment, TypeOK, Calls
<1>6. dom' = Moved(dom, how, to, x)
  BY DEF AddFirstOfFragment, MoveToTarget, Moved
<1>7. StartOf(c, f) = StartOf(call, f) /\ AimedOf(c, f) /\ call.name # "wrap"
  BY <1>1, <1>5 DEF StartOf, AimedOf, AtFragment
<1>8. TargetOf(c) = IF how = "next" THEN x ELSE to
  BY <1>5 DEF TargetOf, Target
<1> HIDE DEF at, to, how, l, frag, x, c
<1>9. x \in Kids(g, frag) /\ x \notin ToSet(l)
  <2>1. d.kids[frag] = Without(g.kids[frag], ToSet(l)) /\ g.kids[frag] \in Rows
    <3>1. g.kids[frag] \in Rows
      BY <1>2, <1>3, RowFacts DEF Fit
    <3> QED BY <1>2, <1>3, <3>1, PutChildKids DEF Kids
  <2>2. ToSet(Without(g.kids[frag], ToSet(l))) = ToSet(g.kids[frag]) \ ToSet(l)
    BY <2>1, WithoutList
  <2> QED BY <1>4, <2>1, <2>2 DEF Kids
<1>10. x # at /\ x # to
  <2>1. to \in ToSet(l) \cup {at}
    BY <1>2, <1>3, AtEndMember
  <2> QED BY <1>2, <1>9, <2>1
<1> DEFINE e == Put(d, how, to, One(x))
           m == Cat(l, One(x))
<1>11. Shows(dom', e)
  BY <1>3, <1>4, <1>6, <1>10, MovedShows
<1>12. e = Put(g, how, at, m)
  BY <1>2, <1>3, <1>4, <1>9, <1>10, PutAgain
<1>13. c.arg = m /\ Fit(g, at, m)
  <2>1. One(x) \in Rows /\ ToSet(One(x)) = {x} /\ IsInjective(One(x))
    BY <1>4, OneFacts
  <2>2. /\ m \in Rows /\ ToSet(m) = ToSet(l) \cup {x}
        /\ IsInjective(m) <=> IsInjective(l) /\ ToSet(l) \cap {x} = {}
    BY <1>3, <2>1, CatFacts
  <2>3. c.arg = m
    BY <1>3, <1>4, <1>5, AppendIs
  <2> HIDE DEF m
  <2> QED BY <1>2, <1>9, <1>10, <2>2, <2>3 DEF Fit
<1>14. AtEnd(how, at, m, TargetOf(c))
  BY <1>2, <1>3, <1>4, <1>8, AtEndNext
<1> HIDE DEF e, m
<1>15. AtFragment(c, e, f)
  BY <1>2, <1>3, <1>5, <1>7, <1>12, <1>13, <1>14 DEF AtFragment
<1>16. Stage(c, e, f)
  BY <1>5, <1>15, StageIs
<1> QED BY <1>11, <1>16 DEF c

\* The fragment is empty.
LEMMA FragmentExhaustedStage ==
  ASSUME IInv, NEW d, NEW f, Shows(dom, d), Shows(settled, f), Stage(call, d, f), FragmentExhausted
  PROVE  \E e : Shows(dom', e) /\ Stage(call', e, f)
<1> DEFINE at == call.at
           how == call.how
           l == call.arg
           frag == call.frag
           s == StartOf(call, f)
<1>1. AtFragment(call, d, f)
  BY StageIs DEF FragmentExhausted
<1>2. PICK g, X : /\ Fit(g, at, l)
                  /\ X \subseteq Kids(g, frag) /\ at \notin Kids(g, frag)
                  /\ s = Detach(g, X)
                  /\ d = Put(g, how, at, l)
  BY <1>1 DEF AtFragment
<1>3. TypeOK /\ how \in How /\ l \in Rows /\ at \in Node /\ frag \in Node /\ at # frag
  BY <1>1, CallTypes DEF IInv, CallInv, FragmentInv, FragmentExhausted, IsLive, AtFragment
<1>4. Kids(d, frag) = {}
  BY <1>3, FirstKid DEF FragmentExhausted
<1>5. Whole(f) /\ AimedOf(call, f) /\ call.name # "wrap" /\ Orderly(s)
  <2>1. Whole(f) /\ AimedOf(call, f) /\ call.name # "wrap" /\ call.self \in Node
    BY <1>1 DEF AtFragment, Shows, AimedOf
  <2> QED BY <2>1, StartFacts DEF StartOf
<1>6. Fit(s, at, l)
  BY <1>2, <1>5 DEF Fit
<1> HIDE DEF at, how, l, frag, s
<1>7. X \subseteq ToSet(l) /\ X \in SUBSET Node /\ Orderly(g)
  <2>1. g.kids[frag] \in Rows /\ Orderly(g)
    BY <1>2, <1>3, RowFacts DEF Fit
  <2>2. d.kids[frag] = Without(g.kids[frag], ToSet(l))
    BY <1>2, <1>3, PutChildKids DEF Kids
  <2>3. ToSet(Without(g.kids[frag], ToSet(l))) = ToSet(g.kids[frag]) \ ToSet(l)
    BY <2>1, WithoutList
  <2>4. ToSet(g.kids[frag]) \in SUBSET Node
    BY <2>1, ListNodes
  <2> QED BY <1>2, <1>4, <2>1, <2>2, <2>3, <2>4 DEF Kids
<1>8. Pull(s, ToSet(l)) = Pull(g, ToSet(l))
  BY <1>2, <1>7, PullDetach
<1>9. d = Put(s, how, at, l)
  BY <1>2, <1>8, PutOfPull
<1>10. Linked(call, call.arg, d, f)
  BY <1>5, <1>6, <1>9 DEF Linked, at, how, l, s
<1>11. Stage(call', d, f)
  BY <1>3, <1>5, <1>10, AddedStage DEF FragmentExhausted
<1> QED BY <1>11 DEF FragmentExhausted

\* replace removes the node itself.
LEMMA UnlinkStage ==
  ASSUME IInv, NEW d, NEW f, Shows(dom, d), Shows(settled, f), Stage(call, d, f), Unlink
  PROVE  \E e : Shows(dom', e) /\ Stage(call', e, f)
<1> DEFINE e == Detach(d, {call.self})
<1>1. AtUnlink(call, d, f) /\ call.self \in Node
  BY StageIs DEF Unlink, IInv, CallInv, UnlinkInv
<1>2. Shows(dom', e)
  BY <1>1, RemoveShows DEF Unlink
<1>3. call'.pc = "return" /\ call'.name = "replace" /\ call'.self = call.self /\ call'.arg = call.arg
  BY <1>1 DEF Unlink, Finished, Finish, Idle, AtUnlink
<1>4. e = Effect("replace", call.self, call.arg, f)
  BY <1>1, InFrontOfIs DEF AtUnlink, Effect
<1>5. Stage(call', e, f)
  BY <1>3, <1>4, StageIs DEF AtReturn
<1> QED BY <1>2, <1>5

-----------------------------------------------------------------------------
(* nl_node_parse_fragment and nl_node_parse.                               *)

\* Detaching no nodes changes nothing.
LEMMA DetachNothing ==
  ASSUME NEW f, Whole(f)
  PROVE  Detach(f, {}) = f
BY DetachLone

\* What nothing is above is not a child of it.
LEMMA NotUnder ==
  ASSUME NEW t, NEW f, Shows(t, f), NEW n \in Node, NEW y \in Node, NoneAbove(t, {n}, y)
  PROVE  y # n /\ y \notin Kids(f, n)
<1>1. t \in Tree
  BY DEF Shows
<1>2. y # n /\ t.parent[y] # n
  BY <1>1, NoneAboveSelf, NilAssumption
<1> QED BY <1>2, ParentShown DEF Kids

\* A slot that is free is linked to nothing.
LEMMA UnusedShown ==
  ASSUME IInv, NEW d, Shows(dom, d), NEW u \in Unused
  PROVE  u \in Node /\ Lone(d, u) /\ d.kids[u] = <<>> /\ Kids(d, u) = {}
<1>1. u \in Node /\ Isolated(dom, u)
  BY DEF IInv, ForestInv, UnusedIsolated, Unused
<1> QED BY <1>1, IsolatedShown, EmptyList DEF Kids

\* The DocumentFragment of the String is made.
LEMMA ParseRootStage ==
  ASSUME IInv, NEW d, NEW f, Shows(dom, d), Shows(settled, f), Stage(call, d, f), ParseRoot
  PROVE  \E e : Shows(dom', e) /\ Stage(call', e, f)
<1> DEFINE c == call'
<1>1. AtParse(call, d, f) /\ d = StartOf(call, f)
  BY StageIs DEF ParseRoot, AtParse
<1>2. PICK r \in Unused : c = [call EXCEPT !.frag = r]
  BY DEF ParseRoot
<1>3. /\ c.pc = "parse" /\ c.name = call.name /\ c.self = call.self /\ c.how = call.how /\ c.at = call.at
      /\ c.src = call.src /\ c.frag = r
  BY <1>2 DEF ParseRoot, IInv, TypeOK, Calls
<1>4. Kids(d, r) = {} /\ r # Nil
  BY UnusedShown, NilAssumption
<1>5. Detach(d, Kids(d, r)) = d
  BY <1>4, DetachNothing DEF Shows
<1>6. StartOf(c, f) = StartOf(call, f) /\ (AimedOf(c, f) <=> AimedOf(call, f))
  BY <1>3 DEF StartOf, AimedOf
<1> HIDE DEF c
<1>7. AtParse(c, d, f)
  BY <1>1, <1>3, <1>4, <1>5, <1>6 DEF AtParse
<1>8. Stage(c, d, f)
  BY <1>3, <1>7, StageIs
<1> QED BY <1>8 DEF ParseRoot, c

\* One more node is parsed into it.
LEMMA ParseNodeStage ==
  ASSUME IInv, NEW d, NEW f, Shows(dom, d), Shows(settled, f), Stage(call, d, f), ParseNode
  PROVE  \E e : Shows(dom', e) /\ Stage(call', e, f)
<1> DEFINE c == call'
           frag == call.frag
           Y == Kids(d, frag)
<1>1. AtParse(call, d, f) /\ frag # Nil
  BY StageIs DEF ParseNode
<1>2. PICK u \in Unused : /\ dom' = InsertChild(dom, frag, u)
                          /\ c = [call EXCEPT !.todo = Append(call.todo, u)]
  BY DEF ParseNode
<1>3. /\ c.pc = "parse" /\ c.name = call.name /\ c.self = call.self /\ c.how = call.how /\ c.at = call.at
      /\ c.src = call.src /\ c.frag = frag
  BY <1>2 DEF ParseNode, IInv, TypeOK, Calls
<1>4. frag \in Node /\ role[frag] = "scratch" /\ dom.parent[frag] = Nil
  BY <1>1 DEF IInv, CallInv, ParseInv, ParseNode, IsScratch, Loose
<1>5. u \in Node /\ Lone(d, u) /\ u # frag /\ Whole(d) /\ Orderly(d)
  BY <1>4, UnusedShown DEF Unused, Shows, Whole
<1> DEFINE e == Put(d, "child", frag, One(u))
<1>6. Ready(d, frag, u) /\ Shows(dom', e)
  <2>1. Ready(d, frag, u)
    BY <1>4, <1>5 DEF Ready
  <2> QED BY <1>2, <2>1, InsertChildShows
<1>7. Y \in SUBSET Node /\ frag \notin Y
  BY <1>4, <1>5, KidsFacts, ParentShown, NilAssumption DEF Kids
<1>8. Fit(d, frag, One(u)) /\ ToSet(One(u)) = {u} /\ One(u) \in Rows
  BY <1>6, ReadyFacts
<1>9. Kids(e, frag) = Y \cup {u}
  <2>1. Room(Pull(d, {u}), frag, One(u))
    BY <1>8, FitFree
  <2>2. e.kids[frag] = Cat(Pull(d, {u}).kids[frag], One(u))
    BY <1>4, <1>8, <2>1, PlaceFree DEF Put, How
  <2>3. Pull(d, {u}).kids[frag] = Without(d.kids[frag], {u})
    BY <1>4, <1>5, PullFacts
  <2>4. d.kids[frag] \in Rows
    BY <1>4, <1>5, KidsFacts
  <2>5. Without(d.kids[frag], {u}) \in Rows /\ ToSet(Without(d.kids[frag], {u})) = ToSet(d.kids[frag]) \ {u}
    BY <2>4, WithoutList
  <2>6. ToSet(e.kids[frag]) = ToSet(Without(d.kids[frag], {u})) \cup {u}
    BY <1>8, <2>2, <2>3, <2>5, CatFacts
  <2> QED BY <2>5, <2>6 DEF Kids
<1>10. Detach(e, Kids(e, frag)) = StartOf(call, f)
  <2>1. Pull(e, Y \cup {u}) = Pull(d, Y \cup {u})
    BY <1>4, <1>5, <1>7, <1>8, PullPut DEF How
  <2>2. Detach(e, Y \cup {u}) = Detach(d, Y \cup {u})
    BY <2>1, DetachOfPull
  <2>3. Detach(Detach(d, {u}), Y) = Detach(d, {u} \cup Y)
    BY <1>5, <1>7, DetachTwice
  <2>4. Detach(d, {u}) = d
    BY <1>5, DetachLone
  <2>5. Detach(d, Y) = StartOf(call, f)
    BY <1>1 DEF AtParse
  <2>6. {u} \cup Y = Y \cup {u}
    OBVIOUS
  <2> HIDE DEF Y, e
  <2> QED BY <1>9, <2>2, <2>3, <2>4, <2>5, <2>6
<1>11. StartOf(c, f) = StartOf(call, f) /\ (AimedOf(c, f) <=> AimedOf(call, f))
  BY <1>3 DEF StartOf, AimedOf
<1> HIDE DEF c, e, frag
<1>12. AtParse(c, e, f)
  BY <1>1, <1>3, <1>10, <1>11 DEF AtParse
<1>13. Stage(c, e, f)
  BY <1>3, <1>12, StageIs
<1> QED BY <1>6, <1>13 DEF c

\* The String has been parsed.
LEMMA ParseDoneStage ==
  ASSUME IInv, NEW d, NEW f, Shows(dom, d), Shows(settled, f), Stage(call, d, f), ParseDone
  PROVE  \E e : Shows(dom', e) /\ Stage(call', e, f)
<1> DEFINE c == call'
           frag == call.frag
           X == Kids(d, frag)
           at == call.at
           how == call.how
<1>1. AtParse(call, d, f) /\ frag # Nil
  BY StageIs DEF ParseDone
<1>2. Detach(d, X) = StartOf(call, f)
  BY <1>1 DEF AtParse
<1>3. /\ c.name = call.name /\ c.self = call.self /\ c.how = how /\ c.at = at
      /\ c.src = call.src /\ c.frag = frag /\ c.arg = call.arg /\ c.cur = call.cur
      /\ c.pc = IF call.name \in {"parse", "wrap"} THEN "release" ELSE "fragment"
  BY DEF ParseDone, IInv, TypeOK, Calls
<1>4. call.arg = <<>> /\ call.cur = at /\ at \in Node /\ frag \in Node /\ at # frag /\ at \notin X /\ how \in How
  <2>1. /\ call.arg = <<>> /\ call.cur = at /\ at \in Node /\ frag \in Node /\ NoneAbove(dom, {frag}, at)
        /\ how \in How
    BY <1>1, CallTypes DEF IInv, CallInv, ParseInv, ParseDone, IsScratch, IsLive
  <2> QED BY <2>1, NotUnder
<1>5. StartOf(c, f) = StartOf(call, f) /\ (AimedOf(c, f) <=> AimedOf(call, f))
  BY <1>3 DEF StartOf, AimedOf
<1>6. Whole(d) /\ Orderly(d) /\ ToSet(<<>>) = {}
  BY EmptyList DEF Shows, Whole
<1>7. dom' = dom
  BY DEF ParseDone
<1> HIDE DEF c, frag, X, at, how
<1>8. CASE call.name \in {"parse", "wrap"}
  <2>1. StartOf(call, f) = f
    BY <1>8 DEF StartOf, Start
  <2>2. Detach(d, ToSet(c.arg) \cup Kids(d, c.frag)) = f
    BY <1>2, <1>3, <1>4, <1>6, <2>1 DEF X
  <2>3. AtRelease(c, d, f)
    BY <1>1, <1>3, <1>4, <1>5, <1>6, <1>8, <2>2 DEF AtRelease, AtParse
  <2>4. Stage(c, d, f)
    BY <1>3, <1>8, <2>3, StageIs
  <2> QED BY <1>7, <2>4 DEF c
<1>9. CASE call.name \notin {"parse", "wrap"}
  <2>1. Fit(d, at, <<>>)
    BY <1>4, <1>6, CatNone, EmptyList DEF Fit
  <2>2. d = Put(d, how, at, <<>>)
    BY <1>4, <1>6, PutNone
  <2>3. AtEnd(how, at, <<>>, TargetOf(c))
    <3>1. TargetOf(c) = at
      BY <1>3, <1>4 DEF TargetOf
    <3> QED BY <1>4, <3>1, AtEndFirst
  <2>4. StartOf(c, f) = Detach(d, X) /\ c.arg = <<>> /\ AimedOf(c, f) /\ c.name # "wrap"
    BY <1>1, <1>2, <1>3, <1>4, <1>5, <1>9 DEF AtParse
  <2>5. /\ Fit(d, c.at, c.arg) /\ X \subseteq Kids(d, c.frag) /\ c.at \notin Kids(d, c.frag)
        /\ d = Put(d, c.how, c.at, c.arg) /\ AtEnd(c.how, c.at, c.arg, TargetOf(c)) /\ c.at # c.frag
    BY <1>3, <1>4, <2>1, <2>2, <2>3 DEF X
  <2>6. AtFragment(c, d, f)
    BY <2>4, <2>5 DEF AtFragment
  <2>7. Stage(c, d, f)
    BY <1>3, <1>9, <2>6, StageIs
  <2> QED BY <1>7, <2>7 DEF c
<1> QED BY <1>8, <1>9

\* One more child of the fragment is taken out.
LEMMA ReleaseFirstStage ==
  ASSUME IInv, NEW d, NEW f, Shows(dom, d), Shows(settled, f), Stage(call, d, f), ReleaseFirst
  PROVE  \E e : Shows(dom', e) /\ Stage(call', e, f)
<1> DEFINE c == call'
           frag == call.frag
           l == call.arg
           x == dom.first[frag]
           Y == Kids(d, frag)
           e == Detach(d, {x})
<1>1. AtRelease(call, d, f)
  BY StageIs DEF ReleaseFirst
<1>2. Detach(d, ToSet(l) \cup Y) = f /\ \A y \in ToSet(l) : Lone(d, y)
  BY <1>1 DEF AtRelease
<1>3. l \in Rows /\ frag \in Node /\ Whole(d) /\ Orderly(d)
  BY CallTypes DEF IInv, CallInv, ReleaseInv, ReleaseFirst, IsScratch, Shows, Whole
<1>4. x \in Node /\ x \in Y /\ Y \in SUBSET Node
  BY <1>3, FirstKid, KidsFacts DEF ReleaseFirst
<1>5. Shows(dom', e)
  BY <1>4, RemoveShows DEF ReleaseFirst
<1>6. /\ c.pc = "release" /\ c.name = call.name /\ c.self = call.self /\ c.how = call.how /\ c.at = call.at
      /\ c.src = call.src /\ c.frag = frag /\ c.arg = Append(l, x)
  BY DEF ReleaseFirst, IInv, TypeOK, Calls
<1> HIDE DEF c, frag, x, l
<1>7. ToSet(c.arg) = ToSet(l) \cup {x}
  <2>1. One(x) \in Rows /\ ToSet(One(x)) = {x}
    BY <1>4, OneFacts
  <2>2. c.arg = Cat(l, One(x))
    BY <1>3, <1>4, <1>6, AppendIs
  <2> QED BY <1>3, <2>1, <2>2, CatFacts
<1>8. Kids(e, frag) = Y \ {x}
  <2>1. e.kids[frag] = Without(d.kids[frag], {x})
    BY <1>3, <1>4, DetachFacts
  <2> QED BY <1>3, <2>1, KidsFacts, WithoutList DEF Kids
<1>9. Detach(e, ToSet(c.arg) \cup Kids(e, c.frag)) = f
  <2> DEFINE Z == ToSet(l) \cup Y
  <2>1. Z \in SUBSET Node
    BY <1>3, <1>4, ListNodes
  <2>2. ToSet(c.arg) \cup Kids(e, c.frag) = Z
    BY <1>4, <1>6, <1>7, <1>8
  <2>3. Detach(e, Z) = Detach(d, {x} \cup Z) /\ {x} \cup Z = Z
    BY <1>3, <1>4, <2>1, DetachTwice
  <2> HIDE DEF Z, e, Y
  <2> QED BY <1>2, <2>2, <2>3 DEF Z
<1>10. \A y \in ToSet(c.arg) : Lone(e, y)
  <2> TAKE y \in ToSet(c.arg)
  <2>1. y \in Node /\ (Lone(d, y) \/ y \in {x})
    BY <1>2, <1>3, <1>4, <1>7, ListNodes
  <2> QED BY <1>3, <1>4, <2>1, DetachKeepsLone
<1>11. call.name = "parse" \/ (call.name = "wrap" /\ AimedOf(c, f) /\ c.src = "string")
  BY <1>1, <1>6 DEF AtRelease, AimedOf
<1> HIDE DEF e
<1>12. AtRelease(c, e, f)
  BY <1>6, <1>9, <1>10, <1>11 DEF AtRelease
<1>13. Stage(c, e, f)
  BY <1>6, <1>12, StageIs
<1> QED BY <1>5, <1>13 DEF c

\* All of them have been.
LEMMA ReleaseDoneStage ==
  ASSUME IInv, NEW d, NEW f, Shows(dom, d), Shows(settled, f), Stage(call, d, f), ReleaseDone
  PROVE  \E e : Shows(dom', e) /\ Stage(call', e, f)
<1> DEFINE c == call'
           l == call.arg
           at == call.at
<1>1. AtRelease(call, d, f) /\ TypeOK
  BY StageIs DEF ReleaseDone, IInv
<1>2. l \in Rows /\ call.frag \in Node /\ Whole(d)
  BY CallTypes DEF IInv, CallInv, ReleaseInv, ReleaseDone, IsScratch, Shows
<1>3. d = f
  <2>1. Kids(d, call.frag) = {}
    BY <1>2, FirstKid DEF ReleaseDone
  <2>2. Detach(d, ToSet(l)) = f
    BY <1>1, <2>1 DEF AtRelease
  <2>3. Detach(d, ToSet(l)) = d
    BY <1>1, <1>2, ListNodes, DetachLone DEF AtRelease
  <2> QED BY <2>2, <2>3
<1>4. dom' = dom
  BY DEF ReleaseDone
<1>5. CASE call.name = "wrap"
  <2>1. /\ c.pc = "nodeset" /\ c.name = call.name /\ c.self = call.self /\ c.how = call.how /\ c.at = at
        /\ c.src = call.src /\ c.arg = l /\ c.todo = l /\ c.cur = call.cur
    BY <1>1, <1>5 DEF ReleaseDone, TypeOK, Calls
  <2>2. AimedOf(call, f) /\ call.src = "string" /\ call.how = "child" /\ call.name # "children="
    BY <1>1, <1>5 DEF AtRelease, AimedOf, Aimed
  <2>3. AimedOf(c, f) /\ StartOf(c, f) = f /\ TargetOf(c) = at
    BY <2>1, <2>2 DEF AimedOf, StartOf, Start, TargetOf
  <2>4. /\ Distinct(l) /\ at \in Node /\ at \notin ToSet(l)
        /\ call.self \in Node /\ call.self \notin ToSet(l)
    <3>1. /\ Distinct(l) /\ AllMovable(l) /\ role[at] = "fragment" /\ IsLive(at) /\ IsLive(call.self)
          /\ NoneAbove(dom, {at} \cup ({call.frag} \cup Members(l)), call.self)
      BY <1>5 DEF IInv, CallInv, ReleaseInv, ReleaseDone, WrapInv
    <3>2. at \in Node /\ call.self \in Node /\ \A x \in Members(l) : role[x] = "node"
      BY <3>1 DEF IsLive, AllMovable, Members
    <3>3. call.self \notin Members(l)
      BY <1>1, <3>1, <3>2, NoneAboveSelf DEF TypeOK
    <3> QED BY <3>1, <3>2, <3>3, MembersIs
  <2>5. IsInjective(l) /\ Orderly(f)
    BY <2>4, DistinctIs DEF Shows, Whole
  <2>6. Fit(f, at, l)
    BY <1>2, <2>4, <2>5 DEF Fit
  <2>7. <<>> \in Rows /\ l = Cat(<<>>, l) /\ d = Put(f, "child", at, <<>>) /\ AtEnd("child", at, <<>>, at)
    BY <1>2, <1>3, <2>4, <2>5, CatNone, PutNone, AtEndFirst DEF How
  <2> HIDE DEF c, l, at
  <2>8. AtSet(c, d, f)
    BY <2>1, <2>2, <2>3, <2>4, <2>6, <2>7 DEF AtSet
  <2>9. Stage(c, d, f)
    BY <2>1, <2>8, StageIs
  <2> QED BY <1>4, <2>9 DEF c
<1>6. CASE call.name # "wrap"
  <2>1. c.pc = "return" /\ c.name = "parse" /\ c.self = call.self /\ c.arg = l
    BY <1>1, <1>6 DEF ReleaseDone, Finished, Finish, Idle, AtRelease
  <2>2. d = Effect("parse", call.self, l, f)
    BY <1>3 DEF Effect
  <2> HIDE DEF c
  <2>3. Stage(c, d, f)
    BY <2>1, <2>2, StageIs DEF AtReturn
  <2> QED BY <1>4, <2>3 DEF c
<1> QED BY <1>5, <1>6

-----------------------------------------------------------------------------
(* children= and content=.                                                 *)

\* One more child is noted.
LEMMA CollectChildStage ==
  ASSUME IInv, NEW d, NEW f, Shows(dom, d), Shows(settled, f), Stage(call, d, f), CollectChild
  PROVE  \E e : Shows(dom', e) /\ Stage(call', e, f)
<1> DEFINE c == call'
           x == call.cur
           z == <<>>
           s == call.todo
           k == f.kids[call.self]
<1>1. AtCollect(call, d, f) /\ TypeOK
  BY StageIs DEF CollectChild, IInv
<1>2. PICK rest \in Rows : k = Cat(s, rest) /\ x = HeadOr(rest, Nil)
  BY <1>1 DEF AtCollect
<1>3. d = f /\ Waiting(call, f) /\ call.self \in Node /\ x # Nil /\ s \in Rows
  BY <1>1, CallTypes DEF AtCollect, Waiting, AimedOf, CollectChild
<1>4. k \in Rows /\ IsInjective(k) /\ Run(dom, k, call.self, Nil, Nil)
  BY <1>3, KidsFacts DEF Shows, Row
<1>5. /\ c.pc = "collect" /\ c.name = call.name /\ c.self = call.self /\ c.how = call.how /\ c.at = call.at
      /\ c.src = call.src /\ c.arg = call.arg /\ c.todo = Append(s, x) /\ c.cur = dom.next[x]
  BY <1>1 DEF CollectChild, TypeOK, Calls
<1> HIDE DEF c, x, z, s, k
<1>6. IsInjective(rest) /\ rest # <<>>
  <2>1. IsInjective(rest)
    BY <1>2, <1>3, <1>4, CatFacts
  <2> QED BY <1>2, <1>3, <2>1, EndsNone
<1>7. PICK v : Cut(rest, z, x, v)
  <2>1. \E v : Cut(rest, <<>>, HeadOr(rest, Nil), v)
    BY <1>6, CutFirst
  <2> QED BY <1>2, <2>1 DEF z
<1>8. v \in Rows /\ x \in Node /\ z \in Rows
  BY <1>7 DEF Cut
<1>9. Cut(k, Cat(s, z), x, v) /\ Cat(s, z) = s
  BY <1>2, <1>3, <1>7, CutRight, CatNone DEF z
<1>10. dom.next[x] = HeadOr(v, Nil)
  BY <1>4, <1>9 DEF Run
<1>11. k = Cat(Cat(s, One(x)), v)
  <2>1. k = Cat(s, Cat(One(x), v))
    BY <1>9 DEF Cut
  <2>2. One(x) \in Rows
    BY <1>8, OneFacts
  <2> QED BY <1>3, <1>8, <2>1, <2>2, CatAssoc
<1>12. c.todo = Cat(s, One(x))
  BY <1>3, <1>5, <1>8, AppendIs
<1>13. Waiting(c, f)
  BY <1>3, <1>5 DEF Waiting, AimedOf
<1>14. f.kids[c.self] = Cat(c.todo, v) /\ c.cur = HeadOr(v, Nil)
  BY <1>5, <1>10, <1>11, <1>12 DEF k
<1>15. AtCollect(c, d, f)
  BY <1>3, <1>8, <1>13, <1>14 DEF AtCollect
<1>16. Stage(c, d, f)
  BY <1>5, <1>15, StageIs
<1> QED BY <1>16 DEF c, CollectChild

\* All children are noted.
LEMMA CollectedStage ==
  ASSUME IInv, NEW d, NEW f, Shows(dom, d), Shows(settled, f), Stage(call, d, f), Collected
  PROVE  \E e : Shows(dom', e) /\ Stage(call', e, f)
<1> DEFINE c == call'
<1>1. AtCollect(call, d, f) /\ TypeOK
  BY StageIs DEF Collected, IInv
<1>2. PICK rest \in Rows : f.kids[call.self] = Cat(call.todo, rest) /\ Nil = HeadOr(rest, Nil)
  BY <1>1 DEF AtCollect, Collected
<1>3. d = f /\ Waiting(call, f) /\ call.todo \in Rows /\ Whole(f)
  BY <1>1, CallTypes DEF AtCollect, Shows
<1>4. rest = <<>>
  <2>1. rest # <<>> => HeadOr(rest, Nil) \in Node
    BY EndsIn, ListOfNodes
  <2> QED BY <1>2, <2>1, NilAssumption
<1>5. f.kids[call.self] = call.todo
  BY <1>2, <1>3, <1>4, CatNone
<1>6. /\ c.pc = "clear" /\ c.name = call.name /\ c.self = call.self /\ c.how = call.how /\ c.at = call.at
      /\ c.src = call.src /\ c.arg = call.arg /\ c.todo = call.todo
  BY <1>1 DEF Collected, TypeOK, Calls
<1> HIDE DEF c
<1>7. Waiting(c, f)
  BY <1>3, <1>6 DEF Waiting, AimedOf
<1>8. d = Detach(f, {}) /\ {} \subseteq Kids(f, c.self) /\ {} \cup ToSet(c.todo) = Kids(f, c.self)
  BY <1>3, <1>5, <1>6, DetachNothing DEF Kids
<1>9. AtClear(c, d, f)
  BY <1>7, <1>8 DEF AtClear
<1>10. Stage(c, d, f)
  BY <1>6, <1>9, StageIs
<1> QED BY <1>10 DEF c, Collected

\* One of them is removed.
LEMMA ClearNextStage ==
  ASSUME IInv, NEW d, NEW f, Shows(dom, d), Shows(settled, f), Stage(call, d, f), ClearNext
  PROVE  \E e : Shows(dom', e) /\ Stage(call', e, f)
<1> DEFINE c == call'
           s == call.todo
           x == Head(s)
           e == Detach(d, {x})
<1>1. AtClear(call, d, f) /\ TypeOK /\ s # <<>>
  BY StageIs DEF ClearNext, IInv
<1>2. PICK X : /\ X \subseteq Kids(f, call.self) /\ d = Detach(f, X)
               /\ X \cup ToSet(s) = Kids(f, call.self)
  BY <1>1 DEF AtClear
<1>3. Waiting(call, f) /\ call.self \in Node /\ s \in Rows /\ Whole(f) /\ Orderly(f)
  BY <1>1, CallTypes DEF AtClear, Waiting, AimedOf, Shows, Whole
<1>4. x \in Node /\ Tail(s) \in Rows /\ s = Cat(One(x), Tail(s)) /\ x \in ToSet(s)
  BY <1>1, <1>3, HeadTail
<1>5. Shows(dom', e)
  BY <1>4, RemoveShows DEF ClearNext
<1>6. /\ c.pc = "clear" /\ c.name = call.name /\ c.self = call.self /\ c.how = call.how /\ c.at = call.at
      /\ c.src = call.src /\ c.arg = call.arg /\ c.todo = Tail(s)
  BY <1>1 DEF ClearNext, TypeOK, Calls
<1> HIDE DEF c, x, s
<1>7. Kids(f, call.self) \in SUBSET Node
  BY <1>3, KidsFacts
<1>8. e = Detach(f, X \cup {x})
  BY <1>2, <1>3, <1>4, <1>7, DetachTwice
<1>9. ToSet(s) = {x} \cup ToSet(Tail(s))
  BY <1>4, OneFacts, CatFacts
<1>10. X \cup {x} \subseteq Kids(f, c.self) /\ (X \cup {x}) \cup ToSet(c.todo) = Kids(f, c.self)
  BY <1>2, <1>4, <1>6, <1>9
<1>11. Waiting(c, f)
  BY <1>3, <1>6 DEF Waiting, AimedOf
<1> HIDE DEF e
<1>12. AtClear(c, e, f)
  BY <1>8, <1>10, <1>11 DEF AtClear
<1>13. Stage(c, e, f)
  BY <1>6, <1>12, StageIs
<1> QED BY <1>5, <1>13 DEF c

\* The argument of a call that begins to add it: nothing has been added yet.
Entered(c, d, f) ==
  /\ AimedOf(c, f) /\ c.name # "wrap" /\ d = StartOf(c, f) /\ c.cur = c.at /\ c.at \in Node
  /\ c.how \in How /\ c.todo = c.arg /\ c.arg \in Rows /\ c.src \in {"node", "set", "fragment", "string"}
  /\ c.pc = EntryOf(c.src)
  /\ c.src = "node" => \E x \in Node : c.arg = One(x) /\ x # c.at
  /\ c.src = "set" => IsInjective(c.arg) /\ c.at \notin ToSet(c.arg)
  /\ c.src = "fragment" => c.arg = <<>> /\ c.at # c.frag /\ c.at \notin Kids(d, c.frag)
  /\ c.src = "string" => c.frag = Nil

\* At the entry of nl_node_add_nodes nothing has been added.
LEMMA EnteredStage ==
  ASSUME NEW d, Whole(d), NEW f, NEW c, Entered(c, d, f)
  PROVE  Stage(c, d, f)
<1> DEFINE at == c.at
           how == c.how
<1>1. /\ AimedOf(c, f) /\ c.name # "wrap" /\ d = StartOf(c, f) /\ at \in Node /\ how \in How
      /\ c.arg \in Rows /\ c.todo = c.arg /\ c.pc = EntryOf(c.src) /\ c.cur = at
      /\ c.src \in {"node", "set", "fragment", "string"}
  BY DEF Entered
<1>2. Orderly(d) /\ <<>> \in Rows
  BY CatNone DEF Whole
<1>3. d = Put(d, how, at, <<>>) /\ AtEnd(how, at, <<>>, TargetOf(c))
  <2>1. TargetOf(c) = at
    BY <1>1 DEF TargetOf
  <2> HIDE DEF how, at
  <2> QED BY <1>1, <1>2, <2>1, PutNone, AtEndFirst
<1>4. CASE c.src = "node"
  BY <1>1, <1>4, StageIs DEF EntryOf, Entered, AtNode
<1>5. CASE c.src = "set"
  <2>1. Fit(d, at, c.arg)
    BY <1>1, <1>2, <1>5 DEF Fit, Entered
  <2>2. c.arg = Cat(<<>>, c.todo)
    BY <1>1, CatNone
  <2>3. c.pc = "nodeset"
    BY <1>1, <1>5 DEF EntryOf
  <2>4. AtSet(c, d, f)
    BY <1>1, <1>2, <1>3, <2>1, <2>2 DEF AtSet
  <2> QED BY <2>3, <2>4, StageIs
<1>6. CASE c.src = "fragment"
  <2>1. c.arg = <<>> /\ at # c.frag /\ at \notin Kids(d, c.frag)
    BY <1>6 DEF Entered
  <2>2. Fit(d, at, c.arg)
    BY <1>1, <1>2, <2>1, EmptyList DEF Fit
  <2>3. d = Detach(d, {})
    BY DetachNothing
  <2>4. c.pc = "fragment"
    BY <1>6, <1>1 DEF EntryOf
  <2>5. {} \subseteq Kids(d, c.frag)
    OBVIOUS
  <2>6. \E g, X : /\ Fit(g, c.at, c.arg)
                  /\ X \subseteq Kids(g, c.frag) /\ c.at \notin Kids(g, c.frag)
                  /\ StartOf(c, f) = Detach(g, X)
                  /\ d = Put(g, c.how, c.at, c.arg)
                  /\ AtEnd(c.how, c.at, c.arg, TargetOf(c))
    BY <1>1, <1>3, <2>1, <2>2, <2>3, <2>5
  <2>7. AtFragment(c, d, f)
    BY <1>1, <2>1, <2>6 DEF AtFragment
  <2> QED BY <2>4, <2>7, StageIs
<1>7. CASE c.src = "string"
  BY <1>1, <1>7, StageIs DEF EntryOf, Entered, AtParse
<1> QED BY <1>1, <1>4, <1>5, <1>6, <1>7

\* All children are removed and the new ones are about to be added.
LEMMA ClearedStage ==
  ASSUME IInv, NEW d, NEW f, Shows(dom, d), Shows(settled, f), Stage(call, d, f), Cleared
  PROVE  \E e : Shows(dom', e) /\ Stage(call', e, f)
<1> DEFINE c == call'
           at == call.at
<1>1. AtClear(call, d, f) /\ TypeOK /\ call.todo = <<>>
  BY StageIs DEF Cleared, IInv
<1>2. Waiting(call, f) /\ call.name = "children=" /\ dom' = dom /\ Whole(d)
  BY <1>1 DEF AtClear, Waiting, Cleared, Shows
<1>3. d = Emptied(f, call.self)
  BY <1>1, EmptyList DEF AtClear, Emptied, Kids
<1>4. CASE call.src = "other"
  <2>1. c.pc = "return" /\ c.name = "clear" /\ c.self = call.self /\ c.arg = <<>>
    BY <1>4 DEF Cleared, Finish, Idle
  <2>2. d = Effect("clear", call.self, <<>>, f)
    BY <1>3 DEF Effect
  <2> HIDE DEF c
  <2>3. Stage(c, d, f)
    BY <2>1, <2>2, StageIs DEF AtReturn
  <2> QED BY <1>2, <2>3 DEF c
<1>5. CASE call.src # "other"
  <2>1. /\ c.pc = EntryOf(call.src) /\ c.name = call.name /\ c.self = call.self /\ c.how = call.how /\ c.at = at
        /\ c.src = call.src /\ c.frag = call.frag /\ c.arg = call.arg /\ c.todo = call.arg /\ c.cur = at
    BY <1>1, <1>5 DEF Cleared, TypeOK, Calls
  <2>2. /\ call.how \in How /\ call.arg \in Rows /\ call.src \in {"node", "set", "fragment", "string"}
        /\ at \in Node /\ Fits(at)
    <3>1. call.src \in Sources
      BY <1>1 DEF TypeOK, Calls
    <3> QED BY <1>1, <1>5, <3>1, CallTypes DEF IInv, CallInv, ClearInv, Cleared, IsLive, Sources
  <2>3. StartOf(c, f) = d /\ AimedOf(c, f) /\ c.name # "wrap"
    BY <1>2, <1>3, <2>1 DEF StartOf, Start, AimedOf, Waiting
  <2>4. call.src = "node" => \E x \in Node : call.arg = One(x) /\ x # at
    <3>1. SUFFICES ASSUME call.src = "node" PROVE \E x \in Node : call.arg = One(x) /\ x # at
      OBVIOUS
    <3>2. PICK x \in Node : call.arg = One(x)
      BY <1>2, <3>1 DEF Waiting
    <3>3. NoneAbove(dom, {x}, at)
      BY <2>2, <3>1, <3>2 DEF Fits, One
    <3> QED BY <2>2, <3>2, <3>3, NotUnder
  <2>5. call.src = "set" => IsInjective(call.arg) /\ at \notin ToSet(call.arg)
    <3>1. SUFFICES ASSUME call.src = "set" PROVE IsInjective(call.arg) /\ at \notin ToSet(call.arg)
      OBVIOUS
    <3>2. Distinct(call.arg) /\ NoneAbove(dom, Members(call.arg), at)
      BY <2>2, <3>1 DEF Fits
    <3>3. at \notin Members(call.arg)
      BY <1>1, <2>2, <3>2, NoneAboveSelf DEF TypeOK
    <3> QED BY <3>2, <3>3, DistinctIs, MembersIs
  <2>6. call.src = "fragment" => call.arg = <<>> /\ at # call.frag /\ at \notin Kids(d, call.frag)
    <3>1. SUFFICES ASSUME call.src = "fragment" PROVE call.arg = <<>> /\ at # call.frag /\ at \notin Kids(d, call.frag)
      OBVIOUS
    <3>2. call.frag \in Node /\ NoneAbove(dom, {call.frag}, at)
      BY <2>2, <3>1 DEF Fits
    <3> QED BY <1>2, <2>2, <3>1, <3>2, NotUnder DEF Waiting
  <2>7. call.src = "string" => call.frag = Nil
    BY <2>2 DEF Fits
  <2> HIDE DEF c, at
  <2>8. Entered(c, d, f)
    BY <2>1, <2>2, <2>3, <2>4, <2>5, <2>6, <2>7 DEF Entered
  <2>9. Stage(c, d, f)
    BY <1>2, <2>8, EnteredStage
  <2> QED BY <1>2, <2>9 DEF c
<1> QED BY <1>4, <1>5

\* content= removes one more child.
LEMMA DetachFirstStage ==
  ASSUME IInv, NEW d, NEW f, Shows(dom, d), Shows(settled, f), Stage(call, d, f), DetachFirst
  PROVE  \E e : Shows(dom', e) /\ Stage(call', e, f)
<1> DEFINE self == call.self
           x == dom.first[self]
           e == Detach(d, {x})
<1>1. AtEmpty(call, d, f) /\ TypeOK /\ self \in Node /\ call.cur \in Node
  BY StageIs DEF DetachFirst, IInv, CallInv, EmptyInv
<1>2. PICK X : X \subseteq Kids(f, self) /\ d = Detach(f, X)
  BY <1>1 DEF AtEmpty
<1>3. Whole(f) /\ Orderly(f) /\ Orderly(d) /\ Kids(f, self) \in SUBSET Node
  BY <1>1, KidsFacts DEF Shows, Whole
<1>4. x \in Node /\ x \in Kids(d, self)
  BY <1>1, FirstKid DEF DetachFirst
<1>5. Shows(dom', e)
  BY <1>4, RemoveShows DEF DetachFirst
<1>6. call' = call
  BY DEF DetachFirst
<1> HIDE DEF x, self
<1>7. x \in Kids(f, self)
  <2>1. d.kids[self] = Without(f.kids[self], X)
    BY <1>1, <1>2, <1>3, DetachFacts
  <2> QED BY <1>1, <1>3, <1>4, <2>1, KidsFacts, WithoutList DEF Kids
<1>8. e = Detach(f, X \cup {x})
  BY <1>2, <1>3, <1>4, DetachTwice
<1>9. X \cup {x} \subseteq Kids(f, self)
  BY <1>2, <1>7
<1>10. Lone(e, call.cur)
  BY <1>1, <1>3, <1>4, DetachKeepsLone DEF AtEmpty
<1> HIDE DEF e
<1>11. AtEmpty(call, e, f)
  BY <1>1, <1>8, <1>9, <1>10 DEF AtEmpty, self
<1>12. Stage(call, e, f)
  BY <1>11, StageIs DEF DetachFirst
<1> QED BY <1>5, <1>6, <1>12

\* content= adds its text.
LEMMA InsertTextStage ==
  ASSUME IInv, NEW d, NEW f, Shows(dom, d), Shows(settled, f), Stage(call, d, f), InsertText
  PROVE  \E e : Shows(dom', e) /\ Stage(call', e, f)
<1> DEFINE self == call.self
           u == call.cur
           e == Put(d, "child", self, One(u))
<1>1. /\ AtEmpty(call, d, f) /\ self \in Node /\ u \in Node /\ NoneAbove(dom, {u}, self)
  BY StageIs DEF InsertText, IInv, CallInv, EmptyInv
<1>2. PICK X : X \subseteq Kids(f, self) /\ d = Detach(f, X)
  BY <1>1 DEF AtEmpty
<1>3. Whole(f) /\ Orderly(f) /\ Whole(d) /\ Kids(f, self) \in SUBSET Node
  BY <1>1, KidsFacts DEF Shows, Whole
<1>4. d = Emptied(f, self)
  <2>1. Kids(d, self) = {}
    BY <1>1, FirstKid DEF InsertText
  <2>2. d.kids[self] = Without(f.kids[self], X)
    BY <1>1, <1>2, <1>3, DetachFacts
  <2>3. ToSet(Without(f.kids[self], X)) = ToSet(f.kids[self]) \ X
    BY <1>1, <1>3, KidsFacts, WithoutList
  <2>4. X = Kids(f, self)
    BY <1>2, <2>1, <2>2, <2>3 DEF Kids
  <2> QED BY <1>2, <2>4 DEF Emptied, Kids
<1>5. Shows(dom', e)
  <2>1. Ready(d, self, u)
    BY <1>1, <1>3, NotUnder DEF Ready, AtEmpty
  <2> QED BY <2>1, InsertChildShows DEF InsertText
<1>6. call'.pc = "return" /\ call'.name = "content=" /\ call'.self = self /\ call'.arg = One(u)
  BY <1>1 DEF InsertText, Finished, Finish, Idle, AtEmpty, One
<1>7. e = Effect("content=", self, One(u), f)
  BY <1>4, UnderIs DEF Effect
<1> HIDE DEF e, self, u
<1>8. Stage(call', e, f)
  BY <1>6, <1>7, StageIs DEF AtReturn
<1> QED BY <1>5, <1>8

-----------------------------------------------------------------------------
(* wrap.                                                                   *)

\* What wrap passes on: the wrapper, its DocumentFragment and what else is in it.
LEMMA WrapList ==
  ASSUME NEW w \in Node, NEW n \in Node, NEW r \in Rows
  PROVE  LET l == Cat(One(w), r)
             s == <<w, n>> \o SubSeq(l, 2, Len(l))
         IN s[1] = w /\ s[2] = n /\ Len(s) # 1 /\ SubSeq(s, 3, Len(s)) = r
<1> DEFINE l == Cat(One(w), r)
           b == SubSeq(l, 2, Len(l))
           s == <<w, n>> \o b
<1>1. r \in Seq(Node) /\ Len(r) \in Nat /\ <<w>> \in Seq(Node) /\ <<w, n>> \in Seq(Node)
  BY LenProperties DEF Rows
<1>2. l \in Seq(Node) /\ Len(l) = Len(r) + 1 /\ \A i \in 1 .. Len(r) : l[i + 1] = r[i]
  <2>1. l = <<w>> \o r
    BY DEF Cat, One
  <2> HIDE DEF l
  <2> QED BY <1>1, <2>1
<1> HIDE DEF l
<1>3. b \in Seq(Node) /\ Len(b) = Len(r) /\ \A i \in 1 .. Len(r) : b[i] = r[i]
  <2>1. b \in Seq(Node) /\ Len(b) = Len(r)
    BY <1>1, <1>2, SubSeqProperties
  <2>2. \A i \in 1 .. Len(r) : b[i] = l[2 + i - 1]
    BY <1>1, <1>2, SubSeqProperties
  <2>3. \A i \in 1 .. Len(r) : l[2 + i - 1] = r[i]
    <3>1. \A i \in 1 .. Len(r) : 2 + i - 1 = i + 1
      BY <1>1
    <3> QED BY <1>2, <3>1
  <2> QED BY <2>1, <2>2, <2>3
<1>4. b = r
  <2> HIDE DEF b
  <2> QED BY <1>1, <1>3, SeqEqual
<1>5. s = <<w, n>> \o r
  BY <1>4
<1> HIDE DEF s, b
<1>6. s \in Seq(Node) /\ Len(s) = Len(r) + 2 /\ s[1] = w /\ s[2] = n /\ \A i \in 1 .. Len(r) : s[i + 2] = r[i]
  BY <1>1, <1>5
<1> DEFINE q == SubSeq(s, 3, Len(s))
<1>7. q \in Seq(Node) /\ Len(q) = Len(r)
  BY <1>1, <1>6, SubSeqProperties
<1>8. \A i \in 1 .. Len(r) : q[i] = r[i]
  <2>1. \A i \in 1 .. Len(r) : q[i] = s[3 + i - 1]
    BY <1>1, <1>6, SubSeqProperties
  <2>2. \A i \in 1 .. Len(r) : 3 + i - 1 = i + 2
    BY <1>1
  <2> HIDE DEF q
  <2> QED BY <1>6, <2>1, <2>2
<1>9. q = r
  <2> HIDE DEF q
  <2> QED BY <1>1, <1>7, <1>8, SeqEqual
<1> QED BY <1>1, <1>6, <1>9 DEF s, b, l

\* Adding nodes to an empty node that is not self's changes no parent of self.
LEMMA SameParent ==
  ASSUME NEW t, NEW d, Shows(t, d), NEW f, NEW at, NEW l, Fit(f, at, l), f.kids[at] = <<>>,
         d = Put(f, "child", at, l), NEW n \in Node, n \notin ToSet(l)
  PROVE  d.kids[at] = l /\ (HasParent(f, n) <=> t.parent[n] # Nil)
<1>1. Orderly(f) /\ at \in Node /\ l \in Rows
  BY DEF Fit
<1>2. d.kids[at] = l
  <2>1. Room(Pull(f, ToSet(l)), at, l)
    BY FitFree
  <2>2. d.kids[at] = Cat(Pull(f, ToSet(l)).kids[at], l)
    BY <1>1, <2>1, PlaceFree DEF Put, How
  <2>3. Pull(f, ToSet(l)).kids[at] = Without(f.kids[at], ToSet(l))
    BY <1>1, PullFacts
  <2>4. Without(f.kids[at], ToSet(l)) = <<>>
    BY WithoutEmpty
  <2> QED BY <1>1, <2>2, <2>3, <2>4, CatNone
<1>3. ASSUME NEW p \in Node PROVE n \in ToSet(d.kids[p]) <=> n \in ToSet(f.kids[p])
  <2>1. CASE p = at
    BY <1>2, <2>1, EmptyList
  <2>2. CASE p # at
    <3>1. d.kids[p] = Without(f.kids[p], ToSet(l))
      BY <1>1, <2>2, PutChildKids DEF How
    <3>2. f.kids[p] \in Rows
      BY <1>1, RowFacts
    <3>3. ToSet(d.kids[p]) = ToSet(f.kids[p]) \ ToSet(l)
      BY <3>1, <3>2, WithoutList
    <3> QED BY <3>3
  <2> QED BY <2>1, <2>2
<1>4. HasParent(f, n) <=> \E p \in Node : n \in ToSet(d.kids[p])
  BY <1>1, <1>3, HasParentIs
<1>5. t.parent[n] = Nil <=> \A p \in Node : n \notin ToSet(d.kids[p])
  BY ParentShown
<1> QED BY <1>2, <1>4, <1>5

\* wrap puts the wrapper behind the node.
LEMMA PlaceWrapperStage ==
  ASSUME IInv, NEW d, NEW f, Shows(dom, d), Shows(settled, f), Stage(call, d, f), PlaceWrapper
  PROVE  \E e : Shows(dom', e) /\ Stage(call', e, f)
<1> DEFINE c == call'
           w == Wrapper
           n == call.self
           a == c.arg
           h == dom.parent[n] # Nil
           e == IF h THEN Put(d, "next", n, One(w)) ELSE Detach(d, {w})
<1>1. AtPlace(call, d, f) /\ TypeOK
  BY StageIs DEF PlaceWrapper, IInv
<1>2. /\ n \in Node /\ w # Nil /\ NoneAbove(dom, {w}, n) /\ dom \in Tree
      /\ call.frag = Nil => call.cur \in Node
      /\ call.frag # Nil => call.frag \in Node
      /\ call.src = "string" => call.frag # Nil
  BY <1>1, CallTypes DEF IInv, CallInv, PlaceInv, PlaceWrapper
<1>3. w \in Node
  <2>1. call.frag # Nil => dom.first[call.frag] \in Link
    BY <1>2 DEF Tree
  <2> QED BY <1>2, <2>1 DEF Wrapper, Link
<1>4. w # n /\ Orderly(d) /\ Orderly(f) /\ Whole(f) /\ ToSet(One(w)) = {w} /\ One(w) = <<w>>
  BY <1>2, <1>3, NotUnder, OneFacts DEF Shows, Whole, One
<1>5. Shows(dom', e)
  <2>1. CASE h
    <3>1. dom' = Moved(dom, "next", n, w)
      BY <2>1 DEF PlaceWrapper, Moved, Attach
    <3> HIDE DEF w
    <3> QED BY <1>2, <1>3, <1>4, <2>1, <3>1, MovedShows DEF How
  <2>2. CASE ~h
    <3>1. dom' = RemoveNode(dom, w)
      BY <2>2 DEF PlaceWrapper
    <3> HIDE DEF w
    <3> QED BY <1>3, <2>2, <3>1, RemoveShows
  <2> QED BY <2>1, <2>2
<1>6. /\ c.pc = "adopt" /\ c.name = call.name /\ c.self = n /\ c.cur = w
      /\ a = IF call.src = "string" THEN <<w, call.frag>> \o SubSeq(call.arg, 2, Len(call.arg)) ELSE <<w>>
  BY <1>1 DEF PlaceWrapper, TypeOK, Calls
<1>7. a[1] = w /\ e = Placed(a, n, f)
  <2>1. CASE call.src = "string"
    <3> DEFINE frag == call.frag
               l == call.arg
    <3>1. /\ d = Put(f, "child", frag, l) /\ Fit(f, frag, l)
          /\ f.kids[frag] = <<>> /\ n \notin ToSet(l) /\ frag \in Node /\ frag # Nil
      BY <1>1, <1>2, <2>1 DEF AtPlace
    <3>2. d.kids[frag] = l /\ (HasParent(f, n) <=> h)
      BY <1>2, <3>1, SameParent
    <3>3. PICK r : Cut(l, <<>>, w, r)
      <4>1. w = dom.first[frag]
        BY <3>1 DEF Wrapper
      <4> QED BY <1>2, <3>1, <3>2, <4>1, FirstShown
    <3>4. a = <<w, frag>> \o SubSeq(l, 2, Len(l))
      BY <1>6, <2>1
    <3> HIDE DEF w, h, a, frag, l, c
    <3>5. r \in Rows /\ l = Cat(One(w), r)
      <4>1. r \in Rows /\ l = Cat(<<>>, Cat(One(w), r)) /\ Cat(One(w), r) \in Rows
        BY <1>3, <3>3, OneFacts, CatFacts DEF Cut
      <4> QED BY <4>1, CatNone
    <3>6. a[1] = w /\ a[2] = frag /\ Len(a) # 1 /\ SubSeq(a, 3, Len(a)) = r
      BY <1>3, <3>1, <3>4, <3>5, WrapList
    <3> DEFINE g == Put(f, "child", frag, r)
    <3>7. Parsed(a, f) = g
      BY <3>6, UnderIs DEF Parsed
    <3>8. Pull(d, {w}) = Pull(g, {w})
      BY <1>3, <3>1, <3>5, PullPutFirst DEF How
    <3> HIDE DEF g
    <3>9. Put(d, "next", n, One(w)) = Put(g, "next", n, One(w)) /\ Detach(d, {w}) = Detach(g, {w})
      BY <1>4, <3>8, PutOfPull, DetachOfPull
    <3> QED BY <3>2, <3>6, <3>7, <3>9, BehindIs DEF Placed
  <2>2. CASE call.src # "string"
    <3>1. d = f /\ a = <<w>>
      BY <1>1, <1>6, <2>2 DEF AtPlace
    <3>2. a[1] = w /\ Len(a) = 1
      BY <3>1
    <3>3. Parsed(a, f) = f
      BY <3>2 DEF Parsed
    <3>4. HasParent(f, n) <=> h
      <4>1. Shows(dom, f)
        BY <3>1
      <4> QED BY <1>2, <1>4, <4>1, HasParentIs, ParentShown
    <3> HIDE DEF w, h, a, c
    <3> QED BY <3>1, <3>2, <3>3, <3>4, BehindIs DEF Placed
  <2> QED BY <2>1, <2>2
<1> HIDE DEF c, w, n, e, h
<1>8. AtAdopt(c, e, f)
  BY <1>1, <1>6, <1>7 DEF AtAdopt, AtPlace
<1>9. Stage(c, e, f)
  BY <1>6, <1>8, StageIs
<1> QED BY <1>5, <1>9 DEF c

\* wrap raises: the String had no node.
LEMMA NoWrapperStage ==
  ASSUME IInv, NEW d, NEW f, Shows(dom, d), Shows(settled, f), Stage(call, d, f), NoWrapper
  PROVE  \E e : Shows(dom', e) /\ Stage(call', e, f)
<1>1. AtPlace(call, d, f) /\ Whole(f) /\ Orderly(f)
  BY StageIs DEF NoWrapper, Shows, Whole
<1>2. d = f
  <2>1. CASE call.src = "string"
    <3>1. /\ d = Put(f, "child", call.frag, call.arg) /\ Fit(f, call.frag, call.arg)
          /\ f.kids[call.frag] = <<>> /\ call.self \notin ToSet(call.arg)
      BY <1>1, <2>1 DEF AtPlace
    <3>2. call.frag \in Node /\ dom.first[call.frag] = Nil /\ call.self \in Node
      BY <2>1 DEF NoWrapper, Wrapper, IInv, CallInv, PlaceInv
    <3>3. d.kids[call.frag] = <<>>
      BY <3>2, FirstKid
    <3>4. d.kids[call.frag] = call.arg
      BY <3>1, <3>2, SameParent
    <3> QED BY <1>1, <3>1, <3>2, <3>3, <3>4, PutNone DEF How
  <2>2. CASE call.src # "string"
    BY <1>1, <2>2 DEF AtPlace
  <2> QED BY <2>1, <2>2
<1>3. call'.pc = "return" /\ call'.name = "new" /\ dom' = dom
  BY DEF NoWrapper, Finish, Idle
<1>4. d = Effect("new", call'.self, call'.arg, f)
  BY <1>2 DEF Effect
<1>5. Stage(call', d, f)
  BY <1>3, <1>4, StageIs DEF AtReturn
<1> QED BY <1>3, <1>5

\* wrap puts the node into its wrapper.
LEMMA AdoptStage ==
  ASSUME IInv, NEW d, NEW f, Shows(dom, d), Shows(settled, f), Stage(call, d, f), Adopt
  PROVE  \E e : Shows(dom', e) /\ Stage(call', e, f)
<1> DEFINE e == Put(d, "child", call.cur, One(call.self))
<1>1. /\ AtAdopt(call, d, f) /\ call.self \in Node /\ call.cur \in Node
      /\ NoneAbove(dom, {call.self}, call.cur)
  BY StageIs DEF Adopt, IInv, CallInv, AdoptInv
<1>2. call.self # call.cur
  BY <1>1, NotUnder
<1>3. Shows(dom', e)
  <2>1. dom' = Moved(dom, "child", call.cur, call.self)
    BY DEF Adopt, Moved, Attach
  <2> QED BY <1>1, <1>2, <2>1, MovedShows DEF How
<1>4. call'.pc = "return" /\ call'.name = "wrap" /\ call'.self = call.self /\ call'.arg = call.arg
  BY <1>1 DEF Adopt, Finished, Finish, Idle, AtAdopt
<1>5. e = Effect("wrap", call.self, call.arg, f)
  BY <1>1, UnderIs DEF Effect, AtAdopt
<1> HIDE DEF e
<1>6. Stage(call', e, f)
  BY <1>4, <1>5, StageIs DEF AtReturn
<1> QED BY <1>3, <1>6

-----------------------------------------------------------------------------
(* The calls begin.                                                        *)

\* A single node comes as a list of one, the nodes of a String not yet.
LEMMA ArgumentShapes ==
  ASSUME TypeOK, NEW y \in Node, NEW a \in Arguments(y)
  PROVE  /\ a[1] = "node" => \E x \in Node : a[3] = One(x)
         /\ a[1] = "fragment" => a[3] = <<>>
<1>1. CASE \E x \in {n \in Movable : NoneAbove(dom, {n}, y)} : a = <<"node", Nil, <<x>>>>
  <2>1. PICK x \in {n \in Movable : NoneAbove(dom, {n}, y)} : a = <<"node", Nil, <<x>>>>
    BY <1>1
  <2>2. x \in Node /\ a[1] = "node" /\ a[3] = One(x)
    BY <2>1 DEF Movable, One
  <2> QED BY <2>2
<1>2. CASE \E s \in {l \in NodeLists : NoneAbove(dom, Members(l), y)} : a = <<"set", Nil, s>>
  BY <1>2
<1>3. CASE \E f \in {g \in Node : role[g] = "fragment" /\ NoneAbove(dom, {g}, y)} :
              a = <<"fragment", f, <<>>>>
  BY <1>3
<1>4. CASE a = <<"string", Nil, <<>>>>
  BY <1>4
<1> QED BY <1>1, <1>2, <1>3, <1>4 DEF Arguments

\* A call reaches nl_node_add_nodes.
LEMMA BeginAddStage ==
  ASSUME IInv, NEW d, NEW f, Shows(dom, d), Shows(settled, f), Stage(call, d, f),
         NEW name \in Names \ {"wrap", "children="}, NEW self \in Node, NEW how \in How, NEW at \in Node,
         NEW a \in Arguments(at), BeginAdd(name, self, how, at, a), Aimed(name, self, how, at, f)
  PROVE  \E e : Shows(dom', e) /\ Stage(call', e, f)
<1> DEFINE c == call'
<1>1. d = f /\ dom' = dom /\ Whole(d) /\ TypeOK
  BY StageIs DEF BeginAdd, Begin, Shows, IInv
<1>2. /\ c.pc = EntryOf(a[1]) /\ c.name = name /\ c.self = self /\ c.how = how /\ c.at = at
      /\ c.src = a[1] /\ c.frag = a[2] /\ c.arg = a[3] /\ c.todo = a[3] /\ c.cur = at
  BY DEF BeginAdd, Begin
<1>3. /\ a[1] \in Sources \ {"other"} /\ a[2] \in Link /\ a[3] \in Seq(Node)
      /\ a[1] = "node" => /\ a[3] # <<>> /\ role[a[3][1]] = "node"
                          /\ NoneAbove(dom, {a[3][1]}, at)
      /\ a[1] = "set" => /\ Distinct(a[3]) /\ AllMovable(a[3])
                         /\ NoneAbove(dom, Members(a[3]), at)
      /\ a[1] = "fragment" => /\ a[2] \in Node /\ role[a[2]] = "fragment"
                              /\ NoneAbove(dom, {a[2]}, at)
      /\ a[1] = "string" => a[2] = Nil /\ a[3] = <<>>
  BY <1>1, ArgumentsFit
<1>4. a[1] = "node" => \E x \in Node : a[3] = One(x) /\ x # at
  <2> SUFFICES ASSUME a[1] = "node" PROVE \E x \in Node : a[3] = One(x) /\ x # at
    OBVIOUS
  <2>1. PICK x \in Node : a[3] = One(x)
    BY <1>1, ArgumentShapes
  <2>2. NoneAbove(dom, {x}, at)
    BY <1>3, <2>1 DEF One
  <2> QED BY <2>1, <2>2, NotUnder
<1>5. a[1] = "set" => IsInjective(a[3]) /\ at \notin ToSet(a[3])
  <2> SUFFICES ASSUME a[1] = "set" PROVE IsInjective(a[3]) /\ at \notin ToSet(a[3])
    OBVIOUS
  <2>1. at \notin Members(a[3])
    BY <1>1, <1>3, NoneAboveSelf DEF TypeOK
  <2> QED BY <1>3, <2>1, DistinctIs, MembersIs
<1>6. a[1] = "fragment" => a[3] = <<>> /\ at # a[2] /\ at \notin Kids(d, a[2])
  BY <1>1, <1>3, ArgumentShapes, NotUnder
<1>7. AimedOf(c, f) /\ StartOf(c, f) = f
  BY <1>2 DEF AimedOf, StartOf, Start
<1>8. a[1] \in {"node", "set", "fragment", "string"} /\ a[3] \in Rows
  BY <1>3 DEF Sources, Rows
<1> HIDE DEF c
<1>9. Entered(c, d, f)
  BY <1>1, <1>2, <1>3, <1>4, <1>5, <1>6, <1>7, <1>8 DEF Entered
<1>10. Stage(c, d, f)
  BY <1>1, <1>9, EnteredStage
<1> QED BY <1>1, <1>10 DEF c

\* The methods that add nodes to a place.
LEMMA AddStage ==
  ASSUME IInv, NEW d, NEW f, Shows(dom, d), Shows(settled, f), Stage(call, d, f),
         ~PrependOwnFirst, NEW self \in Live,
         \/ AddChild(self) \/ AddNextSibling(self) \/ AddPreviousSibling(self)
         \/ PrependChild(self) \/ Replace(self)
  PROVE  \E e : Shows(dom', e) /\ Stage(call', e, f)
<1>1. self \in Node /\ How = {"child", "next", "previous"}
  BY DEF Live, How
<1>2. {"add_child", "add_next_sibling", "add_previous_sibling",
       "prepend_child", "replace"} \subseteq Names \ {"wrap", "children="}
  BY DEF Names
<1>3. CASE AddChild(self)
  <2>1. Aimed("add_child", self, "child", self, f)
    BY DEF Aimed
  <2> QED BY <1>1, <1>2, <1>3, <2>1, BeginAddStage DEF AddChild
<1>4. CASE AddNextSibling(self)
  <2>1. Aimed("add_next_sibling", self, "next", self, f)
    BY DEF Aimed
  <2> QED BY <1>1, <1>2, <1>4, <2>1, BeginAddStage DEF AddNextSibling
<1>5. CASE AddPreviousSibling(self)
  <2>1. Aimed("add_previous_sibling", self, "previous", self, f)
    BY DEF Aimed
  <2> QED BY <1>1, <1>2, <1>5, <2>1, BeginAddStage DEF AddPreviousSibling
<1>6. CASE Replace(self)
  <2>1. Aimed("replace", self, "previous", self, f)
    BY DEF Aimed
  <2> QED BY <1>1, <1>2, <1>6, <2>1, BeginAddStage DEF Replace
<1>7. CASE PrependChild(self)
  <2>1. CASE dom.first[self] = Nil
    <3>1. PICK a \in Arguments(self) : BeginAdd("prepend_child", self, "child", self, a)
      BY <1>7, <2>1 DEF PrependChild
    <3>2. d = f
      BY <3>1, StageIs DEF BeginAdd, Begin
    <3>3. Aimed("prepend_child", self, "child", self, f)
      BY <1>1, <2>1, <3>2, FirstKid DEF Aimed
    <3> QED BY <1>1, <1>2, <3>1, <3>3, BeginAddStage
  <2>2. CASE dom.first[self] # Nil
    <3> DEFINE first == dom.first[self]
    <3>1. PICK a \in Arguments(first) : BeginAdd("prepend_child", self, "previous", first, a)
      BY <1>7, <2>2 DEF PrependChild
    <3>2. d = f
      BY <3>1, StageIs DEF BeginAdd, Begin
    <3>3. first \in Node /\ \E r : Cut(f.kids[self], <<>>, first, r)
      BY <1>1, <2>2, <3>2, FirstShown
    <3>4. Aimed("prepend_child", self, "previous", first, f)
      BY <3>3 DEF Aimed
    <3> HIDE DEF first
    <3> QED BY <1>1, <1>2, <3>1, <3>3, <3>4, BeginAddStage
  <2> QED BY <2>1, <2>2
<1> QED BY <1>3, <1>4, <1>5, <1>6, <1>7

\* children= begins.
LEMMA SetChildrenStage ==
  ASSUME IInv, NEW d, NEW f, Shows(dom, d), Shows(settled, f), Stage(call, d, f),
         NEW self \in Live, SetChildren(self)
  PROVE  \E e : Shows(dom', e) /\ Stage(call', e, f)
<1> DEFINE c == call'
<1>1. PICK a \in Arguments(self) \cup {<<"other", Nil, <<>>>>} :
        c = [pc |-> "collect", name |-> "children=", self |-> self,
             how |-> "child", at |-> self, src |-> a[1], frag |-> a[2],
             arg |-> a[3], todo |-> <<>>, cur |-> dom.first[self]]
  BY DEF SetChildren
<1>2. /\ c.pc = "collect" /\ c.name = "children=" /\ c.self = self /\ c.how = "child" /\ c.at = self
      /\ c.src = a[1] /\ c.arg = a[3] /\ c.todo = <<>> /\ c.cur = dom.first[self]
  BY <1>1
<1>3. d = f /\ dom' = dom /\ self \in Node /\ TypeOK
  BY StageIs DEF SetChildren, Live, IInv
<1>4. /\ a[1] = "node" => \E x \in Node : a[3] = One(x)
      /\ a[1] = "fragment" => a[3] = <<>>
  BY <1>3, ArgumentShapes
<1>5. f.kids[self] \in Rows /\ f.kids[self] = Cat(<<>>, f.kids[self]) /\ dom.first[self] = HeadOr(f.kids[self], Nil)
  BY <1>3, KidsFacts, CatNone DEF Shows, Ends
<1> HIDE DEF c
<1>6. Waiting(c, f)
  BY <1>2, <1>3, <1>4 DEF Waiting, AimedOf, Aimed
<1>7. f.kids[c.self] = Cat(c.todo, f.kids[self]) /\ c.cur = HeadOr(f.kids[self], Nil)
  BY <1>2, <1>5
<1>8. AtCollect(c, d, f)
  BY <1>3, <1>5, <1>6, <1>7 DEF AtCollect
<1>9. Stage(c, d, f)
  BY <1>2, <1>8, StageIs
<1> QED BY <1>3, <1>9 DEF c

\* DocumentFragment.parse begins.
LEMMA ParseStage ==
  ASSUME IInv, NEW d, NEW f, Shows(dom, d), Shows(settled, f), Stage(call, d, f),
         NEW self \in Live, Parse(self)
  PROVE  \E e : Shows(dom', e) /\ Stage(call', e, f)
<1> DEFINE c == call'
<1>1. c.pc = "parse" /\ c.name = "parse" /\ c.self = self /\ c.frag = Nil
  BY DEF Parse, Begin
<1>2. d = f /\ dom' = dom
  BY StageIs DEF Parse, Begin
<1> HIDE DEF c
<1>3. AtParse(c, d, f)
  BY <1>1, <1>2 DEF AtParse, StartOf, Start
<1>4. Stage(c, d, f)
  BY <1>1, <1>3, StageIs
<1> QED BY <1>2, <1>4 DEF c

\* A node is made.
LEMMA NewStage ==
  ASSUME IInv, NEW d, NEW f, Shows(dom, d), Shows(settled, f), Stage(call, d, f), New
  PROVE  \E e : Shows(dom', e) /\ Stage(call', e, f)
<1>1. d = f /\ dom' = dom /\ call'.pc = "return" /\ call'.name = "new"
  BY StageIs DEF New, Finish, Idle
<1>2. d = Effect("new", call'.self, call'.arg, f)
  BY <1>1 DEF Effect
<1>3. Stage(call', d, f)
  BY <1>1, <1>2, StageIs DEF AtReturn
<1> QED BY <1>1, <1>3

\* remove unlinks the node.
LEMMA UnparentStage ==
  ASSUME IInv, NEW d, NEW f, Shows(dom, d), Shows(settled, f), Stage(call, d, f),
         NEW self \in Live, Unparent(self)
  PROVE  \E e : Shows(dom', e) /\ Stage(call', e, f)
<1> DEFINE e == Detach(d, {self})
<1>1. d = f /\ self \in Node /\ call'.pc = "return" /\ call'.name = "remove" /\ call'.self = self
  BY StageIs DEF Unparent, Finish, Idle, Live
<1>2. Shows(dom', e)
  BY <1>1, RemoveShows DEF Unparent
<1>3. e = Effect("remove", self, call'.arg, f)
  BY <1>1 DEF Effect
<1> HIDE DEF e
<1>4. Stage(call', e, f)
  BY <1>1, <1>3, StageIs DEF AtReturn
<1> QED BY <1>2, <1>4

\* destroy unlinks the node and frees it.
LEMMA DestroyStage ==
  ASSUME IInv, NEW d, NEW f, Shows(dom, d), Shows(settled, f), Stage(call, d, f),
         NEW self \in Movable, Destroy(self)
  PROVE  \E e : Shows(dom', e) /\ Stage(call', e, f)
<1> DEFINE e == Detach(d, {self})
<1>1. d = f /\ self \in Node /\ call'.pc = "return" /\ call'.name = "destroy" /\ call'.self = self
  BY StageIs DEF Destroy, Finish, Idle, Movable
<1>2. Shows(dom', e)
  BY <1>1, RemoveShows DEF Destroy
<1>3. e = Effect("destroy", self, call'.arg, f)
  BY <1>1 DEF Effect
<1> HIDE DEF e
<1>4. Stage(call', e, f)
  BY <1>1, <1>3, StageIs DEF AtReturn
<1> QED BY <1>2, <1>4

\* content= begins.
LEMMA SetContentStage ==
  ASSUME IInv, NEW d, NEW f, Shows(dom, d), Shows(settled, f), Stage(call, d, f),
         NEW self \in Live, SetContent(self)
  PROVE  \E e : Shows(dom', e) /\ Stage(call', e, f)
<1> DEFINE c == call'
<1>1. d = f /\ dom' = dom /\ self \in Node
  BY StageIs DEF SetContent, Live
<1>2. PICK text \in Unused : c.pc = "empty" /\ c.name = "content=" /\ c.self = self /\ c.cur = text
  BY DEF SetContent, Idle
<1>3. Lone(d, text)
  BY UnusedShown
<1>4. d = Detach(f, {}) /\ {} \subseteq Kids(f, c.self)
  BY <1>1, DetachNothing DEF Shows
<1> HIDE DEF c
<1>5. AtEmpty(c, d, f)
  BY <1>2, <1>3, <1>4 DEF AtEmpty
<1>6. Stage(c, d, f)
  BY <1>2, <1>5, StageIs
<1> QED BY <1>1, <1>6 DEF c

\* wrap begins, with a node or a DocumentFragment.
LEMMA WrapStage ==
  ASSUME IInv, NEW d, NEW f, Shows(dom, d), Shows(settled, f), Stage(call, d, f),
         NEW self \in Movable, WrapFragment(self) \/ WrapNode(self)
  PROVE  \E e : Shows(dom', e) /\ Stage(call', e, f)
<1> DEFINE c == call'
<1>1. d = f /\ dom' = dom
  BY StageIs DEF WrapFragment, WrapNode, Begin
<1>2. c.pc = "place" /\ c.name = "wrap" /\ c.src # "string"
  <2>1. CASE WrapFragment(self)
    <3>1. PICK g : Begin("place", "wrap", self, "child", self, <<"fragment", g, <<>>>>)
      BY <2>1 DEF WrapFragment
    <3> QED BY <3>1 DEF Begin
  <2>2. CASE WrapNode(self)
    BY <2>2 DEF WrapNode, Idle
  <2> QED BY <2>1, <2>2
<1> HIDE DEF c
<1>3. Stage(c, d, f)
  BY <1>1, <1>2, StageIs DEF AtPlace
<1> QED BY <1>1, <1>3 DEF c

\* wrap begins, with a String.
LEMMA WrapStringStage ==
  ASSUME IInv, NEW d, NEW f, Shows(dom, d), Shows(settled, f), Stage(call, d, f),
         NEW self \in Movable, WrapString(self)
  PROVE  \E e : Shows(dom', e) /\ Stage(call', e, f)
<1> DEFINE c == call'
<1>1. d = f /\ dom' = dom
  BY StageIs DEF WrapString
<1>2. PICK x \in Unused : /\ c.pc = "parse" /\ c.name = "wrap" /\ c.self = self /\ c.how = "child" /\ c.at = x
                          /\ c.src = "string" /\ c.frag = Nil
  BY DEF WrapString, Idle
<1>3. self \in Node /\ x # self /\ f.kids[x] = <<>>
  BY <1>1, UnusedShown DEF Movable, Unused
<1> HIDE DEF c
<1>4. AimedOf(c, f) /\ StartOf(c, f) = f
  BY <1>2, <1>3 DEF AimedOf, Aimed, StartOf, Start
<1>5. AtParse(c, d, f)
  BY <1>1, <1>2, <1>4 DEF AtParse
<1>6. Stage(c, d, f)
  BY <1>2, <1>5, StageIs
<1> QED BY <1>1, <1>6 DEF c

-----------------------------------------------------------------------------
(* Every step.                                                             *)

\* Whatever call begins, the forest shown is at its first stage.
LEMMA CallStage ==
  ASSUME IInv, NEW d, NEW f, Shows(dom, d), Shows(settled, f), Stage(call, d, f),
         ~PrependOwnFirst, Call
  PROVE  \E e : Shows(dom', e) /\ Stage(call', e, f)
BY NewStage, AddStage, SetChildrenStage, ParseStage, UnparentStage, SetContentStage,
   DestroyStage, WrapStage, WrapStringStage
DEF Call

\* A step within a call takes it from one stage to the next.
LEMMA ContinueStage ==
  ASSUME IInv, NEW d, NEW f, Shows(dom, d), Shows(settled, f), Stage(call, d, f),
         Continue, ~Return
  PROVE  \E e : Shows(dom', e) /\ Stage(call', e, f)
<1>1. CASE AddNode \/ AddNextOfSet \/ SetExhausted \/ AddFirstOfFragment \/ FragmentExhausted \/ Unlink
  BY <1>1, AddNodeStage, AddNextOfSetStage, SetExhaustedStage, AddFirstOfFragmentStage,
     FragmentExhaustedStage, UnlinkStage
<1>2. CASE ParseRoot \/ ParseNode \/ ParseDone \/ ReleaseFirst \/ ReleaseDone
  BY <1>2, ParseRootStage, ParseNodeStage, ParseDoneStage, ReleaseFirstStage, ReleaseDoneStage
<1>3. CASE CollectChild \/ Collected \/ ClearNext \/ Cleared \/ DetachFirst \/ InsertText
  BY <1>3, CollectChildStage, CollectedStage, ClearNextStage, ClearedStage, DetachFirstStage,
     InsertTextStage
<1>4. CASE PlaceWrapper \/ NoWrapper \/ Adopt
  BY <1>4, PlaceWrapperStage, NoWrapperStage, AdoptStage
<1> QED BY <1>1, <1>2, <1>3, <1>4 DEF Continue

\* Only Return settles, and it is the only action of a call that is over.
LEMMA OnlyReturnSettles ==
  ASSUME Next, ~Return
  PROVE  settled' = settled /\ call.pc # "return"
<1>1. CASE Call
  BY <1>1 DEF Call, New, AddChild, AddNextSibling, AddPreviousSibling, PrependChild, Replace,
     SetChildren, Parse, Unparent, SetContent, Destroy, WrapFragment, WrapString, WrapNode,
     BeginAdd, Begin, Finish
<1>2. CASE Continue
  BY <1>2 DEF Continue, AddNode, AddNextOfSet, SetExhausted, AddFirstOfFragment, FragmentExhausted,
     Unlink, ParseRoot, ParseNode, ParseDone, ReleaseFirst, ReleaseDone, CollectChild, Collected,
     ClearNext, Cleared, DetachFirst, InsertText, PlaceWrapper, NoWrapper, Adopt, Added, Finished,
     Finish
<1> QED BY <1>1, <1>2 DEF Next

\* InFrontOf the first call nothing is underway.
LEMMA UnderwayAtStart == Init => Underway
<1> SUFFICES ASSUME Init PROVE Underway
  OBVIOUS
<1>1. dom = Scattered /\ settled = Scattered /\ call.pc = "idle"
  BY DEF Init, Idle
<1>2. Stage(call, Trivial, Trivial)
  BY <1>1, StageIs
<1> QED BY <1>1, <1>2, TrivialShown DEF Underway

\* Every step keeps the call on its way from the settled forest.
LEMMA UnderwayStep ==
  ASSUME ~PrependOwnFirst, IInv, Underway, [Next]_vars
  PROVE  Underway'
<1>1. PICK d, f : Shows(dom, d) /\ Shows(settled, f) /\ Stage(call, d, f)
  BY DEF Underway
<1>2. CASE Return
  <2>1. dom' = dom /\ settled' = dom /\ call'.pc = "idle"
    BY <1>2 DEF Return, Idle
  <2>2. Stage(call', d, d)
    BY <2>1, StageIs
  <2> QED BY <1>1, <2>1, <2>2 DEF Underway
<1>3. CASE Next /\ ~Return
  <2>1. \E e : Shows(dom', e) /\ Stage(call', e, f)
    BY <1>1, <1>3, CallStage, ContinueStage DEF Next
  <2>2. settled' = settled
    BY <1>3, OnlyReturnSettles
  <2> QED BY <1>1, <2>1, <2>2 DEF Underway
<1>4. CASE UNCHANGED vars
  BY <1>1, <1>4 DEF vars, Underway
<1> QED BY <1>2, <1>3, <1>4

\* The forest before the first call is the one OrderedForest begins with.
LEMMA PromiseAtStart ==
  ASSUME IsFiniteSet(Node), Init
  PROVE  Promise!Init
<1>1. settled = Scattered /\ call.pc = "idle"
  BY DEF Init, Idle
<1>2. ForestOf(settled) = Trivial
  BY <1>1, ForestShown, TrivialShown
<1> QED BY <1>1, <1>2 DEF Promise!Init, Promise!NoCall, Trivial, One

\* A step that returns is the change of OrderedForest, another one a stutter.
LEMMA PromiseStep ==
  ASSUME IsFiniteSet(Node), Underway, [Next]_vars
  PROVE  [Promise!Next]_(Promise!vars)
<1> DEFINE pending == IF call.pc = "return"
                 THEN [name |-> call.name, self |-> call.self, arg |-> call.arg]
                 ELSE [name |-> "none", self |-> Nil, arg |-> <<>>]
<1>1. PICK d, f : Shows(dom, d) /\ Shows(settled, f) /\ Stage(call, d, f)
  BY DEF Underway
<1>2. CASE Return
  <2>1. dom' = dom /\ settled' = dom /\ call'.pc = "idle" /\ call.pc = "return"
    BY <1>2 DEF Return, Idle
  <2>2. ForestOf(settled) = f /\ ForestOf(settled') = d
    BY <1>1, <2>1, ForestShown
  <2>3. call.name # "none" /\ d = Effect(call.name, call.self, call.arg, f)
    BY <1>1, <2>1, StageIs DEF AtReturn
  <2>4. Promise!Applied(pending, f) = d
    BY <2>1, <2>3, PromiseApplied
  <2>5. pending.name # "none" /\ pending # Promise!NoCall /\ pending' = Promise!NoCall
    BY <2>1, <2>3 DEF Promise!NoCall
  <2> HIDE DEF pending
  <2> QED BY <2>2, <2>4, <2>5 DEF Promise!Next, pending
<1>3. CASE Next /\ ~Return
  <2>1. settled' = settled /\ call.pc # "return"
    BY <1>3, OnlyReturnSettles
  <2> QED BY <2>1 DEF Promise!Next, Promise!NoCall
<1>4. CASE UNCHANGED vars
  BY <1>4 DEF vars, Promise!vars
<1> QED BY <1>2, <1>3, <1>4

\* Whatever is done to whatever forest, each method of nl_node.c and node.rb
\* has the effect on sequences of children that OrderedForest gives it.
THEOREM PromisesKept ==
  ASSUME ~PrependOwnFirst, IsFiniteSet(Node)
  PROVE  Spec => KeepsPromise
<1>1. Init => Underway
  BY UnderwayAtStart
<1>2. IInv /\ Underway /\ [Next]_vars => Underway'
  BY UnderwayStep
<1>3. Init => Promise!Init
  BY PromiseAtStart
<1>4. Underway /\ [Next]_vars => [Promise!Next]_(Promise!vars)
  BY PromiseStep
<1> QED BY <1>1, <1>2, <1>3, <1>4, Invariance, PTL DEF Spec, KeepsPromise, Promise!Spec
=============================================================================
