--------------------------- MODULE NodeSearchProofs ---------------------------
(***************************************************************************)
(* A search leaves the tree as it found it, and finds what there is to     *)
(* find, for every number of nodes.                                        *)
(*                                                                         *)
(* The first holds of every NodeSet: nested members, members in any order  *)
(* and members of detached trees included.  Regrouping writes to the       *)
(* fragment, to the member being linked, and to the last member linked     *)
(* before it, so to nothing that has not been copied.  The invariant says  *)
(* which nodes may differ from the saved tree at each point of the call.   *)
(*                                                                         *)
(* The second holds when no member is above another one.  Then the         *)
(* regrouped tree can be walked, and what is below the fragment in it is   *)
(* what was at and below the members.  The nodes that a walk has met are   *)
(* closed under parents and under what is below an earlier sibling; the    *)
(* next step of the walk adds the one node that keeps them so, until there *)
(* is none.                                                                *)
(***************************************************************************)
EXTENDS NodeSearch, DomTreeProofs, TLAPS

Agree(n) == LinksOf(dom, n) = LinksOf(saved, n)

Shape ==
  /\ dom \in Tree /\ saved \in Tree
  /\ DOMAIN search = DOMAIN Idle
  /\ search.members \in Seq(Tops) /\ search.backup \in Seq(NodeLinks)
  /\ \A i, j \in 1 .. Len(search.members) :
       i # j => search.members[i] # search.members[j]

\* While the members are under the fragment only they and the fragment differ
\* from the saved tree, and each is in the backup.
Borrowed ==
  search.pc \in {"group", "find", "walk"} /\ search.root = Frag =>
    /\ Len(search.backup) <= Len(search.members)
    /\ search.pc # "group" => Len(search.backup) = Len(search.members)
    /\ \A i \in 1 .. Len(search.backup) :
         search.backup[i] = LinksOf(saved, search.members[i])
    /\ \A n \in Node \ {Frag} :
         (\A i \in 1 .. Len(search.backup) : search.members[i] # n) => Agree(n)
    /\ \/ dom.last[Frag] = Nil
       \/ \E i \in 1 .. Len(search.backup) : dom.last[Frag] = search.members[i]

\* While the members are written back only those still to be written differ.
GivenBack ==
  search.pc = "restore" =>
    LET done == Len(search.members) - Len(search.backup)
    IN /\ done \in Nat
       /\ \A i \in 1 .. Len(search.backup) :
            search.backup[i] = LinksOf(saved, search.members[done + i])
       /\ \A n \in Node :
            (\A i \in 1 .. Len(search.backup) : search.members[done + i] # n)
              => Agree(n)

\* The search of a node changes nothing.
Untouched ==
  /\ search.pc = "group" => search.root = Frag
  /\ search.pc \in {"find", "walk"} /\ search.root # Frag => dom = saved

\* No node of the tree is linked to the fragment.
FragmentFree(t) ==
  /\ Isolated(t, Frag)
  /\ \A n \in Node : /\ t.parent[n] # Frag /\ t.prev[n] # Frag
                      /\ t.next[n] # Frag /\ t.first[n] # Frag
                      /\ t.last[n] # Frag

Free == FragmentFree(saved) /\ (search.pc = "idle" => FragmentFree(dom))

IInv == Shape /\ Borrowed /\ GivenBack /\ Untouched /\ TreeRestored /\ Free
-----------------------------------------------------------------------------
(* The links of single nodes.                                              *)

\* Two trees are the same when every node has the same links in both.
LEMMA SameLinksSameTree ==
  ASSUME NEW t \in Tree, NEW u \in Tree,
         \A n \in Node : LinksOf(t, n) = LinksOf(u, n)
  PROVE  t = u
<1>1. \A n \in Node : /\ t.parent[n] = u.parent[n] /\ t.prev[n] = u.prev[n]
                      /\ t.next[n] = u.next[n] /\ t.first[n] = u.first[n]
                      /\ t.last[n] = u.last[n]
  BY DEF LinksOf
<1>2. t.parent = u.parent /\ t.prev = u.prev /\ t.next = u.next
  BY <1>1 DEF Tree
<1>3. t.first = u.first /\ t.last = u.last
  BY <1>1 DEF Tree
<1> QED BY <1>2, <1>3 DEF Tree

\* What memcpy saves of a node.
LEMMA LinksOfType ==
  ASSUME NEW t \in Tree, NEW n \in Node
  PROVE  LinksOf(t, n) \in NodeLinks
BY DEF LinksOf, NodeLinks, Tree

\* lxb_dom_node_insert_child writes to the node, to its new parent and to the
\* child that was last there.
LEMMA InsertChildElsewhere ==
  ASSUME NEW t \in Tree, NEW to \in Node, NEW n \in Node, NEW x \in Node,
         x # n, x # to, x # t.last[to]
  PROVE  LinksOf(InsertChild(t, to, n), x) = LinksOf(t, x)
BY NilAssumption DEF LinksOf, InsertChild, Tree

\* After it the node is the last child.
LEMMA InsertChildLast ==
  ASSUME NEW t \in Tree, NEW to \in Node, NEW n \in Node
  PROVE  InsertChild(t, to, n).last[to] = n
BY DEF InsertChild, Tree

\* Writing a copy back changes one node, and makes it as it was copied.
LEMMA WithLinksOne ==
  ASSUME NEW t \in Tree, NEW n \in Node, NEW b \in NodeLinks
  PROVE  /\ WithLinks(t, n, b) \in Tree
         /\ LinksOf(WithLinks(t, n, b), n) = b
         /\ \A x \in Node \ {n} : LinksOf(WithLinks(t, n, b), x) = LinksOf(t, x)
<1>1. WithLinks(t, n, b) \in Tree
  BY DEF WithLinks, Tree, NodeLinks
<1>2. LinksOf(WithLinks(t, n, b), n) = b
  BY DEF WithLinks, LinksOf, Tree, NodeLinks
<1>3. \A x \in Node \ {n} : LinksOf(WithLinks(t, n, b), x) = LinksOf(t, x)
  BY DEF WithLinks, LinksOf, Tree
<1> QED BY <1>1, <1>2, <1>3

\* Editing other nodes leaves a fragment that none is linked to alone.
LEMMA FragmentFreeRemove ==
  ASSUME NEW t \in Tree, NEW n \in Node, n # Frag, FragmentFree(t)
  PROVE  FragmentFree(RemoveNode(t, n))
BY NilAssumption, NodeAssumption DEF FragmentFree, Isolated, RemoveNode, Tree, Link

LEMMA FragmentFreeInsertChild ==
  ASSUME NEW t \in Tree, NEW n \in Node, NEW to \in Node, n # Frag, to # Frag,
         FragmentFree(t)
  PROVE  FragmentFree(InsertChild(t, to, n))
BY NilAssumption, NodeAssumption DEF FragmentFree, Isolated, InsertChild, Tree, Link

LEMMA FragmentFreeInsertBefore ==
  ASSUME NEW t \in Tree, NEW n \in Node, NEW to \in Node, n # Frag, to # Frag,
         FragmentFree(t)
  PROVE  FragmentFree(InsertBefore(t, to, n))
BY NilAssumption, NodeAssumption DEF FragmentFree, Isolated, InsertBefore, Tree, Link

\* A new node has no links.
LEMMA NewNodeLinks ==
  /\ Scattered \in Tree
  /\ \A n \in Node, t \in Tree :
       Isolated(t, n) => LinksOf(t, n) = LinksOf(Scattered, n)
BY DEF Scattered, NoLinks, Tree, Link, LinksOf, Isolated
-----------------------------------------------------------------------------
(* One lemma per action.                                                   *)

LEMMA InitStep == Init => IInv
BY NilAssumption, NodeAssumption
   DEF Init, IInv, Shape, Borrowed, GivenBack, Untouched, TreeRestored, Free, Idle,
       Scattered, NoLinks, Tree, Link, FragmentFree, Isolated

LEMMA EditStep == IInv /\ Edit => IInv'
<1> SUFFICES ASSUME IInv, NEW n \in Node, NEW x \in Node,
                    \/ AddChild(x, n) \/ AddPreviousSibling(x, n) \/ Unparent(n)
             PROVE  IInv'
  BY DEF Edit
<1>1. search.pc = "idle" /\ UNCHANGED <<mark, search, saved>>
  BY DEF AddChild, AddPreviousSibling, Unparent
<1>2. dom' \in Tree
  <2>1. RemoveNode(dom, n) \in Tree
    BY RemoveNodeType DEF IInv, Shape
  <2> QED BY <2>1, InsertChildType, InsertBeforeType
      DEF AddChild, AddPreviousSibling, Unparent
<1>3. FragmentFree(dom')
  <2>1. FragmentFree(dom) /\ n # Frag /\ x \in Node /\ dom \in Tree
    BY <1>1 DEF IInv, Shape, Free, AddChild, AddPreviousSibling, Unparent, AtRest
  <2>2. FragmentFree(RemoveNode(dom, n)) /\ RemoveNode(dom, n) \in Tree
    BY <2>1, RemoveNodeType, FragmentFreeRemove
  <2> QED BY <2>1, <2>2, FragmentFreeInsertChild, FragmentFreeInsertBefore
      DEF AddChild, AddPreviousSibling, Unparent, FragmentFree, Isolated
<1> QED BY <1>1, <1>2, <1>3 DEF IInv, Shape, Borrowed, GivenBack, Untouched,
                               TreeRestored, Free

LEMMA CssStep == IInv /\ Css => IInv'
<1> SUFFICES ASSUME IInv, Css PROVE IInv'
  OBVIOUS
<1> USE DEF IInv
<1>1. CASE \E n \in Node, l \in SelectorList, once \in BOOLEAN, kind \in Kinds :
             CssOfNode(n, l, once, kind)
  BY <1>1 DEF CssOfNode, Idle, Shape, Borrowed, GivenBack, Untouched, TreeRestored, Free
<1>2. ASSUME NEW s \in Members, NEW l \in SelectorList, NEW once \in BOOLEAN,
             NEW kind \in Kinds, CssOfSet(s, l, once, kind)
      PROVE  IInv'
  <2>1. s \in Seq(Tops) /\ \A i, j \in 1 .. Len(s) : i # j => s[i] # s[j]
    <3>1. PICK k \in 0 .. MaxMembers : s \in [1 .. k -> Tops]
      BY DEF Members
    <3>2. k \in Nat
      BY <3>1, SearchAssumption
    <3> QED BY <3>1, <3>2 DEF Members
  <2>2. /\ search'.pc = "group" /\ search'.members = s /\ search'.backup = <<>>
        /\ search'.root = Frag /\ DOMAIN search' = DOMAIN Idle
        /\ saved' = dom /\ dom' = dom /\ FragmentFree(dom)
    BY <1>2 DEF CssOfSet, Idle, Free
  <2>3. Shape'
    BY <2>1, <2>2 DEF Shape
  <2>4. Borrowed'
    BY <2>2, <2>1 DEF Borrowed, Agree, FragmentFree, Isolated
  <2> QED BY <2>2, <2>3, <2>4 DEF GivenBack, Untouched, TreeRestored, Free
<1> QED BY <1>1, <1>2 DEF Css

LEMMA GroupMemberStep == IInv /\ GroupMember => IInv'
<1> SUFFICES ASSUME IInv, GroupMember PROVE IInv'
  OBVIOUS
<1> DEFINE k == Len(search.backup)
           n == search.members[k + 1]
<1> USE DEF IInv
<1>1. /\ search.pc = "group" /\ k < Len(search.members)
      /\ search'.backup = Append(search.backup, LinksOf(dom, n))
      /\ search'.pc = "group" /\ search'.members = search.members
      /\ search'.root = Frag /\ DOMAIN search' = DOMAIN Idle
      /\ dom' = InsertChild(dom, Frag, n) /\ saved' = saved
  BY DEF GroupMember, Shape, Untouched, Idle
<1>2. k \in Nat /\ k + 1 \in 1 .. Len(search.members) /\ n \in Tops /\ n \in Node
  BY <1>1 DEF Shape, Tops
<1>3. LinksOf(dom, n) \in NodeLinks
  BY <1>2, LinksOfType DEF Shape
<1>4. /\ Len(search'.backup) = k + 1 /\ search'.backup \in Seq(NodeLinks)
      /\ \A i \in 1 .. k : search'.backup[i] = search.backup[i]
      /\ search'.backup[k + 1] = LinksOf(dom, n)
  BY <1>1, <1>2, <1>3 DEF Shape
<1>5. Frag \in Node /\ n # Frag
  BY <1>2, NodeAssumption DEF Tops
<1>6. Shape'
  BY <1>1, <1>2, <1>4, <1>5, InsertChildType DEF Shape
<1>7. /\ \A i \in 1 .. k : search.backup[i] = LinksOf(saved, search.members[i])
      /\ \A x \in Node \ {Frag} :
           (\A i \in 1 .. k : search.members[i] # x) => Agree(x)
      /\ \/ dom.last[Frag] = Nil
         \/ \E i \in 1 .. k : dom.last[Frag] = search.members[i]
  BY <1>1 DEF Borrowed, Untouched
<1>8. LinksOf(dom, n) = LinksOf(saved, n)
  BY <1>2, <1>5, <1>7 DEF Shape, Agree
<1>9. \A i \in 1 .. k + 1 :
        search'.backup[i] = LinksOf(saved', search'.members[i])
  BY <1>1, <1>2, <1>4, <1>7, <1>8
<1>10. ASSUME NEW x \in Node \ {Frag},
              \A i \in 1 .. k + 1 : search.members[i] # x
       PROVE  LinksOf(dom', x) = LinksOf(saved, x)
  <2>1. x # n /\ \A i \in 1 .. k : search.members[i] # x
    BY <1>10, <1>2
  <2>2. x # dom.last[Frag] /\ LinksOf(dom, x) = LinksOf(saved, x)
    BY <2>1, <1>7, NilAssumption DEF Agree
  <2> QED BY <2>1, <2>2, <1>1, <1>2, <1>5, InsertChildElsewhere DEF Shape
<1>11. dom'.last[Frag] = search'.members[k + 1]
  BY <1>1, <1>2, <1>5, InsertChildLast DEF Shape
<1>12. Borrowed'
  BY <1>1, <1>2, <1>4, <1>7, <1>9, <1>10, <1>11 DEF Borrowed, Agree
<1> QED BY <1>1, <1>6, <1>12 DEF GivenBack, Untouched, TreeRestored, Free

\* What the steps between the regrouping and the restoring leave alone.
LEMMA MovingOn ==
  ASSUME IInv, UNCHANGED <<dom, saved>>, DOMAIN search' = DOMAIN search,
         search'.members = search.members, search'.backup = search.backup,
         search'.root = search.root, search.pc \in {"group", "find", "walk"},
         search'.pc \in {"find", "walk", "raised"},
         search.pc = "group" => Len(search.backup) = Len(search.members)
  PROVE  IInv'
<1>1. Shape'
  BY DEF IInv, Shape
<1>2. Borrowed'
  BY DEF IInv, Borrowed, Agree
<1>3. Untouched'
  BY DEF IInv, Untouched
<1> QED BY <1>1, <1>2, <1>3 DEF IInv, GivenBack, TreeRestored, Free

LEMMA WalkSteps ==
  IInv /\ (Grouped \/ Raise \/ NextSelector \/ Visit \/ WalkDone) => IInv'
<1> SUFFICES ASSUME IInv, Grouped \/ Raise \/ NextSelector \/ Visit \/ WalkDone
             PROVE  IInv'
  OBVIOUS
<1>1. DOMAIN search = DOMAIN Idle
  BY DEF IInv, Shape
<1>2. CASE Grouped
  BY <1>1, <1>2, MovingOn DEF Grouped, Idle
<1>3. CASE Raise
  BY <1>1, <1>3, MovingOn DEF Raise, Idle
<1>4. CASE NextSelector
  BY <1>1, <1>4, MovingOn DEF NextSelector, Idle
<1>5. CASE Visit
  BY <1>1, <1>5, MovingOn DEF Visit, Idle
<1>6. CASE WalkDone
  BY <1>1, <1>6, MovingOn DEF WalkDone, Idle
<1> QED BY <1>2, <1>3, <1>4, <1>5, <1>6

\* The fragment is destroyed with all the members still under it.
LEMMA FoundStep == IInv /\ (ParseFails \/ FindDone) => IInv'
<1> SUFFICES ASSUME IInv, search.pc = "find", Found PROVE IInv'
  BY DEF ParseFails, FindDone
<1>1. /\ DOMAIN search' = DOMAIN Idle /\ search'.members = search.members
      /\ search'.backup = search.backup /\ search'.root = search.root
      /\ saved' = saved
  BY DEF Found, IInv, Shape, Idle
<1>2. CASE search.root = Frag
  <2> DEFINE b == LinksOf(Scattered, Frag)
  <2>1. search'.pc = "restore" /\ dom' = WithLinks(dom, Frag, b)
    BY <1>2 DEF Found, IInv, Shape, Idle
  <2>2. b \in NodeLinks /\ Frag \in Node
    BY LinksOfType, NewNodeLinks, NodeAssumption
  <2>3. /\ dom' \in Tree /\ LinksOf(dom', Frag) = b
        /\ \A x \in Node \ {Frag} : LinksOf(dom', x) = LinksOf(dom, x)
    BY <2>1, <2>2, WithLinksOne DEF IInv, Shape
  <2>4. LinksOf(saved, Frag) = b
    BY <2>2, NewNodeLinks DEF IInv, Shape, Free, FragmentFree
  <2>5. Len(search.backup) = Len(search.members) /\ Len(search.members) \in Nat
    BY <1>2 DEF IInv, Shape, Borrowed
  <2>6. \A i \in 1 .. Len(search.backup) :
          search.backup[i] = LinksOf(saved, search.members[i])
    BY <1>2 DEF IInv, Borrowed
  <2>7. \A x \in Node : (\A i \in 1 .. Len(search.backup) : search.members[i] # x)
                          => LinksOf(dom', x) = LinksOf(saved, x)
    BY <1>2, <2>3, <2>4 DEF IInv, Borrowed, Agree
  <2>8. GivenBack'
    BY <1>1, <2>5, <2>6, <2>7 DEF GivenBack, Agree
  <2> QED BY <1>1, <2>1, <2>3, <2>8
      DEF IInv, Shape, Borrowed, Untouched, TreeRestored, Free
<1>3. CASE search.root # Frag
  <2>1. search'.pc \in {"sort", "return"} /\ dom' = dom /\ dom = saved
    BY <1>3 DEF Found, Answer, IInv, Shape, Idle, Untouched
  <2> QED BY <1>1, <2>1
      DEF IInv, Shape, Borrowed, GivenBack, Untouched, TreeRestored, Free
<1> QED BY <1>2, <1>3

LEMMA RestoreMemberStep == IInv /\ RestoreMember => IInv'
<1> SUFFICES ASSUME IInv, RestoreMember PROVE IInv'
  OBVIOUS
<1>1. Len(search.members) \in Nat /\ Len(search.backup) \in Nat
  BY DEF IInv, Shape
<1>2. PICK k \in Nat : k = Len(search.backup)
  BY <1>1
<1>3. PICK m \in Nat : m = Len(search.members)
  BY <1>1
<1>4. PICK done \in Nat : done = m - k
  BY <1>2, <1>3 DEF IInv, GivenBack, RestoreMember
<1>5. k + done = m
  BY <1>4
<1> DEFINE n == search.members[done + 1]
           b == Head(search.backup)
<1>6. /\ search.pc = "restore" /\ search.backup # <<>>
      /\ dom' = WithLinks(dom, n, b) /\ saved' = saved
      /\ search'.backup = Tail(search.backup) /\ search'.pc = "restore"
      /\ search'.members = search.members /\ DOMAIN search' = DOMAIN Idle
  BY <1>2, <1>4, <1>3 DEF RestoreMember, IInv, Shape, Idle
<1>7. k > 0 /\ done + 1 \in 1 .. m
  <2>1. k # 0
    BY <1>2, <1>6 DEF IInv, Shape
  <2> QED BY <2>1, <1>5
<1>8. n \in Node
  BY <1>7, <1>3 DEF IInv, Shape, Tops
<1>9. /\ b \in NodeLinks /\ b = search.backup[1]
      /\ search'.backup \in Seq(NodeLinks) /\ Len(search'.backup) = k - 1
      /\ \A i \in 1 .. k - 1 : search'.backup[i] = search.backup[i + 1]
  BY <1>2, <1>6, <1>7 DEF IInv, Shape
<1>10. /\ \A i \in 1 .. k :
           search.backup[i] = LinksOf(saved, search.members[done + i])
      /\ \A x \in Node :
           (\A i \in 1 .. k : search.members[done + i] # x) => Agree(x)
  BY <1>2, <1>4, <1>3, <1>6 DEF IInv, GivenBack
<1>11. b = LinksOf(saved, n)
  BY <1>7, <1>10, <1>9
<1>12. /\ dom' \in Tree /\ LinksOf(dom', n) = LinksOf(saved, n)
      /\ \A x \in Node \ {n} : LinksOf(dom', x) = LinksOf(dom, x)
  BY <1>6, <1>8, <1>9, <1>11, WithLinksOne DEF IInv, Shape
<1>13. /\ Len(search'.members) = m /\ Len(search'.backup) = k - 1
      /\ m - (k - 1) = done + 1
  <2>1. m - (k - 1) = done + 1
    BY <1>5
  <2> QED BY <2>1, <1>3, <1>6, <1>9
<1>14. \A i \in 1 .. k - 1 :
        search'.backup[i] = LinksOf(saved, search.members[(done + 1) + i])
  <2> SUFFICES ASSUME NEW i \in 1 .. k - 1
               PROVE search'.backup[i] = LinksOf(saved, search.members[(done + 1) + i])
    OBVIOUS
  <2>1. i + 1 \in 1 .. k /\ done + (i + 1) = (done + 1) + i
    BY <1>1, <1>7
  <2> QED BY <2>1, <1>9, <1>10
<1>15. ASSUME NEW x \in Node,
             \A i \in 1 .. k - 1 : search.members[(done + 1) + i] # x
      PROVE  LinksOf(dom', x) = LinksOf(saved, x)
  <2>1. CASE x = n
    BY <2>1, <1>12
  <2>2. CASE x # n
    <3>1. \A i \in 1 .. k : search.members[done + i] # x
      <4> SUFFICES ASSUME NEW i \in 1 .. k, search.members[done + i] = x
                   PROVE  FALSE
        OBVIOUS
      <4>1. i # 1
        BY <2>2
      <4>2. i - 1 \in 1 .. k - 1 /\ (done + 1) + (i - 1) = done + i
        BY <4>1, <1>1, <1>7
      <4> QED BY <4>2, <1>15
    <3> QED BY <3>1, <2>2, <1>10, <1>12 DEF Agree
  <2> QED BY <2>1, <2>2
<1>16. GivenBack'
  <2> HIDE DEF b
  <2>1. \A i \in 1 .. Len(search'.backup) :
          search'.backup[i] = LinksOf(saved', search'.members[(done + 1) + i])
    BY <1>6, <1>13, <1>14
  <2>2. \A x \in Node :
          (\A i \in 1 .. Len(search'.backup) :
             search'.members[(done + 1) + i] # x) => Agree(x)'
    BY <1>6, <1>13, <1>15 DEF Agree
  <2>3. Len(search'.members) - Len(search'.backup) = done + 1 /\ done + 1 \in Nat
    BY <1>13
  <2> QED BY <2>1, <2>2, <2>3 DEF GivenBack
<1> QED BY <1>6, <1>9, <1>12, <1>16
    DEF IInv, Shape, Borrowed, Untouched, TreeRestored, Free

LEMMA RestoredStep == IInv /\ Restored => IInv'
<1> SUFFICES ASSUME IInv, Restored PROVE IInv'
  OBVIOUS
<1>1. /\ search.pc = "restore" /\ search.backup = <<>>
      /\ search'.pc \in {"sort", "return"} /\ DOMAIN search' = DOMAIN Idle
      /\ search'.members = search.members /\ search'.backup = search.backup
      /\ dom' = dom /\ saved' = saved
  BY DEF Restored, Answer, IInv, Shape, Idle
<1>2. \A n \in Node : LinksOf(dom, n) = LinksOf(saved, n)
  BY <1>1 DEF IInv, GivenBack, Agree
<1>3. dom = saved
  BY <1>2, SameLinksSameTree DEF IInv, Shape
<1> QED BY <1>1, <1>3 DEF IInv, Shape, Borrowed, GivenBack, Untouched, TreeRestored, Free

LEMMA SortStep == IInv /\ Sort => IInv'
<1> SUFFICES ASSUME IInv, Sort PROVE IInv'
  OBVIOUS
<1>1. /\ search.pc = "sort" /\ search'.pc = "return"
      /\ DOMAIN search' = DOMAIN Idle
      /\ search'.members = search.members /\ search'.backup = search.backup
      /\ dom' = dom /\ saved' = saved
  BY DEF Sort, IInv, Shape, Idle
<1> QED BY <1>1 DEF IInv, Shape, Borrowed, GivenBack, Untouched, TreeRestored, Free

LEMMA ReturnStep == IInv /\ Return => IInv'
<1> SUFFICES ASSUME IInv, Return PROVE IInv'
  OBVIOUS
<1>1. /\ search.pc = "return" /\ search' = Idle
      /\ dom' = dom /\ saved' = Scattered
  BY DEF Return
<1>2. dom' \in Tree /\ FragmentFree(dom')
  BY <1>1 DEF IInv, Shape, TreeRestored, Free, FragmentFree, Isolated
<1>3. Scattered \in Tree /\ FragmentFree(Scattered)
  BY NilAssumption, NodeAssumption
     DEF Scattered, NoLinks, Tree, Link, FragmentFree, Isolated
<1>4. Shape'
  BY <1>1, <1>2, <1>3 DEF Shape, Idle
<1>5. Free'
  BY <1>1, <1>2, <1>3 DEF Free, FragmentFree, Isolated
<1> QED BY <1>1, <1>4, <1>5 DEF IInv, Borrowed, GivenBack, Untouched, TreeRestored, Idle

LEMMA StutterStep == IInv /\ UNCHANGED vars => IInv'
BY DEF IInv, vars, Shape, Borrowed, Agree, GivenBack, Untouched, TreeRestored, Free
-----------------------------------------------------------------------------
LEMMA InductiveStep == IInv /\ [Next]_vars => IInv'
<1> SUFFICES ASSUME IInv, [Next]_vars PROVE IInv'
  OBVIOUS
<1>1. CASE Step
  BY <1>1, GroupMemberStep, WalkSteps, FoundStep, RestoreMemberStep,
     RestoredStep, SortStep, ReturnStep, StutterStep DEF Step, Abandon
<1>2. CASE UNCHANGED vars
  BY <1>2, StutterStep
<1> QED BY <1>1, <1>2, EditStep, CssStep DEF Next

\* Whatever nodes a NodeSet holds, in whatever order, and whether the selector
\* parses or not: when css or at_css returns, every link of every node is what
\* it was before the call (nl_node_set.c:382-406).
THEOREM SearchRestoresTree == Spec => []TreeRestored
<1>1. Init => IInv
  BY InitStep
<1>2. IInv /\ [Next]_vars => IInv'
  BY InductiveStep
<1>3. IInv => TreeRestored
  BY DEF IInv
<1> QED BY <1>1, <1>2, <1>3, PTL DEF Spec
-----------------------------------------------------------------------------
(* What is below a node.                                                   *)

\* The nodes that have x above them, and x.
SubtreeOf(t, x) == Below(t, {x})

\* What a walk from r has to meet.
Beneath(t, r) == SubtreeOf(t, r) \ {r}

\* What is below some nodes: with a node all its children.
LEMMA BelowFacts ==
  ASSUME NEW t \in Tree, NEW X \in SUBSET Node
  PROVE  /\ Below(t, X) \in SUBSET Node /\ X \subseteq Below(t, X)
         /\ \A y \in Node : t.parent[y] \in Node /\ t.parent[y] \in Below(t, X) => y \in Below(t, X)
         /\ \A y \in Below(t, X) : y \notin X => t.parent[y] \in Below(t, X)
<1>1. Below(t, X) \in SUBSET Node
  BY DEF Below
<1>2. X \subseteq Below(t, X)
  BY DEF Below, NoneAbove
<1>3. ASSUME NEW y \in Node, t.parent[y] \in Node, y \notin Below(t, X) PROVE t.parent[y] \notin Below(t, X)
  <2>1. PICK A \in SUBSET Node : y \in A /\ A \cap X = {} /\ \A z \in A : t.parent[z] \in A \cup {Nil}
    BY <1>3 DEF Below, NoneAbove
  <2>2. t.parent[y] \in A
    BY <1>3, <2>1, NilAssumption
  <2> QED BY <2>1, <2>2 DEF Below, NoneAbove
<1>4. ASSUME NEW y \in Below(t, X), y \notin X, t.parent[y] \notin Below(t, X) PROVE FALSE
  <2>0. y \in Node /\ t.parent[y] \in Link
    BY <1>1 DEF Tree
  <2>1. CASE t.parent[y] = Nil
    <3>1. NoneAbove(t, X, y)
      <4> DEFINE A == {y}
      <4>1. A \in SUBSET Node /\ y \in A /\ A \cap X = {} /\ \A z \in A : t.parent[z] \in A \cup {Nil}
        BY <1>4, <2>0, <2>1
      <4> HIDE DEF A
      <4> QED BY <4>1 DEF NoneAbove
    <3> QED BY <3>1 DEF Below
  <2>2. CASE t.parent[y] \in Node
    <3>1. PICK A \in SUBSET Node : t.parent[y] \in A /\ A \cap X = {} /\ \A z \in A : t.parent[z] \in A \cup {Nil}
      BY <1>4, <2>2 DEF Below, NoneAbove
    <3> DEFINE B == A \cup {y}
    <3>2. B \in SUBSET Node /\ y \in B /\ B \cap X = {} /\ \A z \in B : t.parent[z] \in B \cup {Nil}
      BY <1>4, <2>0, <3>1
    <3> HIDE DEF B
    <3>3. NoneAbove(t, X, y)
      BY <3>2 DEF NoneAbove
    <3> QED BY <3>3 DEF Below
  <2> QED BY <2>0, <2>1, <2>2 DEF Link
<1> QED BY <1>1, <1>2, <1>3, <1>4

\* What holds some nodes and every child of what it holds, holds what is below.
LEMMA BelowWithin ==
  ASSUME NEW t \in Tree, NEW X \in SUBSET Node, NEW S, X \subseteq S,
         \A y \in Below(t, X) : y \notin X /\ t.parent[y] \in S => y \in S
  PROVE  Below(t, X) \subseteq S
<1> SUFFICES ASSUME NEW y \in Below(t, X), y \notin S PROVE FALSE
  OBVIOUS
<1> DEFINE A == Below(t, X) \ S
<1>1. \A z \in A : t.parent[z] \in A
  BY BelowFacts
<1>2. A \in SUBSET Node /\ y \in A /\ A \cap X = {}
  BY BelowFacts
<1> HIDE DEF A
<1>3. NoneAbove(t, X, y)
  BY <1>1, <1>2 DEF NoneAbove
<1> QED BY <1>3 DEF Below

LEMMA UnderFacts ==
  ASSUME NEW t \in Tree, NEW x \in Node
  PROVE  /\ SubtreeOf(t, x) \in SUBSET Node /\ x \in SubtreeOf(t, x)
         /\ \A y \in Node : t.parent[y] \in Node /\ t.parent[y] \in SubtreeOf(t, x) => y \in SubtreeOf(t, x)
         /\ \A y \in SubtreeOf(t, x) : y # x => t.parent[y] \in SubtreeOf(t, x)
<1>1. {x} \in SUBSET Node
  OBVIOUS
<1> QED BY <1>1, BelowFacts DEF SubtreeOf

LEMMA UnderWithin ==
  ASSUME NEW t \in Tree, NEW x \in Node, NEW S, x \in S,
         \A y \in SubtreeOf(t, x) : y # x /\ t.parent[y] \in S => y \in S
  PROVE  SubtreeOf(t, x) \subseteq S
<1>1. {x} \in SUBSET Node /\ {x} \subseteq S
  OBVIOUS
<1>2. \A y \in Below(t, {x}) : y \notin {x} /\ t.parent[y] \in S => y \in S
  BY DEF SubtreeOf
<1> QED BY <1>1, <1>2, BelowWithin DEF SubtreeOf

\* What is below several nodes is under one of them.
LEMMA BelowOne ==
  ASSUME NEW t \in Tree, NEW X \in SUBSET Node, NEW y \in Below(t, X)
  PROVE  \E w \in X : y \in SubtreeOf(t, w)
<1> SUFFICES ASSUME \A w \in X : y \notin SubtreeOf(t, w) PROVE FALSE
  OBVIOUS
<1> DEFINE A == {z \in Node : \A w \in X : z \notin SubtreeOf(t, w)}
<1>1. A \in SUBSET Node /\ A \cap X = {} /\ y \in A
  BY UnderFacts, BelowFacts
<1>2. ASSUME NEW z \in A PROVE t.parent[z] \in A \cup {Nil}
  <2>1. CASE t.parent[z] = Nil
    BY <2>1
  <2>2. CASE t.parent[z] \in Node
    BY <2>2, UnderFacts
  <2>3. t.parent[z] \in Link
    BY DEF Tree
  <2> QED BY <2>1, <2>2, <2>3 DEF Link
<1> HIDE DEF A
<1>3. NoneAbove(t, X, y)
  BY <1>1, <1>2 DEF NoneAbove
<1> QED BY <1>3 DEF Below

LEMMA UnderTransitive ==
  ASSUME NEW t \in Tree, NEW x \in Node, NEW y \in SubtreeOf(t, x)
  PROVE  SubtreeOf(t, y) \subseteq SubtreeOf(t, x)
<1>1. y \in Node
  BY UnderFacts
<1>2. \A z \in SubtreeOf(t, y) : z # y /\ t.parent[z] \in SubtreeOf(t, x) => z \in SubtreeOf(t, x)
  BY <1>1, UnderFacts
<1> QED BY <1>1, <1>2, UnderWithin

\* Nobody is under his own child.
LEMMA NotUnderChild ==
  ASSUME NEW t \in Tree, ~Loops(t.parent), NEW x \in Node, t.parent[x] \in Node
  PROVE  t.parent[x] \notin SubtreeOf(t, x)
<1> SUFFICES ASSUME t.parent[x] \in SubtreeOf(t, x) PROVE FALSE
  OBVIOUS
<1> DEFINE p == t.parent[x]
           S == {z \in SubtreeOf(t, x) : p \in SubtreeOf(t, z)}
<1>1. x \in S
  BY UnderFacts
<1>2. ASSUME NEW z \in S PROVE t.parent[z] \in S
  <2>1. CASE z = x
    BY <2>1, UnderFacts
  <2>2. CASE z # x
    <3>1. t.parent[z] \in SubtreeOf(t, x) /\ z \in Node /\ t.parent[z] \in Node
      BY <2>2, UnderFacts
    <3>2. z \in SubtreeOf(t, t.parent[z])
      BY <3>1, UnderFacts
    <3>3. p \in SubtreeOf(t, t.parent[z])
      BY <3>1, <3>2, UnderTransitive
    <3> QED BY <3>1, <3>3
  <2> QED BY <2>1, <2>2
<1>3. S \in SUBSET Node
  BY UnderFacts
<1> HIDE DEF S
<1> QED BY <1>1, <1>2, <1>3 DEF Loops

\* What a walk of the tree t from r needs of the links under r.
Walkable(t, r) ==
  /\ t \in Tree /\ r \in Node
  /\ ~Loops(t.parent) /\ ~Loops(t.next)
  /\ \A x \in Beneath(t, r) : t.next[x] # Nil => t.prev[t.next[x]] = x /\ t.parent[t.next[x]] = t.parent[x]
  /\ \A x \in Beneath(t, r) : t.prev[x] # Nil => t.next[t.prev[x]] = x /\ t.parent[t.prev[x]] = t.parent[x]
  /\ \A p \in SubtreeOf(t, r) : t.first[p] # Nil => t.parent[t.first[p]] = p /\ t.prev[t.first[p]] = Nil
  /\ \A x \in Beneath(t, r) : t.first[t.parent[x]] # Nil
  /\ \A x, y \in Beneath(t, r) : t.parent[x] = t.parent[y] /\ t.next[x] = Nil /\ t.next[y] = Nil => x = y

\* The nodes of V are the first ones that a walk from r meets: with a node its
\* parent, and everything under the sibling before it.
WalkPart(t, r, V) ==
  /\ V \subseteq Beneath(t, r)
  /\ \A x \in V : t.parent[x] \in V \cup {r}
  /\ \A x \in V : t.prev[x] # Nil => SubtreeOf(t, t.prev[x]) \subseteq V

\* c is the one that comes after them.
ComesNext(t, r, V, c) ==
  /\ c \in Beneath(t, r) /\ c \notin V /\ t.parent[c] \in V \cup {r}
  /\ t.prev[c] # Nil => SubtreeOf(t, t.prev[c]) \subseteq V

Walked(t, r, V, c) == WalkPart(t, r, V) /\ (ComesNext(t, r, V, c) \/ (c = r /\ V = Beneath(t, r)))

LEMMA WalkableFacts ==
  ASSUME NEW t, NEW r, Walkable(t, r)
  PROVE  /\ t \in Tree /\ r \in Node /\ Beneath(t, r) \in SUBSET Node /\ SubtreeOf(t, r) \in SUBSET Node
         /\ \A x \in Node : /\ t.parent[x] \in Link /\ t.next[x] \in Link /\ t.prev[x] \in Link
                            /\ t.first[x] \in Link
         /\ SubtreeOf(t, r) = Beneath(t, r) \cup {r} /\ r \notin Beneath(t, r)
         /\ \A x \in Beneath(t, r) : t.parent[x] \in SubtreeOf(t, r) /\ t.parent[x] \in Node
         /\ \A x \in Node : t.parent[x] \in SubtreeOf(t, r) => x \in Beneath(t, r)
<1>1. t \in Tree /\ r \in Node
  BY DEF Walkable
<1>2. SubtreeOf(t, r) \in SUBSET Node /\ SubtreeOf(t, r) = Beneath(t, r) \cup {r} /\ r \notin Beneath(t, r)
  BY <1>1, UnderFacts DEF Beneath
<1>3. \A x \in Node : /\ t.parent[x] \in Link /\ t.next[x] \in Link /\ t.prev[x] \in Link
                      /\ t.first[x] \in Link
  BY <1>1 DEF Tree
<1>4. \A x \in Beneath(t, r) : t.parent[x] \in SubtreeOf(t, r)
  BY <1>1, UnderFacts DEF Beneath
<1>5. ASSUME NEW x \in Node, t.parent[x] \in SubtreeOf(t, r) PROVE x \in Beneath(t, r)
  <2>1. x \in SubtreeOf(t, r) /\ t.parent[x] \in Node
    BY <1>1, <1>2, <1>5, UnderFacts
  <2>2. x # r
    BY <1>5, <2>1, NotUnderChild DEF Walkable
  <2> QED BY <2>1, <2>2 DEF Beneath
<1> QED BY <1>1, <1>2, <1>3, <1>4, <1>5

\* When all under the last child is met, so is all under its parent.
LEMMA AllUnderParent ==
  ASSUME NEW t, NEW r, Walkable(t, r), NEW V, WalkPart(t, r, V), NEW y \in V, t.next[y] = Nil, SubtreeOf(t, y) \subseteq V
  PROVE  SubtreeOf(t, t.parent[y]) \subseteq V \cup {r}
<1> DEFINE p == t.parent[y]
           C == {c \in Node : t.parent[c] = p /\ ~(SubtreeOf(t, c) \subseteq V)}
<1>1. /\ t \in Tree /\ y \in Beneath(t, r) /\ y \in Node /\ p \in SubtreeOf(t, r) /\ p \in Node /\ p \in V \cup {r}
  BY WalkableFacts DEF WalkPart
<1>2. ASSUME NEW c \in C PROVE t.next[c] \in C
  <2>1. c \in Node /\ t.parent[c] = p /\ ~(SubtreeOf(t, c) \subseteq V) /\ c \in Beneath(t, r)
    BY <1>1, WalkableFacts
  <2>2. t.next[c] # Nil
    BY <1>1, <2>1 DEF Walkable
  <2>3. t.next[c] \in Node /\ t.prev[t.next[c]] = c /\ t.parent[t.next[c]] = p
    BY <2>1, <2>2, WalkableFacts DEF Walkable, Link
  <2>4. ~(SubtreeOf(t, t.next[c]) \subseteq V)
    <3> SUFFICES ASSUME SubtreeOf(t, t.next[c]) \subseteq V PROVE FALSE
      OBVIOUS
    <3>1. t.next[c] \in V
      BY <1>1, <2>3, UnderFacts
    <3>2. SubtreeOf(t, c) \subseteq V
      BY <2>1, <2>3, <3>1, NilAssumption DEF WalkPart
    <3> QED BY <2>1, <3>2
  <2> QED BY <2>3, <2>4
<1>3. C = {}
  <2>1. C \in SUBSET Node
    OBVIOUS
  <2> HIDE DEF C
  <2> QED BY <1>2, <2>1 DEF Loops, Walkable
<1> DEFINE S == {p} \cup {z \in Node : \E d \in Node : t.parent[d] = p /\ z \in SubtreeOf(t, d)}
<1>4. ASSUME NEW x \in SubtreeOf(t, p), x # p, t.parent[x] \in S PROVE x \in S
  <2>0. x \in Node /\ x \in SubtreeOf(t, x) /\ p # Nil
    BY <1>1, UnderFacts, NilAssumption
  <2>1. CASE t.parent[x] = p
    BY <2>0, <2>1
  <2>2. CASE t.parent[x] # p
    <3>1. PICK d \in Node : t.parent[d] = p /\ t.parent[x] \in SubtreeOf(t, d) /\ t.parent[x] \in Node
      BY <1>4, <2>2
    <3>2. x \in SubtreeOf(t, d)
      BY <1>1, <2>0, <3>1, UnderFacts
    <3> QED BY <2>0, <3>1, <3>2
  <2> QED BY <2>1, <2>2
<1>5. p \in S
  OBVIOUS
<1>6. S \subseteq V \cup {r}
  BY <1>1, <1>3
<1> HIDE DEF S, C
<1>7. SubtreeOf(t, p) \subseteq S
  BY <1>1, <1>4, <1>5, UnderWithin
<1> QED BY <1>6, <1>7

\* The function that After climbs with.
ClimbStep(t, r, g, k) ==
  [x \in Link |-> IF x \in {r, Nil} THEN x
                  ELSE IF t.next[x] # Nil THEN t.next[x]
                  ELSE IF k = 0 THEN Nil ELSE g[k - 1][t.parent[x]]]

Climbs(t, r, n, g) == g = [k \in 0 .. n |-> ClimbStep(t, r, g, k)]

\* It exists, by recursion on the number of steps.
LEMMA ClimbExists ==
  ASSUME NEW t, NEW r, NEW n \in Nat
  PROVE  \E g : Climbs(t, r, n, g)
<1> DEFINE S == {m \in Nat : \E g : Climbs(t, r, m, g)}
<1>1. 0 \in S
  <2> DEFINE g == [k \in 0 .. 0 |-> ClimbStep(t, r, <<>>, 0)]
  <2>0. \A f : ClimbStep(t, r, f, 0) = ClimbStep(t, r, <<>>, 0)
    BY DEF ClimbStep
  <2>1. g = [k \in 0 .. 0 |-> ClimbStep(t, r, g, k)]
    BY <2>0
  <2>2. Climbs(t, r, 0, g)
    <3> HIDE DEF g
    <3> QED BY <2>1 DEF Climbs
  <2> QED BY <2>2
<1>2. ASSUME NEW m \in Nat, m \in S PROVE m + 1 \in S
  <2>1. PICK g : Climbs(t, r, m, g)
    BY <1>2
  <2> DEFINE h == [k \in 0 .. m + 1 |-> ClimbStep(t, r, g, k)]
  <2>2. \A k \in 0 .. m : h[k] = g[k]
    <3> TAKE k \in 0 .. m
    <3>1. g[k] = ClimbStep(t, r, g, k)
      BY <2>1 DEF Climbs
    <3>2. k \in 0 .. m + 1
      OBVIOUS
    <3> QED BY <3>1, <3>2
  <2>3. \A k \in 0 .. m + 1 : ClimbStep(t, r, g, k) = ClimbStep(t, r, h, k)
    <3> TAKE k \in 0 .. m + 1
    <3>1. CASE k = 0
      BY <3>1 DEF ClimbStep
    <3>2. CASE k # 0
      <4>1. k - 1 \in 0 .. m
        BY <3>2
      <4>2. h[k - 1] = g[k - 1]
        BY <2>2, <4>1
      <4> HIDE DEF h
      <4> QED BY <4>2 DEF ClimbStep
    <3> QED BY <3>1, <3>2
  <2>4. h = [k \in 0 .. m + 1 |-> ClimbStep(t, r, h, k)]
    BY <2>3
  <2>5. Climbs(t, r, m + 1, h)
    <3> HIDE DEF h
    <3> QED BY <2>4 DEF Climbs
  <2> QED BY <2>5
<1> HIDE DEF S
<1>3. S \in SUBSET Nat
  BY DEF S
<1>4. n \in S
  BY <1>1, <1>2, <1>3, SetInduction
<1> QED BY <1>4 DEF S

\* What is on the way up from x, below r.
Up(t, r, x) == {z \in Beneath(t, r) : x \in SubtreeOf(t, z)}

\* The climb from x takes fewer steps than there are nodes above x.
LEMMA UpFacts ==
  ASSUME NEW t, NEW r, Walkable(t, r), IsFiniteSet(Node), NEW x \in Beneath(t, r)
  PROVE  /\ Cardinality(Up(t, r, x)) \in Nat /\ Cardinality(Up(t, r, x)) >= 1
         /\ Cardinality(Up(t, r, x)) <= Cardinality(Node)
         /\ t.parent[x] \in Beneath(t, r) =>
              Cardinality(Up(t, r, t.parent[x])) < Cardinality(Up(t, r, x))
<1> DEFINE U == Up(t, r, x)
           p == t.parent[x]
           P == Up(t, r, p)
<1>1. t \in Tree /\ x \in Node /\ p \in Node /\ Beneath(t, r) \in SUBSET Node
  BY WalkableFacts
<1>2. U \in SUBSET Node /\ P \in SUBSET Node /\ x \in U
  BY <1>1, UnderFacts DEF Up
<1>3. IsFiniteSet(U) /\ IsFiniteSet(P) /\ Cardinality(U) <= Cardinality(Node)
  BY <1>2, FS_Subset
<1>4. Cardinality(U) \in Nat /\ Cardinality(U) # 0 /\ Cardinality(P) \in Nat
  BY <1>2, <1>3, FS_CardinalityType, FS_EmptySet
<1>5. ASSUME p \in Beneath(t, r) PROVE Cardinality(P) < Cardinality(U)
  <2>1. P \in SUBSET U
    <3> SUFFICES ASSUME NEW z \in P PROVE z \in U
      OBVIOUS
    <3>1. z \in Beneath(t, r) /\ z \in Node /\ p \in SubtreeOf(t, z)
      BY <1>2 DEF Up
    <3>2. x \in SubtreeOf(t, z)
      BY <1>1, <3>1, UnderFacts
    <3> QED BY <3>1, <3>2 DEF Up
  <2>2. x \notin P
    BY <1>1, NotUnderChild DEF Up, Walkable
  <2>3. Cardinality(P) <= Cardinality(U) /\ Cardinality(P) # Cardinality(U)
    BY <1>2, <1>3, <2>1, <2>2, FS_Subset
  <2> QED BY <1>4, <2>3
<1> HIDE DEF U, P
<1>6. Cardinality(U) >= 1
  BY <1>4
<1> QED BY <1>3, <1>4, <1>5, <1>6 DEF U, P

\* The node the walk is at, and the nodes it has met before.
Stands(t, r, V, c, x) ==
  /\ WalkPart(t, r, V) /\ ComesNext(t, r, V, c) /\ WalkPart(t, r, V \cup {c})
  /\ x \in Beneath(t, r) /\ c \in SubtreeOf(t, x)
  /\ SubtreeOf(t, x) \subseteq V \cup {c}

LEMMA StandsNext ==
  ASSUME NEW t, NEW r, Walkable(t, r), NEW V, NEW c, NEW x, Stands(t, r, V, c, x), t.next[x] # Nil
  PROVE  ComesNext(t, r, V \cup {c}, t.next[x])
<1> DEFINE y == t.next[x]
<1>1. t \in Tree /\ x \in Node /\ x \in Beneath(t, r) /\ t.parent[x] \in SubtreeOf(t, r) /\ x \in SubtreeOf(t, x)
  BY WalkableFacts, UnderFacts DEF Stands
<1>2. y \in Node /\ t.prev[y] = x /\ t.parent[y] = t.parent[x]
  BY <1>1, WalkableFacts DEF Walkable, Link
<1>3. y \in Beneath(t, r)
  BY <1>1, <1>2, WalkableFacts
<1>4. x \in V \cup {c} /\ t.parent[x] \in V \cup {c} \cup {r}
  BY <1>1 DEF Stands, WalkPart
<1>5. c \notin V /\ c \in SubtreeOf(t, x) /\ SubtreeOf(t, x) \subseteq V \cup {c}
  BY DEF Stands, ComesNext
<1>6. y \notin V
  <2> SUFFICES ASSUME y \in V PROVE FALSE
    OBVIOUS
  <2>1. SubtreeOf(t, x) \subseteq V
    BY <1>1, <1>2, NilAssumption DEF Stands, WalkPart
  <2> QED BY <1>5, <2>1
<1>7. y # c
  <2> SUFFICES ASSUME y = c PROVE FALSE
    OBVIOUS
  <2>1. SubtreeOf(t, x) \subseteq V
    BY <1>1, <1>2, NilAssumption DEF Stands, ComesNext
  <2> QED BY <1>5, <2>1
<1> QED BY <1>2, <1>3, <1>4, <1>5, <1>6, <1>7 DEF ComesNext

LEMMA StandsUp ==
  ASSUME NEW t, NEW r, Walkable(t, r), NEW V, NEW c, NEW x, Stands(t, r, V, c, x), t.next[x] = Nil
  PROVE  /\ t.parent[x] = r => V \cup {c} = Beneath(t, r)
         /\ t.parent[x] # r => Stands(t, r, V, c, t.parent[x])
<1> DEFINE p == t.parent[x]
           W == V \cup {c}
<1>1. /\ t \in Tree /\ x \in Node /\ p \in Node /\ r \in Node
      /\ x \in Beneath(t, r) /\ p \in SubtreeOf(t, r) /\ x \in SubtreeOf(t, x)
  BY WalkableFacts, UnderFacts DEF Stands
<1>2. WalkPart(t, r, W) /\ x \in W /\ SubtreeOf(t, x) \subseteq W
  BY <1>1 DEF Stands
<1> HIDE DEF W
<1>3. SubtreeOf(t, p) \subseteq W \cup {r}
  BY <1>2, AllUnderParent
<1>4. CASE p = r
  <2>1. W = Beneath(t, r)
    BY <1>2, <1>3, <1>4 DEF WalkPart, Beneath
  <2> QED BY <1>4, <2>1 DEF W
<1>5. CASE p # r
  <2>1. p \in Beneath(t, r)
    BY <1>1, <1>5 DEF Beneath
  <2>2. r \notin SubtreeOf(t, p)
    <3> SUFFICES ASSUME r \in SubtreeOf(t, p) PROVE FALSE
      OBVIOUS
    <3>1. SubtreeOf(t, r) \subseteq SubtreeOf(t, p)
      BY <1>1, UnderTransitive
    <3>2. t.parent[p] \in SubtreeOf(t, r) /\ t.parent[p] \in Node
      BY <2>1, WalkableFacts
    <3> QED BY <1>1, <3>1, <3>2, NotUnderChild DEF Walkable
  <2>3. SubtreeOf(t, p) \subseteq W
    BY <1>3, <2>2
  <2>4. c \in SubtreeOf(t, p)
    <3>1. x \in SubtreeOf(t, p)
      BY <1>1, UnderFacts
    <3>2. SubtreeOf(t, x) \subseteq SubtreeOf(t, p)
      BY <1>1, <3>1, UnderTransitive
    <3> QED BY <3>2 DEF Stands
  <2> QED BY <1>5, <2>1, <2>3, <2>4 DEF Stands, W
<1> QED BY <1>4, <1>5

\* The climb finds the node that comes next, or r when all is met.
LEMMA ClimbReaches ==
  ASSUME NEW t, NEW r, Walkable(t, r), IsFiniteSet(Node), NEW n \in Nat, NEW g, Climbs(t, r, n, g),
         NEW V, NEW c
  PROVE  \A x : Stands(t, r, V, c, x) /\ Cardinality(Up(t, r, x)) <= n => Walked(t, r, V \cup {c}, g[n][x])
<1> DEFINE Reaches(k) == \A x : Stands(t, r, V, c, x) /\ Cardinality(Up(t, r, x)) <= k
                                  => Walked(t, r, V \cup {c}, g[k][x])
           S == {k \in Nat : k <= n => Reaches(k)}
<1>0. \A k \in 0 .. n : \A y \in Link :
        g[k][y] = IF y \in {r, Nil} THEN y
                  ELSE IF t.next[y] # Nil THEN t.next[y]
                  ELSE IF k = 0 THEN Nil ELSE g[k - 1][t.parent[y]]
  <2>1. \A k \in 0 .. n : g[k] = ClimbStep(t, r, g, k)
    BY DEF Climbs
  <2> DEFINE b(k, y) == IF y \in {r, Nil} THEN y
                        ELSE IF t.next[y] # Nil THEN t.next[y]
                        ELSE IF k = 0 THEN Nil ELSE g[k - 1][t.parent[y]]
  <2>2. \A k \in 0 .. n : ClimbStep(t, r, g, k) = [y \in Link |-> b(k, y)]
    BY DEF ClimbStep
  <2> HIDE DEF b
  <2>3. \A k \in 0 .. n : \A y \in Link : g[k][y] = b(k, y)
    BY <2>1, <2>2
  <2> QED BY <2>3 DEF b
<1>1. ASSUME NEW x, Stands(t, r, V, c, x)
      PROVE  /\ x \in Beneath(t, r) /\ x \in Node /\ x \in Link /\ x \notin {r, Nil}
             /\ Cardinality(Up(t, r, x)) >= 1 /\ Cardinality(Up(t, r, x)) \in Nat
  <2>1. x \in Beneath(t, r)
    BY <1>1 DEF Stands
  <2>2. x \in Node /\ r \notin Beneath(t, r)
    BY <2>1, WalkableFacts
  <2> QED BY <2>1, <2>2, UpFacts, NilAssumption DEF Link
<1>2. 0 \in S
  BY <1>1
<1>3. ASSUME NEW k \in Nat, k \in S PROVE k + 1 \in S
  <2> SUFFICES ASSUME k + 1 <= n PROVE Reaches(k + 1)
    OBVIOUS
  <2>1. Reaches(k) /\ k \in 0 .. n /\ k + 1 \in 0 .. n /\ k + 1 # 0 /\ (k + 1) - 1 = k
    <3> HIDE DEF Reaches
    <3> QED BY <1>3
  <2> SUFFICES ASSUME NEW x, Stands(t, r, V, c, x), Cardinality(Up(t, r, x)) <= k + 1
               PROVE  Walked(t, r, V \cup {c}, g[k + 1][x])
    OBVIOUS
  <2> DEFINE p == t.parent[x]
  <2>2. g[k + 1][x] = IF t.next[x] # Nil THEN t.next[x] ELSE g[k][p]
    BY <1>0, <1>1, <2>1
  <2>3. WalkPart(t, r, V \cup {c})
    BY DEF Stands
  <2>4. CASE t.next[x] # Nil
    BY <2>2, <2>3, <2>4, StandsNext DEF Walked
  <2>5. CASE t.next[x] = Nil /\ p = r
    <3>1. g[k][r] = r
      BY <1>0, <2>1, WalkableFacts DEF Link
    <3> QED BY <2>2, <2>3, <2>5, <3>1, StandsUp DEF Walked
  <2>6. CASE t.next[x] = Nil /\ p # r
    <3>1. Stands(t, r, V, c, p)
      BY <2>6, StandsUp
    <3>2. Cardinality(Up(t, r, p)) < Cardinality(Up(t, r, x)) /\ Cardinality(Up(t, r, p)) \in Nat
      BY <1>1, <3>1, UpFacts
    <3>3. Cardinality(Up(t, r, p)) <= k
      BY <1>1, <3>2
    <3> QED BY <2>1, <2>2, <2>6, <3>1, <3>3
  <2> QED BY <2>4, <2>5, <2>6
<1> HIDE DEF S
<1>4. S \in SUBSET Nat
  BY DEF S
<1>5. n \in S
  BY <1>2, <1>3, <1>4, SetInduction
<1> QED BY <1>5 DEF S

\* What After reads.
LEMMA AfterIs ==
  ASSUME NEW t, NEW r, NEW n, IsFiniteSet(Node)
  PROVE  \E g : /\ Climbs(t, r, Cardinality(Node), g)
                /\ After(t, r, n) = IF t.first[n] # Nil THEN t.first[n] ELSE g[Cardinality(Node)][n]
<1> DEFINE N == Cardinality(Node)
           h == CHOOSE g : Climbs(t, r, N, g)
<1>1. N \in Nat
  BY FS_CardinalityType
<1>2. Climbs(t, r, N, h)
  BY <1>1, ClimbExists
<1>3. After(t, r, n) = IF t.first[n] # Nil THEN t.first[n] ELSE h[N][n]
  BY DEF After, Climbs, ClimbStep
<1> HIDE DEF h, N
<1> QED BY <1>2, <1>3 DEF N

\* Who has no first child has nobody below.
LEMMA Childless ==
  ASSUME NEW t, NEW r, Walkable(t, r), NEW c \in SubtreeOf(t, r), t.first[c] = Nil
  PROVE  SubtreeOf(t, c) = {c}
<1>1. t \in Tree /\ c \in Node /\ c \in SubtreeOf(t, c)
  BY WalkableFacts, UnderFacts
<1>2. ASSUME NEW x \in SubtreeOf(t, c), x # c, t.parent[x] \in {c} PROVE x \in {c}
  <2>1. x \in Node
    BY <1>1, UnderFacts
  <2>2. x \in Beneath(t, r)
    BY <1>2, <2>1, WalkableFacts
  <2> QED BY <1>2, <2>2 DEF Walkable
<1>3. SubtreeOf(t, c) \subseteq {c}
  <2>1. c \in {c}
    OBVIOUS
  <2> QED BY <1>1, <1>2, <2>1, UnderWithin
<1> QED BY <1>1, <1>3

\* A walk begins with nothing met.
LEMMA WalkStart ==
  ASSUME NEW t, NEW r, Walkable(t, r), IsFiniteSet(Node)
  PROVE  Walked(t, r, {}, After(t, r, r))
<1> DEFINE y == t.first[r]
<1>1. t \in Tree /\ r \in Node /\ r \in SubtreeOf(t, r) /\ y \in Link
  BY WalkableFacts
<1>2. WalkPart(t, r, {})
  BY DEF WalkPart
<1>3. PICK g : /\ Climbs(t, r, Cardinality(Node), g)
               /\ After(t, r, r) = IF t.first[r] # Nil THEN t.first[r] ELSE g[Cardinality(Node)][r]
  BY AfterIs
<1>4. CASE y # Nil
  <2>1. y \in Node /\ t.parent[y] = r /\ t.prev[y] = Nil
    BY <1>1, <1>4 DEF Walkable, Link
  <2>2. y \in Beneath(t, r)
    BY <1>1, <2>1, WalkableFacts
  <2> QED BY <1>2, <1>3, <1>4, <2>1, <2>2 DEF Walked, ComesNext
<1>5. CASE y = Nil
  <2>1. Beneath(t, r) = {}
    BY <1>1, <1>5, Childless DEF Beneath
  <2>2. Cardinality(Node) \in Nat
    BY FS_CardinalityType
  <2>3. g[Cardinality(Node)] = ClimbStep(t, r, g, Cardinality(Node))
    BY <1>3, <2>2 DEF Climbs
  <2>4. g[Cardinality(Node)][r] = r
    BY <1>1, <2>3 DEF ClimbStep, Link
  <2> QED BY <1>2, <1>3, <1>5, <2>1, <2>4 DEF Walked
<1> QED BY <1>4, <1>5

\* A step of the walk goes to the node that comes next.
LEMMA WalkStep ==
  ASSUME NEW t, NEW r, Walkable(t, r), IsFiniteSet(Node), NEW V, NEW c, WalkPart(t, r, V), ComesNext(t, r, V, c)
  PROVE  Walked(t, r, V \cup {c}, After(t, r, c))
<1> DEFINE y == t.first[c]
<1>1. t \in Tree /\ r \in Node /\ c \in Beneath(t, r) /\ c \in Node /\ c # r /\ y \in Link /\ c \in SubtreeOf(t, r)
  BY WalkableFacts DEF ComesNext, Beneath
<1>2. WalkPart(t, r, V \cup {c})
  BY <1>1 DEF WalkPart, ComesNext
<1>3. PICK g : /\ Climbs(t, r, Cardinality(Node), g)
               /\ After(t, r, c) = IF t.first[c] # Nil THEN t.first[c] ELSE g[Cardinality(Node)][c]
  BY AfterIs
<1>4. CASE y # Nil
  <2>1. y \in Node /\ t.parent[y] = c /\ t.prev[y] = Nil
    BY <1>1, <1>4 DEF Walkable, Link
  <2>2. y \in Beneath(t, r)
    BY <1>1, <2>1, WalkableFacts
  <2>3. y # c
    BY <1>1, <2>1, NotUnderChild, UnderFacts DEF Walkable
  <2>4. y \notin V
    BY <1>1, <2>1 DEF WalkPart, ComesNext
  <2> QED BY <1>2, <1>3, <1>4, <2>1, <2>2, <2>3, <2>4 DEF Walked, ComesNext
<1>5. CASE y = Nil
  <2>1. SubtreeOf(t, c) = {c}
    BY <1>1, <1>5, Childless
  <2>2. Stands(t, r, V, c, c)
    BY <1>1, <1>2, <2>1 DEF Stands
  <2>3. Cardinality(Up(t, r, c)) <= Cardinality(Node) /\ Cardinality(Node) \in Nat
    BY <1>1, UpFacts, FS_CardinalityType
  <2>4. Walked(t, r, V \cup {c}, g[Cardinality(Node)][c])
    BY <1>3, <2>2, <2>3, ClimbReaches
  <2> QED BY <1>3, <1>5, <2>4
<1> QED BY <1>4, <1>5

\* Every linked tree can be walked.
LEMMA LinkedWalkable ==
  ASSUME NEW t \in Tree, WellLinked(t), Acyclic(t), NEW r \in Node
  PROVE  Walkable(t, r)
<1>1. \A x \in Node : t.parent[x] \in Link /\ t.next[x] \in Link /\ t.prev[x] \in Link /\ t.first[x] \in Link
  BY DEF Tree
<1>2. \A x \in Beneath(t, r) : x \in Node /\ t.parent[x] \in Node
  BY UnderFacts DEF Beneath
<1>3. \A p \in SubtreeOf(t, r) : p \in Node
  BY UnderFacts
<1>4. \A x \in Node : t.next[x] # Nil => t.prev[t.next[x]] = x /\ t.parent[t.next[x]] = t.parent[x]
  BY <1>1 DEF WellLinked, Link
<1>5. \A x \in Node : t.prev[x] # Nil => t.next[t.prev[x]] = x /\ t.parent[t.prev[x]] = t.parent[x]
  BY <1>1, NilAssumption DEF WellLinked, Link
<1>6. \A p \in Node : t.first[p] # Nil => t.parent[t.first[p]] = p /\ t.prev[t.first[p]] = Nil
  BY <1>1 DEF WellLinked, Link
<1>7. \A x \in Beneath(t, r) : t.first[t.parent[x]] # Nil
  BY <1>2, NoFirstNoChild
<1>8. \A x, y \in Beneath(t, r) : t.parent[x] = t.parent[y] /\ t.next[x] = Nil /\ t.next[y] = Nil => x = y
  BY <1>2 DEF WellLinked
<1> QED BY <1>2, <1>3, <1>4, <1>5, <1>6, <1>7, <1>8 DEF Walkable, Acyclic

-----------------------------------------------------------------------------
(* The regrouped tree.                                                     *)

\* t is s with the members m under the fragment.
Regrouped(t, s, m) ==
  /\ t \in Tree /\ s \in Tree /\ WellLinked(s) /\ Acyclic(s) /\ FragmentFree(s)
  /\ m \in Seq(Tops) /\ Apart(s, m)
  /\ t.parent[Frag] = Nil /\ t.next[Frag] = Nil
  /\ t.first[Frag] = IF m = <<>> THEN Nil ELSE m[1]
  /\ \A i \in 1 .. Len(m) : /\ t.parent[m[i]] = Frag
                            /\ t.prev[m[i]] = IF i = 1 THEN Nil ELSE m[i - 1]
                            /\ t.next[m[i]] = IF i = Len(m) THEN Nil ELSE m[i + 1]
                            /\ t.first[m[i]] = s.first[m[i]]
  /\ \A n \in Node \ {Frag} :
       (\A i \in 1 .. Len(m) : m[i] # n) => LinksOf(t, n) = LinksOf(s, n)

\* What is read of it below.
LEMMA RegroupedFacts ==
  ASSUME NEW t, NEW s, NEW m, Regrouped(t, s, m)
  PROVE  /\ t \in Tree /\ s \in Tree /\ Frag \in Node /\ Len(m) \in Nat
         /\ Range(m) \in SUBSET Node /\ Frag \notin Range(m)
         /\ \A x : x \in Range(m) <=> \E i \in 1 .. Len(m) : x = m[i]
         /\ \A x \in Range(m) : t.parent[x] = Frag /\ t.first[x] = s.first[x]
         /\ \A x \in Node : x # Frag /\ x \notin Range(m) =>
              /\ t.parent[x] = s.parent[x] /\ t.prev[x] = s.prev[x] /\ t.next[x] = s.next[x]
              /\ t.first[x] = s.first[x]
         /\ \A x \in Node : /\ s.parent[x] \in Link \ {Frag} /\ s.prev[x] \in Link \ {Frag}
                            /\ s.next[x] \in Link \ {Frag} /\ s.first[x] \in Link \ {Frag}
<1>1. t \in Tree /\ s \in Tree /\ Frag \in Node /\ m \in Seq(Tops)
  BY NodeAssumption DEF Regrouped
<1>2. Len(m) \in Nat /\ DOMAIN m = 1 .. Len(m) /\ \A i \in 1 .. Len(m) : m[i] \in Node /\ m[i] # Frag
  BY <1>1 DEF Tops
<1>3. \A x : x \in Range(m) <=> \E i \in 1 .. Len(m) : x = m[i]
  BY <1>2 DEF Range
<1>4. \A x \in Range(m) : t.parent[x] = Frag /\ t.first[x] = s.first[x]
  BY <1>3 DEF Regrouped
<1>5. \A x \in Node : x # Frag /\ x \notin Range(m) => LinksOf(t, x) = LinksOf(s, x)
  BY <1>3 DEF Regrouped
<1>6. \A x \in Node : x # Frag /\ x \notin Range(m) =>
              /\ t.parent[x] = s.parent[x] /\ t.prev[x] = s.prev[x] /\ t.next[x] = s.next[x]
              /\ t.first[x] = s.first[x]
  BY <1>5 DEF LinksOf
<1>7. \A x \in Node : /\ s.parent[x] \in Link \ {Frag} /\ s.prev[x] \in Link \ {Frag}
                      /\ s.next[x] \in Link \ {Frag} /\ s.first[x] \in Link \ {Frag}
  BY <1>1 DEF Regrouped, FragmentFree, Tree
<1>8. Range(m) \in SUBSET Node /\ Frag \notin Range(m)
  BY <1>2, <1>3
<1> QED BY <1>1, <1>2, <1>3, <1>4, <1>6, <1>7, <1>8

\* A child of what is below the members is not a member.
LEMMA ChildNotMember ==
  ASSUME NEW t, NEW s, NEW m, Regrouped(t, s, m), NEW y \in Node, s.parent[y] \in Below(s, Range(m))
  PROVE  y \notin Range(m)
<1> SUFFICES ASSUME y \in Range(m) PROVE FALSE
  OBVIOUS
<1> DEFINE p == s.parent[y]
<1>1. s \in Tree /\ Range(m) \in SUBSET Node /\ DOMAIN m = 1 .. Len(m)
  BY RegroupedFacts DEF Regrouped
<1>2. p \in Node
  BY <1>1, BelowFacts
<1>3. PICK w \in Range(m) : p \in SubtreeOf(s, w)
  BY <1>1, BelowOne
<1>4. y \in SubtreeOf(s, w) /\ w \in Node
  BY <1>1, <1>2, <1>3, UnderFacts
<1>5. w # y
  BY <1>1, <1>2, <1>3, NotUnderChild DEF Regrouped, Acyclic
<1>6. PICK i, j \in DOMAIN m : w = m[i] /\ y = m[j]
  BY <1>1, <1>3, RegroupedFacts
<1>7. NoneAbove(s, {w}, y)
  BY <1>5, <1>6 DEF Regrouped, Apart
<1> QED BY <1>4, <1>7 DEF SubtreeOf, Below

\* Under the fragment are the members and what was below them.
LEMMA RegroupedBeneath ==
  ASSUME NEW t, NEW s, NEW m, Regrouped(t, s, m)
  PROVE  Beneath(t, Frag) = Below(s, Range(m))
<1> DEFINE X == Range(m)
           B == Below(s, X)
           F == SubtreeOf(t, Frag)
<1>1. t \in Tree /\ s \in Tree /\ Frag \in Node /\ X \in SUBSET Node /\ Frag \notin X
  BY RegroupedFacts
<1>2. F \subseteq B \cup {Frag}
  <2> DEFINE S == B \cup {Frag}
  <2>1. ASSUME NEW y \in F, y # Frag, t.parent[y] \in S PROVE y \in S
    <3>1. y \in Node
      BY <1>1, UnderFacts
    <3>2. CASE y \in X
      BY <1>1, <3>2, BelowFacts
    <3>3. CASE y \notin X
      <4>1. s.parent[y] = t.parent[y] /\ s.parent[y] # Frag
        BY <2>1, <3>1, <3>3, RegroupedFacts
      <4>2. s.parent[y] \in B /\ s.parent[y] \in Node
        BY <1>1, <2>1, <4>1, BelowFacts
      <4> QED BY <1>1, <3>1, <4>2, BelowFacts
    <3> QED BY <3>2, <3>3
  <2>2. Frag \in S
    OBVIOUS
  <2> HIDE DEF S
  <2>3. F \subseteq S
    BY <1>1, <2>1, <2>2, UnderWithin
  <2> QED BY <2>3 DEF S
<1>3. B \subseteq F
  <2>1. X \subseteq F
    BY <1>1, UnderFacts, RegroupedFacts
  <2>2. ASSUME NEW y \in B, y \notin X, s.parent[y] \in F PROVE y \in F
    <3>1. y \in Node /\ s.parent[y] \in Node
      BY <1>1, <2>2, BelowFacts, UnderFacts
    <3>2. CASE y = Frag
      BY <1>1, <3>2, UnderFacts
    <3>3. CASE y # Frag
      <4>1. t.parent[y] = s.parent[y]
        BY <2>2, <3>1, <3>3, RegroupedFacts
      <4> QED BY <1>1, <2>2, <3>1, <4>1, UnderFacts
    <3> QED BY <3>2, <3>3
  <2> HIDE DEF F, X
  <2> QED BY <1>1, <2>1, <2>2, BelowWithin
<1>4. Frag \notin B
  <2> SUFFICES ASSUME Frag \in B PROVE FALSE
    OBVIOUS
  <2>1. s.parent[Frag] \in B
    BY <1>1, BelowFacts
  <2>2. s.parent[Frag] = Nil
    BY DEF Regrouped, FragmentFree, Isolated
  <2> QED BY <1>1, <2>1, <2>2, BelowFacts, NilAssumption
<1> QED BY <1>2, <1>3, <1>4 DEF Beneath

\* A node below the members that is no member has its own place still.
LEMMA InnerNode ==
  ASSUME NEW t, NEW s, NEW m, Regrouped(t, s, m), NEW x \in Beneath(t, Frag), x \notin Range(m)
  PROVE  /\ x \in Node /\ x # Frag /\ t.parent[x] = s.parent[x] /\ t.parent[x] \in Below(s, Range(m))
         /\ t.prev[x] = s.prev[x] /\ t.next[x] = s.next[x] /\ t.first[x] = s.first[x]
<1>1. x \in Below(s, Range(m)) /\ x # Frag /\ x \in Node
  BY RegroupedBeneath, RegroupedFacts, BelowFacts DEF Beneath
<1>2. s.parent[x] \in Below(s, Range(m))
  BY <1>1, RegroupedFacts, BelowFacts
<1> QED BY <1>1, <1>2, RegroupedFacts

LEMMA RegroupedLoops ==
  ASSUME NEW t, NEW s, NEW m, Regrouped(t, s, m)
  PROVE  ~Loops(t.parent) /\ ~Loops(t.next)
<1>0. /\ Frag \in Node /\ Nil \notin Node /\ Len(m) \in Nat
      /\ t.parent[Frag] = Nil /\ t.next[Frag] = Nil
      /\ \A x : x \in Range(m) <=> \E i \in 1 .. Len(m) : x = m[i]
  BY RegroupedFacts, NilAssumption DEF Regrouped
<1>1. ASSUME NEW S \in SUBSET Node, S # {}, \A x \in S : t.parent[x] \in S PROVE FALSE
  <2>1. Frag \notin S
    BY <1>0, <1>1
  <2>2. \A x \in S : x \notin Range(m)
    BY <1>1, <2>1, RegroupedFacts
  <2>3. \A x \in S : s.parent[x] \in S
    BY <1>1, <2>1, <2>2, RegroupedFacts
  <2> QED BY <1>1, <2>3 DEF Regrouped, Acyclic, Loops
<1>2. ASSUME NEW S \in SUBSET Node, S # {}, \A x \in S : t.next[x] \in S PROVE FALSE
  <2>1. Frag \notin S
    BY <1>0, <1>2
  <2>2. \A i \in 1 .. Len(m) : m[i] \notin S
    <3> DEFINE T == {i \in 1 .. Len(m) : m[i] \in S}
    <3> SUFFICES ASSUME T # {} PROVE FALSE
      OBVIOUS
    <3>1. PICK i \in T : \A j \in T : j <= i
      <4>1. T \in SUBSET (1 .. Len(m))
        OBVIOUS
      <4> HIDE DEF T
      <4> QED BY <1>0, <4>1, MaxUpto
    <3>2. t.next[m[i]] \in S /\ i \in 1 .. Len(m)
      BY <1>2
    <3>3. t.next[m[i]] = IF i = Len(m) THEN Nil ELSE m[i + 1]
      BY <3>2 DEF Regrouped
    <3>4. i # Len(m) /\ m[i + 1] \in S
      BY <1>0, <3>2, <3>3
    <3>5. i + 1 \in T /\ ~(i + 1 <= i)
      BY <1>0, <3>2, <3>4
    <3> QED BY <3>1, <3>5
  <2>3. \A x \in S : x \notin Range(m)
    BY <1>0, <2>2
  <2>4. \A x \in S : s.next[x] \in S
    BY <1>2, <2>1, <2>3, RegroupedFacts
  <2> QED BY <1>2, <2>4 DEF Regrouped, Acyclic, Loops
<1> QED BY <1>1, <1>2 DEF Loops

\* The siblings of what is below the fragment agree.
LEMMA RegroupedNext ==
  ASSUME NEW t, NEW s, NEW m, Regrouped(t, s, m), NEW x \in Beneath(t, Frag), t.next[x] # Nil
  PROVE  t.prev[t.next[x]] = x /\ t.parent[t.next[x]] = t.parent[x]
<1> DEFINE y == t.next[x]
<1>1. CASE x \in Range(m)
  <2>1. PICK i \in 1 .. Len(m) : x = m[i]
    BY <1>1, RegroupedFacts
  <2>2. Len(m) \in Nat /\ i # Len(m) /\ y = m[i + 1]
    BY <2>1, RegroupedFacts DEF Regrouped
  <2>3. i + 1 \in 1 .. Len(m) /\ i + 1 # 1 /\ (i + 1) - 1 = i
    BY <2>1, <2>2
  <2> QED BY <2>1, <2>2, <2>3 DEF Regrouped
<1>2. CASE x \notin Range(m)
  <2>1. x \in Node /\ x # Frag /\ t.parent[x] = s.parent[x] /\ s.parent[x] \in Below(s, Range(m)) /\ y = s.next[x]
    BY <1>2, InnerNode
  <2>2. y \in Node /\ y # Frag
    BY <2>1, RegroupedFacts DEF Link
  <2>3. s.prev[y] = x /\ s.parent[y] = s.parent[x]
    BY <2>1, <2>2 DEF Regrouped, WellLinked
  <2>4. y \notin Range(m)
    BY <2>1, <2>2, <2>3, ChildNotMember
  <2> QED BY <2>1, <2>2, <2>3, <2>4, RegroupedFacts
<1> QED BY <1>1, <1>2

LEMMA RegroupedPrev ==
  ASSUME NEW t, NEW s, NEW m, Regrouped(t, s, m), NEW x \in Beneath(t, Frag), t.prev[x] # Nil
  PROVE  t.next[t.prev[x]] = x /\ t.parent[t.prev[x]] = t.parent[x]
<1> DEFINE y == t.prev[x]
<1>1. CASE x \in Range(m)
  <2>1. PICK i \in 1 .. Len(m) : x = m[i]
    BY <1>1, RegroupedFacts
  <2>2. Len(m) \in Nat /\ i # 1 /\ y = m[i - 1]
    BY <2>1, RegroupedFacts DEF Regrouped
  <2>3. i - 1 \in 1 .. Len(m) /\ i - 1 # Len(m) /\ (i - 1) + 1 = i
    BY <2>1, <2>2
  <2> QED BY <2>1, <2>2, <2>3 DEF Regrouped
<1>2. CASE x \notin Range(m)
  <2>1. x \in Node /\ x # Frag /\ t.parent[x] = s.parent[x] /\ s.parent[x] \in Below(s, Range(m)) /\ y = s.prev[x]
    BY <1>2, InnerNode
  <2>2. y \in Node /\ y # Frag
    BY <2>1, RegroupedFacts DEF Link
  <2>3. s.next[y] = x
    BY <2>1, <2>2 DEF Regrouped, WellLinked
  <2>4. s.parent[y] = s.parent[x]
    BY <2>1, <2>2, <2>3, NilAssumption DEF Regrouped, WellLinked
  <2>5. y \notin Range(m)
    BY <2>1, <2>2, <2>4, ChildNotMember
  <2> QED BY <2>1, <2>2, <2>3, <2>4, <2>5, RegroupedFacts
<1> QED BY <1>1, <1>2

\* The regrouped tree can be walked from the fragment.
LEMMA RegroupedWalkable ==
  ASSUME NEW t, NEW s, NEW m, Regrouped(t, s, m)
  PROVE  Walkable(t, Frag)
<1> DEFINE X == Range(m)
           D == Beneath(t, Frag)
<1>1. t \in Tree /\ s \in Tree /\ Frag \in Node /\ X \in SUBSET Node /\ Frag \notin X /\ Len(m) \in Nat
  BY RegroupedFacts
<1>2. WellLinked(s) /\ Acyclic(s)
  BY DEF Regrouped
<1>3. ASSUME NEW p \in SubtreeOf(t, Frag), t.first[p] # Nil
      PROVE  t.parent[t.first[p]] = p /\ t.prev[t.first[p]] = Nil
  <2> DEFINE y == t.first[p]
  <2>1. CASE p = Frag
    <3>1. m # <<>> /\ y = m[1]
      BY <1>3, <2>1 DEF Regrouped
    <3>2. 1 \in 1 .. Len(m)
      BY <3>1 DEF Regrouped
    <3> QED BY <2>1, <3>1, <3>2 DEF Regrouped
  <2>2. CASE p # Frag
    <3>1. p \in D /\ p \in Node
      BY <1>1, <2>2, UnderFacts DEF Beneath
    <3>2. p \in Below(s, X) /\ y = s.first[p]
      BY <2>2, <3>1, RegroupedBeneath, RegroupedFacts
    <3>3. y \in Node /\ y # Frag
      BY <1>3, <3>1, <3>2, RegroupedFacts DEF Link
    <3>4. s.parent[y] = p /\ s.prev[y] = Nil
      BY <1>2, <3>1, <3>2, <3>3 DEF WellLinked
    <3>5. y \notin X
      BY <3>2, <3>3, <3>4, ChildNotMember
    <3> QED BY <3>3, <3>4, <3>5, RegroupedFacts
  <2> QED BY <2>1, <2>2
<1>4. ASSUME NEW x \in D PROVE t.first[t.parent[x]] # Nil
  <2>1. CASE x \in X
    <3>1. PICK i \in 1 .. Len(m) : x = m[i]
      BY <2>1, RegroupedFacts
    <3>2. m # <<>> /\ 1 \in 1 .. Len(m)
      BY <1>1, <3>1
    <3>3. m[1] \in X
      BY <3>2, RegroupedFacts
    <3>4. t.parent[x] = Frag /\ t.first[Frag] = m[1]
      BY <2>1, <3>2, RegroupedFacts DEF Regrouped
    <3> QED BY <1>1, <3>3, <3>4, NilAssumption
  <2>2. CASE x \notin X
    <3>1. x \in Node /\ t.parent[x] = s.parent[x] /\ t.parent[x] \in Below(s, X)
      BY <2>2, InnerNode
    <3>2. t.parent[x] \in Node /\ t.parent[x] # Frag
      BY <1>1, <3>1, BelowFacts, RegroupedFacts
    <3>3. s.first[t.parent[x]] # Nil
      BY <1>1, <1>2, <3>1, <3>2, NoFirstNoChild
    <3> QED BY <3>2, <3>3, RegroupedFacts
  <2> QED BY <2>1, <2>2
<1>5. ASSUME NEW x \in D, NEW y \in D, t.parent[x] = t.parent[y], t.next[x] = Nil, t.next[y] = Nil
      PROVE  x = y
  <2>1. ASSUME NEW z \in X, t.next[z] = Nil PROVE z = m[Len(m)]
    <3>1. PICK i \in 1 .. Len(m) : z = m[i]
      BY RegroupedFacts
    <3> SUFFICES ASSUME i # Len(m) PROVE FALSE
      BY <3>1
    <3>2. t.next[z] = m[i + 1] /\ i + 1 \in 1 .. Len(m)
      BY <1>1, <3>1 DEF Regrouped
    <3>3. m[i + 1] \in X
      BY <3>2, RegroupedFacts
    <3> QED BY <1>1, <2>1, <3>2, <3>3, NilAssumption
  <2>2. CASE x \in X /\ y \in X
    BY <1>5, <2>1, <2>2
  <2>3. ASSUME NEW z \in D, z \notin X PROVE t.parent[z] # Frag
    BY <2>3, InnerNode, RegroupedFacts
  <2>4. CASE x \notin X /\ y \notin X
    <3>1. s.parent[x] = s.parent[y] /\ s.next[x] = Nil /\ s.next[y] = Nil /\ x \in Node /\ y \in Node
      BY <1>5, <2>4, InnerNode
    <3>2. s.parent[x] \in Node
      BY <1>1, <2>4, InnerNode, BelowFacts
    <3> QED BY <1>2, <3>1, <3>2 DEF WellLinked
  <2>5. \A z \in X : t.parent[z] = Frag
    BY RegroupedFacts
  <2> QED BY <1>5, <2>2, <2>3, <2>4, <2>5
<1>6. ~Loops(t.parent) /\ ~Loops(t.next)
  BY RegroupedLoops
<1> QED BY <1>1, <1>3, <1>4, <1>5, <1>6, RegroupedNext, RegroupedPrev DEF Walkable

-----------------------------------------------------------------------------
(* The walk as a sequence, and the order of results.                       *)

LEMMA AfterType ==
  ASSUME NEW t \in Tree, NEW r \in Node, NEW n \in Node, IsFiniteSet(Node)
  PROVE  After(t, r, n) \in Link
<1> DEFINE N == Cardinality(Node)
<1>1. PICK g : Climbs(t, r, N, g) /\ After(t, r, n) = IF t.first[n] # Nil THEN t.first[n] ELSE g[N][n]
  BY AfterIs
<1>2. N \in Nat
  BY FS_CardinalityType
<1> DEFINE S == {k \in 0 .. N : \A x \in Link : g[k][x] \in Link}
<1> HIDE DEF N
<1>3. \A k \in 0 .. N : g[k] = ClimbStep(t, r, g, k)
  BY <1>1 DEF Climbs
<1>4. \A x \in Node : t.parent[x] \in Link /\ t.next[x] \in Link /\ t.first[x] \in Link
  BY DEF Tree
<1>5. 0 \in S
  <2>1. 0 \in 0 .. N
    BY <1>2
  <2>2. g[0] = ClimbStep(t, r, g, 0)
    BY <1>3, <2>1
  <2> QED BY <1>4, <2>1, <2>2 DEF ClimbStep, Link
<1>6. ASSUME NEW i \in 1 .. N, i - 1 \in S PROVE i \in S
  <2>1. i \in 0 .. N /\ i # 0
    BY <1>2
  <2>2. g[i] = ClimbStep(t, r, g, i)
    BY <1>3, <2>1
  <2>3. \A x \in Link : g[i - 1][x] \in Link
    BY <1>6
  <2>4. \A x \in Link : g[i][x] \in Link
    BY <1>4, <2>1, <2>2, <2>3 DEF ClimbStep, Link
  <2> QED BY <2>1, <2>4
<1>7. N \in S
  <2>1. \A i \in 0 .. N : i \in S
    <3> HIDE DEF S
    <3> QED BY <1>2, <1>5, <1>6, InductionUpto
  <2> QED BY <1>2, <2>1
<1> QED BY <1>1, <1>4, <1>7 DEF Link

\* The function that Walk goes on with.
GoStep(t, r, g, k) ==
  [x \in Link |-> IF k = 0 \/ x \in {r, Nil} THEN <<>>
                  ELSE <<x>> \o g[k - 1][After(t, r, x)]]

Goes(t, r, n, g) == g = [k \in 0 .. n |-> GoStep(t, r, g, k)]

\* It exists, by recursion on the number of steps.
LEMMA GoExists ==
  ASSUME NEW t, NEW r, NEW n \in Nat
  PROVE  \E g : Goes(t, r, n, g)
<1> DEFINE S == {m \in Nat : \E g : Goes(t, r, m, g)}
<1>1. 0 \in S
  <2> DEFINE g == [k \in 0 .. 0 |-> GoStep(t, r, <<>>, 0)]
  <2>0. \A f : GoStep(t, r, f, 0) = GoStep(t, r, <<>>, 0)
    BY DEF GoStep
  <2>1. g = [k \in 0 .. 0 |-> GoStep(t, r, g, k)]
    BY <2>0
  <2>2. Goes(t, r, 0, g)
    <3> HIDE DEF g
    <3> QED BY <2>1 DEF Goes
  <2> QED BY <2>2
<1>2. ASSUME NEW m \in Nat, m \in S PROVE m + 1 \in S
  <2>1. PICK g : Goes(t, r, m, g)
    BY <1>2
  <2> DEFINE h == [k \in 0 .. m + 1 |-> GoStep(t, r, g, k)]
  <2>2. \A k \in 0 .. m : h[k] = g[k]
    <3> TAKE k \in 0 .. m
    <3>1. g[k] = GoStep(t, r, g, k)
      BY <2>1 DEF Goes
    <3>2. k \in 0 .. m + 1
      OBVIOUS
    <3> QED BY <3>1, <3>2
  <2>3. \A k \in 0 .. m + 1 : GoStep(t, r, g, k) = GoStep(t, r, h, k)
    <3> TAKE k \in 0 .. m + 1
    <3>1. CASE k = 0
      BY <3>1 DEF GoStep
    <3>2. CASE k # 0
      <4>1. k - 1 \in 0 .. m
        BY <3>2
      <4>2. h[k - 1] = g[k - 1]
        BY <2>2, <4>1
      <4> HIDE DEF h
      <4> QED BY <4>2 DEF GoStep
    <3> QED BY <3>1, <3>2
  <2>4. h = [k \in 0 .. m + 1 |-> GoStep(t, r, h, k)]
    BY <2>3
  <2>5. Goes(t, r, m + 1, h)
    <3> HIDE DEF h
    <3> QED BY <2>4 DEF Goes
  <2> QED BY <2>5
<1> HIDE DEF S
<1>3. S \in SUBSET Nat
  BY DEF S
<1>4. n \in S
  BY <1>1, <1>2, <1>3, SetInduction
<1> QED BY <1>4 DEF S

LEMMA WalkType ==
  ASSUME NEW t \in Tree, NEW r \in Node, IsFiniteSet(Node)
  PROVE  Walk(t, r) \in Seq(Node)
<1> DEFINE N == Cardinality(Node)
           h == CHOOSE g : Goes(t, r, N, g)
<1>1. N \in Nat
  BY FS_CardinalityType
<1>2. Goes(t, r, N, h)
  BY <1>1, GoExists
<1>3. Walk(t, r) = <<r>> \o h[N][After(t, r, r)]
  BY DEF Walk, Goes, GoStep
<1> HIDE DEF h, N
<1> DEFINE S == {k \in 0 .. N : \A x \in Link : h[k][x] \in Seq(Node)}
<1>4. \A k \in 0 .. N : h[k] = GoStep(t, r, h, k)
  BY <1>2 DEF Goes
<1>5. 0 \in S
  <2>1. 0 \in 0 .. N
    BY <1>1
  <2>2. h[0] = GoStep(t, r, h, 0)
    BY <1>4, <2>1
  <2>3. \A x \in Link : h[0][x] = <<>>
    BY <2>2 DEF GoStep
  <2>4. <<>> \in Seq(Node)
    OBVIOUS
  <2>5. \A x \in Link : h[0][x] \in Seq(Node)
    BY <2>3, <2>4, Zenon
  <2> QED BY <2>1, <2>5
<1>6. ASSUME NEW i \in 1 .. N, i - 1 \in S PROVE i \in S
  <2>1. i \in 0 .. N /\ i # 0
    BY <1>1
  <2>2. h[i] = GoStep(t, r, h, i)
    BY <1>4, <2>1
  <2>3. \A x \in Link : h[i - 1][x] \in Seq(Node)
    BY <1>6
  <2>4. ASSUME NEW x \in Link PROVE h[i][x] \in Seq(Node)
    <3>1. h[i][x] = IF x \in {r, Nil} THEN <<>> ELSE <<x>> \o h[i - 1][After(t, r, x)]
      BY <2>1, <2>2 DEF GoStep
    <3>2. CASE x \in {r, Nil}
      BY <3>1, <3>2
    <3>3. CASE x \notin {r, Nil}
      <4>1. x \in Node
        BY <3>3 DEF Link
      <4>2. h[i - 1][After(t, r, x)] \in Seq(Node)
        BY <2>3, <4>1, AfterType
      <4> QED BY <3>1, <3>3, <4>1, <4>2
    <3> QED BY <3>2, <3>3
  <2> QED BY <2>1, <2>4
<1>7. N \in S
  <2>1. \A i \in 0 .. N : i \in S
    <3> HIDE DEF S
    <3> QED BY <1>1, <1>5, <1>6, InductionUpto
  <2> QED BY <1>1, <2>1
<1>8. h[N][After(t, r, r)] \in Seq(Node)
  BY <1>7, AfterType
<1> QED BY <1>3, <1>8

\* The marks are numbers.
LEMMA NodeOrdersType ==
  ASSUME NEW t \in Tree, NEW m \in [Node -> Nat], IsFiniteSet(Node)
  PROVE  NodeOrders(t, m) \in [Node -> Nat]
<1> DEFINE w == Walk(t, Document)
<1>1. w \in Seq(Node)
  BY WalkType, NodeAssumption
<1>2. DOMAIN w \subseteq Nat
  BY <1>1
<1> HIDE DEF w
<1>3. ASSUME NEW n \in Node, n \in Range(w) PROVE (CHOOSE i \in DOMAIN w : w[i] = n) \in Nat
  <2>1. \E i \in DOMAIN w : w[i] = n
    BY <1>3 DEF Range
  <2> QED BY <1>2, <2>1
<1>4. NodeOrders(t, m) = [n \in Node |-> IF n \in Range(w) THEN CHOOSE i \in DOMAIN w : w[i] = n ELSE m[n]]
  BY DEF NodeOrders, w
<1> QED BY <1>3, <1>4

\* Sorting gives every result once more, and only the results.
LEMMA SortedPermutes ==
  ASSUME NEW s \in Seq(Node), NEW m \in [Node -> Nat], IsInjective(s)
  PROVE  /\ SortedByMark(s, m) \in Seq(Node) /\ Range(SortedByMark(s, m)) = Range(s)
         /\ IsInjective(SortedByMark(s, m))
<1> DEFINE D == DOMAIN s
           key(i) == m[s[i]]
           before(i, j) == key(i) < key(j) \/ (key(i) = key(j) /\ i < j)
           L(i) == {j \in D : before(j, i)}
           place(i) == Cardinality(L(i)) + 1
           at(k) == CHOOSE i \in D : place(i) = k
           q == SortedByMark(s, m)
<1>1. PICK n \in Nat : n = Len(s) /\ D = 1 .. n
  OBVIOUS
<1>2. \A i \in D : i \in Nat /\ key(i) \in Nat /\ s[i] \in Node
  OBVIOUS
<1>3. IsFiniteSet(D) /\ Cardinality(D) = n
  <2> HIDE DEF D
  <2>1. IsFiniteSet(1 .. n) /\ Cardinality(1 .. n) = IF 1 > n THEN 0 ELSE n - 1 + 1
    BY FS_Interval
  <2>2. (IF 1 > n THEN 0 ELSE n - 1 + 1) = n
    OBVIOUS
  <2> QED BY <1>1, <2>1, <2>2
<1>4. q = [k \in D |-> s[at(k)]]
  BY DEF SortedByMark
<1> HIDE DEF D, q, key
<1>5. \A i \in D : IsFiniteSet(L(i)) /\ Cardinality(L(i)) \in Nat /\ L(i) \in SUBSET D
  BY <1>3, FS_Subset, FS_CardinalityType
<1>6. ASSUME NEW i \in D PROVE place(i) \in D
  <2>1. i \notin L(i)
    BY <1>2
  <2>2. Cardinality(L(i)) <= n /\ Cardinality(L(i)) # n
    <3> HIDE DEF L
    <3> QED BY <1>3, <1>5, <2>1, FS_Subset
  <2> HIDE DEF L
  <2> QED BY <1>1, <1>5, <2>2
<1>7. ASSUME NEW i \in D, NEW j \in D, before(i, j) PROVE place(i) < place(j)
  <2>1. L(i) \in SUBSET L(j)
    BY <1>2, <1>7
  <2>2. i \in L(j) /\ i \notin L(i)
    BY <1>2, <1>7
  <2> HIDE DEF L, before
  <2>3. Cardinality(L(i)) <= Cardinality(L(j)) /\ Cardinality(L(i)) # Cardinality(L(j))
    BY <1>5, <2>1, <2>2, FS_Subset
  <2> QED BY <1>5, <2>3
<1>8. ASSUME NEW i \in D, NEW j \in D, place(i) = place(j) PROVE i = j
  <2>1. i # j => before(i, j) \/ before(j, i)
    BY <1>2
  <2>2. place(i) \in Nat
    <3> HIDE DEF L
    <3> QED BY <1>5
  <2> HIDE DEF place, before
  <2> QED BY <1>7, <1>8, <2>1, <2>2
<1> HIDE DEF place
<1>9. \A k \in D : \E i \in D : place(i) = k
  <2> DEFINE f == [i \in D |-> place(i)]
  <2>1. f \in Injection(D, D)
    BY <1>6, <1>8 DEF Injection, IsInjective
  <2>2. f \in Surjection(D, D)
    BY <1>3, <2>1, FS_Injection
  <2> QED BY <2>2 DEF Surjection
<1>10. \A k \in D : at(k) \in D /\ place(at(k)) = k
  BY <1>9
<1>11. \A i \in D : at(place(i)) = i
  BY <1>6, <1>8, <1>10
<1> HIDE DEF at
<1>12. q \in Seq(Node)
  BY <1>1, <1>2, <1>4, <1>10
<1>13. DOMAIN q = D /\ \A k \in D : q[k] = s[at(k)]
  BY <1>4
<1>14. Range(q) = Range(s)
  BY <1>6, <1>10, <1>11, <1>13 DEF Range, D
<1>15. IsInjective(q)
  BY <1>10, <1>13 DEF IsInjective, D
<1> QED BY <1>12, <1>14, <1>15 DEF q

LEMMA PushUniqueFacts ==
  ASSUME NEW s \in Seq(Node), IsInjective(s), NEW n \in Node
  PROVE  /\ PushUnique(s, n) \in Seq(Node) /\ IsInjective(PushUnique(s, n))
         /\ Range(PushUnique(s, n)) = Range(s) \cup {n}
<1>1. CASE n \in Range(s)
  BY <1>1 DEF PushUnique
<1>2. CASE n \notin Range(s)
  <2> DEFINE q == Append(s, n)
  <2>1. PICK k \in Nat : k = Len(s) /\ DOMAIN s = 1 .. k
    OBVIOUS
  <2>2. q \in Seq(Node) /\ DOMAIN q = 1 .. k + 1 /\ q[k + 1] = n /\ \A i \in 1 .. k : q[i] = s[i]
    BY <2>1
  <2>3. \A i \in 1 .. k : s[i] # n
    BY <1>2, <2>1 DEF Range
  <2>4. \A i \in 1 .. k + 1 : i = k + 1 \/ i \in 1 .. k
    BY <2>1
  <2>5. k + 1 \in 1 .. k + 1 /\ \A i \in 1 .. k : i \in 1 .. k + 1
    BY <2>1
  <2> HIDE DEF q
  <2>6. IsInjective(q)
    BY <2>1, <2>2, <2>3, <2>4 DEF IsInjective
  <2>7. Range(q) = Range(s) \cup {n}
    BY <2>1, <2>2, <2>4, <2>5 DEF Range
  <2> QED BY <1>2, <2>2, <2>6, <2>7 DEF PushUnique, q
<1> QED BY <1>1, <1>2

\* A list without repetitions is as long as it has members.
LEMMA DistinctLength ==
  ASSUME NEW s \in Seq(Node), IsInjective(s)
  PROVE  Len(s) = Cardinality(Range(s))
<1>1. Len(s) \in Nat /\ DOMAIN s = 1 .. Len(s)
  OBVIOUS
<1>2. s \in Bijection(1 .. Len(s), Range(s))
  BY <1>1 DEF Bijection, Injection, Surjection, Range
<1>3. ExistsBijection(1 .. Len(s), Range(s))
  BY <1>2 DEF ExistsBijection
<1> QED BY <1>1, <1>3, FS_CountingElements

-----------------------------------------------------------------------------
(* What a search has found, at each point of it.                           *)

Linked(t) == WellLinked(t) /\ Acyclic(t)

Trees == Linked(saved) /\ (search.pc = "idle" => Linked(dom))

Rooted ==
  /\ search.pc # "idle" => search.root \in Node
  /\ search.root = Frag => Apart(saved, search.members)

\* The members regrouped so far are the children of the fragment.
Grouping ==
  search.pc \in {"group", "find", "walk"} /\ search.root = Frag =>
    LET k == Len(search.backup)
        m == search.members
    IN /\ dom.first[Frag] = IF k = 0 THEN Nil ELSE m[1]
       /\ dom.last[Frag] = IF k = 0 THEN Nil ELSE m[k]
       /\ dom.parent[Frag] = Nil /\ dom.next[Frag] = Nil
       /\ \A i \in 1 .. k : /\ dom.parent[m[i]] = Frag
                            /\ dom.prev[m[i]] = IF i = 1 THEN Nil ELSE m[i - 1]
                            /\ dom.next[m[i]] = IF i = k THEN Nil ELSE m[i + 1]
                            /\ dom.first[m[i]] = saved.first[m[i]]

\* What the first j selectors match.
FoundBy(j) == UNION {search.list[i] : i \in 1 .. j}

\* Between two walks all is found that the selectors so far match.
Finding ==
  search.pc \in {"group", "find"} /\ search.kind = "selectors" /\ ~search.once =>
    Range(search.found) = Searched \cap FoundBy(search.turn)

\* During a walk also what the selector matches of the nodes V already met.
MetSoFar(V) ==
  /\ Walked(dom, search.root, V, search.at)
  /\ ~search.once => Range(search.found) =
       (Searched \cap FoundBy(search.turn - 1)) \cup (V \cap search.list[search.turn])

Walking ==
  search.pc = "walk" =>
    /\ search.kind = "selectors" /\ search.turn \in 1 .. Len(search.list)
    /\ (search.once /\ search.at = search.root) \/ \E V : MetSoFar(V)

AllFound ==
  search.pc \in {"restore", "sort", "return"} /\ search.kind = "selectors" /\ ~search.once =>
    Range(search.found) = Hits

Typed ==
  /\ mark \in [Node -> Nat]
  /\ search \in [pc : Pcs, members : Seq(Tops), backup : Seq(NodeLinks),
                 root : Link, list : SelectorList \cup {<<>>}, kind : Kinds,
                 once : BOOLEAN, at : Link, turn : Nat, found : Seq(Node)]

Searching == Trees /\ Rooted /\ Grouping /\ Finding /\ Walking /\ AllFound /\ IsInjective(search.found)

LEMMA TypedFields ==
  ASSUME Typed
  PROVE  /\ mark \in [Node -> Nat] /\ search.pc \in Pcs /\ search.members \in Seq(Tops)
         /\ search.backup \in Seq(NodeLinks) /\ search.root \in Link
         /\ search.list \in SelectorList \cup {<<>>} /\ search.list \in Seq(SUBSET Node)
         /\ search.kind \in Kinds /\ search.once \in BOOLEAN /\ search.at \in Link
         /\ search.turn \in Nat /\ search.found \in Seq(Node)
<1>1. search.list \in SelectorList \cup {<<>>}
  BY DEF Typed
<1>2. search.list \in Seq(SUBSET Node)
  <2>1. <<>> \in Seq(SUBSET Node)
    OBVIOUS
  <2>2. \A l \in SelectorList : l \in Seq(SUBSET Node)
    BY SearchAssumption
  <2> QED BY <1>1, <2>1, <2>2, Zenon
<1> QED BY <1>1, <1>2 DEF Typed

\* What is searched can be walked, and the walk meets no more and no less.
LEMMA Ground ==
  ASSUME IInv, Searching, search.pc \in {"find", "walk"}
  PROVE  Walkable(dom, search.root) /\ Beneath(dom, search.root) = Searched
<1>1. dom \in Tree /\ saved \in Tree /\ search.root \in Node /\ Linked(saved)
  BY DEF IInv, Shape, Searching, Trees, Rooted
<1>2. CASE search.root # Frag
  <2>1. dom = saved
    BY <1>2 DEF IInv, Untouched
  <2>2. Walkable(dom, search.root)
    BY <1>1, <2>1, LinkedWalkable DEF Linked
  <2> QED BY <1>2, <2>1, <2>2 DEF Beneath, SubtreeOf, Searched
<1>3. CASE search.root = Frag
  <2> DEFINE m == search.members
  <2>1. m \in Seq(Tops) /\ FragmentFree(saved) /\ Len(search.backup) = Len(m)
    BY <1>3 DEF IInv, Shape, Free, Borrowed
  <2>2. Len(m) \in Nat /\ (m = <<>> <=> Len(m) = 0)
    BY <2>1
  <2>3. \A n \in Node \ {Frag} : (\A i \in 1 .. Len(m) : m[i] # n) => LinksOf(dom, n) = LinksOf(saved, n)
    BY <1>3, <2>1 DEF IInv, Borrowed, Agree
  <2>4. /\ dom.first[Frag] = IF m = <<>> THEN Nil ELSE m[1]
        /\ dom.parent[Frag] = Nil /\ dom.next[Frag] = Nil
        /\ \A i \in 1 .. Len(m) : /\ dom.parent[m[i]] = Frag
                                  /\ dom.prev[m[i]] = IF i = 1 THEN Nil ELSE m[i - 1]
                                  /\ dom.next[m[i]] = IF i = Len(m) THEN Nil ELSE m[i + 1]
                                  /\ dom.first[m[i]] = saved.first[m[i]]
    BY <1>3, <2>1, <2>2 DEF Searching, Grouping
  <2>5. Apart(saved, m)
    BY <1>3 DEF Searching, Rooted
  <2> HIDE DEF m
  <2>6. Regrouped(dom, saved, m)
    BY <1>1, <2>1, <2>3, <2>4, <2>5 DEF Regrouped, Linked
  <2> QED BY <1>3, <2>6, RegroupedWalkable, RegroupedBeneath DEF Searched, m
<1> QED BY <1>2, <1>3

\* What depends on the call alone.
LEMMA SameCall ==
  ASSUME saved' = saved, search'.root = search.root, search'.members = search.members,
         search'.list = search.list
  PROVE  /\ Searched' = Searched /\ Hits' = Hits /\ \A j : FoundBy(j)' = FoundBy(j)
<1>1. Searched' = Searched
  BY DEF Searched, Below, NoneAbove
<1> QED BY <1>1 DEF Hits, FoundBy

\* Editing keeps the links those of a forest.
LEMMA EditLinked ==
  ASSUME NEW t \in Tree, Linked(t), NEW n \in Node, NEW x \in Node
  PROVE  /\ Linked(RemoveNode(t, n))
         /\ n # x /\ NoneAbove(t, {n}, x) => Linked(InsertChild(RemoveNode(t, n), x, n))
         /\ n # x /\ NoneAbove(t, {n}, x) => Linked(InsertBefore(RemoveNode(t, n), x, n))
<1> DEFINE r == RemoveNode(t, n)
<1>1. r \in Tree /\ WellLinked(r) /\ Acyclic(r) /\ Loose(r, n)
  BY RemoveNodeType, RemoveWellLinked, RemoveAcyclic, RemoveLoose DEF Linked
<1>2. NoneAbove(t, {n}, x) => NoneAbove(r, {n}, x)
  BY RemoveNoneAbove
<1> HIDE DEF r
<1>3. ASSUME n # x, NoneAbove(r, {n}, x) PROVE Linked(InsertChild(r, x, n))
  BY <1>1, <1>3, InsertChildWellLinked, InsertChildAcyclic DEF Linked
<1>4. ASSUME n # x, NoneAbove(r, {n}, x) PROVE Linked(InsertBefore(r, x, n))
  <2>1. r.parent[x] # n
    BY <1>1, <1>4, NoneAboveSelf, NilAssumption
  <2> QED BY <1>1, <1>4, <2>1, InsertBeforeWellLinked, InsertBeforeAcyclic DEF Linked
<1> QED BY <1>1, <1>2, <1>3, <1>4 DEF Linked, r

LEMMA ScatteredLinked == Linked(Scattered)
<1>1. WellLinked(Scattered)
  BY NilAssumption DEF Scattered, NoLinks, WellLinked
<1>2. ~Loops(NoLinks)
  BY NilAssumption DEF Loops, NoLinks
<1> QED BY <1>1, <1>2 DEF Linked, Acyclic, Scattered

\* The steps that leave the tree and the call alone, and only go on.
LEMMA SearchingKept ==
  ASSUME Searching, dom' = dom, saved' = saved, search'.pc # "idle",
         search.pc # "idle", search'.root = search.root, search'.members = search.members,
         search'.list = search.list, search'.backup = search.backup,
         search'.pc \in {"group", "find", "walk"} => search.pc \in {"group", "find", "walk"}
  PROVE  Trees' /\ Rooted' /\ Grouping'
<1>1. Trees'
  BY DEF Searching, Trees
<1>2. Rooted'
  BY DEF Searching, Rooted, Apart, NoneAbove
<1>3. Grouping'
  BY DEF Searching, Grouping
<1> QED BY <1>1, <1>2, <1>3

LEMMA SearchingInit == Init => Typed /\ Searching
<1> SUFFICES ASSUME Init PROVE Typed /\ Searching
  OBVIOUS
<1>1. search = Idle /\ saved = Scattered /\ dom = Scattered /\ mark = [n \in Node |-> 0]
  BY DEF Init
<1>2. Typed
  BY <1>1 DEF Typed, Idle, Pcs, Kinds, Link
<1>3. Trees
  BY <1>1, ScatteredLinked DEF Trees
<1>4. search.pc = "idle" /\ search.root = Nil /\ search.found = <<>>
  BY <1>1 DEF Idle
<1>5. Rooted /\ Grouping /\ Finding /\ Walking /\ AllFound /\ IsInjective(search.found)
  BY <1>4, NilAssumption, NodeAssumption DEF Rooted, Grouping, Finding, Walking, AllFound, IsInjective
<1> QED BY <1>2, <1>3, <1>5 DEF Searching

LEMMA SearchingEdit == IInv /\ Typed /\ Searching /\ Edit => Typed' /\ Searching'
<1> SUFFICES ASSUME IInv, Typed, Searching, NEW n \in Node, NEW x \in Node,
                    \/ AddChild(x, n) \/ AddPreviousSibling(x, n) \/ Unparent(n)
             PROVE  Typed' /\ Searching'
  BY DEF Edit
<1>1. search.pc = "idle" /\ mark' = mark /\ search' = search /\ saved' = saved
  BY DEF AddChild, AddPreviousSibling, Unparent
<1>2. dom \in Tree /\ Linked(dom) /\ Linked(saved)
  BY <1>1 DEF IInv, Shape, Searching, Trees
<1>3. Linked(dom')
  <2>1. CASE AddChild(x, n)
    BY <1>2, <2>1, EditLinked DEF AddChild
  <2>2. CASE AddPreviousSibling(x, n)
    BY <1>2, <2>2, EditLinked DEF AddPreviousSibling
  <2>3. CASE Unparent(n)
    BY <1>2, <2>3, EditLinked DEF Unparent
  <2> QED BY <2>1, <2>2, <2>3
<1>4. Trees'
  BY <1>1, <1>2, <1>3 DEF Trees
<1>5. Rooted'
  BY <1>1 DEF Searching, Rooted, Apart, NoneAbove
<1>6. Grouping' /\ Finding' /\ Walking' /\ AllFound'
  BY <1>1 DEF Grouping, Finding, Walking, AllFound
<1>7. IsInjective(search.found)'
  BY <1>1 DEF Searching
<1> QED BY <1>1, <1>4, <1>5, <1>6, <1>7 DEF Searching, Typed

\* A list of nothing.
LEMMA NothingFound ==
  /\ Range(<<>>) = {} /\ IsInjective(<<>>) /\ <<>> \in Seq(Node)
  /\ <<>> \in Seq(Tops) /\ <<>> \in Seq(NodeLinks) /\ Len(<<>>) = 0
BY DEF Range, IsInjective

LEMMA SearchingCss ==
  ASSUME ~Nested
  PROVE  IInv /\ Typed /\ Searching /\ Css => Typed' /\ Searching'
<1> SUFFICES ASSUME IInv, Typed, Searching, Css PROVE Typed' /\ Searching'
  OBVIOUS
<1>0. search.pc = "idle" /\ Linked(dom) /\ dom \in Tree /\ mark \in [Node -> Nat]
  BY DEF Css, Searching, Trees, IInv, Shape, Typed
<1>1. ASSUME NEW n \in Node, NEW l \in SelectorList, NEW once \in BOOLEAN, NEW kind \in Kinds,
             CssOfNode(n, l, once, kind)
      PROVE  Typed' /\ Searching'
  <2>1. /\ search' = [Idle EXCEPT !.pc = "find", !.root = n, !.list = l, !.once = once, !.kind = kind]
        /\ saved' = dom /\ dom' = dom /\ mark' = mark /\ n # Frag
    BY <1>1 DEF CssOfNode
  <2>2. /\ search'.pc = "find" /\ search'.root = n /\ search'.list = l /\ search'.found = <<>> /\ search'.turn = 0
    BY <2>1 DEF Idle
  <2>3. Typed'
    BY <1>0, <2>1, NothingFound DEF Typed, Idle, Pcs, Link
  <2>4. Trees' /\ Rooted' /\ Grouping' /\ Walking' /\ AllFound'
    BY <1>0, <2>1, <2>2 DEF Trees, Rooted, Grouping, Walking, AllFound
  <2>5. FoundBy(search.turn)' = {}
    BY <2>2 DEF FoundBy
  <2>6. Finding'
    BY <2>2, <2>5, NothingFound DEF Finding
  <2> QED BY <2>2, <2>3, <2>4, <2>6, NothingFound DEF Searching
<1>2. ASSUME NEW s \in Members, Searchable(s), NEW l \in SelectorList, NEW once \in BOOLEAN, NEW kind \in Kinds,
             CssOfSet(s, l, once, kind)
      PROVE  Typed' /\ Searching'
  <2>1. /\ search' = [Idle EXCEPT !.pc = "group", !.members = s, !.root = Frag,
                                  !.list = l, !.once = once, !.kind = kind]
        /\ saved' = dom /\ dom' = dom /\ mark' = mark
    BY <1>2 DEF CssOfSet
  <2>2. /\ search'.pc = "group" /\ search'.root = Frag /\ search'.members = s /\ search'.found = <<>>
        /\ search'.backup = <<>>
    BY <2>1 DEF Idle
  <2>3. s \in Seq(Tops)
    <3>1. PICK k \in 0 .. MaxMembers : s \in [1 .. k -> Tops]
      BY DEF Members
    <3>2. k \in Nat
      BY <3>1, SearchAssumption
    <3> QED BY <3>1, <3>2
  <2>4. Typed'
    BY <1>0, <2>1, <2>3, NothingFound, NodeAssumption DEF Typed, Idle, Pcs, Link
  <2>5. Apart(dom, s)
    BY <1>2 DEF Searchable
  <2>6. Rooted'
    BY <2>1, <2>2, <2>5, NodeAssumption DEF Rooted, Apart, NoneAbove
  <2>7. Isolated(dom, Frag)
    BY <1>0 DEF IInv, Free, FragmentFree
  <2>8. Grouping'
    BY <2>1, <2>2, <2>7, NothingFound DEF Grouping, Isolated
  <2>9. Trees' /\ Walking' /\ AllFound'
    BY <1>0, <2>1, <2>2 DEF Trees, Walking, AllFound
  <2>10. Finding'
    <3>1. search'.turn = 0
      BY <2>1 DEF Idle
    <3>2. FoundBy(search.turn)' = {}
      BY <3>1 DEF FoundBy
    <3> QED BY <2>2, <3>2, NothingFound DEF Finding
  <2> QED BY <2>2, <2>4, <2>6, <2>8, <2>9, <2>10, NothingFound DEF Searching
<1> QED BY <1>1, <1>2 DEF Css

\* Linking one more member makes it the last child of the fragment.
LEMMA GroupingNext ==
  ASSUME IInv, Searching, GroupMember
  PROVE  Grouping'
<1> DEFINE k == Len(search.backup)
           m == search.members
           n == m[k + 1]
           l == dom.last[Frag]
<1>1. /\ search.pc = "group" /\ k < Len(m) /\ search.root = Frag
      /\ search'.backup = Append(search.backup, LinksOf(dom, n))
      /\ search'.pc = "group" /\ search'.members = m /\ search'.root = Frag
      /\ dom' = InsertChild(dom, Frag, n) /\ saved' = saved
  BY DEF GroupMember, IInv, Shape, Untouched, Idle
<1>2. k \in Nat /\ Len(m) \in Nat /\ \A i \in 1 .. Len(m) : m[i] \in Node /\ m[i] # Frag
  BY DEF IInv, Shape, Tops
<1>3. \A i, j \in 1 .. Len(m) : i # j => m[i] # m[j]
  BY DEF IInv, Shape
<1>4. /\ dom.first[Frag] = IF k = 0 THEN Nil ELSE m[1]
      /\ l = IF k = 0 THEN Nil ELSE m[k]
      /\ dom.parent[Frag] = Nil /\ dom.next[Frag] = Nil
      /\ \A i \in 1 .. k : /\ dom.parent[m[i]] = Frag
                           /\ dom.prev[m[i]] = IF i = 1 THEN Nil ELSE m[i - 1]
                           /\ dom.next[m[i]] = IF i = k THEN Nil ELSE m[i + 1]
                           /\ dom.first[m[i]] = saved.first[m[i]]
  BY <1>1 DEF Searching, Grouping
<1>5. dom.first[n] = saved.first[n]
  <2>1. k + 1 \in 1 .. Len(m) /\ \A i \in 1 .. k : i \in 1 .. Len(m) /\ i # k + 1
    BY <1>1, <1>2
  <2>2. n \in Node \ {Frag} /\ \A i \in 1 .. k : m[i] # n
    BY <1>2, <1>3, <2>1
  <2>3. Agree(n)
    BY <1>1, <2>2 DEF IInv, Borrowed
  <2> QED BY <2>3 DEF Agree, LinksOf
<1>6. Len(search'.backup) = k + 1
  BY <1>1, <1>2 DEF IInv, Shape
<1>7. dom \in Tree /\ Frag \in Node
  BY NodeAssumption DEF IInv, Shape
<1> HIDE DEF k, m
<1>8. n \in Node /\ n # Frag /\ k + 1 \in 1 .. Len(m) /\ (k = 0 <=> l = Nil)
  <2>1. k + 1 \in 1 .. Len(m)
    BY <1>1, <1>2
  <2>2. k # 0 => k \in 1 .. Len(m)
    BY <1>1, <1>2
  <2> QED BY <1>2, <1>4, <2>1, <2>2, NilAssumption
<1>9. /\ dom'.parent = [dom.parent EXCEPT ![n] = Frag] /\ dom'.prev = [dom.prev EXCEPT ![n] = l]
      /\ dom'.next = [x \in Node |-> IF x = n THEN Nil ELSE IF x = l THEN n ELSE dom.next[x]]
      /\ dom'.first = [x \in Node |-> IF x = Frag /\ l = Nil THEN n ELSE dom.first[x]]
      /\ dom'.last = [dom.last EXCEPT ![Frag] = n]
  BY <1>1 DEF InsertChild
<1>10. /\ dom.parent \in [Node -> Link] /\ dom.prev \in [Node -> Link] /\ dom.next \in [Node -> Link]
       /\ dom.first \in [Node -> Link] /\ dom.last \in [Node -> Link]
  BY <1>7 DEF Tree
<1>11. /\ dom'.parent[n] = Frag /\ dom'.prev[n] = l /\ dom'.next[n] = Nil /\ dom'.first[n] = saved.first[n]
  BY <1>5, <1>8, <1>9, <1>10
<1>12. \A x \in Node : x # n =>
          /\ dom'.parent[x] = dom.parent[x] /\ dom'.prev[x] = dom.prev[x]
          /\ x # Frag => dom'.first[x] = dom.first[x]
          /\ dom'.next[x] = IF x = l THEN n ELSE dom.next[x]
  BY <1>9, <1>10
<1>13. dom'.last[Frag] = n /\ dom'.first[Frag] = IF k = 0 THEN n ELSE dom.first[Frag]
  BY <1>7, <1>8, <1>9, <1>10
<1>14. dom'.parent[Frag] = Nil /\ dom'.next[Frag] = Nil
  <2>1. l # Frag
    <3>1. CASE k = 0
      BY <1>7, <1>8, <3>1, NilAssumption
    <3>2. CASE k # 0
      <4>1. k \in 1 .. Len(m)
        BY <1>1, <1>2, <3>2
      <4> QED BY <1>2, <1>4, <3>2, <4>1
    <3> QED BY <3>1, <3>2
  <2> QED BY <1>4, <1>7, <1>8, <1>12, <2>1
<1>15. ASSUME NEW i \in 1 .. k + 1
       PROVE  /\ dom'.parent[m[i]] = Frag
              /\ dom'.prev[m[i]] = IF i = 1 THEN Nil ELSE m[i - 1]
              /\ dom'.next[m[i]] = IF i = k + 1 THEN Nil ELSE m[i + 1]
              /\ dom'.first[m[i]] = saved.first[m[i]]
  <2>1. CASE i = k + 1
    <3>1. (k = 0 <=> i = 1) /\ i - 1 = k
      BY <1>2, <2>1
    <3> QED BY <1>4, <1>11, <2>1, <3>1
  <2>2. CASE i # k + 1
    <3>1. i \in 1 .. k /\ i \in 1 .. Len(m) /\ k \in 1 .. Len(m) /\ k # 0
      BY <1>1, <1>2, <2>2
    <3>2. m[i] \in Node /\ m[i] # Frag /\ m[i] # n
      BY <1>2, <1>3, <1>8, <2>2, <3>1
    <3>3. m[i] = l <=> i = k
      BY <1>3, <1>4, <3>1
    <3>4. dom'.next[m[i]] = m[i + 1]
      BY <1>4, <1>12, <3>1, <3>2, <3>3
    <3>5. /\ dom'.parent[m[i]] = Frag
          /\ dom'.prev[m[i]] = IF i = 1 THEN Nil ELSE m[i - 1]
          /\ dom'.first[m[i]] = saved.first[m[i]]
      <4>1. /\ dom'.parent[m[i]] = dom.parent[m[i]] /\ dom'.prev[m[i]] = dom.prev[m[i]]
            /\ dom'.first[m[i]] = dom.first[m[i]]
        BY <1>12, <3>2
      <4>2. /\ dom.parent[m[i]] = Frag
            /\ dom.prev[m[i]] = IF i = 1 THEN Nil ELSE m[i - 1]
            /\ dom.first[m[i]] = saved.first[m[i]]
        BY <1>4, <3>1
      <4> QED BY <4>1, <4>2
    <3> QED BY <2>2, <3>4, <3>5
  <2> QED BY <2>1, <2>2
<1>16. dom'.first[Frag] = m[1]
  BY <1>4, <1>13
<1>17. k + 1 # 0
  BY <1>2
<1> QED BY <1>1, <1>6, <1>13, <1>14, <1>15, <1>16, <1>17 DEF Grouping, m

LEMMA SearchingGroupMember == IInv /\ Typed /\ Searching /\ GroupMember => Typed' /\ Searching'
<1> SUFFICES ASSUME IInv, Typed, Searching, GroupMember PROVE Typed' /\ Searching'
  OBVIOUS
<1> DEFINE b == LinksOf(dom, search.members[Len(search.backup) + 1])
<1>1. /\ search.pc = "group" /\ Len(search.backup) < Len(search.members)
      /\ search' = [search EXCEPT !.backup = Append(@, b)]
      /\ saved' = saved /\ mark' = mark
  BY DEF GroupMember
<1>2. b \in NodeLinks
  <2>1. Len(search.backup) + 1 \in 1 .. Len(search.members)
    BY <1>1, TypedFields
  <2>2. search.members[Len(search.backup) + 1] \in Node
    BY <2>1, TypedFields DEF Tops
  <2> QED BY <2>2, LinksOfType DEF IInv, Shape
<1> HIDE DEF b
<1>3. Typed'
  <2>1. Append(search.backup, b) \in Seq(NodeLinks)
    BY <1>2, TypedFields
  <2> QED BY <1>1, <2>1 DEF Typed
<1>4. /\ search'.pc = "group" /\ search'.root = search.root /\ search'.members = search.members
      /\ search'.found = search.found
  BY <1>1 DEF Typed
<1>5. Trees' /\ Rooted'
  BY <1>1, <1>4 DEF Searching, Trees, Rooted, Apart, NoneAbove
<1>6. Walking' /\ AllFound'
  BY <1>4 DEF Walking, AllFound
<1>7. Finding'
  <2>1. /\ search'.list = search.list /\ search'.turn = search.turn /\ search'.kind = search.kind
        /\ search'.once = search.once
    BY <1>1 DEF Typed
  <2>2. Searched' = Searched
    BY <1>1, <1>4, <2>1, SameCall
  <2>3. FoundBy(search.turn)' = FoundBy(search.turn)
    BY <2>1 DEF FoundBy
  <2> QED BY <1>1, <1>4, <2>1, <2>2, <2>3 DEF Finding, Searching
<1> QED BY <1>3, <1>4, <1>5, <1>6, <1>7, GroupingNext DEF Searching

LEMMA SearchingOn ==
  IInv /\ Typed /\ Searching /\ (Grouped \/ Raise) => Typed' /\ Searching'
<1> SUFFICES ASSUME IInv, Typed, Searching, Grouped \/ Raise PROVE Typed' /\ Searching'
  OBVIOUS
<1>1. /\ dom' = dom /\ saved' = saved /\ mark' = mark
      /\ \/ search.pc = "group" /\ search' = [search EXCEPT !.pc = "find"]
         \/ search.pc = "find" /\ search.kind = "object" /\ search' = [search EXCEPT !.pc = "raised"]
  BY DEF Grouped, Raise
<1>2. Typed'
  BY <1>1 DEF Typed, Pcs
<1>3. /\ search'.root = search.root /\ search'.members = search.members
      /\ search'.list = search.list /\ search'.backup = search.backup
      /\ search'.found = search.found /\ search'.kind = search.kind /\ search'.once = search.once
      /\ search'.turn = search.turn
  BY <1>1 DEF Typed
<1>4. Trees' /\ Rooted' /\ Grouping'
  <2>1. search.pc # "idle" /\ search'.pc # "idle" /\ search.pc \in {"group", "find", "walk"}
    BY <1>1 DEF Typed
  <2> QED BY <1>1, <1>3, <2>1, SearchingKept
<1>5. Finding'
  <2>1. Searched' = Searched /\ \A j : FoundBy(j)' = FoundBy(j)
    BY <1>1, <1>3, SameCall
  <2>2. FoundBy(search.turn)' = FoundBy(search.turn)
    BY <1>3, <2>1 DEF FoundBy
  <2>3. search'.pc = "find" => search.pc = "group"
    BY <1>1 DEF Typed
  <2>4. search'.pc \notin {"group"}
    BY <1>1 DEF Typed
  <2> QED BY <1>3, <2>1, <2>2, <2>3, <2>4 DEF Finding, Searching
<1>6. Walking' /\ AllFound'
  BY <1>1 DEF Walking, AllFound, Typed
<1> QED BY <1>2, <1>3, <1>4, <1>5, <1>6 DEF Searching

LEMMA FoundByFacts ==
  ASSUME Typed
  PROVE  /\ FoundBy(0) = {} /\ FoundBy(Len(search.list)) = UNION Range(search.list)
         /\ \A j \in 1 .. Len(search.list) : FoundBy(j) = FoundBy(j - 1) \cup search.list[j]
<1>1. PICK n \in Nat : n = Len(search.list) /\ DOMAIN search.list = 1 .. n
  BY TypedFields
<1>2. FoundBy(0) = {}
  BY DEF FoundBy
<1>3. FoundBy(n) = UNION Range(search.list)
  BY <1>1 DEF FoundBy, Range
<1>4. ASSUME NEW j \in 1 .. n PROVE FoundBy(j) = FoundBy(j - 1) \cup search.list[j]
  <2>1. \A i : i \in 1 .. j <=> i \in 1 .. j - 1 \/ i = j
    BY <1>1
  <2> QED BY <2>1 DEF FoundBy
<1> QED BY <1>1, <1>2, <1>3, <1>4

LEMMA SearchingNextSelector ==
  ASSUME IsFiniteSet(Node)
  PROVE  IInv /\ Typed /\ Searching /\ NextSelector => Typed' /\ Searching'
<1> SUFFICES ASSUME IInv, Typed, Searching, NextSelector PROVE Typed' /\ Searching'
  OBVIOUS
<1> DEFINE a == After(dom, search.root, search.root)
<1>1. /\ dom' = dom /\ saved' = saved /\ mark' = mark
      /\ search.pc = "find" /\ search.kind = "selectors" /\ search.turn < Len(search.list)
      /\ search' = [search EXCEPT !.pc = "walk", !.turn = @ + 1, !.at = a]
  BY DEF NextSelector
<1>2. Walkable(dom, search.root) /\ Beneath(dom, search.root) = Searched
  BY <1>1, Ground
<1>3. a \in Link /\ Walked(dom, search.root, {}, a)
  BY <1>2, WalkStart, AfterType, WalkableFacts
<1> HIDE DEF a
<1>4. Typed'
  <2>1. search.turn + 1 \in Nat
    BY TypedFields
  <2> QED BY <1>1, <1>3, <2>1 DEF Typed, Pcs
<1>5. /\ search'.root = search.root /\ search'.members = search.members
      /\ search'.list = search.list /\ search'.backup = search.backup
      /\ search'.found = search.found /\ search'.kind = search.kind /\ search'.once = search.once
      /\ search'.turn = search.turn + 1 /\ search'.at = a /\ search'.pc = "walk"
  BY <1>1 DEF Typed
<1>6. Trees' /\ Rooted' /\ Grouping'
  BY <1>1, <1>5, SearchingKept
<1>7. Searched' = Searched /\ \A j : FoundBy(j)' = FoundBy(j)
  BY <1>1, <1>5, SameCall
<1>8. /\ search'.turn \in 1 .. Len(search.list) /\ search'.turn - 1 = search.turn
  BY <1>1, <1>5, TypedFields
<1>9. Walked(dom, search.root, {}, search.at)'
  BY <1>1, <1>3, <1>5
<1>10. ~search.once => Range(search.found) = Searched \cap FoundBy(search.turn)
  BY <1>1 DEF Searching, Finding
<1>11. FoundBy(search.turn - 1)' = FoundBy(search.turn)
  BY <1>5, <1>8 DEF FoundBy
<1>12. MetSoFar({})'
  BY <1>5, <1>7, <1>9, <1>10, <1>11 DEF MetSoFar
<1>13. Walking'
  BY <1>1, <1>5, <1>8, <1>12 DEF Walking
<1>14. Finding' /\ AllFound'
  BY <1>5 DEF Finding, AllFound
<1> QED BY <1>4, <1>5, <1>6, <1>13, <1>14 DEF Searching

LEMMA SearchingVisit ==
  ASSUME IsFiniteSet(Node)
  PROVE  IInv /\ Typed /\ Searching /\ Visit => Typed' /\ Searching'
<1> SUFFICES ASSUME IInv, Typed, Searching, Visit PROVE Typed' /\ Searching'
  OBVIOUS
<1> DEFINE c == search.at
           l == search.list[search.turn]
           hit == c \in l
           a == After(dom, search.root, c)
           f == IF hit THEN PushUnique(search.found, c) ELSE search.found
           b == IF hit /\ search.once THEN search.root ELSE a
<1>1. /\ dom' = dom /\ saved' = saved /\ mark' = mark
      /\ search.pc = "walk" /\ c # search.root /\ c # Nil
      /\ search' = [search EXCEPT !.found = f, !.at = b]
  BY DEF Visit
<1>2. Walkable(dom, search.root) /\ search.root \in Node /\ dom \in Tree
  BY <1>1, Ground, WalkableFacts
<1>3. PICK V : MetSoFar(V)
  BY <1>1 DEF Searching, Walking
<1>4. WalkPart(dom, search.root, V) /\ ComesNext(dom, search.root, V, c) /\ c \in Node
  BY <1>1, <1>3, TypedFields DEF MetSoFar, Walked, Link
<1>5. a \in Link /\ Walked(dom, search.root, V \cup {c}, a)
  BY <1>2, <1>4, WalkStep, AfterType
<1>6. f \in Seq(Node) /\ IsInjective(f) /\ Range(f) = Range(search.found) \cup ({c} \cap l)
  BY <1>4, TypedFields, PushUniqueFacts DEF Searching
<1>7. b \in Link /\ (b = a \/ (search.once /\ b = search.root))
  BY <1>2, <1>5 DEF Link
<1> HIDE DEF a, f, b
<1>8. Typed'
  BY <1>1, <1>6, <1>7 DEF Typed
<1>9. /\ search'.root = search.root /\ search'.members = search.members
      /\ search'.list = search.list /\ search'.backup = search.backup
      /\ search'.found = f /\ search'.kind = search.kind /\ search'.once = search.once
      /\ search'.turn = search.turn /\ search'.at = b /\ search'.pc = "walk"
  BY <1>1 DEF Typed
<1>10. Trees' /\ Rooted' /\ Grouping'
  BY <1>1, <1>9, SearchingKept
<1>11. Searched' = Searched /\ FoundBy(search.turn - 1)' = FoundBy(search.turn - 1)
  <2>1. Searched' = Searched
    BY <1>1, <1>9, SameCall
  <2> QED BY <1>9, <2>1 DEF FoundBy
<1>0. PICK W : W = V \cup {c}
  OBVIOUS
<1>12. ASSUME b = a PROVE MetSoFar(W)'
  <2>1. Walked(dom, search.root, W, a) /\ search'.at = a
    BY <1>0, <1>5, <1>9, <1>12
  <2>2. ~search.once => Range(f) = (Searched \cap FoundBy(search.turn - 1)) \cup (W \cap l)
    BY <1>0, <1>3, <1>6 DEF MetSoFar
  <2>3. Walked(dom, search.root, W, search.at)'
    BY <1>1, <1>9, <2>1
  <2> QED BY <1>9, <1>11, <2>2, <2>3 DEF MetSoFar
<1>13. (search.once /\ search.at = search.root)' \/ \E U : MetSoFar(U)'
  BY <1>7, <1>9, <1>12
<1>14. Walking'
  BY <1>1, <1>9, <1>13 DEF Searching, Walking
<1>15. Finding' /\ AllFound'
  BY <1>9 DEF Finding, AllFound
<1> QED BY <1>6, <1>8, <1>9, <1>10, <1>14, <1>15 DEF Searching

LEMMA SearchingWalkDone ==
  IInv /\ Typed /\ Searching /\ WalkDone => Typed' /\ Searching'
<1> SUFFICES ASSUME IInv, Typed, Searching, WalkDone PROVE Typed' /\ Searching'
  OBVIOUS
<1>1. /\ dom' = dom /\ saved' = saved /\ mark' = mark
      /\ search.pc = "walk" /\ search.at = search.root
      /\ search' = [search EXCEPT !.pc = "find"]
  BY DEF WalkDone
<1>2. Typed'
  BY <1>1 DEF Typed, Pcs
<1>3. /\ search'.root = search.root /\ search'.members = search.members
      /\ search'.list = search.list /\ search'.backup = search.backup
      /\ search'.found = search.found /\ search'.kind = search.kind /\ search'.once = search.once
      /\ search'.turn = search.turn /\ search'.pc = "find"
  BY <1>1 DEF Typed
<1>4. Trees' /\ Rooted' /\ Grouping'
  BY <1>1, <1>3, SearchingKept
<1>5. Searched' = Searched /\ FoundBy(search.turn)' = FoundBy(search.turn)
  <2>1. Searched' = Searched
    BY <1>1, <1>3, SameCall
  <2> QED BY <1>3, <2>1 DEF FoundBy
<1>6. Finding'
  <2> SUFFICES ASSUME ~search.once PROVE Range(search.found) = Searched \cap FoundBy(search.turn)
    BY <1>3, <1>5 DEF Finding
  <2>1. PICK V : MetSoFar(V)
    BY <1>1 DEF Searching, Walking
  <2>2. Beneath(dom, search.root) = Searched
    BY <1>1, Ground
  <2>3. V = Searched
    BY <1>1, <2>1, <2>2 DEF MetSoFar, Walked, ComesNext, Beneath
  <2>4. search.turn \in 1 .. Len(search.list)
    BY <1>1 DEF Searching, Walking
  <2>5. FoundBy(search.turn) = FoundBy(search.turn - 1) \cup search.list[search.turn]
    BY <2>4, FoundByFacts
  <2>6. Range(search.found) = (Searched \cap FoundBy(search.turn - 1)) \cup (V \cap search.list[search.turn])
    BY <2>1 DEF MetSoFar
  <2> QED BY <2>3, <2>5, <2>6
<1>7. Walking' /\ AllFound'
  BY <1>3 DEF Walking, AllFound
<1> QED BY <1>2, <1>3, <1>4, <1>6, <1>7 DEF Searching

\* The search that finds no selector to parse has found nothing; another one
\* has been through all of its selectors.
LEMMA SearchingFound ==
  IInv /\ Typed /\ Searching /\ (ParseFails \/ FindDone) => Typed' /\ Searching'
<1> SUFFICES ASSUME IInv, Typed, Searching, ParseFails \/ FindDone PROVE Typed' /\ Searching'
  OBVIOUS
<1>1. /\ search.pc = "find" /\ saved' = saved /\ mark' = mark
      /\ search.kind = "selectors" => search.turn = Len(search.list)
      /\ search' = [search EXCEPT !.pc = IF search.root = Frag THEN "restore" ELSE Answer]
  BY DEF ParseFails, FindDone, Found
<1>2. (IF search.root = Frag THEN "restore" ELSE Answer) \in {"restore", "sort", "return"}
  BY DEF Answer
<1>3. Typed'
  BY <1>1, <1>2 DEF Typed, Pcs
<1>4. /\ search'.root = search.root /\ search'.members = search.members
      /\ search'.list = search.list /\ search'.found = search.found /\ search'.kind = search.kind
      /\ search'.once = search.once /\ search'.turn = search.turn
      /\ search'.pc \in {"restore", "sort", "return"}
  BY <1>1, <1>2 DEF Typed
<1>5. Trees' /\ Rooted' /\ Grouping'
  BY <1>1, <1>4 DEF Searching, Trees, Rooted, Grouping, Apart, NoneAbove
<1>6. AllFound'
  <2>1. Hits' = Hits
    BY <1>1, <1>4, SameCall
  <2>2. search.kind = "selectors" /\ ~search.once => Range(search.found) = Searched \cap FoundBy(search.turn)
    BY <1>1 DEF Searching, Finding
  <2>3. search.kind = "selectors" => FoundBy(search.turn) = UNION Range(search.list)
    BY <1>1, FoundByFacts
  <2> QED BY <1>4, <2>1, <2>2, <2>3 DEF AllFound, Hits
<1>7. Finding' /\ Walking'
  BY <1>4 DEF Finding, Walking
<1> QED BY <1>3, <1>4, <1>5, <1>6, <1>7 DEF Searching

LEMMA SearchingRestore ==
  IInv /\ Typed /\ Searching /\ (RestoreMember \/ Restored) => Typed' /\ Searching'
<1> SUFFICES ASSUME IInv, Typed, Searching, RestoreMember \/ Restored PROVE Typed' /\ Searching'
  OBVIOUS
<1>1. /\ search.pc = "restore" /\ saved' = saved /\ mark' = mark
      /\ \/ search.backup # <<>> /\ search' = [search EXCEPT !.backup = Tail(@)]
         \/ search' = [search EXCEPT !.pc = Answer]
  BY DEF RestoreMember, Restored
<1>2. Answer \in {"sort", "return"}
  BY DEF Answer
<1>3. Typed'
  <2>1. search.backup # <<>> => Tail(search.backup) \in Seq(NodeLinks)
    BY TypedFields
  <2> QED BY <1>1, <1>2, <2>1 DEF Typed, Pcs
<1>4. /\ search'.root = search.root /\ search'.members = search.members
      /\ search'.list = search.list /\ search'.found = search.found /\ search'.kind = search.kind
      /\ search'.once = search.once /\ search'.pc \in {"restore", "sort", "return"}
  BY <1>1, <1>2 DEF Typed
<1>5. Trees' /\ Rooted' /\ Grouping'
  BY <1>1, <1>4 DEF Searching, Trees, Rooted, Grouping, Apart, NoneAbove
<1>6. AllFound'
  <2>1. Hits' = Hits
    BY <1>1, <1>4, SameCall
  <2> QED BY <1>1, <1>4, <2>1 DEF AllFound, Searching
<1>7. Finding' /\ Walking'
  BY <1>4 DEF Finding, Walking
<1> QED BY <1>3, <1>4, <1>5, <1>6, <1>7 DEF Searching

LEMMA ResultFacts ==
  ASSUME NEW s \in Seq(Node), IsInjective(s)
  PROVE  /\ Result(s) \in Seq(Node) /\ IsInjective(Result(s))
         /\ ~search.once => Result(s) = s
<1>1. CASE search.once /\ s # <<>>
  <2>1. Head(s) \in Node
    BY <1>1
  <2>2. <<Head(s)>> \in Seq(Node) /\ IsInjective(<<Head(s)>>)
    BY <2>1 DEF IsInjective
  <2> QED BY <1>1, <2>2 DEF Result
<1>2. CASE ~(search.once /\ s # <<>>)
  BY <1>2 DEF Result
<1> QED BY <1>1, <1>2

LEMMA SearchingSort ==
  ASSUME IsFiniteSet(Node)
  PROVE  IInv /\ Typed /\ Searching /\ Sort => Typed' /\ Searching'
<1> SUFFICES ASSUME IInv, Typed, Searching, Sort PROVE Typed' /\ Searching'
  OBVIOUS
<1> DEFINE s == IF Several THEN SortedByMark(search.found, mark') ELSE search.found
<1>1. /\ search.pc = "sort" /\ saved' = saved /\ dom' = dom
      /\ mark' = IF Several /\ NeedOrder THEN NodeOrders(dom, mark) ELSE mark
      /\ search' = [search EXCEPT !.pc = "return", !.found = Result(s)]
  BY DEF Sort
<1>2. mark' \in [Node -> Nat]
  BY <1>1, TypedFields, NodeOrdersType DEF IInv, Shape
<1>3. s \in Seq(Node) /\ IsInjective(s) /\ Range(s) = Range(search.found)
  BY <1>2, TypedFields, SortedPermutes DEF Searching
<1> HIDE DEF s
<1>4. /\ Result(s) \in Seq(Node) /\ IsInjective(Result(s)) /\ (~search.once => Result(s) = s)
  BY <1>3, ResultFacts
<1>5. Typed'
  BY <1>1, <1>2, <1>4 DEF Typed, Pcs
<1>6. /\ search'.root = search.root /\ search'.members = search.members
      /\ search'.list = search.list /\ search'.kind = search.kind
      /\ search'.once = search.once /\ search'.pc = "return" /\ search'.found = Result(s)
  BY <1>1 DEF Typed
<1>7. Trees' /\ Rooted' /\ Grouping'
  BY <1>1, <1>6 DEF Searching, Trees, Rooted, Grouping, Apart, NoneAbove
<1>8. AllFound'
  <2>1. Hits' = Hits
    BY <1>1, <1>6, SameCall
  <2> QED BY <1>1, <1>3, <1>4, <1>6, <2>1 DEF AllFound, Searching
<1>9. Finding' /\ Walking'
  BY <1>6 DEF Finding, Walking
<1> QED BY <1>4, <1>5, <1>6, <1>7, <1>8, <1>9 DEF Searching

LEMMA SearchingReturn == IInv /\ Typed /\ Searching /\ Return => Typed' /\ Searching'
<1> SUFFICES ASSUME IInv, Typed, Searching, Return PROVE Typed' /\ Searching'
  OBVIOUS
<1>1. search.pc = "return" /\ search' = Idle /\ dom' = dom /\ mark' = mark /\ saved' = Scattered
  BY DEF Return
<1>2. Linked(dom)
  BY <1>1 DEF IInv, TreeRestored, Searching, Trees
<1>3. Typed'
  BY <1>1, NothingFound DEF Typed, Idle, Pcs, Kinds, Link
<1>4. Trees'
  BY <1>1, <1>2, ScatteredLinked DEF Trees, Linked
<1>5. search'.pc = "idle" /\ search'.root = Nil /\ search'.found = <<>>
  BY <1>1 DEF Idle
<1>6. Rooted' /\ Grouping' /\ Finding' /\ Walking' /\ AllFound'
  BY <1>5, NilAssumption, NodeAssumption DEF Rooted, Grouping, Finding, Walking, AllFound
<1> QED BY <1>3, <1>4, <1>5, <1>6, NothingFound DEF Searching

LEMMA SearchingStutter == Typed /\ Searching /\ UNCHANGED vars => Typed' /\ Searching'
<1> SUFFICES ASSUME Typed, Searching, UNCHANGED vars PROVE Typed' /\ Searching'
  OBVIOUS
<1>1. dom' = dom /\ mark' = mark /\ search' = search /\ saved' = saved
  BY DEF vars
<1>2. Typed' /\ Trees' /\ IsInjective(search.found)'
  BY <1>1 DEF Typed, Searching, Trees
<1>3. Rooted' /\ Grouping'
  BY <1>1 DEF Searching, Rooted, Grouping, Apart, NoneAbove
<1>4. Searched' = Searched /\ Hits' = Hits /\ \A j : FoundBy(j)' = FoundBy(j)
  BY <1>1, SameCall
<1>5. FoundBy(search.turn)' = FoundBy(search.turn) /\ FoundBy(search.turn - 1)' = FoundBy(search.turn - 1)
  BY <1>1 DEF FoundBy
<1>6. Finding' /\ AllFound'
  BY <1>1, <1>4, <1>5 DEF Searching, Finding, AllFound
<1>7. ASSUME NEW V, MetSoFar(V) PROVE MetSoFar(V)'
  BY <1>1, <1>4, <1>5, <1>7 DEF MetSoFar
<1>8. Walking'
  BY <1>1, <1>7 DEF Searching, Walking
<1> QED BY <1>2, <1>3, <1>6, <1>8 DEF Searching

LEMMA SearchingStep ==
  ASSUME ~Nested, IsFiniteSet(Node)
  PROVE  IInv /\ Typed /\ Searching /\ [Next]_vars => Typed' /\ Searching'
<1> SUFFICES ASSUME IInv, Typed, Searching, [Next]_vars PROVE Typed' /\ Searching'
  OBVIOUS
<1>1. CASE Edit
  BY <1>1, SearchingEdit
<1>2. CASE Css
  BY <1>2, SearchingCss
<1>3. CASE Step
  BY <1>3, SearchingGroupMember, SearchingOn, SearchingNextSelector, SearchingVisit, SearchingWalkDone,
     SearchingFound, SearchingRestore, SearchingSort, SearchingReturn, SearchingStutter DEF Step, Abandon
<1>4. CASE UNCHANGED vars
  BY <1>4, SearchingStutter
<1> QED BY <1>1, <1>2, <1>3, <1>4 DEF Next

\* The links, the marks and the locals of a search have their types, and the
\* walk never comes to a null pointer (lxb_selectors_descendant,
\* patches/0001): for any number of nodes, as long as no member of a NodeSet
\* is above another one.
THEOREM SearchTypesCorrect ==
  ASSUME ~Nested, IsFiniteSet(Node)
  PROVE  Spec => []TypeOK
<1>1. Init => IInv /\ Typed /\ Searching
  BY InitStep, SearchingInit
<1>2. IInv /\ Typed /\ Searching /\ [Next]_vars => (IInv /\ Typed /\ Searching)'
  BY InductiveStep, SearchingStep
<1>3. IInv /\ Typed /\ Searching => TypeOK
  <2> SUFFICES ASSUME IInv, Typed, Searching PROVE TypeOK
    OBVIOUS
  <2>1. search.pc = "walk" => search.at # Nil
    <3> SUFFICES ASSUME search.pc = "walk" PROVE search.at # Nil
      OBVIOUS
    <3>1. search.root \in Node /\ Walkable(dom, search.root)
      BY Ground DEF Searching, Rooted
    <3>2. search.at = search.root \/ \E V : Walked(dom, search.root, V, search.at)
      BY DEF Searching, Walking, MetSoFar
    <3>3. search.at = search.root \/ search.at \in Beneath(dom, search.root)
      BY <3>2 DEF Walked, ComesNext
    <3> QED BY <3>1, <3>3, WalkableFacts, NilAssumption
  <2> QED BY <2>1 DEF TypeOK, Typed, IInv, Shape
<1> QED BY <1>1, <1>2, <1>3, PTL DEF Spec

\* css gives every node that a selector of the list matches below the node, or
\* among the members of the NodeSet and below them, and each of them once: for
\* any number of nodes and members, wherever they are, in whatever order, as
\* long as no member is above another one (nl_node_set.c:383-406,
\* nl_node.c:453-513).
THEOREM SearchComplete ==
  ASSUME ~Nested, IsFiniteSet(Node)
  PROVE  Spec => []Complete
<1>1. Init => IInv /\ Typed /\ Searching
  BY InitStep, SearchingInit
<1>2. IInv /\ Typed /\ Searching /\ [Next]_vars => (IInv /\ Typed /\ Searching)'
  BY InductiveStep, SearchingStep
<1>3. IInv /\ Typed /\ Searching => Complete
  <2> SUFFICES ASSUME Typed, Searching, Answered, ~search.once
               PROVE  Range(search.found) = Hits /\ Len(search.found) = Cardinality(Hits)
    BY DEF Complete
  <2>1. Range(search.found) = Hits
    BY DEF Searching, AllFound, Answered
  <2>2. Len(search.found) = Cardinality(Range(search.found))
    BY TypedFields, DistinctLength DEF Searching
  <2> QED BY <2>1, <2>2
<1> QED BY <1>1, <1>2, <1>3, PTL DEF Spec
=============================================================================
