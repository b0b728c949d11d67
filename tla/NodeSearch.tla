------------------------------ MODULE NodeSearch ------------------------------
(***************************************************************************)
(* Node#css and at_css (nl_node.c) and their NodeSet forms                 *)
(* (nl_node_set.c): the search of a tree, the temporary fragment under     *)
(* which the members of a NodeSet are searched, and the order of results.  *)
(*                                                                         *)
(* A NodeSet is searched by linking its members under a fragment without   *)
(* unlinking them first; the old pointers are copied before and written    *)
(* back after.  Between searches the program edits the tree, and the marks *)
(* the results are sorted by (lxb_dom_node_t.user) may be older than that. *)
(*                                                                         *)
(* The engine that matches selectors is lexbor's.  It walks the tree as    *)
(* patches/0001 shows (lxb_selectors_descendant and its _next), once for   *)
(* each selector of the list, and at_css stops each of these walks at its  *)
(* first hit.  A selector is the set of nodes it matches.                  *)
(***************************************************************************)
EXTENDS DomTree, Functions

CONSTANTS
  Document,      \* the document node
  Frag,          \* the node the temporary fragment is allocated at
  SelectorList,  \* the selector lists that are searched for
  MaxMembers,    \* bound: how many nodes a searched NodeSet holds
  Nested,        \* may a member of a NodeSet be above another one?
  Unordered,     \* may the members be in another order than the document?
  Moves,         \* may a node that was in the tree be put back elsewhere?
  Raises         \* may NodeSet#css be given something that is no String?

ASSUME NodeAssumption == {Document, Frag} \subseteq Node /\ Document # Frag

ASSUME SearchAssumption ==
  /\ MaxMembers \in Nat
  /\ \A l \in SelectorList : l \in Seq(SUBSET Node) /\ l # <<>>
  /\ {Nested, Unordered, Moves, Raises} \subseteq BOOLEAN

VARIABLES
  dom,     \* the links of every node
  mark,    \* node->user, 0 in a new node
  search,  \* the locals of the search in progress
  saved    \* history: the tree when the search began

vars == <<dom, mark, search, saved>>

Tops == Node \ {Frag}

Pcs == {"idle", "group", "find", "walk", "restore", "sort", "return", "raised"}

\* A String that parses, one that does not, or no String at all.
Kinds == {"selectors", "invalid", "object"}

Idle == [pc |-> "idle", members |-> <<>>, backup |-> <<>>, root |-> Nil,
         list |-> <<>>, kind |-> "selectors", once |-> FALSE, at |-> Nil,
         turn |-> 0, found |-> <<>>]

\* What memcpy saves of one node.
LinksOf(t, n) == [parent |-> t.parent[n], prev |-> t.prev[n],
                  next |-> t.next[n], first |-> t.first[n], last |-> t.last[n]]

\* Variant of WithLinks: the parent is not among what is written back.
WithSiblings(t, n, b) ==
  [t EXCEPT !.prev[n] = b.prev, !.next[n] = b.next,
            !.first[n] = b.first, !.last[n] = b.last]

\* t with the links of n replaced by b.
WithLinks(t, n, b) ==
  [parent |-> [t.parent EXCEPT ![n] = b.parent],
   prev   |-> [t.prev EXCEPT ![n] = b.prev],
   next   |-> [t.next EXCEPT ![n] = b.next],
   first  |-> [t.first EXCEPT ![n] = b.first],
   last   |-> [t.last EXCEPT ![n] = b.last]]

NodeLinks == [parent : Link, prev : Link, next : Link, first : Link, last : Link]

\* In particular the walk never follows a null pointer.
TypeOK ==
  /\ dom \in Tree /\ saved \in Tree
  /\ mark \in [Node -> Nat]
  /\ search \in [pc : Pcs, members : Seq(Tops), backup : Seq(NodeLinks),
                 root : Link, list : SelectorList \cup {<<>>}, kind : Kinds,
                 once : BOOLEAN, at : Link, turn : Nat, found : Seq(Node)]
  /\ search.pc = "walk" => search.at # Nil

Init ==
  /\ dom = Scattered
  /\ mark = [n \in Node |-> 0]
  /\ search = Idle
  /\ saved = Scattered
-----------------------------------------------------------------------------
(* The walk through what is under root.                                    *)

\* Variant of After: the climb does not look for root.
AfterPastRoot(t, root, n) ==
  LET climb[k \in 0 .. Cardinality(Node), x \in Link] ==
        IF x = Nil THEN x
        ELSE IF t.next[x] # Nil THEN t.next[x]
        ELSE IF k = 0 THEN Nil ELSE climb[k - 1, t.parent[x]]
  IN IF t.first[n] # Nil THEN t.first[n] ELSE climb[Cardinality(Node), n]

\* Variant of After: the end of a list of siblings ends the walk.
AfterOnLevel(t, root, n) ==
  IF t.first[n] # Nil THEN t.first[n]
  ELSE IF n # root /\ t.next[n] # Nil THEN t.next[n] ELSE root

\* The node after n: its first child, or the next sibling of the nearest node
\* that has one, from n up; root when there is none left.
After(t, root, n) ==
  LET climb[k \in 0 .. Cardinality(Node)] ==
        [x \in Link |-> IF x \in {root, Nil} THEN x
                        ELSE IF t.next[x] # Nil THEN t.next[x]
                        ELSE IF k = 0 THEN Nil ELSE climb[k - 1][t.parent[x]]]
  IN IF t.first[n] # Nil THEN t.first[n] ELSE climb[Cardinality(Node)][n]

\* root and the nodes met before the walk is back at it; no more of them than
\* there are nodes.
Walk(t, root) ==
  LET go[k \in 0 .. Cardinality(Node)] ==
        [x \in Link |-> IF k = 0 \/ x \in {root, Nil} THEN <<>>
                        ELSE <<x>> \o go[k - 1][After(t, root, x)]]
  IN <<root>> \o go[Cardinality(Node)][After(t, root, root)]

PushUnique(s, n) == IF n \in Range(s) THEN s ELSE Append(s, n)

\* The stable sort of the results by their marks.
SortedByMark(s, m) ==
  LET before(i, j) == m[s[i]] < m[s[j]] \/ (m[s[i]] = m[s[j]] /\ i < j)
      place(i) == Cardinality({j \in DOMAIN s : before(j, i)}) + 1
  IN [k \in DOMAIN s |-> s[CHOOSE i \in DOMAIN s : place(i) = k]]
-----------------------------------------------------------------------------
(* Editing between searches: what nl_node_add_nodes does with one node.    *)

AtRest(n) == n # Frag /\ n # Document

Detached(t, n) == t.parent[n] = Nil

\* A node that never carried a mark is new to the document.
MayInsert(n) == Moves \/ (Detached(dom, n) /\ mark[n] = 0)

AddChild(p, n) ==
  /\ search.pc = "idle" /\ AtRest(n) /\ p \notin {n, Frag}
  /\ MayInsert(n)
  /\ NoneAbove(dom, {n}, p)
  /\ dom' = InsertChild(RemoveNode(dom, n), p, n)
  /\ UNCHANGED <<mark, search, saved>>

AddPreviousSibling(s, n) ==
  /\ search.pc = "idle" /\ AtRest(n) /\ s # n /\ dom.parent[s] # Nil
  /\ MayInsert(n)
  /\ NoneAbove(dom, {n}, s)
  /\ dom' = InsertBefore(RemoveNode(dom, n), s, n)
  /\ UNCHANGED <<mark, search, saved>>

Unparent(n) ==
  /\ search.pc = "idle" /\ AtRest(n) /\ dom.parent[n] # Nil
  /\ dom' = RemoveNode(dom, n)
  /\ UNCHANGED <<mark, search, saved>>
-----------------------------------------------------------------------------
(* A search.                                                               *)

Below(t, S) == {n \in Node : ~NoneAbove(t, S, n)}

InDocument == Below(saved, {Document})

\* No member is above another one.
Apart(t, s) ==
  \A i, j \in DOMAIN s : i # j => NoneAbove(t, {s[i]}, s[j])

\* The members stand in the order in which a walk of the document meets them.
InWalkOrder(t, s) ==
  LET w == Walk(t, Document)
  IN /\ Range(s) \subseteq Range(w)
     /\ \A i, j \in DOMAIN s :
          i < j => \E p, q \in DOMAIN w : p < q /\ w[p] = s[i] /\ w[q] = s[j]

\* The NodeSets: no node is twice in one.
Members == {s \in UNION {[1 .. k -> Tops] : k \in 0 .. MaxMembers} :
              \A i, j \in DOMAIN s : i # j => s[i] # s[j]}

Searchable(s) == /\ Nested \/ Apart(dom, s)
                 /\ Unordered \/ InWalkOrder(dom, s)

\* Node#css, Node#at_css: a String in any case, for node.rb joins the arguments.
CssOfNode(n, l, once, kind) ==
  /\ search.pc = "idle" /\ n # Frag /\ kind # "object"
  /\ search' = [Idle EXCEPT !.pc = "find", !.root = n, !.list = l,
                            !.once = once, !.kind = kind]
  /\ saved' = dom
  /\ UNCHANGED <<dom, mark>>

\* NodeSet#css, NodeSet#at_css
CssOfSet(s, l, once, kind) ==
  /\ search.pc = "idle"
  /\ kind = "object" => Raises
  /\ search' = [Idle EXCEPT !.pc = "group", !.members = s, !.root = Frag,
                            !.list = l, !.once = once, !.kind = kind]
  /\ saved' = dom
  /\ UNCHANGED <<dom, mark>>

\* Variant of GroupMember: the node is copied when it is already regrouped.
GroupBeforeBackup ==
  /\ search.pc = "group" /\ Len(search.backup) < Len(search.members)
  /\ LET n == search.members[Len(search.backup) + 1]
     IN /\ dom' = InsertChild(dom, Frag, n)
        /\ search' = [search EXCEPT !.backup = Append(@, LinksOf(dom', n))]
  /\ UNCHANGED <<mark, saved>>

\* Variant of GroupMember: the node is unlinked first, as elsewhere.
GroupUnlinked ==
  /\ search.pc = "group" /\ Len(search.backup) < Len(search.members)
  /\ LET n == search.members[Len(search.backup) + 1]
     IN /\ search' = [search EXCEPT !.backup = Append(@, LinksOf(dom, n))]
        /\ dom' = InsertChild(RemoveNode(dom, n), Frag, n)
  /\ UNCHANGED <<mark, saved>>

GroupMember ==
  /\ search.pc = "group" /\ Len(search.backup) < Len(search.members)
  /\ LET n == search.members[Len(search.backup) + 1]
     IN /\ search' = [search EXCEPT !.backup = Append(@, LinksOf(dom, n))]
        /\ dom' = InsertChild(dom, Frag, n)
  /\ UNCHANGED <<mark, saved>>

Grouped ==
  /\ search.pc = "group" /\ Len(search.backup) = Len(search.members)
  /\ search' = [search EXCEPT !.pc = "find"]
  /\ UNCHANGED <<dom, mark, saved>>

\* StringValuePtr raises out of the middle of nl_node_set_find.
Raise ==
  /\ search.pc = "find" /\ search.kind = "object"
  /\ search' = [search EXCEPT !.pc = "raised"]
  /\ UNCHANGED <<dom, mark, saved>>

\* A search that failed raises; another one sorts its results.
Answer == IF search.kind = "invalid" THEN "return" ELSE "sort"

\* nl_node_find returns: the fragment, if there is one, is destroyed, and the
\* next one starts without links.
Found ==
  /\ search' = [search EXCEPT !.pc = IF search.root = Frag THEN "restore"
                                      ELSE Answer]
  /\ dom' = IF search.root = Frag
              THEN WithLinks(dom, Frag, LinksOf(Scattered, Frag)) ELSE dom
  /\ UNCHANGED <<mark, saved>>

ParseFails ==
  /\ search.pc = "find" /\ search.kind = "invalid"
  /\ Found

NextSelector ==
  /\ search.pc = "find" /\ search.kind = "selectors"
  /\ search.turn < Len(search.list)
  /\ search' = [search EXCEPT !.pc = "walk", !.turn = @ + 1,
                              !.at = After(dom, search.root, search.root)]
  /\ UNCHANGED <<dom, mark, saved>>

\* Variant of Visit: css stops at a hit too.
VisitFirst ==
  /\ search.pc = "walk" /\ search.at \notin {search.root, Nil}
  /\ LET hit == search.at \in search.list[search.turn]
     IN search' = [search EXCEPT
          !.found = IF hit THEN PushUnique(@, search.at) ELSE @,
          !.at = IF hit THEN search.root ELSE After(dom, search.root, @)]
  /\ UNCHANGED <<dom, mark, saved>>

\* Variant of Visit: a walk that is told to stop stays where it is.
VisitAgain ==
  /\ search.pc = "walk" /\ search.at \notin {search.root, Nil}
  /\ LET hit == search.at \in search.list[search.turn]
     IN search' = [search EXCEPT
          !.found = IF hit THEN PushUnique(@, search.at) ELSE @,
          !.at = IF hit /\ search.once THEN @ ELSE After(dom, search.root, @)]
  /\ UNCHANGED <<dom, mark, saved>>

\* nl_node_css_callback, nl_node_at_css_callback
Visit ==
  /\ search.pc = "walk" /\ search.at \notin {search.root, Nil}
  /\ LET hit == search.at \in search.list[search.turn]
     IN search' = [search EXCEPT
          !.found = IF hit THEN PushUnique(@, search.at) ELSE @,
          !.at = IF hit /\ search.once THEN search.root
                 ELSE After(dom, search.root, @)]
  /\ UNCHANGED <<dom, mark, saved>>

WalkDone ==
  /\ search.pc = "walk" /\ search.at = search.root
  /\ search' = [search EXCEPT !.pc = "find"]
  /\ UNCHANGED <<dom, mark, saved>>

FindDone ==
  /\ search.pc = "find" /\ search.kind = "selectors"
  /\ search.turn = Len(search.list)
  /\ Found
-----------------------------------------------------------------------------
(* Writing the members' pointers back, first member first.                 *)

RestoreMember ==
  /\ search.pc = "restore" /\ search.backup # <<>>
  /\ LET n == search.members[Len(search.members) - Len(search.backup) + 1]
     IN dom' = WithLinks(dom, n, Head(search.backup))
  /\ search' = [search EXCEPT !.backup = Tail(@)]
  /\ UNCHANGED <<mark, saved>>

Restored ==
  /\ search.pc = "restore" /\ search.backup = <<>>
  /\ search' = [search EXCEPT !.pc = Answer]
  /\ UNCHANGED <<dom, mark, saved>>
-----------------------------------------------------------------------------
(* nl_sort_nodes_if_necessary                                              *)

Several == Len(search.list) > 1

\* Variant of NeedOrder: only the first result is looked at.
NeedOrderFirst == search.found # <<>> /\ mark[Head(search.found)] = 0

NeedOrder == \E i \in DOMAIN search.found : mark[search.found[i]] = 0

\* mark_node_orders(&doc->node): 1 for the document, then counting.
NodeOrders(t, m) ==
  LET w == Walk(t, Document)
  IN [n \in Node |-> IF n \in Range(w) THEN CHOOSE i \in DOMAIN w : w[i] = n
                     ELSE m[n]]

\* What the caller is given: at_css returns list[0], or nil.
Result(s) == IF search.once /\ s # <<>> THEN <<Head(s)>> ELSE s

Sort ==
  /\ search.pc = "sort"
  /\ mark' = IF Several /\ NeedOrder THEN NodeOrders(dom, mark) ELSE mark
  /\ search' = [search EXCEPT
       !.pc = "return",
       !.found = Result(IF Several THEN SortedByMark(@, mark') ELSE @)]
  /\ UNCHANGED <<dom, saved>>

Return ==
  /\ search.pc = "return"
  /\ search' = Idle
  /\ saved' = Scattered
  /\ UNCHANGED <<dom, mark>>

\* Bound: what becomes of a tree that an exception has left regrouped is not
\* followed any further.
Abandon == search.pc = "raised" /\ UNCHANGED vars

Edit == \E n, x \in Node : \/ AddChild(x, n)
                           \/ AddPreviousSibling(x, n)
                           \/ Unparent(n)

Css ==
  /\ search.pc = "idle"
  /\ \/ \E n \in Node, l \in SelectorList, once \in BOOLEAN, kind \in Kinds :
          CssOfNode(n, l, once, kind)
     \/ \E s \in Members :
          /\ Searchable(s)
          /\ \E l \in SelectorList, once \in BOOLEAN, kind \in Kinds :
               CssOfSet(s, l, once, kind)

Step == \/ GroupMember \/ Grouped \/ Raise \/ ParseFails \/ NextSelector
        \/ Visit \/ WalkDone \/ FindDone \/ RestoreMember \/ Restored
        \/ Sort \/ Return \/ Abandon

Next == Edit \/ Css \/ Step

Spec == Init /\ [][Next]_vars

\* A call that has begun runs: nothing in it waits.
FairSpec == Spec /\ WF_vars(Step)
-----------------------------------------------------------------------------
\* When a search is over, every pointer of every node is what it was before,
\* whichever nodes the fragment borrowed ("Restore original node data",
\* nl_node_set.c:401).
TreeRestored == search.pc \in {"sort", "return"} => dom = saved

\* The same when the search ends in an exception.
TreeRestoredEvenIfRaised == search.pc = "raised" => dom = saved

\* The nodes a selector is matched against: the members of a set and what is
\* below them, or what is below a node.
Searched == IF search.root = Frag THEN Below(saved, Range(search.members))
            ELSE Below(saved, {search.root}) \ {search.root}

Hits == Searched \cap UNION Range(search.list)

Answered == search.pc = "return" /\ search.kind = "selectors"

\* css returns every node that one of the selectors matches, once, whatever the
\* set it is asked of ("searches direct children", node_set_spec.rb:49; "nodes
\* in results are unique", node_spec.rb:121): the regrouping of the members
\* under a fragment (nl_node_set.c:383-395) hides none of them.
Complete ==
  Answered /\ ~search.once =>
    /\ Range(search.found) = Hits
    /\ Len(search.found) = Cardinality(Hits)
=============================================================================
