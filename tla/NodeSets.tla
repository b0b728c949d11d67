------------------------------ MODULE NodeSets ------------------------------
(***************************************************************************)
(* The node sets of xml_xpath.c: arrays of nodes without duplicates.       *)
(*                                                                         *)
(* A node is its place in the document.  A namespace node, [id, prefix]    *)
(* with a prefix other than 0, stands for a declaration at the element id; *)
(* a set holds copies of its own of those.                                 *)
(***************************************************************************)
EXTENDS Integers, SequencesExt

CONSTANTS
  Place,                      \* the nodes, numbered in document order
  Declaration,                \* the namespace nodes: where they are declared, and their prefix
  StringOf,                   \* the string value of each node
  XML_NODESET_DEFAULT,
  XPATH_MAX_NODESET_LENGTH

ASSUME SetsAssumption ==
  /\ \A d \in Declaration : d.prefix # 0
  /\ XML_NODESET_DEFAULT \in Nat \ {0} /\ XPATH_MAX_NODESET_LENGTH \in Nat

VARIABLES
  set1, set2,   \* two sets, [tab, max]
  copies        \* history: the copies of namespace nodes allocated and not freed

setVars == <<set1, set2, copies>>

Ordinary(i) == [id |-> i, prefix |-> 0]

IsNs(n) == n.prefix # 0

\* nl_xmlXPathNodeSetCreate(NULL)
EmptySet == [tab |-> <<>>, max |-> 0]

NInit == set1 = EmptySet /\ set2 = EmptySet /\ copies = 0

\* nl_xmlXPathNodeSetContains; two copies of a declaration are the same node.
ContainsNode(s, n) == n \in ToSet(s.tab)

NsCount(tab) == Cardinality({i \in DOMAIN tab : IsNs(tab[i])})

HasSpace(s) == Len(s.tab) < s.max \/ s.max < XPATH_MAX_NODESET_LENGTH

\* The array doubles when it is full.
WithRoom(s) == IF s.max = 0 THEN XML_NODESET_DEFAULT
               ELSE IF Len(s.tab) = s.max THEN 2 * s.max ELSE s.max

AddUnique(s, n) == IF HasSpace(s) THEN [tab |-> Append(s.tab, n), max |-> WithRoom(s)] ELSE s

\* One after the other, until there is no room.
AllAdded(s, tab) == FoldLeft(AddUnique, s, tab)
-----------------------------------------------------------------------------
(* One node.                                                               *)

Add(i) ==
  /\ set1' = IF ContainsNode(set1, Ordinary(i)) THEN set1 ELSE AddUnique(set1, Ordinary(i))
  /\ UNCHANGED <<set2, copies>>

AddNs(i, p) ==
  LET n == [id |-> i, prefix |-> p]
      new == ~ContainsNode(set1, n) /\ HasSpace(set1)
  IN /\ set1' = IF new THEN AddUnique(set1, n) ELSE set1
     /\ copies' = copies + (IF new THEN 1 ELSE 0) /\ UNCHANGED set2

\* nl_xmlXPathNodeSetDel and nl_xmlXPathNodeSetRemove.
RemoveFrom(at) ==
  /\ set1' = [set1 EXCEPT !.tab = RemoveAt(@, at)]
  /\ copies' = copies - NsCount(<<set1.tab[at]>>) /\ UNCHANGED set2

Del(n) == ContainsNode(set1, n) /\ RemoveFrom(SelectInSeq(set1.tab, LAMBDA m : m = n))

RemoveNth(at) == at \in DOMAIN set1.tab /\ RemoveFrom(at)

\* xmlXPathNodeSetClearFromPos: without hasNsNodes the copies are not looked for.
ClearFromPos(pos, hasNsNodes) ==
  /\ pos < Len(set1.tab) /\ (hasNsNodes \/ NsCount(set1.tab) = 0)
  /\ set1' = [set1 EXCEPT !.tab = SubSeq(@, 1, pos)]
  /\ copies' = copies - NsCount(SubSeq(set1.tab, pos + 1, Len(set1.tab))) /\ UNCHANGED set2

KeepLast ==
  /\ Len(set1.tab) > 1
  /\ set1' = [set1 EXCEPT !.tab = <<Last(@)>>]
  /\ copies' = copies - NsCount(Front(set1.tab)) /\ UNCHANGED set2

\* A set is freed and another one created.
FreeNodeSet ==
  set1' = EmptySet /\ copies' = copies - NsCount(set1.tab) /\ UNCHANGED set2

Swap == set1' = set2 /\ set2' = set1 /\ UNCHANGED copies
-----------------------------------------------------------------------------
(* Two sets.                                                               *)

\* Variant of Merged: the nodes of s2 are not compared with any.
MergedBlindly(s1, s2) == FoldLeft(AddUnique, s1, s2.tab)

\* The nodes of s2 are compared with those s1 had at first only: s2 has no
\* duplicates.  When there is no room the rest is left out.
Merged(s1, s2) ==
  FoldLeft(LAMBDA s, n : IF ContainsNode(s1, n) THEN s ELSE AddUnique(s, n), s1, s2.tab)

\* The copies in set2 are copied.
MergeSets ==
  /\ set1' = Merged(set1, set2)
  /\ copies' = copies + NsCount(set1'.tab) - NsCount(set1.tab) /\ UNCHANGED set2

\* xmlXPathNodeSetMergeAndClear: the copies in set2 move, those that set1 has
\* already are freed.  The limit is not met on the way: set2 would keep what has
\* been moved.
Roomy == Len(set1.tab) + Len(set2.tab) <= XPATH_MAX_NODESET_LENGTH

DuplicateCopies(s1, s2) ==
  Cardinality({i \in DOMAIN s2.tab : IsNs(s2.tab[i]) /\ ContainsNode(s1, s2.tab[i])})

MergeAndClear ==
  /\ Roomy
  /\ set1' = Merged(set1, set2)
  /\ set2' = [set2 EXCEPT !.tab = <<>>]
  /\ copies' = copies - DuplicateCopies(set1, set2)

\* xmlXPathNodeSetMergeAndClearNoDupls, for sets without a common node.
MergeAndClearNoDupls ==
  /\ Roomy /\ ToSet(set1.tab) \cap ToSet(set2.tab) = {}
  /\ set1' = AllAdded(set1, set2.tab)
  /\ set2' = [set2 EXCEPT !.tab = <<>>]
  /\ UNCHANGED copies
-----------------------------------------------------------------------------
(* The functions of EXSLT sets; each makes a set of its own.               *)

Collected(tab) == AllAdded(EmptySet, tab)

Difference(s1, s2) ==
  IF s2.tab = <<>> THEN s1
  ELSE Collected(SelectSeq(s1.tab, LAMBDA n : ~ContainsNode(s2, n)))

Intersection(s1, s2) ==
  IF s1.tab = <<>> \/ s2.tab = <<>> THEN EmptySet
  ELSE Collected(SelectSeq(s1.tab, LAMBDA n : ContainsNode(s2, n)))

HasSameNodes(s1, s2) == \E n \in ToSet(s1.tab) : ContainsNode(s2, n)

\* The first node of every string value, which a hash table remembers.
DistinctSorted(s) ==
  Collected(FoldLeft(LAMBDA kept, n :
    IF \E m \in ToSet(kept) : StringOf[m.id] = StringOf[n.id] THEN kept ELSE Append(kept, n),
    <<>>, s.tab))

\* nl_xmlXPathNodeSetSort
Sorted(s) == [s EXCEPT !.tab = SortSeq(@, LAMBDA m, n : m.id < n.id)]

Distinct(s) == DistinctSorted(Sorted(s))

\* NULL is 0.
NodeLeadingSorted(s, n) ==
  IF n = 0 THEN s
  ELSE IF ~ContainsNode(s, Ordinary(n)) THEN EmptySet
  ELSE Collected(SubSeq(s.tab, 1, SelectInSeq(s.tab, LAMBDA m : m.id = n) - 1))

NodeLeading(s, n) == NodeLeadingSorted(Sorted(s), n)

\* Variant of NodeTrailingSorted: the nodes are left as they were collected,
\* from the end.
NodeTrailingUnsorted(s, n) ==
  IF n = 0 THEN s
  ELSE IF ~ContainsNode(s, Ordinary(n)) THEN EmptySet
  ELSE Collected(Reverse(SubSeq(s.tab, SelectInSeq(s.tab, LAMBDA m : m.id = n) + 1, Len(s.tab))))

NodeTrailingSorted(s, n) ==
  IF n = 0 THEN s
  ELSE IF ~ContainsNode(s, Ordinary(n)) THEN EmptySet
  ELSE Sorted(Collected(Reverse(SubSeq(s.tab, SelectInSeq(s.tab, LAMBDA m : m.id = n) + 1, Len(s.tab)))))

NodeTrailing(s, n) == NodeTrailingSorted(Sorted(s), n)

\* xmlXPathNodeSetItem counts from 0 and gives NULL outside the set.
Item(s, i) == IF i \in 0 .. Len(s.tab) - 1 THEN s.tab[i + 1].id ELSE 0

\* The leading functions ask for item 1, which is the second node.
LeadingSorted(s1, s2) ==
  IF s2.tab = <<>> THEN s1 ELSE NodeLeadingSorted(s1, Item(s2, 1))

Leading(s1, s2) ==
  IF s2.tab = <<>> THEN s1 ELSE IF s1.tab = <<>> THEN EmptySet
  ELSE NodeLeadingSorted(Sorted(s1), Item(Sorted(s2), 1))

TrailingSorted(s1, s2) ==
  IF s2.tab = <<>> THEN s1 ELSE NodeTrailingSorted(s1, Item(s2, 0))

Trailing(s1, s2) ==
  IF s2.tab = <<>> THEN s1 ELSE IF s1.tab = <<>> THEN EmptySet
  ELSE NodeTrailingSorted(Sorted(s1), Item(Sorted(s2), 0))
-----------------------------------------------------------------------------
NNext ==
  \/ \E i \in Place : Add(i) \/ Del(Ordinary(i))
  \/ \E d \in Declaration : AddNs(d.id, d.prefix) \/ Del(d)
  \/ \E n \in 0 .. Cardinality(Place) : RemoveNth(n) \/ \E ns \in BOOLEAN : ClearFromPos(n, ns)
  \/ KeepLast \/ FreeNodeSet \/ Swap
  \/ MergeSets \/ MergeAndClear \/ MergeAndClearNoDupls

NSpec == NInit /\ [][NNext]_setVars
-----------------------------------------------------------------------------
\* No node is twice in a set, although the merging functions compare with the
\* nodes the first set had at first only (initNr), and no copy of a namespace
\* node is lost or held by two sets (nl_xmlXPathNodeSetMerge,
\* xmlXPathNodeSetMergeAndClear, xmlXPathNodeSetClearFromPos).  The copies are what
\* these functions provide for: no query of this port makes one, since
\* nl_xmlXPathNextNamespace always returns NULL (xml_xpath.c:8409).
SetsSound ==
  /\ \A s \in {set1, set2} : IsInjective(s.tab) /\ Len(s.tab) <= s.max
  /\ copies = NsCount(set1.tab) + NsCount(set2.tab)

\* The functions give the sets that their comments promise, in document order where
\* they are to sort, for nodes that are no namespace nodes and sets within the limit.
\* Of the two functions that give the nodes of a set before another set only what
\* they do with an empty one is asked: for others they take the nodes before its
\* second node (item 1), where xml_xpath.c:4685 and :4707 have "the first node in
\* @nodes2".
SetFunctionsExact ==
  LET Ids(s) == {n.id : n \in ToSet(s.tab)}
      InOrder(s) == [i \in DOMAIN s.tab |-> s.tab[i].id] = SetToSortSeq(Ids(s), <)
      A == Ids(set1)  B == Ids(set2)
  IN NsCount(set1.tab \o set2.tab) = 0 =>
     /\ Ids(Difference(set1, set2)) = A \ B
     /\ Ids(Intersection(set1, set2)) = A \cap B
     /\ HasSameNodes(set1, set2) = (A \cap B # {})
     /\ LET d == Distinct(set1)
        IN InOrder(d) /\ Ids(d) = {a \in A : \A b \in A : StringOf[b] = StringOf[a] => a <= b}
     /\ \A n \in A : LET l == NodeLeading(set1, n)  t == NodeTrailing(set1, n)
                     IN /\ InOrder(l) /\ Ids(l) = {a \in A : a < n}
                        /\ InOrder(t) /\ Ids(t) = {a \in A : a > n}
     /\ B = {} => Leading(set1, set2) = set1 /\ Trailing(set1, set2) = set1
     /\ A = {} => Ids(Leading(set1, set2)) = {}
     /\ (A # {} /\ B # {}) =>
          LET first == Min(B)  t == Trailing(set1, set2)
          IN InOrder(t) /\ Ids(t) = IF first \in A THEN {a \in A : a > first} ELSE {}
=============================================================================
