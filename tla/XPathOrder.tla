----------------------------- MODULE XPathOrder -----------------------------
(***************************************************************************)
(* Node sets: how they are merged, and how they are put in document order  *)
(* (xml_xpath.c:161-474, 3480-3525, 3803-4245, timsort.h).                 *)
(*                                                                         *)
(* A node set is a sequence of nodes.  The growth of its table and the     *)
(* nodes made for namespaces, which lexbor does not have, are left out.    *)
(***************************************************************************)
EXTENDS AxisIterators, Integers, SequencesExt

-----------------------------------------------------------------------------
(* Comparing two nodes.                                                    *)

\* The nodes from the root of its tree down to n.
Line(d, n) ==
  LET up[k \in 0 .. Cardinality(Node), x \in Link] ==
        IF k = 0 \/ x = Nil THEN <<>> ELSE up[k - 1, d.parent[x]] \o <<x>>
  IN up[Cardinality(Node), n]

\* The marks that could tell the order of elements at once (node->user) are
\* never negative here, so that every comparison comes to "turtle_comparison".
\* 1: x is first; -1: y is first; -2: they are in different trees.
TurtleComparison(d, x, y) ==
  LET lx == Line(d, x)
      ly == Line(d, y)
      fork == CHOOSE k \in 2 .. Len(lx) :
                /\ k <= Len(ly)
                /\ lx[k - 1] = ly[k - 1] /\ lx[k] # ly[k]
      sx == lx[fork]
      sy == ly[fork]
  IN IF x = d.prev[y] THEN 1
     ELSE IF x = d.next[y] THEN -1
     ELSE IF IsPrefix(lx, ly) THEN 1
     ELSE IF IsPrefix(ly, lx) THEN -1
     ELSE IF lx[1] # ly[1] THEN -2
     ELSE IF Contains(ChainFrom(d, d.next[sx]), sy) THEN 1 ELSE -1

\* The parent of an attribute is NULL: two of them are taken for neighbours whose
\* order the siblings before them decide, and they have none.  (With an attribute
\* and a node of another kind the code follows the NULL; this is not modelled.)
CmpNodesExt(d, x, y) ==
  IF x = y THEN 0
  ELSE IF IsAttribute(d, x) /\ IsAttribute(d, y) THEN -1
  ELSE TurtleComparison(d, x, y)

wrap_cmp(d, x, y) ==
  LET res == CmpNodesExt(d, x, y) IN IF res = -2 THEN res ELSE -res

-----------------------------------------------------------------------------
(* Sorting: timsort, which for less than 64 nodes is a binary insertion    *)
(* sort.                                                                   *)

\* Where x goes in s, sorted, counted from 0.
BinaryInsertionFind(d, s, x) ==
  LET r0 == Len(s) - 1
      search[l \in 0 .. r0, r \in 0 .. r0] ==
        LET c == l + ((r - l) \div 2)
        IN IF wrap_cmp(d, x, s[c + 1]) < 0
             THEN IF c - l <= 1 THEN c ELSE search[l, c]
             ELSE IF r - c <= 1 THEN c + 1 ELSE search[c, r]
  IN IF wrap_cmp(d, x, s[1]) < 0 THEN 0
     ELSE IF wrap_cmp(d, x, s[r0 + 1]) > 0 THEN r0
     ELSE search[0, r0]

BinaryInsertionSort(d, s) ==
  LET insert(sorted, x) ==
        IF sorted = <<>> \/ wrap_cmp(d, Last(sorted), x) <= 0
          THEN Append(sorted, x)
          ELSE InsertAt(sorted, BinaryInsertionFind(d, sorted, x) + 1, x)
  IN FoldLeft(insert, <<>>, s)

NodeSetSort(d, s) == IF Len(s) <= 1 THEN s ELSE BinaryInsertionSort(d, s)

-----------------------------------------------------------------------------
(* Merging and cutting.                                                    *)

\* nl_xmlXPathNodeSetMerge and xmlXPathNodeSetMergeAndClear: the nodes of t that
\* were not in s from the start.
NodeSetMerge(s, t) == s \o SelectSeq(t, LAMBDA n : n \notin ToSet(s))

NodeSetMergeNoDupls(s, t) == s \o t

NodeSetKeepFirst(s) == IF Len(s) > 1 THEN <<s[1]>> ELSE s
NodeSetKeepLast(s)  == IF Len(s) > 1 THEN <<s[Len(s)]>> ELSE s
=============================================================================
