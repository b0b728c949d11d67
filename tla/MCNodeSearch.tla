---------------------------- MODULE MCNodeSearch ----------------------------
(* NodeSearch on a document, a fragment and a few nodes.                   *)
EXTENDS NodeSearch, TLC

CONSTANT Movable   \* the nodes that are neither the document nor the fragment

Chosen == CHOOSE n \in Movable : TRUE

\* One selector that matches every node, two that share the nodes out, and two
\* that both match a node.
Lists == {<<Movable>>, <<{Chosen}, Movable \ {Chosen}>>, <<Movable, {Chosen}>>}

Alike == Permutations(Movable)

\* Two kinds of behaviours.  In one the program moves nodes as it likes, keeps
\* its sets in any order and searches for one selector; in the other it adds
\* new nodes, removes nodes, and searches for lists of selectors, from nodes and
\* sets in document order, and may give css something that is no String.
VARIABLE moves

Attached(t) == {n \in Node : t.parent[n] # Nil}

AddsOrRemoves ==
  dom' # dom => /\ Attached(dom') # Attached(dom)
                /\ \A n \in Attached(dom') \ Attached(dom) : mark[n] = 0

Ordered(s) == s.root # Frag \/ InWalkOrder(dom, s.members)

MCInit == Init /\ moves \in BOOLEAN

Kind(s) == /\ moves => Len(s.list) = 1 /\ s.kind = "selectors"
           /\ ~moves => Ordered(s) /\ (s.kind = "selectors" \/ Len(s.list) = 1)

MCEdit == Edit /\ (moves \/ AddsOrRemoves) /\ moves' = moves

MCCss == Css /\ Kind(search') /\ moves' = moves

MCStep == Step /\ moves' = moves

MCSpec == /\ MCInit /\ [][MCEdit \/ MCCss \/ MCStep]_<<vars, moves>>
          /\ WF_<<vars, moves>>(MCStep)

\* Everything the constants allow.
AnySpec == MCInit /\ [][Next /\ moves' = moves]_<<vars, moves>>
-----------------------------------------------------------------------------
\* Document order, told by the tree alone: a node, then what is under each of
\* its children in turn.
Preorder(t, top) ==
  LET flatten[k \in 0 .. 2 * Cardinality(Node),
              s \in UNION {[1 .. m -> Node] : m \in 0 .. Cardinality(Node)}] ==
        IF k = 0 \/ s = <<>> THEN <<>>
        ELSE <<Head(s)>> \o flatten[k - 1, Children(t, Head(s))]
                         \o flatten[k - 1, Tail(s)]
  IN flatten[2 * Cardinality(Node), <<top>>]

HitsInOrder == SelectSeq(Preorder(saved, Document), LAMBDA n : n \in Hits)

\* Within a document whose nodes are added and removed, but not moved, css
\* returns its results in document order and at_css the first of them, although
\* the marks that results are sorted by may be older than some of the nodes
\* (nl_sort_nodes_if_necessary, nl_node.c:494-513).
ResultsInDocumentOrder ==
  Answered /\ ~moves /\ Searched \subseteq InDocument =>
    search.found = IF search.once /\ HitsInOrder # <<>> THEN <<Head(HitsInOrder)>>
                   ELSE HitsInOrder

\* The same of nodes that were moved.
MovedResultsInDocumentOrder ==
  Answered /\ Searched \subseteq InDocument =>
    search.found = IF search.once /\ HitsInOrder # <<>> THEN <<Head(HitsInOrder)>>
                   ELSE HitsInOrder

\* Every search returns or raises: "@return [NodeSet] The matched set of Nodes."
\* (node.rb:330); the walk of the tree that the regrouping makes ends.
SearchReturns == search.pc # "idle" ~> search.pc \in {"idle", "raised"}
=============================================================================
