--------------------------- MODULE MCNodeMutation ---------------------------
(* NodeMutation on a few nodes, against OrderedForest.                     *)
EXTENDS NodeMutation, TLC

\* Every call returns: the loops over first_child of a fragment that is being
\* emptied, and over a NodeSet, end.
CallsReturn == call.pc # "idle" ~> call.pc = "idle"

\* prepend_child given a node makes it the first child: "Add +node+ as the
\* first child of this Node" (node.rb:213).
PrependedComesFirst ==
  call.pc = "return" /\ call.name = "prepend_child" /\ call.arg # <<>>
    => dom.first[call.self] = call.arg[1]

\* Nodes of the same kind are interchangeable.
Movables == Node \ (Document \cup Fragment \cup Fresh \cup Remark)
Alike == Permutations(Movables) \cup Permutations(Fresh)
=============================================================================
