------------------------------- MODULE Forests -------------------------------
(***************************************************************************)
(* Forests whose nodes have sequences of children, and what can be done to *)
(* one in a single change: the nodes that are moved leave their places and *)
(* take others with their subtrees, several nodes keep their order, and    *)
(* nothing else moves.                                                     *)
(*                                                                         *)
(* f.kids[n] are the children of n.  f.tops holds the sibling chains of    *)
(* the nodes without a parent, a lone node being a chain of one.           *)
(***************************************************************************)
EXTENDS Naturals, Sequences, SequencesExt

Without(s, X) ==
  FoldLeft(LAMBDA kept, x : IF x \in X THEN kept ELSE Append(kept, x), <<>>, s)

\* The nodes of X out of every sequence, and in none.
Pull(f, X) ==
  [kids |-> [p \in DOMAIN f.kids |-> Without(f.kids[p], X)],
   tops |-> {Without(s, X) : s \in f.tops} \ {<<>>}]

\* The nodes of X each on their own, with their subtrees.
Detach(f, X) ==
  LET g == Pull(f, X) IN [g EXCEPT !.tops = @ \cup {<<x>> : x \in X}]

\* list in the place of the node at, which stays before or after it.
Around(s, at, list) ==
  LET i == SelectInSeq(s, LAMBDA x : x = at)
  IN IF i = 0 THEN s
     ELSE SubSeq(s, 1, i - 1) \o list \o SubSeq(s, i + 1, Len(s))

Splice(f, at, list) ==
  [kids |-> [p \in DOMAIN f.kids |-> Around(f.kids[p], at, list)],
   tops |-> {Around(s, at, list) : s \in f.tops}]

Under(f, p, list) ==
  LET g == Pull(f, ToSet(list)) IN [g EXCEPT !.kids[p] = @ \o list]

FirstUnder(f, p, list) ==
  LET g == Pull(f, ToSet(list)) IN [g EXCEPT !.kids[p] = list \o @]

InFrontOf(f, at, list) == Splice(Pull(f, ToSet(list)), at, list \o <<at>>)

Behind(f, at, list)  == Splice(Pull(f, ToSet(list)), at, <<at>> \o list)

HasParent(f, n) == \E p \in DOMAIN f.kids : Contains(f.kids[p], n)

Emptied(f, p) == Detach(f, ToSet(f.kids[p]))
=============================================================================
