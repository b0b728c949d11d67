---------------------------- MODULE OrderedForest ----------------------------
(***************************************************************************)
(* What the tree-editing methods of Nokolexbor::Node promise: each call is *)
(* one atomic change of a forest whose nodes have sequences of children.   *)
(* What is not moved stays where it is.                                    *)
(***************************************************************************)
EXTENDS Forests

CONSTANTS Node, Nil

VARIABLES
  forest,   \* [kids, tops]
  pending   \* the call about to take effect: [name, self, arg]

vars == <<forest, pending>>

NoCall == [name |-> "none", self |-> Nil, arg |-> <<>>]

Init ==
  /\ forest = [kids |-> [n \in Node |-> <<>>], tops |-> {<<n>> : n \in Node}]
  /\ pending = NoCall

\* The forest after the call d.  The arguments of wrap are the wrapper and,
\* when it comes from a String, the DocumentFragment the String was parsed to
\* and the nodes that are left in it.  "clear" is a children= that raised.
Applied(d, f) ==
  CASE d.name \in {"new", "parse"}       -> f
    [] d.name \in {"remove", "destroy"}  -> Detach(f, {d.self})
    [] d.name = "add_child"              -> Under(f, d.self, d.arg)
    [] d.name = "prepend_child"          -> FirstUnder(f, d.self, d.arg)
    [] d.name = "add_next_sibling"       -> Behind(f, d.self, d.arg)
    [] d.name = "add_previous_sibling"   -> InFrontOf(f, d.self, d.arg)
    [] d.name = "replace"  -> Detach(InFrontOf(f, d.self, d.arg), {d.self})
    [] d.name = "clear"    -> Emptied(f, d.self)
    [] d.name \in {"children=", "content="} ->
         Under(Emptied(f, d.self), d.self, d.arg)
    [] d.name = "wrap"     ->
         LET wrapper == d.arg[1]
             parsed == IF Len(d.arg) = 1 THEN f
                       ELSE Under(f, d.arg[2], SubSeq(d.arg, 3, Len(d.arg)))
             placed == IF HasParent(f, d.self) THEN Behind(parsed, d.self, <<wrapper>>)
                       ELSE Detach(parsed, {wrapper})
         IN Under(placed, wrapper, <<d.self>>)

Next ==
  \/ /\ pending = NoCall
     /\ UNCHANGED forest
  \/ /\ pending # NoCall
     /\ forest' = Applied(pending, forest)
     /\ pending' = NoCall

Spec == Init /\ [][Next]_vars
=============================================================================
