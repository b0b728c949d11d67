------------------------------- MODULE DomTree -------------------------------
(***************************************************************************)
(* The linked tree that every part of nokolexbor reads and edits.          *)
(*                                                                         *)
(* The nodes and the four primitives that link and unlink them belong to   *)
(* lexbor (lxb_dom_node_t and lxb_dom_node_{remove,insert_*}), which is a  *)
(* submodule and not part of this repository.  They are modelled from the  *)
(* way ext/nokolexbor uses them: each keeps exactly the pointer writes     *)
(* that nl_node.c and nl_node_set.c rely on.  In particular no insertion   *)
(* unlinks the node from its old place first, and none looks for cycles.   *)
(***************************************************************************)
EXTENDS Naturals, Sequences, FiniteSets

CONSTANTS
  Node,   \* the nodes that can ever be allocated
  Nil     \* the null pointer

ASSUME NilAssumption == Nil \notin Node

Link == Node \cup {Nil}

\* The five pointer fields of every node.
Tree == [parent : [Node -> Link],
         prev   : [Node -> Link],
         next   : [Node -> Link],
         first  : [Node -> Link],
         last   : [Node -> Link]]

NoLinks == [n \in Node |-> Nil]

\* A forest of single nodes.
Scattered == [parent |-> NoLinks, prev |-> NoLinks, next |-> NoLinks,
              first |-> NoLinks, last |-> NoLinks]

-----------------------------------------------------------------------------
(* The primitives.                                                         *)

\* lxb_dom_node_remove(n)
RemoveNode(t, n) ==
  LET p == t.parent[n]
      l == t.prev[n]
      r == t.next[n]
  IN [parent |-> [t.parent EXCEPT ![n] = Nil],
      prev   |-> [x \in Node |-> IF x = n THEN Nil
                                 ELSE IF x = r THEN l ELSE t.prev[x]],
      next   |-> [x \in Node |-> IF x = n THEN Nil
                                 ELSE IF x = l THEN r ELSE t.next[x]],
      first  |-> [x \in Node |-> IF x = p /\ t.first[x] = n THEN r
                                 ELSE t.first[x]],
      last   |-> [x \in Node |-> IF x = p /\ t.last[x] = n THEN l
                                 ELSE t.last[x]]]

\* lxb_dom_node_insert_child(to, n): n becomes the last child of to.
InsertChild(t, to, n) ==
  LET l == t.last[to]
  IN [parent |-> [t.parent EXCEPT ![n] = to],
      prev   |-> [t.prev EXCEPT ![n] = l],
      next   |-> [x \in Node |-> IF x = n THEN Nil
                                 ELSE IF x = l THEN n ELSE t.next[x]],
      first  |-> [x \in Node |-> IF x = to /\ l = Nil THEN n ELSE t.first[x]],
      last   |-> [t.last EXCEPT ![to] = n]]

\* lxb_dom_node_insert_before(to, n): n becomes the previous sibling of to.
InsertBefore(t, to, n) ==
  LET p == t.parent[to]
      l == t.prev[to]
  IN [parent |-> [t.parent EXCEPT ![n] = p],
      prev   |-> [x \in Node |-> IF x = to THEN n
                                 ELSE IF x = n THEN l ELSE t.prev[x]],
      next   |-> [x \in Node |-> IF x = n THEN to
                                 ELSE IF x = l THEN n ELSE t.next[x]],
      first  |-> [x \in Node |-> IF x = p /\ l = Nil THEN n ELSE t.first[x]],
      last   |-> t.last]

\* lxb_dom_node_insert_after(to, n): n becomes the next sibling of to.
InsertAfter(t, to, n) ==
  LET p == t.parent[to]
      r == t.next[to]
  IN [parent |-> [t.parent EXCEPT ![n] = p],
      prev   |-> [x \in Node |-> IF x = n THEN to
                                 ELSE IF x = r THEN n ELSE t.prev[x]],
      next   |-> [x \in Node |-> IF x = to THEN n
                                 ELSE IF x = n THEN r ELSE t.next[x]],
      first  |-> t.first,
      last   |-> [x \in Node |-> IF x = p /\ r = Nil THEN n ELSE t.last[x]]]

-----------------------------------------------------------------------------
(* What it means for the links to be those of a forest.                    *)

\* Neighbours agree with each other and with their parent's end pointers.
WellLinked(t) ==
  /\ \A x, y \in Node : t.next[x] = y <=> t.prev[y] = x
  /\ \A x \in Node : t.next[x] # Nil => t.parent[t.next[x]] = t.parent[x]
  /\ \A p, x \in Node : t.first[p] = x <=> t.parent[x] = p /\ t.prev[x] = Nil
  /\ \A p, x \in Node : t.last[p] = x <=> t.parent[x] = p /\ t.next[x] = Nil

\* Following link f, one can go round forever inside some set of nodes.
Loops(f) == \E S \in SUBSET Node : S # {} /\ \A x \in S : f[x] \in S

Acyclic(t) == ~Loops(t.parent) /\ ~Loops(t.next) /\ ~Loops(t.prev)

\* No node of X is y or an ancestor of y: some set that holds y and is closed
\* under parent holds no node of X.
NoneAbove(t, X, y) ==
  \E A \in SUBSET Node : /\ y \in A
                         /\ A \cap X = {}
                         /\ \A z \in A : t.parent[z] \in A \cup {Nil}

\* n is linked to nothing.
Isolated(t, n) ==
  /\ t.parent[n] = Nil /\ t.prev[n] = Nil /\ t.next[n] = Nil
  /\ t.first[n] = Nil /\ t.last[n] = Nil

-----------------------------------------------------------------------------
(* Reading a tree as sequences, for specifications that TLC evaluates.     *)

\* The nodes met from x on along next, x first; no more than there are.
ChainFrom(t, x) ==
  LET go[k \in 0 .. Cardinality(Node)] ==
        [y \in Link |-> IF k = 0 \/ y = Nil THEN <<>>
                        ELSE <<y>> \o go[k - 1][t.next[y]]]
  IN go[Cardinality(Node)][x]

Children(t, p) == ChainFrom(t, t.first[p])

\* The sibling chains of the nodes that have no parent.
TopChains(t) ==
  {ChainFrom(t, x) : x \in {n \in Node : t.parent[n] = Nil /\ t.prev[n] = Nil}}
=============================================================================
