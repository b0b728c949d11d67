----------------------------- MODULE NodeMutation -----------------------------
(***************************************************************************)
(* The methods of Nokolexbor::Node that change the shape of a tree: new,   *)
(* remove, destroy, content=, parse, add_child, add_sibling and its public *)
(* forms in nl_node.c, and prepend_child, replace, children= and wrap,     *)
(* which lib/nokolexbor/node.rb builds from them.                          *)
(*                                                                         *)
(* Ruby's global lock makes a call into the extension atomic for the other *)
(* Ruby threads, but a call is a sequence of pointer updates made while    *)
(* the tree it iterates over changes under it, and each iteration of a C   *)
(* or Ruby loop is a step here.  call holds the locals of the call in      *)
(* progress; settled, a history variable, the tree the last call returned. *)
(*                                                                         *)
(* Legal arguments.  Neither the extension nor lexbor checks that a node   *)
(* is not put under itself, so the actions only make calls whose argument  *)
(* holds neither the node it is to be linked to nor an ancestor of it.     *)
(***************************************************************************)
EXTENDS DomTree

CONSTANTS
  Document,        \* the document nodes
  Fragment,        \* the DocumentFragment nodes alive at the start
  Fresh,           \* the nodes not allocated at the start
  Remark,          \* the nodes that are comments or processing instructions
  MaxArg,          \* bound: how many nodes a NodeSet argument holds
  MaxParsed,       \* bound: how many top nodes a parsed String has
  PrependOwnFirst  \* may prepend_child be given the node's own first child?

ASSUME RoleAssumption ==
  /\ Document \subseteq Node
  /\ Fragment \subseteq Node \ Document
  /\ Fresh \subseteq Node \ (Document \cup Fragment)
  /\ Remark \subseteq Node

ASSUME BoundAssumption ==
  MaxArg \in Nat /\ MaxParsed \in Nat /\ PrependOwnFirst \in BOOLEAN

VARIABLES
  dom,      \* the links of every node
  role,     \* what each node is allocated as
  call,     \* the locals of the call in progress
  settled   \* history: the tree when the last call returned

vars == <<dom, role, call, settled>>

Roles == {"node", "fragment", "document", "scratch", "unused"}

\* How nl_node_add_nodes links a node: lxb_dom_node_insert_child,
\* lxb_dom_node_insert_after or lxb_dom_node_insert_before.
Positions == {"child", "next", "previous"}

\* What was passed: a Node, a NodeSet, a DocumentFragment, a String, or an
\* object of another class.
Sources == {"node", "set", "fragment", "string", "other"}

Names == {"none", "new", "remove", "destroy", "content=", "parse", "add_child",
          "add_next_sibling", "add_previous_sibling", "prepend_child",
          "replace", "children=", "clear", "wrap"}

Pcs == {"idle", "node", "nodeset", "parse", "fragment", "release", "collect",
        "clear", "empty", "unlink", "place", "adopt", "return"}

Idle == [pc |-> "idle", name |-> "none", self |-> Nil, how |-> "child",
         at |-> Nil, src |-> "node", frag |-> Nil, arg |-> <<>>,
         todo |-> <<>>, cur |-> Nil]

Calls == [pc : Pcs, name : Names, self : Link, how : Positions, at : Link,
          src : Sources, frag : Link, arg : Seq(Node), todo : Seq(Node),
          cur : Link]

TypeOK ==
  /\ dom \in Tree
  /\ role \in [Node -> Roles]
  /\ call \in Calls
  /\ settled \in Tree

Init ==
  /\ dom = Scattered
  /\ role = [n \in Node |-> IF n \in Document THEN "document"
                            ELSE IF n \in Fragment THEN "fragment"
                            ELSE IF n \in Fresh THEN "unused" ELSE "node"]
  /\ call = Idle
  /\ settled = Scattered

Movable == {n \in Node : role[n] = "node"}
Live    == {n \in Node : role[n] \in {"node", "fragment", "document"}}
Unused  == {n \in Node : role[n] = "unused"}

Members(s) == {s[i] : i \in DOMAIN s}

\* The NodeSets that can be passed: no node twice, as lexbor_array_push_unique
\* sees to.
NodeLists ==
  UNION {{s \in [1 .. k -> Movable] :
            \A i, j \in 1 .. k : s[i] = s[j] => i = j} : k \in 0 .. MaxArg}

\* The call name(self, arg) has nothing left to do but return.
Finish(name, self, arg) ==
  /\ call' = [Idle EXCEPT !.pc = "return", !.name = name, !.self = self,
                          !.arg = arg]
  /\ UNCHANGED settled

Finished(arg) == Finish(call.name, call.self, arg)
-----------------------------------------------------------------------------
(* Linking one node.                                                       *)

\* add_to(to, n) of nl_node_add_nodes.
Attach(t, how, to, n) ==
  IF how = "child" THEN InsertChild(t, to, n)
  ELSE IF how = "next" THEN InsertAfter(t, to, n)
  ELSE InsertBefore(t, to, n)

\* Mutant of Target: insert_after does not follow the node it last linked.
FixedTarget == call.at

\* operate_on_new_node: only insert_after follows the node it last linked.
Target == IF call.how = "next" THEN call.cur ELSE call.at

\* Mutant of MoveToTarget: lxb_dom_node_remove is forgotten.
LinkToTarget(n) == Attach(dom, call.how, Target, n)

MoveToTarget(n) == Attach(RemoveNode(dom, n), call.how, Target, n)

-----------------------------------------------------------------------------
(* nl_node_add_nodes: one action for the call, then a loop per kind of     *)
(* argument.                                                               *)

EntryOf(src) == IF src = "set" THEN "nodeset"
                ELSE IF src = "string" THEN "parse"
                ELSE IF src = "other" THEN "idle" ELSE src

\* The arguments of a call, as <<kind, DocumentFragment, nodes>>, that hold
\* nothing that is y or above y.
Arguments(y) ==
  {<<"node", Nil, <<x>>>> : x \in {n \in Movable : NoneAbove(dom, {n}, y)}}
    \cup {<<"set", Nil, s>> : s \in {l \in NodeLists : NoneAbove(dom, Members(l), y)}}
    \cup {<<"fragment", f, <<>>>> :
            f \in {g \in Node : role[g] = "fragment" /\ NoneAbove(dom, {g}, y)}}
    \cup (IF Unused = {} THEN {} ELSE {<<"string", Nil, <<>>>>})

Begin(pc, name, self, how, at, a) ==
  /\ call.pc = "idle"
  /\ call' = [pc |-> pc, name |-> name, self |-> self, how |-> how, at |-> at,
              src |-> a[1], frag |-> a[2], arg |-> a[3], todo |-> a[3],
              cur |-> at]
  /\ UNCHANGED <<dom, role, settled>>

BeginAdd(name, self, how, at, a) == Begin(EntryOf(a[1]), name, self, how, at, a)

\* node.rb lets only a comment or a processing instruction become a sibling of
\* the root element, or a document's first child when it has one.
RootAllows(p, a) ==
  p # Nil /\ role[p] = "document" => a[1] = "node" /\ a[3][1] \in Remark

AddChild(self) ==
  \E a \in Arguments(self) : BeginAdd("add_child", self, "child", self, a)

AddNextSibling(self) ==
  \E a \in Arguments(self) :
    /\ RootAllows(dom.parent[self], a)
    /\ BeginAdd("add_next_sibling", self, "next", self, a)

AddPreviousSibling(self) ==
  \E a \in Arguments(self) :
    /\ RootAllows(dom.parent[self], a)
    /\ BeginAdd("add_previous_sibling", self, "previous", self, a)

PrependChild(self) ==
  LET first == dom.first[self]
  IN \/ /\ first = Nil
        /\ \E a \in Arguments(self) :
             BeginAdd("prepend_child", self, "child", self, a)
     \/ /\ first # Nil
        /\ \E a \in Arguments(IF PrependOwnFirst THEN self ELSE first) :
             /\ RootAllows(self, a)
             /\ BeginAdd("prepend_child", self, "previous", first, a)

Replace(self) ==
  \E a \in Arguments(self) : BeginAdd("replace", self, "previous", self, a)

\* The nodes have been linked; replace still has to unlink the node replaced,
\* and wrap to take the wrapper from the DocumentFragment it has filled.
Added(arg) ==
  CASE call.name = "replace" ->
         call' = [call EXCEPT !.pc = "unlink", !.arg = arg] /\ UNCHANGED settled
    [] call.name = "wrap"    ->
         call' = [call EXCEPT !.pc = "place", !.frag = call.at] /\ UNCHANGED settled
    [] OTHER                 -> Finished(arg)

AddNode ==
  /\ call.pc = "node"
  /\ dom' = MoveToTarget(call.arg[1])
  /\ Added(call.arg)
  /\ UNCHANGED role

AddNextOfSet ==
  /\ call.pc = "nodeset" /\ call.todo # <<>>
  /\ dom' = MoveToTarget(Head(call.todo))
  /\ call' = [call EXCEPT !.cur = Head(call.todo), !.todo = Tail(call.todo)]
  /\ UNCHANGED <<role, settled>>

SetExhausted ==
  /\ call.pc = "nodeset" /\ call.todo = <<>>
  /\ UNCHANGED <<dom, role>>
  /\ Added(call.arg)

AddFirstOfFragment ==
  LET child == dom.first[call.frag]
  IN /\ call.pc = "fragment" /\ child # Nil
     /\ dom' = MoveToTarget(child)
     /\ call' = [call EXCEPT !.cur = child, !.arg = Append(call.arg, child)]
     /\ UNCHANGED <<role, settled>>

\* The root of a parsed String is destroyed, a DocumentFragment is not.
FreeScratch ==
  role' = IF role[call.frag] = "scratch"
            THEN [role EXCEPT ![call.frag] = "unused"] ELSE role

\* Mutant of FragmentExhausted: the fragment is destroyed with nodes in it.
FragmentDropped ==
  /\ call.pc = "fragment"
  /\ UNCHANGED dom
  /\ FreeScratch
  /\ Added(call.arg)

FragmentExhausted ==
  /\ call.pc = "fragment" /\ dom.first[call.frag] = Nil
  /\ UNCHANGED dom
  /\ FreeScratch
  /\ Added(call.arg)

Unlink ==
  /\ call.pc = "unlink"
  /\ dom' = RemoveNode(dom, call.self)
  /\ Finished(call.arg)
  /\ UNCHANGED role
-----------------------------------------------------------------------------
(* nl_node_parse_fragment: lexbor builds the nodes under a new root.       *)

ParseRoot ==
  /\ call.pc = "parse" /\ call.frag = Nil
  /\ \E r \in Unused :
       /\ role' = [role EXCEPT ![r] = "scratch"]
       /\ call' = [call EXCEPT !.frag = r]
  /\ UNCHANGED <<dom, settled>>

\* todo counts the nodes parsed so far.
ParseNode ==
  /\ call.pc = "parse" /\ call.frag # Nil /\ Len(call.todo) < MaxParsed
  /\ \E u \in Unused :
       /\ dom' = InsertChild(dom, call.frag, u)
       /\ role' = [role EXCEPT ![u] = "node"]
       /\ call' = [call EXCEPT !.todo = Append(call.todo, u)]
  /\ UNCHANGED settled

ParseDone ==
  /\ call.pc = "parse" /\ call.frag # Nil
  /\ call' = [call EXCEPT !.todo = <<>>,
                          !.pc = IF call.name \in {"parse", "wrap"}
                                   THEN "release" ELSE "fragment"]
  /\ UNCHANGED <<dom, role, settled>>

\* Node#parse returns the parsed nodes with no parent.
Parse(self) ==
  /\ Unused # {}
  /\ Begin("parse", "parse", self, "child", self, <<"string", Nil, <<>>>>)

ReleaseFirst ==
  LET child == dom.first[call.frag]
  IN /\ call.pc = "release" /\ child # Nil
     /\ dom' = RemoveNode(dom, child)
     /\ call' = [call EXCEPT !.arg = Append(call.arg, child)]
     /\ UNCHANGED <<role, settled>>

\* wrap goes on with DocumentFragment#initialize, which makes the parsed nodes
\* children of the new fragment one after the other.
ReleaseDone ==
  /\ call.pc = "release" /\ dom.first[call.frag] = Nil
  /\ UNCHANGED dom
  /\ FreeScratch
  /\ IF call.name = "wrap"
       THEN /\ call' = [call EXCEPT !.pc = "nodeset", !.todo = call.arg]
            /\ UNCHANGED settled
       ELSE Finished(call.arg)
-----------------------------------------------------------------------------
(* children=, which is children.remove and then add_child.                 *)

SetChildren(self) ==
  \E a \in Arguments(self) \cup {<<"other", Nil, <<>>>>} :
    /\ call.pc = "idle"
    /\ call' = [pc |-> "collect", name |-> "children=", self |-> self,
                how |-> "child", at |-> self, src |-> a[1], frag |-> a[2],
                arg |-> a[3], todo |-> <<>>, cur |-> dom.first[self]]
    /\ UNCHANGED <<dom, role, settled>>

\* nl_node_children
CollectChild ==
  /\ call.pc = "collect" /\ call.cur # Nil
  /\ call' = [call EXCEPT !.todo = Append(call.todo, call.cur),
                          !.cur = dom.next[call.cur]]
  /\ UNCHANGED <<dom, role, settled>>

\* Mutant of Collected: children= forgets to remove the children.
CollectedAndKept ==
  /\ call.pc = "collect" /\ call.cur = Nil
  /\ call' = [call EXCEPT !.pc = "clear", !.todo = <<>>]
  /\ UNCHANGED <<dom, role, settled>>

Collected ==
  /\ call.pc = "collect" /\ call.cur = Nil
  /\ call' = [call EXCEPT !.pc = "clear"]
  /\ UNCHANGED <<dom, role, settled>>

\* Mutant of ClearNext: the loop does not advance.
ClearSame ==
  /\ call.pc = "clear" /\ call.todo # <<>>
  /\ dom' = RemoveNode(dom, Head(call.todo))
  /\ UNCHANGED <<role, call, settled>>

ClearNext ==
  /\ call.pc = "clear" /\ call.todo # <<>>
  /\ dom' = RemoveNode(dom, Head(call.todo))
  /\ call' = [call EXCEPT !.todo = Tail(call.todo)]
  /\ UNCHANGED <<role, settled>>

\* The children are gone when add_child finds that it cannot link the argument.
Cleared ==
  /\ call.pc = "clear" /\ call.todo = <<>>
  /\ IF call.src = "other"
       THEN Finish("clear", call.self, <<>>)
       ELSE /\ call' = [call EXCEPT !.pc = EntryOf(call.src),
                                    !.todo = call.arg, !.cur = call.at]
            /\ UNCHANGED settled
  /\ UNCHANGED <<dom, role>>
-----------------------------------------------------------------------------
(* content=, remove and destroy.                                           *)

SetContent(self) ==
  /\ call.pc = "idle"
  /\ \E text \in Unused :
       /\ role' = [role EXCEPT ![text] = "node"]
       /\ call' = [Idle EXCEPT !.pc = "empty", !.name = "content=",
                               !.self = self, !.cur = text]
  /\ UNCHANGED <<dom, settled>>

DetachFirst ==
  /\ call.pc = "empty" /\ dom.first[call.self] # Nil
  /\ dom' = RemoveNode(dom, dom.first[call.self])
  /\ UNCHANGED <<role, call, settled>>

\* Mutant of InsertText: the old children stay.
InsertTextLast ==
  /\ call.pc = "empty"
  /\ dom' = InsertChild(dom, call.self, call.cur)
  /\ Finished(<<call.cur>>)
  /\ UNCHANGED role

\* Mutant of InsertText: the node returned is read before it is linked.
InsertTextReadEarly ==
  /\ call.pc = "empty" /\ dom.first[call.self] = Nil
  /\ dom' = InsertChild(dom, call.self, call.cur)
  /\ Finished(<<dom.first[call.self]>>)
  /\ UNCHANGED role

InsertText ==
  /\ call.pc = "empty" /\ dom.first[call.self] = Nil
  /\ dom' = InsertChild(dom, call.self, call.cur)
  /\ Finished(<<call.cur>>)
  /\ UNCHANGED role

\* nl_node_new
New ==
  /\ call.pc = "idle"
  /\ \E n \in Unused : role' = [role EXCEPT ![n] = "node"]
  /\ Finish("new", Nil, <<>>)
  /\ UNCHANGED dom

Unparent(self) ==
  /\ call.pc = "idle"
  /\ dom' = RemoveNode(dom, self)
  /\ Finish("remove", self, <<>>)
  /\ UNCHANGED role

\* Only a node without children is destroyed: lexbor does not look at them.
Destroy(self) ==
  /\ call.pc = "idle" /\ dom.first[self] = Nil
  /\ dom' = RemoveNode(dom, self)
  /\ role' = [role EXCEPT ![self] = "unused"]
  /\ Finish("destroy", self, <<>>)
-----------------------------------------------------------------------------
(* wrap: the wrapper is the first node of a DocumentFragment, which wrap   *)
(* makes itself for a String, or the clone of a node, here of one without  *)
(* children.                                                               *)

WrapFragment(self) ==
  \E f \in {g \in Node : role[g] = "fragment"} :
    /\ dom.first[f] # Nil /\ NoneAbove(dom, {dom.first[f]}, self)
    /\ Begin("place", "wrap", self, "child", self, <<"fragment", f, <<>>>>)

WrapString(self) ==
  /\ call.pc = "idle"
  /\ \E f \in Unused :
       /\ Unused # {f}
       /\ role' = [role EXCEPT ![f] = "fragment"]
       /\ call' = [Idle EXCEPT !.pc = "parse", !.name = "wrap", !.self = self,
                               !.at = f, !.src = "string", !.cur = f]
  /\ UNCHANGED <<dom, settled>>

WrapNode(self) ==
  /\ call.pc = "idle"
  /\ \E clone \in Unused :
       /\ role' = [role EXCEPT ![clone] = "node"]
       /\ call' = [Idle EXCEPT !.pc = "place", !.name = "wrap", !.self = self,
                               !.cur = clone]
  /\ UNCHANGED <<dom, settled>>

Wrapper == IF call.frag = Nil THEN call.cur ELSE dom.first[call.frag]

PlaceWrapper ==
  /\ call.pc = "place" /\ Wrapper # Nil
  /\ LET t == RemoveNode(dom, Wrapper)
     IN dom' = IF dom.parent[call.self] # Nil
                 THEN InsertAfter(t, call.self, Wrapper) ELSE t
  /\ call' = [call EXCEPT !.pc = "adopt", !.cur = Wrapper,
                          !.arg = IF call.src = "string"
                                    THEN <<Wrapper, call.frag>> \o SubSeq(call.arg, 2, Len(call.arg))
                                    ELSE <<Wrapper>>]
  /\ UNCHANGED <<role, settled>>

\* The String held no node: the call raises.
NoWrapper ==
  /\ call.pc = "place" /\ Wrapper = Nil
  /\ Finish("new", Nil, <<>>)
  /\ UNCHANGED <<dom, role>>

Adopt ==
  /\ call.pc = "adopt"
  /\ dom' = InsertChild(RemoveNode(dom, call.self), call.cur, call.self)
  /\ Finished(call.arg)
  /\ UNCHANGED role
-----------------------------------------------------------------------------
Return ==
  /\ call.pc = "return"
  /\ call' = Idle
  /\ settled' = dom
  /\ UNCHANGED <<dom, role>>

Call ==
  \/ New
  \/ \E self \in Live : \/ AddChild(self) \/ AddNextSibling(self)
                         \/ AddPreviousSibling(self) \/ PrependChild(self)
                         \/ Replace(self) \/ SetChildren(self) \/ Parse(self)
                         \/ Unparent(self)
  \/ \E self \in Live : role[self] # "document" /\ SetContent(self)
  \/ \E self \in Movable : \/ Destroy(self) \/ WrapFragment(self)
                            \/ WrapString(self) \/ WrapNode(self)

Continue ==
  \/ AddNode \/ AddNextOfSet \/ SetExhausted
  \/ AddFirstOfFragment \/ FragmentExhausted \/ Unlink
  \/ ParseRoot \/ ParseNode \/ ParseDone \/ ReleaseFirst \/ ReleaseDone
  \/ CollectChild \/ Collected \/ ClearNext \/ Cleared
  \/ DetachFirst \/ InsertText
  \/ PlaceWrapper \/ NoWrapper \/ Adopt \/ Return

Next == Call \/ Continue

Spec == Init /\ [][Next]_vars

\* A call that was made runs on.
FairSpec == Spec /\ WF_vars(Continue)
-----------------------------------------------------------------------------
\* After every single pointer update of a call the links are still those of a
\* forest: neighbours agree, ends agree with their parent, and no chain of
\* parents or siblings comes back to its start (the C loops over first_child,
\* next and parent rely on it).
LinksOfForest == WellLinked(dom) /\ Acyclic(dom)

\* A slot that can be allocated next is linked to nothing and nothing is linked
\* to it, so that a freed node is never reached from a live one
\* (lxb_dom_node_destroy in nl_node_add_nodes, nl_node_parse, nl_node_destroy).
UnusedUnreachable ==
  \A u \in Unused : Isolated(dom, u) /\ \A x \in Node : dom.parent[x] # u
-----------------------------------------------------------------------------
(* What the calls promise.                                                 *)

\* The forest that the pointers of t describe.
ForestOf(t) == [kids |-> [p \in Node |-> Children(t, p)], tops |-> TopChains(t)]

Promise ==
  INSTANCE OrderedForest WITH
    forest  <- ForestOf(settled),
    pending <- IF call.pc = "return"
                 THEN [name |-> call.name, self |-> call.self, arg |-> call.arg]
                 ELSE [name |-> "none", self |-> Nil, arg |-> <<>>]

\* Every call of the linked implementation, run to its end, has the effect that
\* OrderedForest gives it (nl_node.c nl_node_add_nodes and its callers, node.rb
\* replace, children=, wrap).
KeepsPromise == Promise!Spec
=============================================================================
