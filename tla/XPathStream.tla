----------------------------- MODULE XPathStream -----------------------------
(***************************************************************************)
(* Streaming patterns: a path of names is not evaluated step by step but   *)
(* compiled to an automaton that is fed with the nodes of the document in  *)
(* order (xml_pattern.c, xmlXPathTryStreamCompile and                      *)
(* xmlXPathRunStreamEval of xml_xpath.c).                                  *)
(*                                                                         *)
(* A pattern is a union of paths, [abs, steps], of the steps below.  Names *)
(* with a prefix, patterns of XML Schema and evaluation to a boolean are   *)
(* left out: no caller here asks for them.                                 *)
(***************************************************************************)
EXTENDS XPathOrder

Step(ax, test, preds) == [axis |-> ax, test |-> test, preds |-> preds]
Slashes == Step("descendant-or-self", "node()", <<>>)
Parents == Step("parent", "node()", <<>>)
Dot     == Step("dot", "node()", <<>>)

-----------------------------------------------------------------------------
(* Parsing: a path as the list of its operations.                          *)

\* XML_OP_ELEM with a name, XML_OP_ELEM without one, which is ".", XML_OP_ALL.
StepPattern(s) ==
  IF s.axis = "dot" THEN [op |-> "SELF"]
  ELSE IF s.test = "*" THEN [op |-> "ALL"]
  ELSE [op |-> "ELEM", name |-> s.test]

\* "." after "." and what follows a slash at the end are errors.
IsPathPattern(e) == e.steps # <<>> /\ \A i \in DOMAIN e.steps : e.steps[i] # Parents

\* The "." of a leading ".//" is not a step.
PathPattern(e) ==
  LET steps == IF Len(e.steps) > 1 /\ e.steps[1] = Dot /\ e.steps[2] = Slashes
                 THEN Tail(e.steps) ELSE e.steps
      ops(i) == IF steps[i] = Slashes THEN <<[op |-> "ANCESTOR"]>>
                ELSE IF i = 1 \/ steps[i - 1] = Slashes THEN <<StepPattern(steps[i])>>
                ELSE <<[op |-> "PARENT"], StepPattern(steps[i])>>
  IN (IF e.abs /\ steps[1] # Slashes THEN <<[op |-> "ROOT"]>> ELSE <<>>)
       \o FlattenSeq([i \in DOMAIN steps |-> ops(i)])

-----------------------------------------------------------------------------
(* Compiling: the automaton, a sequence of steps; 0 is "no step" (prevs).  *)

AnyNode == [type |-> "any"]

NewStream(fromRoot) ==
  [steps |-> <<>>, fromRoot |-> fromRoot, desc |-> FALSE, anyNode |-> FALSE,
   pending |-> FALSE, root |-> FALSE, prevs |-> 0]

\* A step takes the "//" before it, if there is one.
AddStep(s, step) ==
  [s EXCEPT !.steps = Append(@, step @@ [desc |-> s.pending, final |-> FALSE,
                                         inSet |-> FALSE, root |-> FALSE]),
            !.pending = FALSE,
            !.prevs = Len(s.steps) + 1]

\* "//." at the end finds nodes of any type, and what was found before it.
AddAnyNode(s) ==
  LET more == AddStep(s, AnyNode)
  IN [more EXCEPT !.anyNode = TRUE, !.prevs = 0,
                  !.steps = IF s.prevs = 0 THEN @ ELSE [@ EXCEPT ![s.prevs].inSet = TRUE]]

StreamOp(s, o, last) ==
  CASE o.op = "ROOT"     -> [s EXCEPT !.root = TRUE]
    [] o.op = "PARENT"   -> s
    [] o.op = "ANCESTOR" -> [s EXCEPT !.pending = TRUE, !.desc = TRUE]
    [] o.op = "ALL"      -> AddStep(s, [type |-> "element"])
    [] o.op = "ELEM"     -> AddStep(s, [type |-> "element", name |-> o.name])
    [] o.op = "SELF"     -> IF last /\ s.pending THEN AddAnyNode(s) ELSE s

\* A lone "." is a stream without steps; other paths have to have some.
StreamCompile(ops, fromRoot) ==
  LET s == FoldLeft(LAMBDA q, i : StreamOp(q, ops[i], i = Len(ops)), NewStream(fromRoot),
                    [i \in DOMAIN ops |-> i])
      n == Len(s.steps)
      finished == [s EXCEPT !.steps = [i \in 1 .. n |->
                     [s.steps[i] EXCEPT !.final = (i = n), !.root = (s.root /\ i = 1)]]]
  IN IF Len(ops) = 1 /\ ops[1].op = "SELF" THEN <<[NewStream(FALSE) EXCEPT !.anyNode = TRUE]>>
     ELSE IF n = 0 THEN <<>>
     ELSE <<finished>>

\* The paths of a union, in the order of the list they are linked to.
RECURSIVE ArmsOf(_)
ArmsOf(e) == IF e.kind = "union" THEN ArmsOf(e.l) \o ArmsOf(e.r) ELSE <<e>>

Linked(s) == <<Head(s)>> \o Reverse(Tail(s))

\* The streams of a pattern, <<>> if it has none: all paths begin at the root, or
\* none does.
PatternCompile(e) ==
  LET arms == ArmsOf(e)
      streams == FlattenSeq([i \in DOMAIN arms |-> StreamCompile(PathPattern(arms[i]), arms[i].abs)])
  IN IF /\ \A i \in DOMAIN arms : IsPathPattern(arms[i]) /\ arms[i].abs = arms[1].abs
        /\ Len(streams) = Len(arms)
     THEN Linked(streams) ELSE <<>>

-----------------------------------------------------------------------------
(* Running: each stream has states, [step, level], and a level; below the   *)
(* level block nothing can be found.                                       *)

NewStreamCtxt == [states |-> <<>>, level |-> 0, block |-> -1]

AddState(s, step, level) == [s EXCEPT !.states = Append(@, [step |-> step, level |-> level])]

Matches(step, node) ==
  \/ step.type = "any"
  \/ step.type = node.type /\ ("name" \in DOMAIN step => step.name = node.name)

\* What a match of the step at place k does: r is the stream and what is returned.
Matched(c, r, k, level) ==
  IF c.steps[k].final THEN [r EXCEPT !.ret = 1]
  ELSE [s |-> AddState(r.s, k + 1, level), ret |-> IF c.steps[k].inSet THEN 1 ELSE r.ret]

Block(c, r, k, node, level) ==
  IF ~c.desc /\ (~Matches(c.steps[k], node) \/ c.steps[k].final)
    THEN [r EXCEPT !.s.block = level] ELSE r

\* A step of another type is passed by, neither matched nor blocked.
Tried(c, r, k, node, level) ==
  IF c.steps[k].type \notin {"any", node.type} THEN r
  ELSE LET done == IF Matches(c.steps[k], node) THEN Matched(c, r, k, level) ELSE r
       IN Block(c, done, k, node, level)

\* The states of this level go on, and those at a "//" of the levels above.
\* Without "//" just the last one counts.
Evolved(c, s, node) ==
  LET live(st) == st.level = s.level \/ (st.level < s.level /\ c.steps[st.step].desc)
      states == IF c.desc THEN SelectSeq(s.states, live)
                ELSE IF s.states = <<>> THEN <<>> ELSE <<Last(s.states)>>
  IN FoldLeft(LAMBDA r, st : Tried(c, r, st.step, node, s.level + 1), [s |-> s, ret |-> 0], states)

\* The first step is tried at the first level, and everywhere after "//".
Entered(c, r, node) ==
  IF ~c.steps[1].root /\ (r.s.level = 1 \/ c.steps[1].desc)
    THEN Tried(c, r, 1, node, r.s.level) ELSE r

PushOne(c, s, node) ==
  LET deeper == [s EXCEPT !.level = @ + 1]
      lost == ~c.desc /\ s.states # <<>> /\ Last(s.states).level < s.level
  IN IF c.steps = <<>> THEN [s |-> s, ret |-> 0]
     ELSE IF s.block # -1 \/ (node.type # "element" /\ ~c.anyNode) THEN [s |-> deeper, ret |-> 0]
     ELSE IF lost THEN [s |-> s, ret |-> -1]
     ELSE LET r == Evolved(c, s, node) IN Entered(c, [r EXCEPT !.s.level = @ + 1], node)

\* One stream after the other; -1 ends the call.
StreamPush(cs, ss, node) ==
  FoldLeft(LAMBDA p, i :
             IF p.ret = -1 THEN p
             ELSE LET r == PushOne(cs[i], p.ss[i], node)
                  IN [ss |-> [p.ss EXCEPT ![i] = r.s], ret |-> IF r.ret = 0 THEN p.ret ELSE r.ret],
           [ss |-> ss, ret |-> 0], [i \in DOMAIN cs |-> i])

\* The document: it is found by "//.", and "/a" waits for its children.
PushDocument(cs) ==
  LET reset(c) == IF c.fromRoot /\ c.steps # <<>> /\ c.steps[1].root
                    THEN AddState(NewStreamCtxt, 1, 0) ELSE NewStreamCtxt
      found(c) == c.fromRoot /\ Len(c.steps) = 1 /\ c.steps[1].type = "any" /\ c.steps[1].desc
  IN [ss |-> [i \in DOMAIN cs |-> reset(cs[i])],
      ret |-> IF \E i \in DOMAIN cs : found(cs[i]) THEN 1 ELSE 0]

\* The states of deeper levels go.
PopOne(s) ==
  LET level == IF s.level > 0 THEN s.level - 1 ELSE 0
      kept == SelectLastInSeq(s.states, LAMBDA st : st.level <= level)
  IN [states |-> SubSeq(s.states, 1, kept), level |-> level,
      block |-> IF s.block = s.level THEN -1 ELSE s.block]

StreamPop(ss) == [i \in DOMAIN ss |-> PopOne(ss[i])]

WantsAnyNode(cs) == \E i \in DOMAIN cs : cs[i].anyNode

FromRoot(cs) == \E i \in DOMAIN cs : cs[i].fromRoot

Unlimited == 10000

MaxDepth(cs) ==
  IF \E i \in DOMAIN cs : \E k \in DOMAIN cs[i].steps : cs[i].steps[k].desc THEN Unlimited
  ELSE FoldLeft(LAMBDA m, c : IF Len(c.steps) > m THEN Len(c.steps) ELSE m, 0, cs)

MinDepth(cs) == Min({Len(cs[i].steps) : i \in DOMAIN cs})

-----------------------------------------------------------------------------
(* The walk.  w is its state: the node in hand, how deep it is, the streams *)
(* and what they have found.  e is what stays: the document, the streams as *)
(* compiled, where the walk ends and how deep it goes.                      *)

RECURSIVE NextNode(_, _), ScanChildren(_, _), ClimbUp(_, _)

Popped(e, w) == [w EXCEPT !.ss = StreamPop(@)]

Fed(e, n) == e.d.type[n] = "element" \/ (WantsAnyNode(e.cs) /\ e.d.type[n] = "text")

NextNode(e, w) ==
  LET p == StreamPush(e.cs, w.ss, [type |-> e.d.type[w.cur], name |-> e.d.name[w.cur]])
      pushed == [w EXCEPT !.ss = p.ss, !.found = IF p.ret = 1 THEN Append(@, w.cur) ELSE @]
      popped == Popped(e, pushed)
  IN IF ~Fed(e, w.cur) THEN ScanChildren(e, w)
     ELSE IF e.d.first[w.cur] # Nil /\ w.depth < e.max THEN ScanChildren(e, pushed)
     ELSE IF e.d.next[w.cur] # Nil THEN NextNode(e, [popped EXCEPT !.cur = e.d.next[w.cur]])
     ELSE ScanChildren(e, popped)

ScanChildren(e, w) ==
  LET n == w.cur
  IN IF e.d.first[n] # Nil /\ w.depth < e.max
     THEN NextNode(e, [w EXCEPT !.cur = e.d.first[n], !.depth = @ + 1])
     ELSE IF n = e.limit THEN w.found
     ELSE IF e.d.next[n] # Nil THEN NextNode(e, [w EXCEPT !.cur = e.d.next[n]])
     ELSE ClimbUp(e, w)

ClimbUp(e, w) ==
  LET n == e.d.parent[w.cur]
      up == [Popped(e, w) EXCEPT !.cur = n, !.depth = @ - 1]
  IN IF n = Nil \/ n = e.limit THEN w.found
     ELSE IF e.d.type[n] = "document" THEN w.found
     ELSE IF e.d.next[n] # Nil THEN NextNode(e, [up EXCEPT !.cur = e.d.next[n]])
     ELSE ClimbUp(e, up)

\* The nodes found from a context node: itself for a lone ".", then those the walk
\* meets.  It begins below the document or an element.
RunStreamEval(d, cs, doc, node) ==
  LET root == FromRoot(cs)
      self == IF MinDepth(cs) = 0 THEN <<node>> ELSE <<>>
      start == IF root THEN PushDocument(cs)
               ELSE [ss |-> [i \in DOMAIN cs |-> NewStreamCtxt], ret |-> 0]
      from == IF root THEN doc ELSE node
      w == [cur |-> from, depth |-> 0, ss |-> start.ss,
            found |-> self \o IF start.ret = 1 THEN <<doc>> ELSE <<>>]
  IN IF MaxDepth(cs) = 0 \/ d.type[from] \notin {"document", "element"} THEN self
     ELSE ScanChildren([d |-> d, cs |-> cs, max |-> MaxDepth(cs), limit |-> IF root THEN Nil ELSE node], w)
=============================================================================
