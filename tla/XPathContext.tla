---------------------------- MODULE XPathContext ----------------------------
(***************************************************************************)
(* Nokolexbor::XPathContext (nl_xpath_context.c) over the context of       *)
(* xml_xpath.c: registered variables and prefixes, and evaluations that    *)
(* take their values from the cache, fail, report errors to Ruby or are    *)
(* left by an exception.                                                   *)
(*                                                                         *)
(* What an expression does is left open: an evaluation is any sequence of  *)
(* the operations below, which differ in what they take from the value     *)
(* stack and put on it.  XPathEval says what they compute.                 *)
(***************************************************************************)
EXTENDS XPathObjects

CONSTANTS
  Variable,      \* the names of variables
  Prefix,        \* the prefixes of namespaces
  CacheMax,      \* the sizes asked for the cache
  StackBound,    \* bound: values on the stack, and constants of an expression
  MaxDepth       \* XPATH_MAX_RECURSION_DEPTH: functions within functions

ASSUME ContextAssumption == CacheMax \subseteq Int /\ {StackBound, MaxDepth} \subseteq Nat

VARIABLES
  heap,     \* the objects and their cache
  ctx,      \* the context: whether there is one, its variables and prefixes
  ev,       \* the evaluation: its values, frames, constants and errors
  handler,  \* whose array the error handlers append to: "none", "this", "gone"
  raised    \* what the last evaluation raised: "none", "error", "nil"

contextVars == <<heap, ctx, ev, handler, raised>>

NoContext == [open |-> FALSE, var |-> [n \in Variable |-> {}], ns |-> {}, depth |-> 0]

NoEval == [phase |-> "none", stack |-> <<>>, frames |-> <<>>, consts |-> <<>>,
           errors |-> 0, failed |-> FALSE, pending |-> 0]

CInit ==
  /\ heap = NewHeap
  /\ ctx = NoContext
  /\ ev = NoEval
  /\ handler = "none"
  /\ raised = "none"

Idle == ctx.open /\ ev.phase = "none"

-----------------------------------------------------------------------------
(* The context.                                                            *)

\* XPathContext.new, with the prefixes of the built-in functions.
NewContext ==
  /\ ~ctx.open
  /\ ctx' = [NoContext EXCEPT !.open = TRUE, !.ns = {"nokogiri", "nokogiri-builtin"}]
  /\ UNCHANGED <<heap, ev, handler, raised>>

\* The objects of variables.
VariableObjects == UNION {ctx.var[n] : n \in Variable}

\* free_xml_xpath_context, when Ruby collects the context.
FreeContext ==
  /\ Idle
  /\ heap' = FreeAll(FreeCache(heap), VariableObjects)
  /\ ctx' = NoContext
  /\ UNCHANGED <<ev, handler, raised>>

SetCache ==
  /\ Idle
  /\ \E active \in BOOLEAN, max \in CacheMax : heap' = ContextSetCache(heap, active, max)
  /\ UNCHANGED <<ctx, ev, handler, raised>>

\* The value is a new string, which frees the one before it.
RegisterVariable ==
  /\ Idle
  /\ \E n \in Variable :
       /\ HasMemory(heap)
       /\ LET new == NewObject(heap, StringVal)
          IN /\ heap' = FreeAll(new.h, ctx.var[n])
             /\ ctx' = [ctx EXCEPT !.var[n] = {new.o}]
  /\ UNCHANGED <<ev, handler, raised>>

RegisterNs ==
  /\ Idle
  /\ \E p \in Prefix : ctx' = [ctx EXCEPT !.ns = @ \cup {p}]
  /\ UNCHANGED <<heap, ev, handler, raised>>

NsLookup(p) == p = "xml" \/ p \in ctx.ns

-----------------------------------------------------------------------------
(* Compiling: the constants of an expression.                              *)

\* The history starts again.
Forgotten == [heap EXCEPT !.twice = FALSE, !.text = FALSE]

\* Variant of Begin: the handlers are set once.
BeginOnce ==
  /\ Idle
  /\ ev' = [NoEval EXCEPT !.phase = "compile"]
  /\ handler' = IF handler = "none" THEN "this" ELSE handler
  /\ raised' = "none"
  /\ heap' = Forgotten
  /\ ctx' = ctx

\* evaluate: the handlers append to an array of its own.
Begin ==
  /\ Idle
  /\ ev' = [NoEval EXCEPT !.phase = "compile"]
  /\ handler' = "this"
  /\ raised' = "none"
  /\ heap' = Forgotten
  /\ ctx' = ctx

\* nl_xmlXPathErr, n times: the evaluation goes on to report them.
Failing(n) == [ev EXCEPT !.phase = "report", !.failed = TRUE, !.pending = n]

CompileConstant ==
  /\ ev.phase = "compile"
  /\ Len(ev.consts) < 1
  /\ HasMemory(heap)
  /\ \E type \in {"string", "number"} :
       LET new == CacheNew(heap, type)
       IN /\ heap' = new.h
          /\ ev' = [ev EXCEPT !.consts = Append(@, new.o)]
  /\ UNCHANGED <<ctx, handler, raised>>

CompileFails ==
  /\ ev.phase = "compile"
  /\ ev' = Failing(1)
  /\ UNCHANGED <<heap, ctx, handler, raised>>

\* Nothing runs when exceptions have used up the depth.
Compiled ==
  /\ ev.phase = "compile"
  /\ ev' = IF ctx.depth >= MaxDepth THEN Failing(1) ELSE [ev EXCEPT !.phase = "run"]
  /\ UNCHANGED <<heap, ctx, handler, raised>>

-----------------------------------------------------------------------------
(* Running.  Below the last frame nothing is taken from the stack.         *)

Running == ev.phase = "run" /\ UNCHANGED <<ctx, handler, raised>>

Frame == IF ev.frames = <<>> THEN 0 ELSE Last(ev.frames)

\* The values an operation can take.
Operands == SubSeq(ev.stack, Frame + 1, Len(ev.stack))

TypeOf(o) == heap.obj[o].type

ValuePush(r, below) ==
  /\ heap' = r.h
  /\ ev' = [ev EXCEPT !.stack = Append(below, r.o)]

\* There is a slot on the stack and memory for an object.
CanPush == Len(ev.stack) < StackBound /\ HasMemory(heap)

\* The context node, the root, or the set a streaming pattern adds to.
EvalNode ==
  /\ Running /\ CanPush
  /\ \E nodes \in 0 .. 1 : ValuePush(CacheNewNodeSet(heap, nodes), ev.stack)

EvalValue ==
  /\ Running /\ CanPush
  /\ \E i \in DOMAIN ev.consts : ValuePush(CacheObjectCopy(heap, ev.consts[i]), ev.stack)

\* The value of a variable, copied, if there is one.
VariableLookup(n) == {CacheObjectCopy(heap, o) : o \in ctx.var[n]}

\* A copy of the variable, or "undefined variable".
EvalVariable ==
  /\ Running /\ CanPush
  /\ \E n \in Variable :
       LET found == VariableLookup(n)
       IN IF found = {} THEN ev' = Failing(1) /\ heap' = heap
          ELSE \E r \in found : ValuePush(r, ev.stack)

\* A function or a variable of an unknown prefix: an error without a code of its own.
LookupPrefix ==
  /\ Running
  /\ \E p \in Prefix : ~NsLookup(p) /\ ev' = Failing(1)
  /\ heap' = heap

\* xmlXPathSetFrame, unless functions are nested too deep.
EnterFunction ==
  /\ Running
  /\ ev' = IF Len(ev.frames) + ctx.depth >= MaxDepth THEN Failing(1)
           ELSE [ev EXCEPT !.frames = Append(@, Len(ev.stack))]
  /\ heap' = heap

\* A function that was not found is reported twice.
FunctionNotFound ==
  /\ Running
  /\ ev.frames # <<>>
  /\ ev' = Failing(2)
  /\ heap' = heap

\* A function leaves one value; xmlXPathPopFrame.
LeaveFunction ==
  /\ Running
  /\ ev.frames # <<>>
  /\ ev' = IF Len(Operands) = 1 THEN [ev EXCEPT !.frames = Front(@)] ELSE Failing(1)
  /\ heap' = heap

\* The top of the stack made a string, a boolean or a number.
ConvertTop ==
  /\ Running
  /\ Operands # <<>>
  /\ HasMemory(heap)
  /\ \E type \in {"string", "boolean", "number"} :
       ValuePush(CacheConvert(heap, Last(ev.stack), type), Front(ev.stack))

\* A value made first, then the one it was made from given back: count, name, ...
FromNodeSet ==
  /\ Running
  /\ Operands # <<>>
  /\ HasMemory(heap)
  /\ IF TypeOf(Last(ev.stack)) # "nodeset" THEN ev' = Failing(1) /\ heap' = heap
     ELSE \E type \in {"string", "number"} :
            LET new == CacheNew(heap, type)
            IN ValuePush([h |-> ReleaseObject(new.h, Last(ev.stack)), o |-> new.o], Front(ev.stack))

ReleaseBoth(h, l, r) == ReleaseObject(ReleaseObject(h, l), r)

\* Two values given back, then one made of them: comparisons, contains, ...
Compare ==
  /\ Running
  /\ Len(Operands) >= 2
  /\ HasMemory(heap)
  /\ LET n == Len(ev.stack)
         rest == ReleaseBoth(heap, ev.stack[n - 1], ev.stack[n])
     IN \E type \in {"string", "boolean"} : ValuePush(CacheNew(rest, type), SubSeq(ev.stack, 1, n - 2))

\* The upper value is given back, the lower one made a number and changed in place.
Arithmetic ==
  /\ Running
  /\ Len(Operands) >= 2
  /\ HasMemory(heap)
  /\ LET n == Len(ev.stack)
     IN ValuePush(CacheConvert(ReleaseObject(heap, ev.stack[n]), ev.stack[n - 1], "number"),
                  SubSeq(ev.stack, 1, n - 2))

\* CAST_TO_STRING of the upper value, then of the lower one.
CastBoth(l, r) ==
  LET upper == CacheConvert(heap, r, "string")
      lower == CacheConvert(upper.h, l, "string")
  IN [h |-> lower.h, l |-> lower.o, r |-> upper.o]

\* There is memory for both.
CanCast(r) == HasMemory(heap) /\ HasMemory(CacheConvert(heap, r, "string").h)

\* Strings are exchanged between the two, the upper one stays.
Concat ==
  /\ Running
  /\ Len(Operands) >= 2
  /\ LET n == Len(ev.stack)
         two == CastBoth(ev.stack[n - 1], ev.stack[n])
     IN /\ CanCast(ev.stack[n])
        /\ ValuePush([h |-> ReleaseObject(two.h, two.l), o |-> two.r], SubSeq(ev.stack, 1, n - 2))

\* nokogiri-builtin:css-class: the boolean is not taken from the cache, the strings
\* do not go there.
CssClass ==
  /\ Running
  /\ Len(Operands) >= 2
  /\ LET n == Len(ev.stack)
         two == CastBoth(ev.stack[n - 1], ev.stack[n])
         new == NewObject(two.h, Holding("boolean"))
     IN /\ CanCast(ev.stack[n]) /\ HasMemory(two.h)
        /\ ValuePush([h |-> FreeAll(new.h, {two.l, two.r}), o |-> new.o], SubSeq(ev.stack, 1, n - 2))

\* nokogiri-builtin:local-name-is: the same of one string.
LocalNameIs ==
  /\ Running
  /\ Operands # <<>>
  /\ TypeOf(Last(ev.stack)) = "string"
  /\ HasMemory(heap)
  /\ LET new == NewObject(heap, Holding("boolean"))
     IN ValuePush([h |-> FreeObject(new.h, Last(ev.stack)), o |-> new.o], Front(ev.stack))

\* The second set is merged into the first one; what is not a set is given back.
EvalUnion ==
  /\ Running
  /\ Len(Operands) >= 2
  /\ LET n == Len(ev.stack)
         below == SubSeq(ev.stack, 1, n - 2)
         l == ev.stack[n - 1]
         r == ev.stack[n]
         United(array) ==
           IF heap.obj[r].set.nr = 0 /\ heap.obj[l].set # NoSet THEN heap.obj[l].set
           ELSE [nr |-> IF 1 \in {heap.obj[l].set.nr, heap.obj[r].set.nr} THEN 1 ELSE 0, array |-> array]
     IN IF TypeOf(l) = "nodeset" /\ TypeOf(r) = "nodeset"
        THEN \E array \in {"small", "large"} :
               ValuePush([h |-> ReleaseObject([heap EXCEPT !.obj[l].set = United(array)], r), o |-> l], below)
        ELSE heap' = ReleaseBoth(heap, l, r) /\ ev' = [Failing(1) EXCEPT !.stack = below]

\* A step: the set is taken, and another one wrapped and put there, also after an
\* error in a predicate; none for an empty set, nothing when the prefix is unknown.
EvalCollect ==
  /\ Running
  /\ Operands # <<>>
  /\ HasMemory(heap)
  /\ LET o == Last(ev.stack)
         rest == ReleaseObject(heap, o)
         Handed(set, e) ==
           LET new == CacheWrapNodeSet(rest, set)
           IN heap' = new.h /\ ev' = [e EXCEPT !.stack = Append(Front(ev.stack), new.o)]
     IN \/ TypeOf(o) # "nodeset" /\ ev' = Failing(1) /\ heap' = heap
        \/ /\ TypeOf(o) = "nodeset"
           /\ (\E p \in Prefix : ~NsLookup(p))
           /\ heap' = rest
           /\ ev' = [Failing(1) EXCEPT !.stack = Front(@)]
        \/ /\ TypeOf(o) = "nodeset" /\ heap.obj[o].set.nr = 0
           /\ Handed(NoSet, ev)
        \/ /\ TypeOf(o) = "nodeset" /\ heap.obj[o].set.nr > 0
           /\ \E set \in {NodeSetCreate(0), [nr |-> 1, array |-> "large"]}, e \in {ev, Failing(1)} :
                Handed(set, e)

-----------------------------------------------------------------------------
(* Ending.                                                                 *)

\* The handler appends an error to its array.
Report ==
  /\ ev.phase = "report"
  /\ ev' = [ev EXCEPT !.errors = IF handler = "this" THEN @ + ev.pending ELSE @,
                      !.phase = "end", !.pending = 0]
  /\ UNCHANGED <<heap, ctx, handler, raised>>

\* The handler makes Ruby objects; an exception there leaves the evaluation where it
\* is: nothing is given back, the depth stays, the handlers point at the array.
RaiseInHandler ==
  /\ ev.phase = "report"
  /\ ev' = NoEval
  /\ heap' = [heap EXCEPT !.obj = [o \in Obj |->
                IF o \in ToSet(ev.stack) \cup ToSet(ev.consts) THEN Holding("lost") ELSE @[o]]]
  /\ ctx' = [ctx EXCEPT !.depth = @ + Len(ev.frames)]
  /\ handler' = "gone"
  /\ raised' = "error"

\* nl_xmlXPathEval: no value, or more than one, is reported and no error otherwise.
RunEnds ==
  /\ ev.phase = "run"
  /\ ev.frames = <<>>
  /\ ev' = IF Len(ev.stack) = 1 THEN [ev EXCEPT !.phase = "end"]
           ELSE [ev EXCEPT !.phase = "report", !.pending = 1]
  /\ UNCHANGED <<heap, ctx, handler, raised>>

\* The result, on top, stays when there was no error.
Results == IF ev.failed THEN 0 ELSE 1

\* nl_xmlXPathFreeParserContext: the other values are given back, from below.
ReleaseValue ==
  /\ ev.phase = "end" /\ Len(ev.stack) > Results
  /\ heap' = ReleaseObject(heap, Head(ev.stack))
  /\ ev' = [ev EXCEPT !.stack = Tail(@)]
  /\ UNCHANGED <<ctx, handler, raised>>

\* The constants of the expression.
FreeCompExpr(h) == FreeAll(h, ToSet(ev.consts))

\* The constants go, then the handlers; no result raises the first error.
EvalEnds ==
  LET none == ev.stack = <<>>
  IN /\ ev.phase = "end" /\ Len(ev.stack) <= Results
     /\ heap' = FreeCompExpr(heap)
     /\ handler' = "none"
     /\ ev' = IF none THEN NoEval ELSE [NoEval EXCEPT !.phase = "result", !.stack = ev.stack]
     /\ raised' = IF ~none THEN "none" ELSE IF ev.errors > 0 THEN "error" ELSE "nil"
     /\ ctx' = ctx

\* xpath2ruby frees the string of the result, nl_xmlXPathFreeObject the object.
ToRuby ==
  LET o == ev.stack[1]
      taken == IF TypeOf(o) = "string" THEN [FreeString(heap, o) EXCEPT !.text = TRUE] ELSE heap
  IN /\ ev.phase = "result"
     /\ heap' = FreeObject(taken, o)
     /\ ev' = NoEval
     /\ UNCHANGED <<ctx, handler, raised>>

CNext ==
  \/ NewContext \/ FreeContext \/ SetCache \/ RegisterVariable \/ RegisterNs
  \/ Begin \/ CompileConstant \/ CompileFails \/ Compiled
  \/ EvalNode \/ EvalValue \/ EvalVariable \/ LookupPrefix
  \/ EnterFunction \/ FunctionNotFound \/ LeaveFunction
  \/ ConvertTop \/ FromNodeSet \/ Compare \/ Arithmetic \/ Concat \/ CssClass \/ LocalNameIs
  \/ EvalUnion \/ EvalCollect
  \/ Report \/ RaiseInHandler \/ RunEnds \/ ReleaseValue \/ EvalEnds \/ ToRuby

CSpec == CInit /\ [][CNext]_contextVars

-----------------------------------------------------------------------------

\* The sequences objects are held in: the slots of the cache and what an evaluation has.
Holder  == Slots \cup {"stack", "consts"}
HeldBy(w) == IF w \in Slots THEN heap.slot[w] ELSE ev[w]

\* Every object has one owner, the cache, a variable, the evaluation or memory, or
\* was lost to an exception, whatever evaluations did before (xmlXPathReleaseObject,
\* xml_xpath.c:5522); one in the cache holds nothing but an empty array and the
\* others what their type says; nothing is left of a context that is gone.  No
\* string is freed twice but one that was a result (nl_xpath_context.c:174, :309).
OwnedOnce ==
  LET owned == VariableObjects \cup UNION {ToSet(HeldBy(w)) : w \in Holder}
      Sound(o) == /\ TypeOf(o) = "string" <=> heap.obj[o].str = "own"
                  /\ heap.obj[o].set # NoSet => TypeOf(o) = "nodeset"
  IN /\ \A w \in Holder : IsInjective(HeldBy(w)) /\ ToSet(HeldBy(w)) \cap VariableObjects = {}
     /\ \A v, w \in Holder : v # w => ToSet(HeldBy(v)) \cap ToSet(HeldBy(w)) = {}
     /\ \A m, n \in Variable : m # n => ctx.var[m] \cap ctx.var[n] = {}
     /\ \A o \in Obj : o \in owned <=> TypeOf(o) \notin {"free", "lost"}
     /\ \A o \in CachedObjects(heap) :
          TypeOf(o) = "undefined" /\ heap.obj[o].str = "none" /\ heap.obj[o].set.nr = 0
     /\ \A o \in ToSet(heap.slot["nodeset"]) : heap.obj[o].set # NoSet
     /\ \A o \in owned \ CachedObjects(heap) : Sound(o)
     /\ ~ctx.open => owned = {}
     /\ heap.twice => heap.text

\* While an expression is evaluated its errors go to the array of that evaluation,
\* also after one that an exception ended, and an evaluation without a result has
\* an error to raise (rb_ary_entry, nl_xpath_context.c:299).
ErrorsHandedOver ==
  /\ ev.phase \in {"compile", "run", "report", "end"} => handler = "this"
  /\ raised # "nil"
=============================================================================
