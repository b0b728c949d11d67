------------------------------- MODULE MCData -------------------------------
(***************************************************************************)
(* Parts of the engine, each on its own: a behaviour is one of the machines *)
(* below, the variables of the others stay as they are.                    *)
(***************************************************************************)
EXTENDS Bitwise, HashTable, Dictionary, TimSort, NodeSets, RubyNodeSet, XPathContext,
        ThreadCaches, BuilderBlocks, XPathRecommendation

CONSTANTS o1, o2, o3

VARIABLE machine

vars == <<machine, hashVars, dictVars, sortVars, setVars, rubyVars, contextVars,
          cacheVars, builderVars, called>>

\* Codes: 97 is a, 58 the colon.  Five names, that all fall into one chain.
MCHashName ==
  {<< <<97>>, <<>>, <<>> >>, << <<98>>, <<>>, <<>> >>, << <<97, 58, 98>>, <<>>, <<>> >>,
   << <<97>>, <<99>>, <<>> >>, << <<97>>, <<100>>, <<>> >>}

\* Two payloads for a:b, so that an entry is updated.
MCPayloadOf == [n \in HashName |-> {<<n, 1>>} \cup (IF Len(n[1]) = 3 THEN {<<n, 2>>} ELSE {})]

MCXor(v, w) == v ^^ w

MCPlain == {<<1>>, <<2>>, <<1, 2, 3>>}

MCQName == {[prefix |-> <<1>>, name |-> <<2>>]}

ASSUME MCOneKey == OneKey

\* All short sequences of three keys, one with long runs that get shorter, and one
\* whose runs are each longer than the next one, but not than the next two.
MCSortInput ==
  UNION {[1 .. n -> 0 .. 2] : n \in 0 .. 7}
    \cup {<<1, 2, 3, 4, 5, 6, 7, 8, 9, 1, 2, 3, 4, 5, 1, 2, 3, 1, 2, 1, 1, 2>>,
         <<1, 2, 1, 2, 3, 4, 5, 1, 2, 3, 4, 1, 2, 3, 1, 2, 1, 2>>}

MCDeclaration == {[id |-> 1, prefix |-> 1]}

MCStringOf == [i \in Place |-> i % 2]

MCChildrenOf == [n \in Member |-> IF n = 1 THEN <<2, 3>> ELSE IF n = 2 THEN <<4>> ELSE <<>>]

MCPrefix == {"p"}

MCCacheMax == {1}

\* A new object is chosen from those that are free, and these are all alike.
ObjectsAlike == Permutations(Obj)

-----------------------------------------------------------------------------
(* The document and the calls of the machine "values".                    *)

Text(t) == [kind |-> "text", text |-> t]

\* Elements whose text is split, misses or has a comment in it; an attribute without a
\* value and one with; a text; a comment.
MCNodeOf ==
  LET node(kind, text, parts, name, id) ==
        [kind |-> kind, text |-> text, parts |-> parts, name |-> name, id |-> id]
      element(parts, id) == node("element", {}, parts, <<112>>, id)
  IN << element(<<Text(<<97>>), [kind |-> "comment", text |-> <<50>>], Text(<<>>), Text(<<49>>)>>, {<<97>>}),
        node("attribute", {}, <<>>, <<98>>, {}),
        element(<<>>, {<<195, 169>>}),
        node("attribute", {<<97, 49>>}, <<>>, <<99>>, {}),
        node("text", {<<195, 169>>}, <<>>, <<>>, {}),
        node("comment", {<<32, 49, 46, 53>>}, <<>>, <<>>, {}),
        element(<<Text(<<195, 169, 32>>), Text(<<97>>)>>, {<<97>>}) >>

Letters == {<<97>>, <<32>>, <<195, 169>>, <<226, 130, 172>>}
Short == {<<>>} \cup Letters \cup {c \o d : c, d \in Letters}
Numerals == {<<49>>, <<45, 49>>, <<46, 53>>, <<45>>, <<49, 46>>, <<49, 50, 46, 53, 32>>, <<46>>, <<97, 49>>}
Long == {<<97, 195, 169, 97, 226, 130, 172>>, <<32, 32, 97, 32, 32, 97>>, <<226, 130, 172, 195, 169, 32, 97>>}
Strings == {Str(s) : s \in Short \cup Numerals \cup Long}
Numbers == {Num(n) : n \in {Fin(k) : k \in {-15, -10, -5, -4, 0, 4, 5, 10, 14, 15, 20, 25, 35, 60, 65, 70, 125}} \cup {PInf, NInf, NaN}}
Booleans == {Bool(TRUE), Bool(FALSE)}
Sets == {Nodes(ns) : ns \in {<<>>, <<1>>, <<2>>, <<3>>, <<5>>, <<6>>, <<7>>, <<1, 4>>, <<2, 3>>, <<4, 6>>, <<5, 7>>}}
Values == Strings \cup Numbers \cup Booleans \cup Sets
Some == {Str(s) : s \in Short} \cup Sets \cup {Num(Fin(15)), Bool(TRUE)}

Calls(fns, argss) == {[fn |-> f, args |-> a] : f \in fns, a \in argss}

MCCall ==
  Calls(Comparison, Values \X Values)
    \cup Calls({"string", "number", "boolean", "not", "string-length", "normalize-space", "id",
                "floor", "ceiling", "round", "-"}, {<<v>> : v \in Values})
    \cup Calls({"sum", "name"}, {<<v>> : v \in Sets})
    \cup Calls({"number()"}, {<<Nodes(<<n>>)>> : n \in DocNode})
    \cup Calls({"add", "subtract", "mod"}, Numbers \X Numbers)
    \cup Calls({"concat", "contains", "starts-with", "substring-before", "substring-after"}, Strings \X Some)
    \cup Calls({"substring"}, (Strings \X Numbers) \cup ({Str(s) : s \in Long} \X Numbers \X Numbers))
    \cup Calls({"translate"}, {Str(s) : s \in Long} \X {Str(s) : s \in Short} \X {Str(s) : s \in Short})

-----------------------------------------------------------------------------
Machines == {"hash", "dict", "sort", "sets", "ruby", "evaluate", "caches", "builder", "values"}

Init ==
  /\ machine \in Machines
  /\ HInit /\ NInit /\ RInit /\ CInit /\ TInit /\ VInit
  /\ DInit /\ (machine # "dict" => dict.limit = 0)
  /\ IF machine = "sort" THEN SInit
     ELSE dst = <<>> /\ runs = <<>> /\ curr = 1 /\ sorting = "done"
  /\ BInit /\ (machine # "builder" => arity = "unset")

HashStep ==
  /\ machine = "hash" /\ HNext
  /\ UNCHANGED <<machine, dictVars, sortVars, setVars, rubyVars, contextVars, cacheVars, builderVars, called>>

DictStep ==
  /\ machine = "dict" /\ DNext
  /\ UNCHANGED <<machine, hashVars, sortVars, setVars, rubyVars, contextVars, cacheVars, builderVars, called>>

SortStep ==
  /\ machine = "sort" /\ SNext
  /\ UNCHANGED <<machine, hashVars, dictVars, setVars, rubyVars, contextVars, cacheVars, builderVars, called>>

SetsStep ==
  /\ machine = "sets" /\ NNext
  /\ UNCHANGED <<machine, hashVars, dictVars, sortVars, rubyVars, contextVars, cacheVars, builderVars, called>>

RubyStep ==
  /\ machine = "ruby" /\ RubyNext
  /\ UNCHANGED <<machine, hashVars, dictVars, sortVars, setVars, contextVars, cacheVars, builderVars, called>>

EvaluateStep ==
  /\ machine = "evaluate" /\ CNext
  /\ UNCHANGED <<machine, hashVars, dictVars, sortVars, setVars, rubyVars, cacheVars, builderVars, called>>

CachesStep ==
  /\ machine = "caches" /\ TNext
  /\ UNCHANGED <<machine, hashVars, dictVars, sortVars, setVars, rubyVars, contextVars, builderVars, called>>

BuilderStep ==
  /\ machine = "builder" /\ BNext
  /\ UNCHANGED <<machine, hashVars, dictVars, sortVars, setVars, rubyVars, contextVars, cacheVars, called>>

ValuesStep ==
  /\ machine = "values" /\ VNext
  /\ UNCHANGED <<machine, hashVars, dictVars, sortVars, setVars, rubyVars, contextVars, cacheVars, builderVars>>

Next ==
  \/ HashStep \/ DictStep \/ SortStep \/ SetsStep
  \/ RubyStep \/ EvaluateStep \/ CachesStep \/ BuilderStep \/ ValuesStep

Spec == Init /\ [][Next]_vars
=============================================================================
