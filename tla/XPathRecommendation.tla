------------------------ MODULE XPathRecommendation ------------------------
(***************************************************************************)
(* What the functions and comparisons of XPathValues promise: sections 3.4 *)
(* and 4 of the XPath recommendation, which the comments of xml_xpath.c    *)
(* quote.  Strings are sequences of characters here, a comparison with a   *)
(* node set is an existential statement, a substring is a set of positions.*)
(***************************************************************************)
EXTENDS XPathValues

\* The characters of a string: a byte that is no continuation begins one.
Characters(s) ==
  LET starts == Ascending(s, {i \in DOMAIN s : s[i] \notin 128 .. 191})
      last(k) == IF k = Len(starts) THEN Len(s) ELSE starts[k + 1] - 1
  IN [k \in DOMAIN starts |-> SubSeq(s, starts[k], last(k))]

Selected(cs, K) == FlattenSeq([k \in DOMAIN cs |-> IF k \in K THEN cs[k] ELSE <<>>])

Matches(cs, ds) == {k \in 1 .. Len(cs) - Len(ds) + 1 : SubSeq(cs, k, k + Len(ds) - 1) = ds}

\* The runs of characters that are no blanks.
Tokens(s) ==
  LET solid == {i \in DOMAIN s : s[i] \notin Blanks}
      firsts == Ascending(s, {i \in solid : i - 1 \notin solid})
      lasts == Ascending(s, {i \in solid : i + 1 \notin solid})
  IN [k \in DOMAIN firsts |-> SubSeq(s, firsts[k], lasts[k])]

-----------------------------------------------------------------------------
(* Conversions (4.2, 4.3, 4.4).                                            *)

StringValue(n) == CastNodeToString(n)

\* Digits with at most one point; a minus may stand before them.
Body(t) == IF Len(t) > 1 /\ t[1] = MinusSign THEN Tail(t) ELSE t

Points(t) == {i \in DOMAIN t : t[i] = Point}

IsNumeral(t) ==
  /\ \A i \in DOMAIN t : IsDigit(t[i]) \/ t[i] = Point
  /\ Cardinality(Points(t)) <= 1
  /\ \E i \in DOMAIN t : IsDigit(t[i])

\* What the digits of a numeral stand for, in tenths.
Tenths(t) ==
  LET point == IF Points(t) = {} THEN Len(t) + 1 ELSE Min(Points(t))
      place(i) == (t[i] - 48) * (IF i < point THEN 10 ^ (point - i)
                                  ELSE IF i = point + 1 THEN 1 ELSE 0)
  IN MapThenSumSet(place, DOMAIN t \ Points(t))

DefinedNumber(s) ==
  LET token == IF Len(Tokens(s)) = 1 THEN Tokens(s)[1] ELSE <<>>
  IN IF ~IsNumeral(Body(token)) THEN NaN
     ELSE Fin(IF token[1] = MinusSign THEN -Tenths(Body(token)) ELSE Tenths(token))

\* The first node of a set stands for it.
AsString(v) ==
  CASE v.type = "nodeset" -> IF v.datum = <<>> THEN <<>> ELSE StringValue(Min(ToSet(v.datum)))
    [] OTHER -> CastToString(v)

AsNumber(v) ==
  CASE v.type = "number" -> v.datum
    [] v.type = "boolean" -> IF v.datum THEN Fin(10) ELSE Fin(0)
    [] OTHER -> DefinedNumber(AsString(v))

AsBoolean(v) ==
  CASE v.type = "boolean" -> v.datum
    [] v.type = "number" -> v.datum \notin {Fin(0), NaN}
    [] v.type = "string" -> Len(v.datum) > 0
    [] v.type = "nodeset" -> Len(v.datum) > 0

\* How a number is written: it reads as the number again, a whole number has no point,
\* and there is one digit before the point that is not a leading zero.
WrittenAs(n, s) ==
  CASE IsFin(n) ->
         LET body == Body(s)
             whole == IF Points(body) = {} THEN body ELSE SubSeq(body, 1, Min(Points(body)) - 1)
         IN /\ DefinedNumber(s) = n
            /\ n[2] % 10 = 0 <=> Points(s) = {}
            /\ n[2] < 0 <=> s[1] = MinusSign
            /\ whole # <<>> /\ (Len(whole) > 1 => whole[1] # 48)
    [] IsNaN(n) -> s = <<78, 97, 78>>
    [] OTHER -> Last(s) = 121 /\ (n = NInf <=> s[1] = MinusSign)

-----------------------------------------------------------------------------
(* Comparisons (3.4).                                                      *)

NumbersCompare(op, m, n) ==
  LET ordered == ~IsNaN(m) /\ ~IsNaN(n)
  IN CASE op = "=" -> ordered /\ m = n
       [] op = "!=" -> ~(ordered /\ m = n)
       [] op = "<" -> LessThan(m, n)
       [] op = ">" -> LessThan(n, m)
       [] op = "<=" -> LessThan(m, n) \/ (ordered /\ m = n)
       [] op = ">=" -> LessThan(n, m) \/ (ordered /\ m = n)

\* Of values that are no sets.
AtomsCompare(op, a, b) ==
  LET types == {a.type, b.type}
      equal == IF "boolean" \in types THEN AsBoolean(a) = AsBoolean(b) ELSE a.datum = b.datum
  IN IF op \notin {"=", "!="} \/ (types \cap {"boolean"} = {} /\ "number" \in types)
     THEN NumbersCompare(op, AsNumber(a), AsNumber(b))
     ELSE equal = (op = "=")

\* The values that stand for a set beside another value: one for each node, or
\* whether there is one.
Atoms(v, other) ==
  IF v.type # "nodeset" THEN {v}
  ELSE IF other.type = "boolean" THEN {Bool(v.datum # <<>>)}
  ELSE {Str(StringValue(n)) : n \in ToSet(v.datum)}

ValuesCompare(op, a, b) ==
  \E x \in Atoms(a, b), y \in Atoms(b, a) : AtomsCompare(op, x, y)

\* A node without content and one whose content is empty have the same string value;
\* xmlXPathEqualNodeSets, which compares contents, takes them for different.
NoContentBesideEmpty(a, b) ==
  /\ a.type = "nodeset" /\ b.type = "nodeset"
  /\ \E m, n \in ToSet(a.datum) \cup ToSet(b.datum) :
       NodeGetContent(m) = {} /\ NodeGetContent(n) = {<<>>}

-----------------------------------------------------------------------------
(* Functions (4.1, 4.2, 4.4).                                              *)

WholeNumber == -40 .. 40

\* The whole number next to n that satisfies the comparison.
FloorDefined(n) == IF IsFin(n) THEN Fin(10 * Max({i \in WholeNumber : 10 * i <= n[2]})) ELSE n
CeilingDefined(n) == IF IsFin(n) THEN Fin(10 * Min({i \in WholeNumber : 10 * i >= n[2]})) ELSE n

\* The nearest one, the greater of two.
RoundDefined(n) == IF IsFin(n) THEN FloorDefined(Fin(n[2] + 5)) ELSE n

\* The positions of a substring, compared as IEEE 754 numbers.
Positions(cs, a) ==
  LET from == RoundDefined(AsNumber(a[2]))
      beyond == Plus(from, RoundDefined(AsNumber(a[3])))
  IN {k \in DOMAIN cs : /\ NumbersCompare(">=", Fin(10 * k), from)
                        /\ Len(a) = 3 => LessThan(Fin(10 * k), beyond)}

\* Each character, what it is translated into: the first place in from counts.
Translated(c, from, to) ==
  LET at == {k \in DOMAIN from : from[k] = c}
  IN IF at = {} THEN c ELSE IF Min(at) \in DOMAIN to THEN to[Min(at)] ELSE <<>>

\* xmlXPathGetElementsByIds cuts the first token where the list begins, not where the
\* token does.
LeadingBlank(v) ==
  LET blank(s) == s # <<>> /\ IsBlank(s[1])
  IN IF v.type = "nodeset" THEN \E n \in ToSet(v.datum) : blank(StringValue(n))
     ELSE blank(AsString(v))

IdsDefined(v) ==
  LET lists == IF v.type = "nodeset" THEN {StringValue(n) : n \in ToSet(v.datum)} ELSE {AsString(v)}
      ids == UNION {ToSet(Tokens(s)) : s \in lists}
  IN {n \in DocNode : NodeOf[n].kind = "element" /\ NodeOf[n].id \cap ids # {}}

\* nl_xmlXPathStringEvalNumber reads a minus alone as 0, though "any other string is
\* converted to NaN" (xml_xpath.c:6610): where such a string is made a number.
MinusAlone(fn, a) ==
  LET strings(v) == IF v.type = "nodeset" THEN {StringValue(n) : n \in ToSet(v.datum)}
                    ELSE IF v.type = "string" THEN {v.datum} ELSE {}
  IN /\ \E i \in DOMAIN a : \E s \in strings(a[i]) : Tokens(s) = << <<MinusSign>> >>
     /\ \/ fn \in {"number", "number()", "floor", "ceiling", "round", "-", "sum"}
        \/ fn \in Comparison \ {"=", "!="}
        \/ fn \in {"=", "!="} /\ \E i \in DOMAIN a : a[i].type = "number"

\* Where the code departs from the recommendation on purpose or not.
Departs(fn, a) ==
  \/ MinusAlone(fn, a)
  \/ fn \in {"=", "!="} /\ NoContentBesideEmpty(a[1], a[2])
  \/ fn = "number()" /\ NodeGetContent(a[1].datum[1]) = {}
  \/ fn = "id" /\ LeadingBlank(a[1])

Defines(fn, a, v) ==
  LET cs(i) == Characters(AsString(a[i]))
      n(i) == AsNumber(a[i])
      at == Matches(cs(1), cs(2))
  IN CASE fn \in Comparison -> v = Bool(ValuesCompare(fn, a[1], a[2]))
       [] fn = "string" ->
            IF a[1].type = "number" THEN WrittenAs(a[1].datum, v.datum) ELSE v = Str(AsString(a[1]))
       [] fn \in {"number", "number()"} -> v = Num(n(1))
       [] fn = "boolean" -> v = Bool(AsBoolean(a[1]))
       [] fn = "not" -> v = Bool(~AsBoolean(a[1]))
       [] fn = "floor" -> v = Num(FloorDefined(n(1)))
       [] fn = "ceiling" -> v = Num(CeilingDefined(n(1)))
       [] fn = "round" -> v = Num(RoundDefined(n(1)))
       [] fn = "-" -> Plus(v.datum, n(1)) = IF IsFin(n(1)) THEN Fin(0) ELSE NaN
       [] fn = "add" -> v = Num(Plus(n(1), n(2)))
       [] fn = "subtract" -> IsFin(n(1)) /\ IsFin(n(2)) => Plus(v.datum, n(2)) = n(1)
       [] fn = "mod" ->
            IsFin(n(1)) /\ IsFin(n(2)) /\ n(2) # Fin(0) =>
              /\ \E q \in WholeNumber : n(1)[2] = q * n(2)[2] + v.datum[2]
              /\ v.datum[2] \in -Max({n(2)[2], -n(2)[2]}) + 1 .. Max({n(2)[2], -n(2)[2]}) - 1
              /\ v.datum[2] # 0 => (v.datum[2] < 0 <=> n(1)[2] < 0)
       [] fn = "sum" ->
            LET plus(node, sum) == Plus(sum, DefinedNumber(StringValue(node)))
            IN v = Num(FoldSet(plus, Fin(0), ToSet(a[1].datum)))
       [] fn = "string-length" -> v = Num(Fin(10 * Len(cs(1))))
       [] fn = "concat" -> v = Str(FlattenSeq(cs(1) \o cs(2)))
       [] fn = "contains" -> v = Bool(at # {})
       [] fn = "starts-with" -> v = Bool(1 \in at)
       [] fn = "substring-before" ->
            v = Str(IF at = {} THEN <<>> ELSE Selected(cs(1), 1 .. Min(at) - 1))
       [] fn = "substring-after" ->
            v = Str(IF at = {} THEN <<>> ELSE Selected(cs(1), Min(at) + Len(cs(2)) .. Len(cs(1))))
       [] fn = "normalize-space" ->
            LET ts == Tokens(AsString(a[1]))
            IN v = Str(FlattenSeq([k \in DOMAIN ts |-> IF k = 1 THEN ts[k] ELSE <<32>> \o ts[k]]))
       [] fn = "translate" ->
            v = Str(FlattenSeq([k \in DOMAIN cs(1) |-> Translated(cs(1)[k], cs(2), cs(3))]))
       [] fn = "substring" -> v = Str(Selected(cs(1), Positions(cs(1), a)))
       [] fn = "name" -> v = Str(IF a[1].datum = <<>> THEN <<>> ELSE NodeOf[a[1].datum[1]].name)
       [] fn = "id" -> ToSet(v.datum) = IdsDefined(a[1])

-----------------------------------------------------------------------------
\* Every call gives what the recommendation defines for it, over characters and over
\* all nodes of a set, although xml_xpath.c works on bytes, compares two bytes of a
\* node's value before it makes a string of it, and tells infinities apart by hand; but
\* for the calls of Departs, where it does not.
ValuesAsDefined ==
  called # NoCall =>
    Departs(called.fn, called.args) \/ Defines(called.fn, called.args, called.value)
=============================================================================
