----------------------------- MODULE XPathValues -----------------------------
(***************************************************************************)
(* The conversions, comparisons and core functions of xml_xpath.c on       *)
(* values, as the code computes them: on bytes, with hashes of node values *)
(* and with infinities told apart by hand.                                 *)
(*                                                                         *)
(* A value is [type |-> type, datum |-> its content]: the bytes of a       *)
(* string, a BOOLEAN, a sequence of nodes, a number.  A number is          *)
(* <<"fin", tenths>>, <<"inf", 1 or -1>> or <<"nan", 0>>; -0 is taken for  *)
(* 0.                                                                      *)
(***************************************************************************)
EXTENDS Utf8Strings

CONSTANTS
  NodeOf,    \* of a node: kind, text (of an element {}; at most one string, none for
             \* an attribute without a value), parts (of an element: what is below it,
             \* in order, with kind and text), name, id
  INT_MAX,
  Call       \* bound: the calls that are made, [fn, args]

VARIABLE called  \* none, or a call and its value

NoCall == <<>>

DocNode == DOMAIN NodeOf

\* The places of s that are in S, in order.
Ascending(s, S) == SelectSeq([i \in DOMAIN s |-> i], LAMBDA i : i \in S)

Str(s) == [type |-> "string", datum |-> s]
Num(n) == [type |-> "number", datum |-> n]
Bool(b) == [type |-> "boolean", datum |-> b]
Nodes(ns) == [type |-> "nodeset", datum |-> ns]

-----------------------------------------------------------------------------
(* Numbers, as the machine computes them.                                  *)

Fin(tenths) == <<"fin", tenths>>
NaN == <<"nan", 0>>
PInf == <<"inf", 1>>
NInf == <<"inf", -1>>

IsNaN(n) == n[1] = "nan"
IsInf(n) == IF n[1] = "inf" THEN n[2] ELSE 0
IsFin(n) == n[1] = "fin"

Floor(n) == IF IsFin(n) THEN Fin(n[2] - (n[2] % 10)) ELSE n

Negated(n) == <<n[1], -n[2]>>

Plus(m, n) ==
  IF IsNaN(m) \/ IsNaN(n) THEN NaN
  ELSE IF IsFin(m) /\ IsFin(n) THEN Fin(m[2] + n[2])
  ELSE IF IsFin(m) THEN n
  ELSE IF IsFin(n) \/ m = n THEN m
  ELSE NaN

\* m < n; false for a NaN.
LessThan(m, n) ==
  /\ ~IsNaN(m) /\ ~IsNaN(n) /\ m # n
  /\ IF IsFin(m) /\ IsFin(n) THEN m[2] < n[2] ELSE m = NInf \/ n = PInf

\* A fraction of a half and more goes up.
HalfUp(n) == IF IsFin(n) /\ n[2] % 10 >= 5 THEN Plus(Floor(n), Fin(10)) ELSE Floor(n)

-----------------------------------------------------------------------------
(* Conversions.                                                            *)

IsDigit(b) == b \in 48 .. 57

\* The first place from i on that is not one of B.
Behind(s, i, B) == Min({j \in i .. Len(s) + 1 : ByteAt(s, j) \notin B})

Blanks == {9, 10, 13, 32}
MinusSign == 45
Point == 46

DigitsToInt(ds) == FoldLeft(LAMBDA n, d : 10 * n + d - 48, 0, ds)

\* Exponents and digits behind the first fraction digit are left out.
StringEvalNumber(s) ==
  LET i == Behind(s, 1, Blanks)
      neg == ByteAt(s, i) = MinusSign
      first == IF neg THEN i + 1 ELSE i
      point == Behind(s, first, 48 .. 57)
      whole == DigitsToInt(SubSeq(s, first, point - 1))
      hasPoint == ByteAt(s, point) = Point
      fraction == IF hasPoint /\ IsDigit(ByteAt(s, point + 1)) THEN s[point + 1] - 48 ELSE 0
      behind == IF hasPoint THEN Behind(s, point + 1, 48 .. 57) ELSE point
      value == 10 * whole + fraction
  IN IF \/ ~(ByteAt(s, i) \in {Point, MinusSign} \/ IsDigit(ByteAt(s, i)))
        \/ hasPoint /\ point = first /\ ~IsDigit(ByteAt(s, point + 1))
        \/ Behind(s, behind, Blanks) <= Len(s)
     THEN NaN
     ELSE Fin(IF neg THEN -value ELSE value)

Decimal(n) ==
  LET digits[k \in 0 .. n] ==
        IF k < 10 THEN <<48 + k>> ELSE Append(digits[k \div 10], 48 + (k % 10))
  IN digits[n]

FormatNumber(tenths) ==
  LET abs == IF tenths < 0 THEN -tenths ELSE tenths
  IN (IF tenths < 0 THEN <<MinusSign>> ELSE <<>>) \o Decimal(abs \div 10)
       \o (IF abs % 10 = 0 THEN <<>> ELSE <<Point, 48 + (abs % 10)>>)

\* "Infinity", "-Infinity", "NaN", or the digits.
CastNumberToString(n) ==
  CASE n = PInf -> <<73, 110, 102, 105, 110, 105, 116, 121>>
    [] n = NInf -> <<45, 73, 110, 102, 105, 110, 105, 116, 121>>
    [] IsNaN(n) -> <<78, 97, 78>>
    [] OTHER -> FormatNumber(n[2])

\* "true" and "false".
CastBooleanToString(b) == IF b THEN <<116, 114, 117, 101>> ELSE <<102, 97, 108, 115, 101>>

\* The text below an element.
PartTexts(n) == SelectSeq(NodeOf[n].parts, LAMBDA p : p.kind = "text")

\* nl_xmlNodeGetContent, which asks lexbor: none for an attribute without a value.
NodeGetContent(n) ==
  IF NodeOf[n].kind = "element"
  THEN {FlattenSeq([i \in DOMAIN PartTexts(n) |-> PartTexts(n)[i].text])}
  ELSE NodeOf[n].text

CastNodeToString(n) ==
  IF NodeGetContent(n) = {} THEN <<>> ELSE CHOOSE s \in NodeGetContent(n) : TRUE

\* A set of several is sorted first.
CastNodeSetToString(ns) == IF ns = <<>> THEN <<>> ELSE CastNodeToString(Min(ToSet(ns)))

CastToString(v) ==
  CASE v.type = "string" -> v.datum
    [] v.type = "boolean" -> CastBooleanToString(v.datum)
    [] v.type = "number" -> CastNumberToString(v.datum)
    [] v.type = "nodeset" -> CastNodeSetToString(v.datum)

CastNodeToNumber(n) == StringEvalNumber(CastNodeToString(n))

CastToNumber(v) ==
  CASE v.type = "string" -> StringEvalNumber(v.datum)
    [] v.type = "boolean" -> Fin(IF v.datum THEN 10 ELSE 0)
    [] v.type = "number" -> v.datum
    [] v.type = "nodeset" -> StringEvalNumber(CastNodeSetToString(v.datum))

CastNumberToBoolean(n) == ~(IsNaN(n) \/ n = Fin(0))

CastToBoolean(v) ==
  CASE v.type = "boolean" -> v.datum
    [] v.type = "number" -> CastNumberToBoolean(v.datum)
    [] OTHER -> v.datum # <<>>

-----------------------------------------------------------------------------
(* Comparisons.                                                            *)

\* The first two bytes, 0 for an empty string.
StringHash(s) == ByteAt(s, 1) + 256 * ByteAt(s, 2)

\* Variant of NodeValHash: only the first text is looked at.
NodeValHashFirst(n) ==
  LET texts == SelectSeq(PartTexts(n), LAMBDA p : p.text # <<>>)
  IN IF NodeOf[n].kind # "element" THEN StringHash(CastNodeToString(n))
     ELSE IF texts = <<>> THEN 0 ELSE StringHash(texts[1].text)

\* The hash of a node without making its string: a text of one byte goes on in the
\* next one.
NodeValHash(n) ==
  LET texts == SelectSeq(PartTexts(n), LAMBDA p : p.text # <<>>)
      content == CastNodeToString(n)
  IN IF NodeOf[n].kind # "element" THEN StringHash(content)
     ELSE IF texts = <<>> THEN 0
     ELSE IF Len(texts[1].text) > 1 \/ Len(texts) = 1 THEN StringHash(texts[1].text)
     ELSE texts[1].text[1] + 256 * texts[2].text[1]

\* <, <=, > and >= of two numbers.
CompareNumbers(m, n, inf, strict) ==
  LET mi == IsInf(m)
      ni == IsInf(n)
      finite == mi = 0 /\ ni = 0
  IN /\ ~IsNaN(m) /\ ~IsNaN(n)
     /\ CASE inf /\ strict ->
               (mi = -1 /\ ni # -1) \/ (ni = 1 /\ mi # 1) \/ (finite /\ m[2] < n[2])
          [] inf /\ ~strict -> mi = -1 \/ ni = 1 \/ (finite /\ m[2] <= n[2])
          [] ~inf /\ strict ->
               (mi = 1 /\ ni # 1) \/ (ni = -1 /\ mi # -1) \/ (finite /\ m[2] > n[2])
          [] ~inf /\ ~strict -> mi = 1 \/ ni = -1 \/ (finite /\ m[2] >= n[2])

CompareBasic(a, b, inf, strict) == CompareNumbers(CastToNumber(a), CastToNumber(b), inf, strict)

CompareNodeSetFloat(ns, f, inf, strict) ==
  \E i \in DOMAIN ns : CompareNumbers(CastNodeToNumber(ns[i]), f, inf, strict)

CompareNodeSetString(ns, s, inf, strict) ==
  \E i \in DOMAIN ns : CompareBasic(Str(CastNodeToString(ns[i])), Str(s), inf, strict)

\* Not-a-numbers are left out, the others compared as they are.
CompareNodeSets(ns1, ns2, inf, strict) ==
  \E i \in DOMAIN ns1, j \in DOMAIN ns2 :
    LET m == CastNodeToNumber(ns1[i])
        n == CastNodeToNumber(ns2[j])
    IN /\ ~IsNaN(m) /\ ~IsNaN(n)
       /\ CASE inf /\ strict -> LessThan(m, n)
            [] inf /\ ~strict -> LessThan(m, n) \/ m = n
            [] ~inf /\ strict -> LessThan(n, m)
            [] ~inf /\ ~strict -> LessThan(n, m) \/ m = n

CompareNodeSetValue(ns, v, inf, strict) ==
  CASE v.type = "number" -> CompareNodeSetFloat(ns, v.datum, inf, strict)
    [] v.type = "nodeset" -> CompareNodeSets(ns, v.datum, inf, strict)
    [] v.type = "string" -> CompareNodeSetString(ns, v.datum, inf, strict)
    [] v.type = "boolean" -> CompareBasic(Bool(CastToBoolean(Nodes(ns))), v, inf, strict)

\* With the set on the right the comparison is turned round.
CompareValues(a, b, inf, strict) ==
  IF a.type = "nodeset" THEN CompareNodeSetValue(a.datum, b, inf, strict)
  ELSE IF b.type = "nodeset" THEN CompareNodeSetValue(b.datum, a, ~inf, strict)
  ELSE CompareBasic(a, b, inf, strict)

\* Strings are only made where the hashes agree.
EqualNodeSetString(ns, s, neq) ==
  \E i \in DOMAIN ns :
    LET equal == NodeValHash(ns[i]) = StringHash(s) /\ StrEqual(s, CastNodeToString(ns[i]))
    IN equal # neq

EqualNodeSetFloat(ns, f, neq) ==
  \E i \in DOMAIN ns :
    LET v == CastNodeToNumber(ns[i])
    IN IF IsNaN(v) THEN neq ELSE (v = f) # neq

\* A node in both is equal to itself; a node without content equals only another one.
EqualNodeSets(ns1, ns2, neq) ==
  \/ ~neq /\ ToSet(ns1) \cap ToSet(ns2) # {}
  \/ \E i \in DOMAIN ns1, j \in DOMAIN ns2 :
       LET equal == /\ NodeValHash(ns1[i]) = NodeValHash(ns2[j])
                    /\ NodeGetContent(ns1[i]) = NodeGetContent(ns2[j])
       IN equal # neq

\* A number that equals a number is no NaN; infinities have their sign.
EqualNumbers(m, n) == ~IsNaN(m) /\ ~IsNaN(n) /\ m = n

EqualValuesCommon(a, b) ==
  LET types == {a.type, b.type}
  IN IF "boolean" \in types THEN CastToBoolean(a) = CastToBoolean(b)
     ELSE IF "number" \in types THEN EqualNumbers(CastToNumber(a), CastToNumber(b))
     ELSE StrEqual(a.datum, b.datum)

EqualNodeSetValue(ns, v, neq) ==
  CASE v.type = "nodeset" -> EqualNodeSets(ns, v.datum, neq)
    [] v.type = "boolean" -> ((ns # <<>>) = v.datum) # neq
    [] v.type = "number" -> EqualNodeSetFloat(ns, v.datum, neq)
    [] v.type = "string" -> EqualNodeSetString(ns, v.datum, neq)

EqualValues(a, b) ==
  IF a.type = "nodeset" THEN EqualNodeSetValue(a.datum, b, FALSE)
  ELSE IF b.type = "nodeset" THEN EqualNodeSetValue(b.datum, a, FALSE)
  ELSE EqualValuesCommon(a, b)

NotEqualValues(a, b) ==
  IF a.type = "nodeset" THEN EqualNodeSetValue(a.datum, b, TRUE)
  ELSE IF b.type = "nodeset" THEN EqualNodeSetValue(b.datum, a, TRUE)
  ELSE ~EqualValuesCommon(a, b)

-----------------------------------------------------------------------------
(* Functions on numbers.                                                   *)

CeilingOf(n) == Negated(Floor(Negated(n)))

RoundOf(n) == IF IsFin(n) /\ n[2] \in (-5) .. 4 THEN Fin(0) ELSE HalfUp(n)

ModOf(m, n) ==
  LET abs(k) == IF k < 0 THEN -k ELSE k
      rest == abs(m[2]) % abs(n[2])
  IN IF n = Fin(0) \/ IsNaN(n) \/ ~IsFin(m) THEN NaN
     ELSE IF ~IsFin(n) THEN m
     ELSE Fin(IF m[2] < 0 THEN -rest ELSE rest)

SumOf(ns) == FoldLeft(LAMBDA n, node : Plus(n, CastNodeToNumber(node)), Fin(0), ns)

-----------------------------------------------------------------------------
(* Functions on strings.                                                   *)

StartsWith(s, t) == Strncmp(s, t, Len(t)) = 0

\* The start of a substring, counted from 1.
StartIndex(in) ==
  IF ~LessThan(in, Fin(10 * INT_MAX)) THEN INT_MAX
  ELSE IF LessThan(in, Fin(10)) THEN 1
  ELSE HalfUp(in)[2] \div 10

\* The index behind it, when there is a length.
EndIndex(in, le) ==
  LET end == Plus(HalfUp(in), HalfUp(le))
  IN IF LessThan(end, Fin(10)) \/ IsNaN(end) THEN 1
     ELSE IF LessThan(end, Fin(10 * INT_MAX)) THEN end[2] \div 10
     ELSE INT_MAX

\* From i to before j; the string may be shorter than i.
SubstringAt(s, i, j) ==
  LET sub == UTF8Strsub(s, i - 1, j - i)
  IN IF i >= j \/ sub = {} THEN <<>> ELSE CHOOSE r \in sub : TRUE

\* n bytes of s at i, by way of a buffer.
Collect(s, i, n) == CHOOSE r \in BufContent(BufAdd(BufCreate, s, i, n)) : TRUE

SubstringBefore(s, t) ==
  LET point == Strstr(s, t)
  IN IF point = NoPointer THEN <<>> ELSE Collect(s, 1, point - 1)

SubstringAfter(s, t) ==
  LET point == Strstr(s, t) + Len(t)
  IN IF Strstr(s, t) = NoPointer THEN <<>> ELSE Collect(s, point, Len(s) - point + 1)

\* Leading blanks are skipped; of the others one is written when a byte follows.
NormalizeSpace(s) ==
  LET step(acc, b) ==
        IF IsBlank(b) THEN [acc EXCEPT !.blank = TRUE]
        ELSE [to |-> acc.to \o (IF acc.blank THEN <<32>> ELSE <<>>) \o <<b>>, blank |-> FALSE]
  IN FoldLeft(step, [to |-> <<>>, blank |-> FALSE], From(s, Behind(s, 1, Blanks))).to

\* The places where the characters of s begin, up to the first malformed one.
CharStarts(s) ==
  Ascending(s, {UTF8Strpos(s, k) : k \in 0 .. Len(s)})

Translate(s, from, to) ==
  LET max == UTF8Strlen(to)
      step(buf, i) ==
        LET offset == UTF8Strloc(from, s, i)
            point == UTF8Strpos(to, offset)
        IN IF offset = -1 THEN BufAdd(buf, s, i, UTF8Strsize(s, i, 1))
           ELSE IF offset < max THEN BufAdd(buf, to, point, UTF8Strsize(to, point, 1))
           ELSE buf
  IN CHOOSE r \in BufContent(FoldLeft(step, BufCreate, CharStarts(s))) : TRUE

-----------------------------------------------------------------------------
(* Functions on nodes.  Sets that are arguments come sorted.               *)

\* The names of elements and attributes; no node here has a prefix.
NameOf(ns) ==
  IF ns # <<>> /\ NodeOf[ns[1]].kind \in {"element", "attribute"} THEN NodeOf[ns[1]].name ELSE <<>>

\* The tokens of a list of ids.  The first one begins where the list begins, also
\* when that is a blank.
IdTokens(s) ==
  LET begins == {1} \cup {i \in 2 .. Len(s) : ~IsBlank(s[i]) /\ IsBlank(s[i - 1])
                                              /\ \E k \in 1 .. i - 1 : ~IsBlank(s[k])}
      ends(i) == Behind(s, Behind(s, i, Blanks), (0 .. 255) \ (Blanks \cup {0}))
  IN IF Behind(s, 1, Blanks) > Len(s) THEN {} ELSE {SubSeq(s, i, ends(i) - 1) : i \in begins}

\* lexbor takes letters of both cases for the same here: the ids are lower case.
GetElementsByIds(s) ==
  {n \in DocNode : NodeOf[n].kind = "element" /\ NodeOf[n].id \cap IdTokens(s) # {}}

\* A set that is not sorted; here in document order.
IdsOf(v) ==
  LET found == IF v.type = "nodeset"
               THEN UNION {GetElementsByIds(CastNodeToString(n)) : n \in ToSet(v.datum)}
               ELSE GetElementsByIds(CastToString(v))
  IN Ascending(NodeOf, found)

-----------------------------------------------------------------------------
(* Calls, with the conversions that a function makes of its arguments.     *)

Comparison == {"=", "!=", "<", "<=", ">", ">="}

Compared(op, a, b) ==
  CASE op = "=" -> EqualValues(a, b)
    [] op = "!=" -> NotEqualValues(a, b)
    [] OTHER -> CompareValues(a, b, op \in {"<", "<="}, op \in {"<", ">"})

\* number() of the context node, which does not ask for a string first.
NumberOfContext(n) ==
  IF NodeGetContent(n) = {} THEN Fin(0) ELSE CastNodeToNumber(n)

ValueOf(fn, a) ==
  LET s(i) == CastToString(a[i])
      n(i) == CastToNumber(a[i])
      start == StartIndex(n(2))
  IN CASE fn \in Comparison -> Bool(Compared(fn, a[1], a[2]))
       [] fn = "string" -> Str(s(1))
       [] fn = "number" -> Num(n(1))
       [] fn = "number()" -> Num(NumberOfContext(a[1].datum[1]))
       [] fn = "boolean" -> Bool(CastToBoolean(a[1]))
       [] fn = "not" -> Bool(~CastToBoolean(a[1]))
       [] fn = "floor" -> Num(Floor(n(1)))
       [] fn = "ceiling" -> Num(CeilingOf(n(1)))
       [] fn = "round" -> Num(RoundOf(n(1)))
       [] fn = "-" -> Num(Negated(n(1)))
       [] fn = "add" -> Num(Plus(n(1), n(2)))
       [] fn = "subtract" -> Num(Plus(n(1), Negated(n(2))))
       [] fn = "mod" -> Num(ModOf(n(1), n(2)))
       [] fn = "sum" -> Num(SumOf(a[1].datum))
       [] fn = "string-length" -> Num(Fin(10 * UTF8Strlen(s(1))))
       [] fn = "concat" -> Str(Strcat(s(1), s(2)))
       [] fn = "contains" -> Bool(Strstr(s(1), s(2)) # NoPointer)
       [] fn = "starts-with" -> Bool(StartsWith(s(1), s(2)))
       [] fn = "substring-before" -> Str(SubstringBefore(s(1), s(2)))
       [] fn = "substring-after" -> Str(SubstringAfter(s(1), s(2)))
       [] fn = "normalize-space" -> Str(NormalizeSpace(s(1)))
       [] fn = "translate" -> Str(Translate(s(1), s(2), s(3)))
       [] fn = "substring" ->
            Str(SubstringAt(s(1), start, IF Len(a) = 2 THEN INT_MAX ELSE EndIndex(n(2), n(3))))
       [] fn = "name" -> Str(NameOf(a[1].datum))
       [] fn = "id" -> Nodes(IdsOf(a[1]))

VInit == called = NoCall

VNext ==
  /\ called = NoCall
  /\ \E c \in Call : called' = [fn |-> c.fn, args |-> c.args, value |-> ValueOf(c.fn, c.args)]
=============================================================================
