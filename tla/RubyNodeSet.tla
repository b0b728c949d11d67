----------------------------- MODULE RubyNodeSet -----------------------------
(***************************************************************************)
(* Nokolexbor::NodeSet: a lexbor array of nodes behind Ruby methods        *)
(* (nl_node_set.c, node_set.rb).  Array places count from 0 in the code    *)
(* and from 1 in the sequences here.                                       *)
(***************************************************************************)
EXTENDS Integers, SequencesExt

CONSTANTS
  Member,     \* the nodes
  ChildrenOf, \* the children of each, a sequence
  MaxLength,  \* bound: how many nodes a set is given
  IntValues,  \* 2 ^ 32: the values of an int
  Nil

ASSUME RubyAssumption ==
  /\ ChildrenOf \in [Member -> Seq(Member)]
  /\ IntValues \in Nat /\ MaxLength \in Nat /\ MaxLength < IntValues \div 2

VARIABLES
  list,    \* a set
  other,   \* the set it is combined with
  result   \* what the last method returned, a node or Nil

rubyVars == <<list, other, result>>

RInit == list = <<>> /\ other = <<>> /\ result = Nil

\* An int holds the low bits of a long.
ToInt(n) == ((n + IntValues \div 2) % IntValues) - IntValues \div 2

Abs(n) == IF n < 0 THEN -n ELSE n

\* lexbor_array_push_unique
Pushed(s, n) == IF n \in ToSet(s) THEN s ELSE Append(s, n)

PushedAll(s, t) == FoldLeft(Pushed, s, t)
-----------------------------------------------------------------------------
(* Reading.                                                                *)

\* lexbor_array_get gives NULL outside the array, of which no Ruby object can be
\* made: nl_rb_node_create raises.
IndexAt(s, offset) ==
  LET at == IF offset < 0 THEN offset + Len(s) ELSE offset
  IN IF offset >= Len(s) \/ Abs(ToInt(offset)) > Len(s) THEN <<Nil>>
     ELSE IF at \in 0 .. Len(s) - 1 THEN <<s[at + 1]>> ELSE <<>>

\* Variant of Subsequence: the length is not cut to what there is.
SubsequenceUncut(s, beg, len) ==
  IF beg > Len(s) \/ beg < 0 \/ len < 0 THEN <<Nil>>
  ELSE [i \in 1 .. len |-> IF beg + i <= Len(s) THEN s[beg + i] ELSE Nil]

Subsequence(s, beg, len) ==
  IF beg > Len(s) \/ beg < 0 \/ len < 0 THEN <<Nil>>
  ELSE SubSeq(s, beg + 1, IF beg + len > Len(s) THEN Len(s) ELSE beg + len)

\* node_set[beg, len]
Slice(s, beg, len) == Subsequence(s, IF beg < 0 THEN beg + Len(s) ELSE beg, len)

Index(s, n) == IF n \in ToSet(s) THEN SelectInSeq(s, LAMBDA m : m = n) - 1 ELSE -1

FirstN(s, n) == [i \in 1 .. (IF n < Len(s) THEN n ELSE Len(s)) |-> IndexAt(s, i - 1)[1]]

SameSet(s, t) == Len(s) = Len(t) /\ \A i \in 1 .. Len(s) : s[i] = t[i]
-----------------------------------------------------------------------------
(* Sets made of others.                                                    *)

\* The first set is copied as it is.
Union(s, t) == PushedAll(s, t)

\* The members of s that are in K are pushed to a new array.
Kept(s, K) == FoldLeft(LAMBDA kept, n : IF n \in K THEN Append(kept, n) ELSE kept, <<>>, s)

CommonMembers(s, t) == Kept(s, ToSet(t))

Minus(s, t) == Kept(s, Member \ ToSet(t))

ChildrenOfAll(s) == PushedAll(<<>>, FlattenSeq([i \in DOMAIN s |-> ChildrenOf[s[i]]]))

Reversed(s) == PushedAll(<<>>, Reverse(s))
-----------------------------------------------------------------------------
(* Changing.                                                               *)

Returns(r) == result' = r

Push(n) ==
  /\ Len(list) < MaxLength
  /\ list' = Pushed(list, n) /\ Returns(Nil) /\ UNCHANGED other

Delete(n) ==
  /\ IF n \in ToSet(list) THEN list' = RemoveAt(list, Index(list, n) + 1) /\ Returns(n)
     ELSE UNCHANGED list /\ Returns(Nil)
  /\ UNCHANGED other

\* delete(last) and delete(first)
PopFrom(offset) ==
  IF Len(list) = 0 THEN Returns(Nil) /\ UNCHANGED <<list, other>>
  ELSE Delete(IndexAt(list, offset)[1])

Pop == PopFrom(-1)

Shift == PopFrom(0)

\* A method makes a set, with which the caller goes on.
Made(s) == Len(s) <= MaxLength /\ list' = s /\ Returns(Nil) /\ UNCHANGED other

Combine ==
  \/ Made(Union(list, other)) \/ Made(CommonMembers(list, other)) \/ Made(Minus(list, other))
  \/ Made(ChildrenOfAll(list)) \/ Made(Reversed(list))

Exchange == list' = other /\ other' = list /\ Returns(Nil)

RubyNext == (\E n \in Member : Push(n) \/ Delete(n)) \/ Pop \/ Shift \/ Combine \/ Exchange

RubySpec == RInit /\ [][RubyNext]_rubyVars
-----------------------------------------------------------------------------
\* A set holds no node twice, whichever methods made it, and answers as the
\* documentation of [] says: places counted from the end are negative, what lies
\* outside is nil, a length is cut to what there is (nl_node_set.c:201-211).
\* Offsets are those an int holds.
SliceAsDocumented ==
  LET n == Len(list)
      Offsets == -(IntValues \div 2) + 1 .. IntValues \div 2 - 1
      Wanted(o) == IF o \in 0 .. n - 1 THEN <<list[o + 1]>>
                   ELSE IF o \in -n .. -1 THEN <<list[n + o + 1]>> ELSE <<Nil>>
  IN /\ IsInjective(list)
     /\ \A o \in Offsets : IndexAt(list, o) = Wanted(o)
     /\ \A beg \in -(n + 1) .. n + 1, len \in 0 .. n + 2 :
          LET from == IF beg < 0 THEN n + beg ELSE beg
              places == {i \in 0 .. n - 1 : from <= i /\ i < from + len}
          IN Slice(list, beg, len) =
               IF from \notin 0 .. n THEN <<Nil>>
               ELSE [i \in 1 .. Cardinality(places) |-> list[from + i]]
     /\ \A k \in 0 .. n + 1 : FirstN(list, k) = Slice(list, 0, k)
     /\ SameSet(list, other) <=> list = other
=============================================================================
