----------------------------- MODULE DataProofs -----------------------------
(* The arrays of nodes, for sets of any nodes and of any length; what the  *)
(* keys of the threads hold, for any threads, addresses and searches left  *)
(* by exceptions; the parent of the builder, for any nesting of blocks;    *)
(* the sort, for any array of any size.                                    *)
EXTENDS NodeSets, RubyNodeSet, TimSort, ThreadCaches, BuilderBlocks, ListProofs

\* Pushing the nodes of t one after the other.
Pushing(f, s, t) ==
  /\ f[0] = s /\ f[Len(t)] = PushedAll(s, t)
  /\ \A i \in 1 .. Len(t) : f[i] = Pushed(f[i - 1], t[i])

\* What pushing a sequence gives after each of its nodes.
LEMMA PushedAllSteps ==
  ASSUME NEW E, NEW s \in Seq(E), NEW t \in Seq(E)
  PROVE  \E f \in [0 .. Len(t) -> Seq(E)] : Pushing(f, s, t)
<1> DEFINE Op(x, y) == Pushed(x, y)
           step == [p \in Seq(E) \X E |-> Op(p[1], p[2])]
           Is(g) == g = [x \in SUBSET (1 .. Len(t)) |->
                           IF x = {} THEN s ELSE Op(g[x \ {Max(x)}], t[Max(x)])]
           iter == CHOOSE g : Is(g)
<1>1. \A x \in Seq(E), y \in E : Op(x, y) \in Seq(E)
  BY AppendProperties DEF Pushed
<1>2. PushedAll(s, t) = iter[1 .. Len(t)]
  <2>1. DOMAIN t = 1 .. Len(t)
    BY LenProperties
  <2> QED
    BY <2>1 DEF PushedAll, FoldLeft, MapThenFoldSet
<1> HIDE DEF Op
<1>3. step \in [Seq(E) \X E -> Seq(E)] /\ \A x \in Seq(E), y \in E : step[<<x, y>>] = Op(x, y)
  BY <1>1
<1>4. \A x \in SUBSET (1 .. Len(t)) : x # {} => Max(x) \in 1 .. Len(t) /\ t[Max(x)] \in E
  <2>1. Len(t) \in Nat
    BY LenProperties
  <2> QED
    BY <2>1, MaxUpto, ElementOfSeq
<1> HIDE DEF step
<1>5. PICK g \in [SUBSET (1 .. Len(t)) -> Seq(E)] : IsIter(g, step, s, t)
  BY <1>3, IterExists
<1>6. Is(g)
  BY <1>3, <1>4, <1>5 DEF IsIter
<1>7. Is(iter)
  BY <1>6
<1> HIDE DEF iter
<1>8. IsFoldOf(iter, step, s, t, Seq(E))
  BY <1>3, <1>4, <1>7 DEF IsFoldOf
<1>9. PICK f \in [0 .. Len(t) -> Seq(E)] : TakenFrom(f, iter, step, s, t)
  BY <1>3, <1>8, FoldSteps
<1>10. \A i \in 1 .. Len(t) : f[i] = Op(f[i - 1], t[i])
  <2> TAKE i \in 1 .. Len(t)
  <2>1. i - 1 \in 0 .. Len(t) /\ t[i] \in E
    BY LenProperties, ElementOfSeq
  <2> QED
    BY <1>3, <1>9, <2>1 DEF TakenFrom
<1> QED
  BY <1>2, <1>9, <1>10 DEF Op, TakenFrom, Pushing

\* Keeping the nodes of s that are in K.
KeptOne(K, kept, n) == IF n \in K THEN Append(kept, n) ELSE kept

Keeping(f, s, K) ==
  /\ f[0] = <<>> /\ f[Len(s)] = Kept(s, K)
  /\ \A i \in 1 .. Len(s) : f[i] = KeptOne(K, f[i - 1], s[i])

\* What is kept of a sequence after each of its nodes.
LEMMA KeptSteps ==
  ASSUME NEW E, NEW K, NEW s \in Seq(E)
  PROVE  \E f \in [0 .. Len(s) -> Seq(E)] : Keeping(f, s, K)
<1> DEFINE Op(x, y) == KeptOne(K, x, y)
           step == [p \in Seq(E) \X E |-> Op(p[1], p[2])]
           Is(g) == g = [x \in SUBSET (1 .. Len(s)) |->
                           IF x = {} THEN <<>> ELSE Op(g[x \ {Max(x)}], s[Max(x)])]
           iter == CHOOSE g : Is(g)
<1>1. \A x \in Seq(E), y \in E : Op(x, y) \in Seq(E)
  BY AppendProperties DEF KeptOne
<1>2. Kept(s, K) = iter[1 .. Len(s)]
  <2>1. DOMAIN s = 1 .. Len(s)
    BY LenProperties
  <2> QED
    BY <2>1 DEF Kept, KeptOne, FoldLeft, MapThenFoldSet
<1> HIDE DEF Op
<1>3. step \in [Seq(E) \X E -> Seq(E)] /\ \A x \in Seq(E), y \in E : step[<<x, y>>] = Op(x, y)
  BY <1>1
<1>4. \A x \in SUBSET (1 .. Len(s)) : x # {} => Max(x) \in 1 .. Len(s) /\ s[Max(x)] \in E
  <2>1. Len(s) \in Nat
    BY LenProperties
  <2> QED
    BY <2>1, MaxUpto, ElementOfSeq
<1> HIDE DEF step
<1>5. PICK g \in [SUBSET (1 .. Len(s)) -> Seq(E)] : IsIter(g, step, <<>>, s)
  BY <1>3, IterExists, EmptySeq
<1>6. Is(g)
  BY <1>3, <1>4, <1>5 DEF IsIter
<1>7. Is(iter)
  BY <1>6
<1> HIDE DEF iter
<1>8. IsFoldOf(iter, step, <<>>, s, Seq(E))
  BY <1>3, <1>4, <1>7 DEF IsFoldOf
<1>9. PICK f \in [0 .. Len(s) -> Seq(E)] : TakenFrom(f, iter, step, <<>>, s)
  BY <1>3, <1>8, FoldSteps, EmptySeq
<1>10. \A i \in 1 .. Len(s) : f[i] = Op(f[i - 1], s[i])
  <2> TAKE i \in 1 .. Len(s)
  <2>1. i - 1 \in 0 .. Len(s) /\ s[i] \in E
    BY LenProperties, ElementOfSeq
  <2> QED
    BY <1>3, <1>9, <2>1 DEF TakenFrom
<1> QED
  BY <1>2, <1>9, <1>10 DEF Op, TakenFrom, Keeping

-----------------------------------------------------------------------------
(* The sets of Ruby.                                                        *)

\* A sequence of nodes in which none is twice.
NodeList(s) == s \in Seq(Member) /\ IsInjective(s)

\* The inductive invariant.
RubyInv == NodeList(list) /\ NodeList(other) /\ Len(list) <= MaxLength /\ Len(other) <= MaxLength

\* A push keeps the list without repetitions (nl_node_set_push).
LEMMA PushedIsList ==
  ASSUME NEW s, NodeList(s), NEW n \in Member
  PROVE  NodeList(Pushed(s, n))
<1>1. CASE n \in ToSet(s)
  BY <1>1 DEF Pushed
<1>2. CASE n \notin ToSet(s)
  <2>1. s \in Seq(Member) /\ Pushed(s, n) = Append(s, n) /\ \A i \in DOMAIN s : s[i] # n
    BY <1>2 DEF Pushed, ToSet, NodeList
  <2>2. /\ Append(s, n) \in Seq(Member) /\ Len(Append(s, n)) = Len(s) + 1
        /\ \A i \in 1 .. Len(s) : Append(s, n)[i] = s[i]
        /\ Append(s, n)[Len(s) + 1] = n
    BY <2>1, AppendProperties
  <2>3. Len(s) \in Nat /\ DOMAIN s = 1 .. Len(s) /\ DOMAIN Append(s, n) = 1 .. Len(s) + 1
    BY <2>1, <2>2, LenProperties
  <2>4. IsInjective(Append(s, n))
    <3>1. \A i \in 1 .. Len(s) + 1 : i \in 1 .. Len(s) \/ i = Len(s) + 1
      BY <2>3
    <3> QED
      BY <2>1, <2>2, <2>3, <3>1 DEF IsInjective, NodeList
  <2> QED
    BY <2>1, <2>2, <2>4 DEF NodeList
<1> QED
  BY <1>1, <1>2

\* So do the pushes of a whole list (nl_node_set_union).
LEMMA PushedAllIsList ==
  ASSUME NEW s, NodeList(s), NEW t \in Seq(Member)
  PROVE  NodeList(PushedAll(s, t))
<1>1. s \in Seq(Member) /\ Len(t) \in Nat
  BY LenProperties DEF NodeList
<1>2. PICK f \in [0 .. Len(t) -> Seq(Member)] : Pushing(f, s, t)
  BY <1>1, PushedAllSteps
<1> DEFINE S == {i \in Nat : NodeList(f[i])}
<1>3. 0 \in S
  BY <1>2 DEF Pushing
<1>4. ASSUME NEW i \in 1 .. Len(t), i - 1 \in S PROVE i \in S
  <2>1. NodeList(f[i - 1]) /\ t[i] \in Member /\ i \in Nat
    BY <1>1, <1>4, ElementOfSeq
  <2> QED
    BY <1>2, <2>1, PushedIsList DEF Pushing
<1> HIDE DEF S
<1>5. \A i \in 0 .. Len(t) : i \in S
  BY <1>1, <1>3, <1>4, InductionUpto
<1> QED
  BY <1>1, <1>2, <1>5 DEF S, Pushing

\* The common members of two lists, and what one has more than the other.
LEMMA KeptIsList ==
  ASSUME NEW s, NodeList(s), NEW K
  PROVE  NodeList(Kept(s, K))
<1>1. s \in Seq(Member) /\ Len(s) \in Nat /\ DOMAIN s = 1 .. Len(s)
  BY LenProperties DEF NodeList
<1>3. PICK f \in [0 .. Len(s) -> Seq(Member)] : Keeping(f, s, K)
  BY <1>1, KeptSteps
<1> DEFINE Before(u, i) == \A k \in DOMAIN u : \E j \in 1 .. i : u[k] = s[j]
           S == {i \in Nat : NodeList(f[i]) /\ Before(f[i], i)}
<1>4. 0 \in S
  <2>1. f[0] = <<>> /\ DOMAIN f[0] = {}
    BY <1>3, EmptySeq DEF Keeping
  <2>2. NodeList(f[0])
    BY <1>3, <2>1, EmptySeq DEF Keeping, NodeList, IsInjective
  <2> QED
    BY <2>1, <2>2
<1>5. ASSUME NEW i \in 1 .. Len(s), i - 1 \in S PROVE i \in S
  <2>1. NodeList(f[i - 1]) /\ Before(f[i - 1], i - 1) /\ s[i] \in Member /\ i \in Nat
    BY <1>1, <1>5, ElementOfSeq
  <2>2. CASE s[i] \notin K
    <3>1. f[i] = f[i - 1]
      BY <1>3, <2>2 DEF Keeping, KeptOne
    <3>2. \A j \in 1 .. i - 1 : j \in 1 .. i
      BY <2>1
    <3> QED
      BY <2>1, <3>1, <3>2
  <2>3. CASE s[i] \in K
    <3> DEFINE u == f[i - 1]
    <3>1. f[i] = Append(u, s[i]) /\ u \in Seq(Member) /\ Len(u) \in Nat /\ DOMAIN u = 1 .. Len(u)
      BY <1>3, <2>1, <2>3, LenProperties DEF Keeping, NodeList, KeptOne
    <3>2. s[i] \notin ToSet(u)
      <4>1. ASSUME NEW k \in DOMAIN u, u[k] = s[i] PROVE FALSE
        <5>1. PICK j \in 1 .. i - 1 : u[k] = s[j]
          BY <2>1
        <5>2. j \in DOMAIN s /\ i \in DOMAIN s /\ j # i /\ s[j] = s[i]
          BY <1>1, <4>1, <5>1
        <5> QED
          BY <5>2 DEF NodeList, IsInjective
      <4> QED
        BY <4>1 DEF ToSet
    <3>3. NodeList(f[i])
      <4>1. f[i] = Pushed(u, s[i])
        BY <3>1, <3>2 DEF Pushed
      <4> QED
        BY <2>1, <4>1, PushedIsList
    <3>4. Before(f[i], i)
      <4>1. /\ DOMAIN f[i] = 1 .. Len(u) + 1 /\ f[i][Len(u) + 1] = s[i]
            /\ \A k \in 1 .. Len(u) : f[i][k] = u[k]
        BY <2>1, <3>1, AppendProperties, LenProperties
      <4>2. \A k \in 1 .. Len(u) : \E j \in 1 .. i : u[k] = s[j]
        <5> TAKE k \in 1 .. Len(u)
        <5>1. PICK j \in 1 .. i - 1 : u[k] = s[j]
          BY <2>1, <3>1
        <5>2. j \in 1 .. i
          BY <2>1
        <5> QED
          BY <5>1, <5>2
      <4>3. i \in 1 .. i /\ \A k \in 1 .. Len(u) + 1 : k \in 1 .. Len(u) \/ k = Len(u) + 1
        BY <2>1, <3>1
      <4> HIDE DEF u
      <4> QED
        BY <4>1, <4>2, <4>3
    <3> QED
      BY <2>1, <3>3, <3>4
  <2> QED
    BY <2>2, <2>3
<1> HIDE DEF S
<1>6. \A i \in 0 .. Len(s) : i \in S
  BY <1>1, <1>4, <1>5, InductionUpto
<1> QED
  BY <1>1, <1>3, <1>6 DEF S, Keeping

-----------------------------------------------------------------------------
LEMMA RubyInitially == RInit => RubyInv
<1> SUFFICES ASSUME RInit PROVE RubyInv
  OBVIOUS
<1>1. list = <<>> /\ other = <<>>
  BY DEF RInit
<1>2. <<>> \in Seq(Member) /\ Len(<<>>) = 0 /\ IsInjective(<<>>)
  BY EmptySeq DEF IsInjective
<1> QED
  BY <1>1, <1>2, RubyAssumption DEF RubyInv, NodeList

\* nl_node_set_delete.
LEMMA DeleteKeeps ==
  ASSUME RubyInv, NEW n, Delete(n)
  PROVE  RubyInv'
<1>1. list \in Seq(Member) /\ Len(list) \in Nat
  BY LenProperties DEF RubyInv, NodeList
<1>2. CASE n \in ToSet(list)
  <2> DEFINE at == SelectInSeq(list, LAMBDA m : m = n)
  <2>1. at \in 1 .. Len(list)
    BY <1>1, <1>2, FoundInSeq
  <2>2. list' = RemoveAt(list, at) /\ other' = other
    <3>1. Index(list, n) = at - 1
      BY <1>2 DEF Index
    <3>2. (at - 1) + 1 = at
      BY <1>1, <2>1
    <3> HIDE DEF at
    <3> QED
      BY <1>2, <3>1, <3>2 DEF Delete
  <2> HIDE DEF at
  <2>3. NodeList(list') /\ Len(list') = Len(list) - 1
    BY <1>1, <2>1, <2>2, RemovedSeq, RemovedIsInjective DEF RubyInv, NodeList
  <2> QED
    BY <1>1, <2>2, <2>3, RubyAssumption DEF RubyInv
<1>3. CASE n \notin ToSet(list)
  BY <1>3 DEF Delete, RubyInv
<1> QED
  BY <1>2, <1>3

\* The set functions of Ruby.
LEMMA CombineKeeps ==
  ASSUME RubyInv, Combine
  PROVE  RubyInv'
<1>1. NodeList(list) /\ NodeList(other) /\ list \in Seq(Member) /\ other \in Seq(Member)
  BY DEF RubyInv, NodeList
<1>2. NodeList(<<>>)
  BY EmptySeq DEF NodeList, IsInjective
<1>3. ASSUME NEW s, NodeList(s), Made(s) PROVE RubyInv'
  BY <1>3 DEF Made, RubyInv
<1>4. NodeList(Union(list, other))
  BY <1>1, PushedAllIsList DEF Union
<1>5. NodeList(CommonMembers(list, other)) /\ NodeList(Minus(list, other))
  BY <1>1, KeptIsList DEF CommonMembers, Minus
<1>6. NodeList(ChildrenOfAll(list))
  <2> DEFINE ss == [i \in DOMAIN list |-> ChildrenOf[list[i]]]
  <2>1. Len(list) \in Nat /\ DOMAIN list = 1 .. Len(list) /\ \A i \in DOMAIN list : list[i] \in Member
    BY <1>1, LenProperties, ElementOfSeq
  <2>2. ss \in Seq(Seq(Member))
    <3>1. \A i \in 1 .. Len(list) : ss[i] \in Seq(Member)
      BY <2>1, RubyAssumption
    <3>2. ss = [i \in 1 .. Len(list) |-> ss[i]]
      BY <2>1
    <3> HIDE DEF ss
    <3> QED
      BY <2>1, <3>1, <3>2, IsASeq
  <2> HIDE DEF ss
  <2>3. FlattenSeq(ss) \in Seq(Member)
    BY <2>2, FlattenedType
  <2> QED
    BY <1>2, <2>3, PushedAllIsList DEF ChildrenOfAll, ss
<1>7. NodeList(Reversed(list))
  BY <1>1, <1>2, ReversedSeq, PushedAllIsList DEF Reversed
<1> QED
  BY <1>3, <1>4, <1>5, <1>6, <1>7 DEF Combine

LEMMA RubyNextKeeps ==
  ASSUME RubyInv, [RubyNext]_rubyVars
  PROVE  RubyInv'
<1>1. ASSUME NEW n \in Member, Push(n) PROVE RubyInv'
  <2>1. list' = Pushed(list, n) /\ other' = other /\ NodeList(Pushed(list, n))
    BY <1>1, PushedIsList DEF Push, RubyInv
  <2>2. Len(Pushed(list, n)) <= MaxLength
    <3>1. Len(Append(list, n)) = Len(list) + 1 /\ Len(list) \in Nat
      BY AppendProperties, LenProperties DEF RubyInv, NodeList
    <3>2. Len(list) < MaxLength
      BY <1>1 DEF Push
    <3> QED
      BY <3>1, <3>2, RubyAssumption DEF Pushed
  <2> QED
    BY <2>1, <2>2 DEF RubyInv
<1>2. ASSUME NEW offset, PopFrom(offset) PROVE RubyInv'
  BY <1>2, DeleteKeeps DEF PopFrom, RubyInv
<1>3. CASE Exchange
  BY <1>3 DEF Exchange, RubyInv
<1>4. CASE UNCHANGED rubyVars
  BY <1>4 DEF rubyVars, RubyInv
<1> QED
  BY <1>1, <1>2, <1>3, <1>4, DeleteKeeps, CombineKeeps DEF RubyNext, Pop, Shift
-----------------------------------------------------------------------------
\* An int holds the offsets that are small enough.
LEMMA SmallOffsets ==
  ASSUME NEW o \in Int, -(IntValues \div 2) < o, o < IntValues \div 2
  PROVE  ToInt(o) = o
<1> DEFINE d == IntValues \div 2
           m == o + d
<1>1. IntValues \in Nat /\ d \in Nat /\ 2 * d <= IntValues
  BY RubyAssumption
<1>2. m \in Int /\ 0 <= m /\ m < IntValues /\ m - d = o
  BY <1>1
<1>3. \A a \in Int, b \in Nat : 0 <= a /\ a < b => a % b = a
  OBVIOUS
<1> HIDE DEF m
<1>4. m % IntValues = m
  BY <1>1, <1>2, <1>3
<1> QED
  BY <1>2, <1>4 DEF ToInt, m

\* One index (nl_node_set_index_at).
LEMMA Indexed ==
  ASSUME RubyInv, NEW o \in -(IntValues \div 2) + 1 .. IntValues \div 2 - 1
  PROVE  IndexAt(list, o) = IF o \in 0 .. Len(list) - 1 THEN <<list[o + 1]>>
                            ELSE IF o \in -Len(list) .. -1 THEN <<list[Len(list) + o + 1]>> ELSE <<Nil>>
<1> DEFINE n == Len(list)
<1>1. n \in Nat /\ IntValues \div 2 \in Nat /\ o \in Int
  BY RubyAssumption, LenProperties DEF RubyInv, NodeList
<1>2. ToInt(o) = o
  BY <1>1, SmallOffsets
<1>3. IndexAt(list, o) =
        LET at == IF o < 0 THEN o + n ELSE o
        IN IF o >= n \/ (IF o < 0 THEN -o ELSE o) > n THEN <<Nil>>
           ELSE IF at \in 0 .. n - 1 THEN <<list[at + 1]>> ELSE <<>>
  BY <1>2 DEF IndexAt, Abs
<1> HIDE DEF n
<1>4. CASE o \in 0 .. n - 1
  BY <1>1, <1>3, <1>4 DEF n
<1>5. CASE o \in -n .. -1
  <2>1. o < 0 /\ ~(o >= n) /\ ~(-o > n) /\ o + n \in 0 .. n - 1 /\ (o + n) + 1 = n + o + 1
    BY <1>1, <1>5
  <2>2. IndexAt(list, o) = <<list[n + o + 1]>>
    BY <1>3, <2>1
  <2> QED
    BY <1>1, <1>5, <2>2 DEF n
<1>6. CASE o \notin 0 .. n - 1 /\ o \notin -n .. -1
  <2>1. o >= n \/ (IF o < 0 THEN -o ELSE o) > n
    BY <1>1, <1>6
  <2>2. IndexAt(list, o) = <<Nil>>
    BY <1>3, <2>1
  <2> QED
    BY <1>6, <2>2 DEF n
<1> QED
  BY <1>4, <1>5, <1>6

\* An offset and a length (nl_node_set_subseq).
LEMMA Sliced ==
  ASSUME NEW s, NodeList(s), NEW from \in 0 .. Len(s), NEW len \in Nat
  PROVE  LET places == {i \in 0 .. Len(s) - 1 : from <= i /\ i < from + len}
         IN Subsequence(s, from, len) = [i \in 1 .. Cardinality(places) |-> s[from + i]]
<1> DEFINE n == Len(s)
           places == {i \in 0 .. n - 1 : from <= i /\ i < from + len}
           upto == IF from + len > n THEN n ELSE from + len
           u == SubSeq(s, from + 1, upto)
<1>1. s \in Seq(Member) /\ n \in Nat /\ from \in Nat /\ from <= n /\ \A i \in 1 .. n : s[i] \in Member
  BY LenProperties, ElementOfSeq DEF NodeList
<1>2. upto \in Nat /\ from <= upto /\ upto <= n
  BY <1>1
<1>3. places = from .. upto - 1
  BY <1>1
<1> HIDE DEF places, upto
<1>4. Cardinality(places) = upto - from
  <2>1. Cardinality(from .. upto - 1) = IF from > upto - 1 THEN 0 ELSE (upto - 1) - from + 1
    BY <1>1, <1>2, FS_Interval
  <2> QED
    BY <1>1, <1>2, <1>3, <2>1
<1>5. Subsequence(s, from, len) = u
  BY <1>1 DEF Subsequence, upto
<1>6. u = [i \in 1 .. upto - from |-> s[from + i]]
  <2>1. \A i \in from + 1 .. upto : s[i] \in Member
    BY <1>1, <1>2
  <2>2. /\ u \in Seq(Member) /\ Len(u) = (IF from + 1 <= upto THEN upto - (from + 1) + 1 ELSE 0)
        /\ \A i \in 1 .. upto - (from + 1) + 1 : u[i] = s[from + 1 + i - 1]
    BY <1>1, <1>2, <2>1, SubSeqProperties
  <2> HIDE DEF u
  <2>3. Len(u) = upto - from
    BY <1>1, <1>2, <2>2
  <2>4. \A i \in 1 .. upto - from : u[i] = s[from + i]
    <3> TAKE i \in 1 .. upto - from
    <3>1. i \in 1 .. upto - (from + 1) + 1 /\ from + 1 + i - 1 = from + i
      BY <1>1, <1>2
    <3> QED
      BY <2>2, <3>1
  <2> QED
    BY <2>2, <2>3, <2>4, LenProperties
<1> QED
  BY <1>4, <1>5, <1>6 DEF places

\* Any offset and any length.
LEMMA SlicedAsDocumented ==
  ASSUME RubyInv, NEW beg \in -(Len(list) + 1) .. Len(list) + 1, NEW len \in 0 .. Len(list) + 2
  PROVE  LET n == Len(list)
             from == IF beg < 0 THEN n + beg ELSE beg
             places == {i \in 0 .. n - 1 : from <= i /\ i < from + len}
         IN Slice(list, beg, len) =
              IF from \notin 0 .. n THEN <<Nil>>
              ELSE [i \in 1 .. Cardinality(places) |-> list[from + i]]
<1> DEFINE n == Len(list)
           from == IF beg < 0 THEN n + beg ELSE beg
           places == {i \in 0 .. n - 1 : from <= i /\ i < from + len}
<1>1. n \in Nat /\ beg \in Int /\ len \in Nat /\ NodeList(list)
  BY LenProperties DEF RubyInv, NodeList
<1>2. Slice(list, beg, len) = Subsequence(list, from, len) /\ from \in Int
  <2>1. beg + n = n + beg
    BY <1>1
  <2> QED
    BY <1>1, <2>1 DEF Slice
<1> HIDE DEF from
<1>3. ASSUME from \in 0 .. n
      PROVE  Slice(list, beg, len) = [i \in 1 .. Cardinality(places) |-> list[from + i]]
  BY <1>1, <1>2, <1>3, Sliced
<1>4. ASSUME from \notin 0 .. n PROVE Slice(list, beg, len) = <<Nil>>
  <2>1. from > n \/ from < 0
    BY <1>1, <1>2, <1>4
  <2> QED
    BY <1>2, <2>1 DEF Subsequence
<1>5. Slice(list, beg, len) =
        IF from \notin 0 .. n THEN <<Nil>> ELSE [i \in 1 .. Cardinality(places) |-> list[from + i]]
  BY <1>3, <1>4
<1> QED
  BY <1>5 DEF from

\* NodeSet#first is a slice.
LEMMA FirstIsSlice ==
  ASSUME RubyInv, NEW k \in 0 .. Len(list) + 1
  PROVE  FirstN(list, k) = Slice(list, 0, k)
<1> DEFINE n == Len(list)
           m == IF k < n THEN k ELSE n
           places == {i \in 0 .. n - 1 : 0 <= i /\ i < 0 + k}
<1>1. n \in Nat /\ k \in Nat /\ NodeList(list) /\ n < IntValues \div 2 /\ IntValues \div 2 \in Nat
  BY LenProperties, RubyAssumption DEF RubyInv, NodeList
<1>2. Slice(list, 0, k) = [i \in 1 .. Cardinality(places) |-> list[0 + i]]
  BY <1>1, Sliced DEF Slice
<1>3. places = 0 .. m - 1 /\ m \in Nat /\ m <= n
  BY <1>1
<1> HIDE DEF places
<1>4. Cardinality(places) = m
  <2>0. 0 \in Int /\ m - 1 \in Int
    BY <1>3
  <2>1. Cardinality(0 .. m - 1) = IF 0 > m - 1 THEN 0 ELSE (m - 1) - 0 + 1
    BY <2>0, FS_Interval
  <2> QED
    BY <1>3, <2>1
<1>5. FirstN(list, k) = [i \in 1 .. m |-> IndexAt(list, i - 1)[1]]
  BY DEF FirstN
<1> HIDE DEF m
<1>6. \A i \in 1 .. m : IndexAt(list, i - 1)[1] = list[0 + i]
  <2> TAKE i \in 1 .. m
  <2>1. /\ i - 1 \in -(IntValues \div 2) + 1 .. IntValues \div 2 - 1 /\ i - 1 \in 0 .. n - 1
        /\ (i - 1) + 1 = 0 + i
    BY <1>1, <1>3
  <2>2. IndexAt(list, i - 1) = <<list[(i - 1) + 1]>>
    BY <2>1, Indexed
  <2> QED
    BY <2>1, <2>2
<1> QED
  BY <1>2, <1>4, <1>5, <1>6

LEMMA RubyImplied == RubyInv => SliceAsDocumented
<1> SUFFICES ASSUME RubyInv PROVE SliceAsDocumented
  OBVIOUS
<1>1. SameSet(list, other) <=> list = other
  <2>1. list \in Seq(Member) /\ other \in Seq(Member)
    BY DEF RubyInv, NodeList
  <2> QED
    BY <2>1, SeqEqual, LenProperties DEF SameSet
<1> QED
  BY <1>1, Indexed, SlicedAsDocumented, FirstIsSlice DEF SliceAsDocumented, RubyInv, NodeList

\* A NodeSet holds no node twice, and its methods [], slice and first answer for every
\* offset and length as documented, whichever methods made it (nl_node_set.c, node_set.rb).
THEOREM RubySetsAnswer == RubySpec => []SliceAsDocumented
<1>1. RInit => RubyInv
  BY RubyInitially
<1>2. RubyInv /\ [RubyNext]_rubyVars => RubyInv'
  BY RubyNextKeeps
<1> QED
  BY <1>1, <1>2, RubyImplied, PTL DEF RubySpec
-----------------------------------------------------------------------------
(* The node sets of the XPath engine.                                       *)

\* The places of the copies.
NsPlaces(tab) == {i \in DOMAIN tab : IsNs(tab[i])}

\* Shifting places changes no number of them.
LEMMA ShiftedCardinality ==
  ASSUME NEW k \in Nat, NEW B \in SUBSET Nat, IsFiniteSet(B)
  PROVE  IsFiniteSet({i + k : i \in B}) /\ Cardinality({i + k : i \in B}) = Cardinality(B)
<1> DEFINE T == {i + k : i \in B}
           h == [i \in B |-> i + k]
<1>1. h \in [B -> T]
  OBVIOUS
<1>2. \A i, j \in B : h[i] = h[j] => i = j
  OBVIOUS
<1>3. \A t \in T : \E i \in B : h[i] = t
  OBVIOUS
<1> HIDE DEF h, T
<1>4. h \in Bijection(B, T)
  BY <1>1, <1>2, <1>3 DEF Bijection, Injection, Surjection, IsInjective
<1>5. ExistsBijection(B, T)
  BY <1>4 DEF ExistsBijection
<1>6. IsFiniteSet(T) /\ Cardinality(T) = Cardinality(B)
  BY <1>5, FS_Bijection
<1> QED
  BY <1>6 DEF T

\* The copies of namespace nodes in two sequences one after the other.
LEMMA CopiesOfConcat ==
  ASSUME NEW E, NEW s \in Seq(E), NEW t \in Seq(E)
  PROVE  /\ NsCount(s \o t) = NsCount(s) + NsCount(t)
         /\ NsCount(s) \in Nat /\ NsCount(t) \in Nat
<1> DEFINE n == Len(s)
           A == NsPlaces(s)
           B == NsPlaces(t)
           T == {i + n : i \in B}
<1>1. n \in Nat /\ Len(t) \in Nat /\ DOMAIN s = 1 .. n /\ DOMAIN t = 1 .. Len(t)
  BY LenProperties
<1>2. DOMAIN (s \o t) = 1 .. n + Len(t)
  BY ConcatProperties, LenProperties
<1>3. \A i \in 1 .. n + Len(t) : (s \o t)[i] = IF i <= n THEN s[i] ELSE t[i - n]
  BY ConcatProperties
<1>4. A \subseteq 1 .. n /\ B \in SUBSET Nat /\ B \subseteq 1 .. Len(t)
  BY <1>1 DEF NsPlaces
<1>5. IsFiniteSet(A) /\ IsFiniteSet(B)
  <2>1. IsFiniteSet(1 .. n) /\ IsFiniteSet(1 .. Len(t))
    BY <1>1, FS_Interval
  <2> QED
    BY <1>4, <2>1, FS_Subset
<1>6. NsPlaces(s \o t) = A \cup T
  <2>1. ASSUME NEW i \in NsPlaces(s \o t) PROVE i \in A \cup T
    <3>1. i \in 1 .. n + Len(t) /\ IsNs((s \o t)[i])
      BY <1>2 DEF NsPlaces
    <3>2. CASE i <= n
      <4>1. i \in 1 .. n
        BY <1>1, <3>1, <3>2
      <4> QED
        BY <1>1, <1>3, <3>1, <3>2, <4>1 DEF NsPlaces
    <3>3. CASE ~(i <= n)
      <4>1. i - n \in 1 .. Len(t) /\ (i - n) + n = i
        BY <1>1, <3>1, <3>3
      <4>2. i - n \in B
        BY <1>1, <1>3, <3>1, <3>3, <4>1 DEF NsPlaces
      <4> QED
        BY <4>1, <4>2
    <3> QED
      BY <3>2, <3>3
  <2>2. ASSUME NEW i \in A PROVE i \in NsPlaces(s \o t)
    <3>1. i \in 1 .. n + Len(t) /\ i <= n
      BY <1>1, <1>4
    <3> QED
      BY <1>2, <1>3, <3>1 DEF NsPlaces
  <2>3. ASSUME NEW j \in B PROVE j + n \in NsPlaces(s \o t)
    <3>1. j + n \in 1 .. n + Len(t) /\ ~(j + n <= n) /\ (j + n) - n = j
      BY <1>1, <1>4
    <3> QED
      BY <1>2, <1>3, <3>1 DEF NsPlaces
  <2> QED
    BY <2>1, <2>2, <2>3
<1>7. A \cap T = {}
  BY <1>1, <1>4
<1> HIDE DEF A, B
<1>8. IsFiniteSet(T) /\ Cardinality(T) = Cardinality(B)
  BY <1>1, <1>4, <1>5, ShiftedCardinality
<1> HIDE DEF T
<1>9. Cardinality(A \cup T) = Cardinality(A) + Cardinality(B)
  <2>1. Cardinality(A \cap T) = 0
    BY <1>7, FS_EmptySet
  <2>2. Cardinality(A) \in Nat /\ Cardinality(B) \in Nat
    BY <1>5, FS_CardinalityType
  <2>3. Cardinality(A \cup T) = Cardinality(A) + Cardinality(T) - Cardinality(A \cap T)
    BY <1>5, <1>8, FS_Union
  <2> QED
    BY <1>8, <2>1, <2>2, <2>3
<1>10. NsCount(s) = Cardinality(A) /\ NsCount(t) = Cardinality(B) /\ NsCount(s \o t) = Cardinality(A \cup T)
  BY <1>6 DEF NsCount, NsPlaces, A, B
<1> QED
  BY <1>5, <1>9, <1>10, FS_CardinalityType

\* The copies in a single node.
LEMMA CopiesOfOne ==
  ASSUME NEW n
  PROVE  NsCount(<<n>>) = IF IsNs(n) THEN 1 ELSE 0
<1>1. DOMAIN <<n>> = {1} /\ <<n>>[1] = n
  OBVIOUS
<1>2. NsPlaces(<<n>>) = IF IsNs(n) THEN {1} ELSE {}
  BY <1>1 DEF NsPlaces
<1>3. NsCount(<<n>>) = Cardinality(NsPlaces(<<n>>))
  BY DEF NsCount, NsPlaces
<1> QED
  BY <1>2, <1>3, FS_Singleton, FS_EmptySet

\* The copies with one node more.
LEMMA CopiesOfAppend ==
  ASSUME NEW E, NEW s \in Seq(E), NEW n \in E
  PROVE  NsCount(Append(s, n)) = NsCount(s) + (IF IsNs(n) THEN 1 ELSE 0)
<1>1. Append(s, n) = s \o <<n>> /\ <<n>> \in Seq(E)
  BY AppendIsConcat
<1> QED
  BY <1>1, CopiesOfConcat, CopiesOfOne

\* A sequence is cut at any place.
LEMMA CopiesOfParts ==
  ASSUME NEW E, NEW s \in Seq(E), NEW pos \in 0 .. Len(s)
  PROVE  /\ SubSeq(s, 1, pos) \in Seq(E) /\ SubSeq(s, pos + 1, Len(s)) \in Seq(E)
         /\ NsCount(s) = NsCount(SubSeq(s, 1, pos)) + NsCount(SubSeq(s, pos + 1, Len(s)))
<1>1. Len(s) \in Nat /\ \A i \in 1 .. Len(s) : s[i] \in E
  BY LenProperties, ElementOfSeq
<1>2. SubSeq(s, 1, pos) \in Seq(E)
  <2>1. \A i \in 1 .. pos : s[i] \in E
    BY <1>1
  <2> QED
    BY <1>1, <2>1, SubSeqProperties
<1>3. SubSeq(s, pos + 1, Len(s)) \in Seq(E)
  <2>1. \A i \in pos + 1 .. Len(s) : s[i] \in E
    BY <1>1
  <2> QED
    BY <1>1, <2>1, SubSeqProperties
<1>4. SubSeq(s, 1, pos) \o SubSeq(s, pos + 1, Len(s)) = s
  <2>1. 1 \in 1 .. Len(s) + 1 /\ pos \in 1 - 1 .. Len(s) /\ Len(s) \in pos .. Len(s)
    BY <1>1
  <2> QED
    BY <2>1, ConcatAdjacentSubSeq, SubSeqFull
<1> QED
  BY <1>2, <1>3, <1>4, CopiesOfConcat

\* The copies without one of the nodes.
LEMMA CopiesOfRemoved ==
  ASSUME NEW E, NEW s \in Seq(E), NEW at \in 1 .. Len(s)
  PROVE  NsCount(RemoveAt(s, at)) = NsCount(s) - NsCount(<<s[at]>>)
<1> DEFINE u == SubSeq(s, 1, at - 1)
           v == SubSeq(s, at, Len(s))
           w == SubSeq(s, at + 1, Len(s))
<1>1. Len(s) \in Nat /\ s[at] \in E /\ <<s[at]>> \in Seq(E)
  BY LenProperties, ElementOfSeq
<1>2. at - 1 \in 0 .. Len(s) /\ (at - 1) + 1 = at /\ at \in 0 .. Len(s) /\ Len(s) \in at .. Len(s)
  BY <1>1
<1>3. u \in Seq(E) /\ v \in Seq(E) /\ NsCount(s) = NsCount(u) + NsCount(v)
  BY <1>2, CopiesOfParts
<1>4. w \in Seq(E)
  BY <1>2, CopiesOfParts
<1>5. v = <<s[at]>> \o w
  BY <1>2, SubSeqRecursiveFirst
<1>6. RemoveAt(s, at) = u \o w
  BY DEF RemoveAt
<1> HIDE DEF u, v, w
<1>7. /\ NsCount(v) = NsCount(<<s[at]>>) + NsCount(w) /\ NsCount(u \o w) = NsCount(u) + NsCount(w)
      /\ NsCount(u) \in Nat /\ NsCount(w) \in Nat /\ NsCount(<<s[at]>>) \in Nat
  BY <1>1, <1>3, <1>4, <1>5, CopiesOfConcat
<1> QED
  BY <1>3, <1>6, <1>7
-----------------------------------------------------------------------------
\* The nodes of the sets.
SetNode == {Ordinary(i) : i \in Place} \cup {[id |-> d.id, prefix |-> d.prefix] : d \in Declaration}

SetRecord == [tab : Seq(SetNode), max : Nat]

\* A set as the functions keep it.
NodeSet(s) ==
  /\ s \in SetRecord
  /\ IsInjective(s.tab) /\ Len(s.tab) <= s.max

\* The inductive invariant.
SetsInv == NodeSet(set1) /\ NodeSet(set2) /\ copies = NsCount(set1.tab) + NsCount(set2.tab)

\* What a node set is made of.
LEMMA SetFacts ==
  ASSUME NEW s, NodeSet(s)
  PROVE  /\ s.tab \in Seq(SetNode) /\ s.max \in Nat /\ Len(s.tab) \in Nat
         /\ DOMAIN s.tab = 1 .. Len(s.tab) /\ NsCount(s.tab) \in Nat
         /\ s = [tab |-> s.tab, max |-> s.max]
<1>1. s.tab \in Seq(SetNode) /\ s.max \in Nat /\ s = [tab |-> s.tab, max |-> s.max]
  BY DEF NodeSet, SetRecord
<1> QED
  BY <1>1, LenProperties, CopiesOfConcat

LEMMA EmptySetSound == NodeSet(EmptySet) /\ NsCount(EmptySet.tab) = 0
<1>1. <<>> \in Seq(SetNode) /\ Len(<<>>) = 0 /\ DOMAIN <<>> = {}
  BY EmptySeq
<1>2. NsCount(<<>>) = 0
  <2>1. {i \in DOMAIN <<>> : IsNs(<<>>[i])} = {}
    BY <1>1
  <2> QED
    BY <2>1, FS_EmptySet DEF NsCount
<1> QED
  BY <1>1, <1>2 DEF EmptySet, NodeSet, SetRecord, IsInjective

\* A node that is not in the set gets the next place, if there is one.
LEMMA AddUniqueSound ==
  ASSUME NEW s, NodeSet(s), NEW n \in SetNode, n \notin ToSet(s.tab)
  PROVE  /\ NodeSet(AddUnique(s, n))
         /\ HasSpace(s) => /\ AddUnique(s, n).tab = Append(s.tab, n)
                           /\ NsCount(AddUnique(s, n).tab) = NsCount(s.tab) + (IF IsNs(n) THEN 1 ELSE 0)
         /\ ~HasSpace(s) => AddUnique(s, n) = s
<1> DEFINE a == AddUnique(s, n)
           t == s.tab
<1>1. /\ t \in Seq(SetNode) /\ s.max \in Nat /\ Len(t) \in Nat /\ DOMAIN t = 1 .. Len(t)
      /\ Len(t) <= s.max /\ IsInjective(t)
  BY SetFacts DEF NodeSet
<1>2. CASE ~HasSpace(s)
  BY <1>2 DEF AddUnique
<1>3. CASE HasSpace(s)
  <2>1. a.tab = Append(t, n) /\ a.max = WithRoom(s) /\ a = [tab |-> Append(t, n), max |-> WithRoom(s)]
    BY <1>3 DEF AddUnique
  <2>2. WithRoom(s) \in Nat /\ Len(t) + 1 <= WithRoom(s)
    BY <1>1, SetsAssumption DEF WithRoom
  <2>3. /\ Append(t, n) \in Seq(SetNode) /\ Len(Append(t, n)) = Len(t) + 1
        /\ \A i \in 1 .. Len(t) : Append(t, n)[i] = t[i]
        /\ Append(t, n)[Len(t) + 1] = n
    BY <1>1, AppendProperties
  <2>4. IsInjective(Append(t, n))
    <3>1. DOMAIN Append(t, n) = 1 .. Len(t) + 1
      BY <2>3, LenProperties
    <3>2. \A i \in 1 .. Len(t) + 1 : i \in 1 .. Len(t) \/ i = Len(t) + 1
      BY <1>1
    <3>3. \A i \in 1 .. Len(t) : t[i] # n
      BY <1>1 DEF ToSet
    <3> HIDE DEF t
    <3> QED
      BY <1>1, <2>3, <3>1, <3>2, <3>3 DEF IsInjective
  <2>5. NsCount(Append(t, n)) = NsCount(t) + (IF IsNs(n) THEN 1 ELSE 0)
    BY <1>1, CopiesOfAppend
  <2>6. NodeSet(a)
    <3> HIDE DEF a, t
    <3> QED
      BY <2>1, <2>2, <2>3, <2>4 DEF NodeSet, SetRecord
  <2> QED
    BY <1>3, <2>1, <2>5, <2>6
<1> QED
  BY <1>2, <1>3

\* Adding, whatever becomes of it, gives a node set.
LEMMA AddUniqueType ==
  ASSUME NEW s \in SetRecord, NEW n \in SetNode
  PROVE  AddUnique(s, n) \in SetRecord
<1>1. s.tab \in Seq(SetNode) /\ s.max \in Nat
  BY DEF SetRecord
<1>2. Append(s.tab, n) \in Seq(SetNode)
  BY <1>1, AppendProperties
<1>3. WithRoom(s) \in Nat
  BY <1>1, SetsAssumption DEF WithRoom
<1> QED
  BY <1>1, <1>2, <1>3 DEF AddUnique, SetRecord

\* What the merging of s2, whose nodes are t, does to a set.
Merging(f, s1, s2) ==
  /\ f[0] = s1 /\ f[Len(s2.tab)] = Merged(s1, s2)
  /\ \A i \in 1 .. Len(s2.tab) : f[i] = (IF ContainsNode(s1, s2.tab[i]) THEN f[i - 1] ELSE AddUnique(f[i - 1], s2.tab[i]))

\* What a merge gives after each node of the second set.
LEMMA MergedSteps ==
  ASSUME NEW s1 \in SetRecord, NEW s2, s2.tab \in Seq(SetNode)
  PROVE  \E f \in [0 .. Len(s2.tab) -> SetRecord] : Merging(f, s1, s2)
<1> DEFINE Op(x, y) == (IF ContainsNode(s1, y) THEN x ELSE AddUnique(x, y))
           step == [p \in SetRecord \X SetNode |-> Op(p[1], p[2])]
           Is(g) == g = [x \in SUBSET (1 .. Len(s2.tab)) |->
                           IF x = {} THEN s1 ELSE Op(g[x \ {Max(x)}], s2.tab[Max(x)])]
           iter == CHOOSE g : Is(g)
<1>1. \A x \in SetRecord, y \in SetNode : Op(x, y) \in SetRecord
  BY AddUniqueType
<1>2. Merged(s1, s2) = iter[1 .. Len(s2.tab)]
  <2>1. DOMAIN s2.tab = 1 .. Len(s2.tab)
    BY LenProperties
  <2> QED
    BY <2>1 DEF Merged, FoldLeft, MapThenFoldSet
<1> HIDE DEF Op
<1>3. step \in [SetRecord \X SetNode -> SetRecord] /\ \A x \in SetRecord, y \in SetNode : step[<<x, y>>] = Op(x, y)
  BY <1>1
<1>4. \A x \in SUBSET (1 .. Len(s2.tab)) : x # {} => Max(x) \in 1 .. Len(s2.tab) /\ s2.tab[Max(x)] \in SetNode
  <2>1. Len(s2.tab) \in Nat
    BY LenProperties
  <2> QED
    BY <2>1, MaxUpto, ElementOfSeq
<1> HIDE DEF step
<1>5. PICK g \in [SUBSET (1 .. Len(s2.tab)) -> SetRecord] : IsIter(g, step, s1, s2.tab)
  BY <1>3, IterExists
<1>6. Is(g)
  BY <1>3, <1>4, <1>5 DEF IsIter
<1>7. Is(iter)
  BY <1>6
<1> HIDE DEF iter
<1>8. IsFoldOf(iter, step, s1, s2.tab, SetRecord)
  BY <1>3, <1>4, <1>7 DEF IsFoldOf
<1>9. PICK f \in [0 .. Len(s2.tab) -> SetRecord] : TakenFrom(f, iter, step, s1, s2.tab)
  BY <1>3, <1>8, FoldSteps
<1>10. \A i \in 1 .. Len(s2.tab) : f[i] = Op(f[i - 1], s2.tab[i])
  <2> TAKE i \in 1 .. Len(s2.tab)
  <2>1. i - 1 \in 0 .. Len(s2.tab) /\ s2.tab[i] \in SetNode
    BY LenProperties, ElementOfSeq
  <2> QED
    BY <1>3, <1>9, <2>1 DEF TakenFrom
<1> QED
  BY <1>2, <1>9, <1>10 DEF Op, TakenFrom, Merging

\* Adding the nodes of t one after the other.
Adding(f, s, t) ==
  /\ f[0] = s /\ f[Len(t)] = AllAdded(s, t)
  /\ \A i \in 1 .. Len(t) : f[i] = AddUnique(f[i - 1], t[i])

\* What adding all nodes gives after each of them.
LEMMA AllAddedSteps ==
  ASSUME NEW s \in SetRecord, NEW t \in Seq(SetNode)
  PROVE  \E f \in [0 .. Len(t) -> SetRecord] : Adding(f, s, t)
<1> DEFINE Op(x, y) == AddUnique(x, y)
           step == [p \in SetRecord \X SetNode |-> Op(p[1], p[2])]
           Is(g) == g = [x \in SUBSET (1 .. Len(t)) |->
                           IF x = {} THEN s ELSE Op(g[x \ {Max(x)}], t[Max(x)])]
           iter == CHOOSE g : Is(g)
<1>1. \A x \in SetRecord, y \in SetNode : Op(x, y) \in SetRecord
  BY AddUniqueType
<1>2. AllAdded(s, t) = iter[1 .. Len(t)]
  <2>1. DOMAIN t = 1 .. Len(t)
    BY LenProperties
  <2> QED
    BY <2>1 DEF AllAdded, FoldLeft, MapThenFoldSet
<1> HIDE DEF Op
<1>3. step \in [SetRecord \X SetNode -> SetRecord] /\ \A x \in SetRecord, y \in SetNode : step[<<x, y>>] = Op(x, y)
  BY <1>1
<1>4. \A x \in SUBSET (1 .. Len(t)) : x # {} => Max(x) \in 1 .. Len(t) /\ t[Max(x)] \in SetNode
  <2>1. Len(t) \in Nat
    BY LenProperties
  <2> QED
    BY <2>1, MaxUpto, ElementOfSeq
<1> HIDE DEF step
<1>5. PICK g \in [SUBSET (1 .. Len(t)) -> SetRecord] : IsIter(g, step, s, t)
  BY <1>3, IterExists
<1>6. Is(g)
  BY <1>3, <1>4, <1>5 DEF IsIter
<1>7. Is(iter)
  BY <1>6
<1> HIDE DEF iter
<1>8. IsFoldOf(iter, step, s, t, SetRecord)
  BY <1>3, <1>4, <1>7 DEF IsFoldOf
<1>9. PICK f \in [0 .. Len(t) -> SetRecord] : TakenFrom(f, iter, step, s, t)
  BY <1>3, <1>8, FoldSteps
<1>10. \A i \in 1 .. Len(t) : f[i] = Op(f[i - 1], t[i])
  <2> TAKE i \in 1 .. Len(t)
  <2>1. i - 1 \in 0 .. Len(t) /\ t[i] \in SetNode
    BY LenProperties, ElementOfSeq
  <2> QED
    BY <1>3, <1>9, <2>1 DEF TakenFrom
<1> QED
  BY <1>2, <1>9, <1>10 DEF Op, TakenFrom, Adding

\* The places of t that hold copies not in s1 yet.
NewCopies(s1, t, i) == {j \in 1 .. i : IsNs(t[j]) /\ ~ContainsNode(s1, t[j])}

\* What is shown of each step of a merge: the nodes come from the first set or from the
\* part of the second that has been gone through.
MergedUpto(s, s1, t, i) ==
  /\ NodeSet(s)
  /\ \A k \in DOMAIN s.tab : s.tab[k] \in ToSet(s1.tab) \/ \E j \in 1 .. i : s.tab[k] = t[j]
  /\ Len(s1.tab) + Len(t) <= XPATH_MAX_NODESET_LENGTH =>
       /\ Len(s.tab) <= Len(s1.tab) + i
       /\ NsCount(s.tab) = NsCount(s1.tab) + Cardinality(NewCopies(s1, t, i))

\* The namespace nodes among the first places that the first set misses.
LEMMA NewCopiesFinite ==
  ASSUME NEW s1, NEW t, NEW i \in Nat
  PROVE  IsFiniteSet(NewCopies(s1, t, i)) /\ Cardinality(NewCopies(s1, t, i)) \in Nat
<1>1. NewCopies(s1, t, i) \subseteq 1 .. i /\ IsFiniteSet(1 .. i)
  BY FS_Interval DEF NewCopies
<1> QED
  BY <1>1, FS_Subset, FS_CardinalityType

\* There is one more of them exactly at such a node.
LEMMA NewCopiesSteps ==
  ASSUME NEW s1, NEW t, NEW i \in Nat \ {0}
  PROVE  /\ Cardinality(NewCopies(s1, t, 0)) = 0
         /\ Cardinality(NewCopies(s1, t, i)) = Cardinality(NewCopies(s1, t, i - 1))
              + (IF IsNs(t[i]) /\ ~ContainsNode(s1, t[i]) THEN 1 ELSE 0)
<1> DEFINE M(j) == NewCopies(s1, t, j)
<1>1. \A j \in Nat : IsFiniteSet(M(j)) /\ Cardinality(M(j)) \in Nat
  BY NewCopiesFinite
<1>2. M(0) = {}
  BY DEF NewCopies
<1>3. CASE IsNs(t[i]) /\ ~ContainsNode(s1, t[i])
  <2>1. M(i) = M(i - 1) \cup {i} /\ i \notin M(i - 1)
    <3>1. \A j \in Int : j \in 1 .. i <=> j \in 1 .. i - 1 \/ j = i
      OBVIOUS
    <3>2. i \notin 1 .. i - 1
      OBVIOUS
    <3> QED
      BY <1>3, <3>1, <3>2 DEF NewCopies
  <2>2. i - 1 \in Nat
    OBVIOUS
  <2> HIDE DEF M
  <2>3. Cardinality(M(i)) = Cardinality(M(i - 1)) + 1
    BY <1>1, <2>1, <2>2, FS_AddElement
  <2> QED
    BY <1>1, <1>2, <1>3, <2>3, FS_EmptySet DEF M
<1>4. CASE ~(IsNs(t[i]) /\ ~ContainsNode(s1, t[i]))
  <2>1. M(i) = M(i - 1)
    <3>1. \A j \in Int : j \in 1 .. i <=> j \in 1 .. i - 1 \/ j = i
      OBVIOUS
    <3> QED
      BY <1>4, <3>1 DEF NewCopies
  <2>2. i - 1 \in Nat
    OBVIOUS
  <2> HIDE DEF M
  <2> QED
    BY <1>1, <1>2, <1>4, <2>1, <2>2, FS_EmptySet DEF M
<1> QED
  BY <1>3, <1>4

\* One step.
LEMMA MergeStep ==
  ASSUME NEW s1, NodeSet(s1), NEW t \in Seq(SetNode), IsInjective(t), NEW i \in 1 .. Len(t),
         NEW s, MergedUpto(s, s1, t, i - 1), NEW r,
         r = IF ContainsNode(s1, t[i]) THEN s ELSE AddUnique(s, t[i])
  PROVE  MergedUpto(r, s1, t, i)
<1>1. /\ Len(t) \in Nat /\ DOMAIN t = 1 .. Len(t) /\ t[i] \in SetNode /\ i \in Nat \ {0}
      /\ 1 .. i - 1 \subseteq 1 .. i /\ i \in 1 .. i /\ Len(s1.tab) \in Nat /\ NsCount(s1.tab) \in Nat
  BY LenProperties, ElementOfSeq, SetFacts
<1>2. NodeSet(s) /\ Len(s.tab) \in Nat /\ DOMAIN s.tab = 1 .. Len(s.tab) /\ NsCount(s.tab) \in Nat /\ s.max \in Nat
  BY SetFacts DEF MergedUpto
<1>3. /\ \A k \in DOMAIN s.tab : s.tab[k] \in ToSet(s1.tab) \/ \E j \in 1 .. i - 1 : s.tab[k] = t[j]
      /\ Len(s1.tab) + Len(t) <= XPATH_MAX_NODESET_LENGTH =>
           /\ Len(s.tab) <= Len(s1.tab) + (i - 1)
           /\ NsCount(s.tab) = NsCount(s1.tab) + Cardinality(NewCopies(s1, t, i - 1))
  BY DEF MergedUpto
<1>4. /\ Cardinality(NewCopies(s1, t, i)) \in Nat
      /\ Cardinality(NewCopies(s1, t, i)) = Cardinality(NewCopies(s1, t, i - 1))
           + (IF IsNs(t[i]) /\ ~ContainsNode(s1, t[i]) THEN 1 ELSE 0)
      /\ i - 1 \in Nat
  BY <1>1, NewCopiesSteps, NewCopiesFinite
<1>5. Cardinality(NewCopies(s1, t, i - 1)) \in Nat
  BY <1>4, NewCopiesFinite
<1>6. CASE ContainsNode(s1, t[i])
  <2>1. r = s
    BY <1>6
  <2>2. \A k \in DOMAIN s.tab : s.tab[k] \in ToSet(s1.tab) \/ \E j \in 1 .. i : s.tab[k] = t[j]
    BY <1>1, <1>3
  <2>3. Len(s1.tab) + Len(t) <= XPATH_MAX_NODESET_LENGTH =>
          /\ Len(s.tab) <= Len(s1.tab) + i
          /\ NsCount(s.tab) = NsCount(s1.tab) + Cardinality(NewCopies(s1, t, i))
    BY <1>1, <1>2, <1>3, <1>4, <1>5, <1>6
  <2> QED
    BY <1>2, <2>1, <2>2, <2>3 DEF MergedUpto
<1>7. CASE ~ContainsNode(s1, t[i])
  <2>1. t[i] \notin ToSet(s.tab)
    <3>1. ASSUME NEW k \in DOMAIN s.tab, s.tab[k] = t[i] PROVE FALSE
      <4>1. PICK j \in 1 .. i - 1 : t[j] = t[i]
        BY <1>3, <1>7, <3>1 DEF ContainsNode
      <4>2. j \in DOMAIN t /\ i \in DOMAIN t /\ j # i
        BY <1>1
      <4> QED
        BY <4>1, <4>2 DEF IsInjective
    <3> QED
      BY <3>1 DEF ToSet
  <2>2. r = AddUnique(s, t[i])
    BY <1>7
  <2>3. /\ NodeSet(r)
        /\ HasSpace(s) => /\ r.tab = Append(s.tab, t[i])
                          /\ NsCount(r.tab) = NsCount(s.tab) + (IF IsNs(t[i]) THEN 1 ELSE 0)
        /\ ~HasSpace(s) => r = s
    BY <1>1, <1>2, <2>1, <2>2, AddUniqueSound
  <2>4. Len(s1.tab) + Len(t) <= XPATH_MAX_NODESET_LENGTH => HasSpace(s)
    <3>1. Len(s1.tab) + Len(t) <= XPATH_MAX_NODESET_LENGTH => Len(s.tab) < XPATH_MAX_NODESET_LENGTH
      BY <1>1, <1>2, <1>3, SetsAssumption
    <3> QED
      BY <1>1, <1>2, <3>1, SetsAssumption DEF HasSpace
  <2>5. CASE HasSpace(s)
    <3>1. /\ Len(r.tab) = Len(s.tab) + 1 /\ DOMAIN r.tab = 1 .. Len(s.tab) + 1 /\ r.tab[Len(s.tab) + 1] = t[i]
          /\ \A k \in 1 .. Len(s.tab) : r.tab[k] = s.tab[k]
      <4>1. s.tab \in Seq(SetNode) /\ r.tab = Append(s.tab, t[i]) /\ r.tab \in Seq(SetNode)
        BY <1>2, <2>3, <2>5, SetFacts
      <4>2. /\ Len(Append(s.tab, t[i])) = Len(s.tab) + 1 /\ Append(s.tab, t[i])[Len(s.tab) + 1] = t[i]
            /\ \A k \in 1 .. Len(s.tab) : Append(s.tab, t[i])[k] = s.tab[k]
        BY <1>1, <4>1, AppendProperties
      <4>3. DOMAIN r.tab = 1 .. Len(r.tab)
        BY <4>1, LenProperties
      <4> QED
        BY <4>1, <4>2, <4>3
    <3>2. \A k \in DOMAIN r.tab : r.tab[k] \in ToSet(s1.tab) \/ \E j \in 1 .. i : r.tab[k] = t[j]
      <4>1. \A k \in 1 .. Len(s.tab) + 1 : k \in 1 .. Len(s.tab) \/ k = Len(s.tab) + 1
        BY <1>2
      <4> QED
        BY <1>1, <1>2, <1>3, <3>1, <4>1
    <3>3. Len(s1.tab) + Len(t) <= XPATH_MAX_NODESET_LENGTH =>
            /\ Len(r.tab) <= Len(s1.tab) + i
            /\ NsCount(r.tab) = NsCount(s1.tab) + Cardinality(NewCopies(s1, t, i))
      BY <1>1, <1>2, <1>3, <1>4, <1>5, <1>7, <2>3, <2>5, <3>1
    <3> QED
      BY <2>3, <3>2, <3>3 DEF MergedUpto
  <2>6. CASE ~HasSpace(s)
    BY <1>1, <1>2, <1>3, <2>3, <2>4, <2>6 DEF MergedUpto
  <2> QED
    BY <2>5, <2>6
<1> QED
  BY <1>6, <1>7

\* All steps of a merge.
LEMMA MergeWhole ==
  ASSUME NEW s1, NodeSet(s1), NEW t \in Seq(SetNode), IsInjective(t),
         NEW f, f[0] = s1,
         \A i \in 1 .. Len(t) : f[i] = IF ContainsNode(s1, t[i]) THEN f[i - 1] ELSE AddUnique(f[i - 1], t[i])
  PROVE  MergedUpto(f[Len(t)], s1, t, Len(t))
<1> DEFINE S == {i \in Nat : MergedUpto(f[i], s1, t, i)}
<1>1. Len(t) \in Nat
  BY LenProperties
<1>2. 0 \in S
  <2>1. 1 \in Nat \ {0} /\ Len(s1.tab) \in Nat /\ NsCount(s1.tab) \in Nat
    BY SetFacts
  <2>2. Cardinality(NewCopies(s1, t, 0)) = 0
    BY <2>1, NewCopiesSteps
  <2>3. \A k \in DOMAIN s1.tab : s1.tab[k] \in ToSet(s1.tab)
    BY DEF ToSet
  <2> QED
    BY <2>1, <2>2, <2>3 DEF MergedUpto
<1>3. ASSUME NEW i \in 1 .. Len(t), i - 1 \in S PROVE i \in S
  <2>1. MergedUpto(f[i - 1], s1, t, i - 1) /\ i \in Nat
    BY <1>1, <1>3
  <2>2. MergedUpto(f[i], s1, t, i)
    BY <2>1, MergeStep
  <2> QED
    BY <2>1, <2>2
<1> HIDE DEF S
<1>4. \A i \in 0 .. Len(t) : i \in S
  BY <1>1, <1>2, <1>3, InductionUpto
<1> QED
  BY <1>1, <1>4 DEF S
-----------------------------------------------------------------------------
LEMMA SetsInitially == NInit => SetsInv
  BY EmptySetSound DEF NInit, SetsInv

\* What can be added is a node of a set.
LEMMA NodesOfSets ==
  /\ \A i \in Place : Ordinary(i) \in SetNode /\ ~IsNs(Ordinary(i))
  /\ \A d \in Declaration : [id |-> d.id, prefix |-> d.prefix] \in SetNode /\ IsNs([id |-> d.id, prefix |-> d.prefix])
  BY SetsAssumption DEF SetNode, Ordinary, IsNs

\* nl_xmlXPathNodeSetAdd.
LEMMA AddKeeps ==
  ASSUME SetsInv, NEW i \in Place, Add(i)
  PROVE  SetsInv'
<1> DEFINE n == Ordinary(i)
<1>1. n \in SetNode /\ ~IsNs(n) /\ NodeSet(set1)
  BY NodesOfSets DEF SetsInv
<1>2. set2' = set2 /\ copies' = copies
  BY DEF Add
<1> HIDE DEF n
<1>3. CASE ContainsNode(set1, n)
  BY <1>2, <1>3 DEF Add, SetsInv, n
<1>4. CASE ~ContainsNode(set1, n)
  <2>1. set1' = AddUnique(set1, n) /\ n \notin ToSet(set1.tab)
    BY <1>4 DEF Add, ContainsNode, n
  <2>2. NodeSet(set1') /\ NsCount(set1'.tab) = NsCount(set1.tab)
    <3>1. NsCount(set1.tab) \in Nat
      BY <1>1, SetFacts
    <3> QED
      BY <1>1, <2>1, <3>1, AddUniqueSound
  <2> QED
    BY <1>2, <2>2 DEF SetsInv
<1> QED
  BY <1>3, <1>4

\* nl_xmlXPathNodeSetAddNs.
LEMMA AddNsKeeps ==
  ASSUME SetsInv, NEW d \in Declaration, AddNs(d.id, d.prefix)
  PROVE  SetsInv'
<1> DEFINE n == [id |-> d.id, prefix |-> d.prefix]
           new == ~ContainsNode(set1, n) /\ HasSpace(set1)
<1>1. n \in SetNode /\ IsNs(n) /\ NodeSet(set1) /\ NodeSet(set2)
  BY NodesOfSets DEF SetsInv
<1>2. /\ set1' = IF new THEN AddUnique(set1, n) ELSE set1
      /\ copies' = copies + (IF new THEN 1 ELSE 0) /\ set2' = set2
  BY DEF AddNs
<1> HIDE DEF n
<1>3. NsCount(set1.tab) \in Nat /\ NsCount(set2.tab) \in Nat /\ copies = NsCount(set1.tab) + NsCount(set2.tab)
  BY <1>1, SetFacts DEF SetsInv
<1>4. CASE new
  <2>1. n \notin ToSet(set1.tab)
    BY <1>4 DEF ContainsNode
  <2>2. NodeSet(set1') /\ NsCount(set1'.tab) = NsCount(set1.tab) + 1
    BY <1>1, <1>2, <1>4, <2>1, AddUniqueSound
  <2>3. copies' = NsCount(set1'.tab) + NsCount(set2'.tab)
    BY <1>2, <1>3, <1>4, <2>2
  <2> QED
    BY <1>1, <1>2, <2>2, <2>3 DEF SetsInv
<1>5. CASE ~new
  BY <1>1, <1>2, <1>3, <1>5 DEF SetsInv
<1> QED
  BY <1>4, <1>5

\* A place is taken out.
LEMMA RemoveFromKeeps ==
  ASSUME SetsInv, NEW at \in 1 .. Len(set1.tab), RemoveFrom(at)
  PROVE  SetsInv'
<1> DEFINE t == set1.tab
           u == RemoveAt(t, at)
<1>1. NodeSet(set1) /\ NodeSet(set2) /\ copies = NsCount(t) + NsCount(set2.tab)
  BY DEF SetsInv
<1>2. t \in Seq(SetNode) /\ set1.max \in Nat /\ Len(t) \in Nat /\ Len(t) <= set1.max /\ IsInjective(t)
  BY <1>1, SetFacts DEF NodeSet
<1>3. set1' = [tab |-> u, max |-> set1.max] /\ set2' = set2 /\ copies' = copies - NsCount(<<t[at]>>)
  BY <1>1 DEF RemoveFrom, NodeSet, SetRecord
<1>4. u \in Seq(SetNode) /\ Len(u) = Len(t) - 1 /\ IsInjective(u)
  BY <1>2, RemovedSeq, RemovedIsInjective
<1>5. NsCount(u) = NsCount(t) - NsCount(<<t[at]>>)
  BY <1>2, CopiesOfRemoved
<1>6. NsCount(t) \in Nat /\ NsCount(set2.tab) \in Nat /\ NsCount(<<t[at]>>) \in Nat
  BY <1>1, CopiesOfOne, SetFacts
<1> HIDE DEF t, u
<1>7. NodeSet(set1')
  BY <1>2, <1>3, <1>4 DEF NodeSet, SetRecord
<1>8. copies' = NsCount(set1'.tab) + NsCount(set2'.tab)
  BY <1>1, <1>3, <1>5, <1>6
<1> QED
  BY <1>1, <1>3, <1>7, <1>8 DEF SetsInv

\* nl_xmlXPathNodeSetDel and nl_xmlXPathNodeSetRemove.
LEMMA DelKeeps ==
  ASSUME SetsInv, NEW n, Del(n)
  PROVE  SetsInv'
<1> DEFINE at == SelectInSeq(set1.tab, LAMBDA m : m = n)
<1>1. set1.tab \in Seq(SetNode) /\ n \in ToSet(set1.tab)
  BY SetFacts DEF SetsInv, Del, ContainsNode
<1>2. at \in 1 .. Len(set1.tab)
  BY <1>1, FoundInSeq
<1>3. RemoveFrom(at)
  BY DEF Del
<1> HIDE DEF at
<1> QED
  BY <1>2, <1>3, RemoveFromKeeps

\* The set is cut behind a place, and the copies beyond it are freed.
LEMMA CutKeeps ==
  ASSUME SetsInv, NEW pos \in 0 .. Len(set1.tab),
         set1' = [set1 EXCEPT !.tab = SubSeq(@, 1, pos)], set2' = set2,
         copies' = copies - NsCount(SubSeq(set1.tab, pos + 1, Len(set1.tab)))
  PROVE  SetsInv'
<1> DEFINE t == set1.tab
           u == SubSeq(t, 1, pos)
           v == SubSeq(t, pos + 1, Len(t))
<1>1. NodeSet(set1) /\ NodeSet(set2) /\ copies = NsCount(t) + NsCount(set2.tab)
  BY DEF SetsInv
<1>2. /\ t \in Seq(SetNode) /\ set1.max \in Nat /\ Len(t) \in Nat /\ DOMAIN t = 1 .. Len(t) /\ Len(t) <= set1.max
      /\ IsInjective(t) /\ \A i \in 1 .. Len(t) : t[i] \in SetNode
  BY <1>1, SetFacts, ElementOfSeq DEF NodeSet
<1>3. set1' = [tab |-> u, max |-> set1.max]
  BY <1>1 DEF NodeSet, SetRecord
<1>4. u \in Seq(SetNode) /\ v \in Seq(SetNode) /\ NsCount(t) = NsCount(u) + NsCount(v)
  BY <1>2, CopiesOfParts
<1>5. Len(u) = pos /\ \A i \in 1 .. pos : u[i] = t[i]
  <2>1. \A i \in 1 .. pos : t[i] \in SetNode
    BY <1>2
  <2>2. /\ Len(u) = (IF 1 <= pos THEN pos - 1 + 1 ELSE 0)
        /\ \A i \in 1 .. pos - 1 + 1 : u[i] = t[1 + i - 1]
    BY <1>2, <2>1, SubSeqProperties
  <2> HIDE DEF t, u
  <2> QED
    BY <1>2, <2>2
<1>6. NsCount(u) \in Nat /\ NsCount(v) \in Nat /\ NsCount(set2.tab) \in Nat
  BY <1>1, <1>4, CopiesOfConcat, SetFacts
<1>7. pos \in Nat /\ pos <= Len(t)
  BY <1>2
<1>8. copies' = copies - NsCount(v) /\ set2' = set2
  OBVIOUS
<1>12. set1'.tab = u /\ set1'.max = set1.max
  BY <1>3
<1> HIDE DEF t, u, v
<1>9. IsInjective(u)
  <2>1. DOMAIN u = 1 .. pos /\ 1 .. pos \subseteq 1 .. Len(t)
    BY <1>2, <1>4, <1>5, <1>7, LenProperties
  <2> QED
    BY <1>2, <1>5, <2>1 DEF IsInjective
<1>10. NodeSet(set1')
  <2>1. Len(u) <= set1.max
    BY <1>2, <1>5, <1>7
  <2>2. set1'.tab = u /\ set1'.max = set1.max
    BY <1>12
  <2> QED
    BY <1>2, <1>3, <1>4, <1>9, <2>1, <2>2 DEF NodeSet, SetRecord
<1>11. copies' = NsCount(set1'.tab) + NsCount(set2'.tab)
  <2>1. NsCount(set1'.tab) = NsCount(u)
    BY <1>12
  <2>2. NsCount(set2'.tab) = NsCount(set2.tab)
    BY <1>8
  <2>3. copies - NsCount(v) = NsCount(u) + NsCount(set2.tab)
    BY <1>1, <1>4, <1>6
  <2> QED
    BY <1>8, <2>1, <2>2, <2>3
<1> QED
  BY <1>1, <1>8, <1>10, <1>11 DEF SetsInv

\* The last node alone stays.
LEMMA KeepLastKeeps ==
  ASSUME SetsInv, KeepLast
  PROVE  SetsInv'
<1> DEFINE t == set1.tab
           last == <<t[Len(t)]>>
<1>1. NodeSet(set1) /\ NodeSet(set2) /\ copies = NsCount(t) + NsCount(set2.tab)
  BY DEF SetsInv
<1>2. /\ t \in Seq(SetNode) /\ set1.max \in Nat /\ Len(t) \in Nat /\ Len(t) <= set1.max /\ Len(t) > 1
      /\ \A i \in 1 .. Len(t) : t[i] \in SetNode
  BY <1>1, SetFacts, ElementOfSeq DEF NodeSet, KeepLast
<1>3. set1' = [tab |-> last, max |-> set1.max] /\ set2' = set2 /\ copies' = copies - NsCount(Front(t))
  BY <1>1 DEF KeepLast, NodeSet, SetRecord, Last
<1>4. last \in Seq(SetNode) /\ Len(last) = 1 /\ IsInjective(last)
  BY <1>2 DEF IsInjective
<1>5. NsCount(t) = NsCount(Front(t)) + NsCount(last) /\ NsCount(Front(t)) \in Nat /\ NsCount(last) \in Nat
  <2>1. Len(t) - 1 \in 0 .. Len(t) /\ (Len(t) - 1) + 1 = Len(t) /\ Len(t) \in 1 .. Len(t) /\ Len(t) \in Len(t) .. Len(t)
    BY <1>2
  <2>2. Front(t) = SubSeq(t, 1, Len(t) - 1)
    BY DEF Front
  <2>3. SubSeq(t, Len(t), Len(t)) = last
    <3>1. SubSeq(t, Len(t), Len(t)) = last \o SubSeq(t, Len(t) + 1, Len(t))
      BY <1>2, <2>1, SubSeqRecursiveFirst
    <3>2. SubSeq(t, Len(t) + 1, Len(t)) = <<>>
      BY <1>2, SubSeqEmpty
    <3> HIDE DEF last
    <3> QED
      BY <1>4, <3>1, <3>2, ConcatEmptySeq
  <2> HIDE DEF t, last
  <2>4. /\ SubSeq(t, 1, Len(t) - 1) \in Seq(SetNode)
        /\ NsCount(t) = NsCount(SubSeq(t, 1, Len(t) - 1)) + NsCount(SubSeq(t, (Len(t) - 1) + 1, Len(t)))
    BY <1>2, <2>1, CopiesOfParts
  <2> QED
    BY <1>4, <2>1, <2>2, <2>3, <2>4, CopiesOfConcat
<1>6. NsCount(set2.tab) \in Nat
  BY <1>1, SetFacts
<1> HIDE DEF t, last
<1>7. NodeSet(set1')
  BY <1>2, <1>3, <1>4 DEF NodeSet, SetRecord
<1>8. copies' = NsCount(set1'.tab) + NsCount(set2'.tab)
  BY <1>1, <1>3, <1>5, <1>6
<1> QED
  BY <1>1, <1>3, <1>7, <1>8 DEF SetsInv

\* A set whose nodes have been moved to another.
LEMMA EmptiedSound ==
  ASSUME NEW s, NodeSet(s)
  PROVE  NodeSet([s EXCEPT !.tab = <<>>]) /\ NsCount([s EXCEPT !.tab = <<>>].tab) = 0
<1> DEFINE e == [s EXCEPT !.tab = <<>>]
<1>1. e.tab = <<>> /\ e.max = s.max /\ e = [tab |-> e.tab, max |-> e.max] /\ s.max \in Nat
  BY DEF NodeSet, SetRecord
<1>2. <<>> \in Seq(SetNode) /\ Len(<<>>) = 0 /\ IsInjective(<<>>) /\ NsCount(<<>>) = 0
  BY EmptySetSound DEF EmptySet, NodeSet, SetRecord
<1> HIDE DEF e
<1>3. NodeSet(e)
  <2>1. e \in SetRecord
    BY <1>1, <1>2 DEF SetRecord
  <2>2. IsInjective(e.tab) /\ Len(e.tab) = 0
    BY <1>1, <1>2
  <2> QED
    BY <1>1, <2>1, <2>2 DEF NodeSet
<1>4. NsCount(e.tab) = 0
  BY <1>1, <1>2
<1> QED
  BY <1>3, <1>4 DEF e

\* nl_xmlXPathNodeSetMerge, of any two sets.
LEMMA MergedSound ==
  ASSUME NEW s1, NodeSet(s1), NEW s2, NodeSet(s2)
  PROVE  MergedUpto(Merged(s1, s2), s1, s2.tab, Len(s2.tab))
<1>1. s1 \in SetRecord /\ s2.tab \in Seq(SetNode) /\ IsInjective(s2.tab)
  BY SetFacts DEF NodeSet
<1>2. PICK f \in [0 .. Len(s2.tab) -> SetRecord] : Merging(f, s1, s2)
  BY <1>1, MergedSteps
<1>3. /\ f[0] = s1
      /\ \A i \in 1 .. Len(s2.tab) : f[i] = IF ContainsNode(s1, s2.tab[i]) THEN f[i - 1] ELSE AddUnique(f[i - 1], s2.tab[i])
      /\ f[Len(s2.tab)] = Merged(s1, s2)
  BY <1>2 DEF Merging
<1>4. MergedUpto(f[Len(s2.tab)], s1, s2.tab, Len(s2.tab))
  BY <1>1, <1>3, MergeWhole
<1> QED
  BY <1>3, <1>4

\* The merge that looks for no duplicates, of disjoint sets.
LEMMA AllAddedSound ==
  ASSUME NEW s1, NodeSet(s1), NEW s2, NodeSet(s2), ToSet(s1.tab) \cap ToSet(s2.tab) = {}
  PROVE  MergedUpto(AllAdded(s1, s2.tab), s1, s2.tab, Len(s2.tab))
<1>1. s1 \in SetRecord /\ s2.tab \in Seq(SetNode) /\ IsInjective(s2.tab) /\ DOMAIN s2.tab = 1 .. Len(s2.tab)
  BY SetFacts DEF NodeSet
<1>2. PICK f \in [0 .. Len(s2.tab) -> SetRecord] : Adding(f, s1, s2.tab)
  BY <1>1, AllAddedSteps
<1>3. \A i \in 1 .. Len(s2.tab) : ~ContainsNode(s1, s2.tab[i])
  BY <1>1 DEF ContainsNode, ToSet
<1>4. /\ f[0] = s1
      /\ \A i \in 1 .. Len(s2.tab) : f[i] = IF ContainsNode(s1, s2.tab[i]) THEN f[i - 1] ELSE AddUnique(f[i - 1], s2.tab[i])
      /\ f[Len(s2.tab)] = AllAdded(s1, s2.tab)
  BY <1>2, <1>3 DEF Adding
<1>5. MergedUpto(f[Len(s2.tab)], s1, s2.tab, Len(s2.tab))
  BY <1>1, <1>4, MergeWhole
<1> QED
  BY <1>4, <1>5

\* The copies of the second set are those that are skipped and those that move.
LEMMA CopiesSplit ==
  ASSUME NEW s1, NEW s2, NodeSet(s2)
  PROVE  /\ NsCount(s2.tab) = DuplicateCopies(s1, s2) + Cardinality(NewCopies(s1, s2.tab, Len(s2.tab)))
         /\ DuplicateCopies(s1, s2) \in Nat
         /\ ToSet(s1.tab) \cap ToSet(s2.tab) = {} => DuplicateCopies(s1, s2) = 0
<1> DEFINE A == NsPlaces(s2.tab)
           B == NewCopies(s1, s2.tab, Len(s2.tab))
           D == {i \in DOMAIN s2.tab : IsNs(s2.tab[i]) /\ ContainsNode(s1, s2.tab[i])}
<1>1. Len(s2.tab) \in Nat /\ DOMAIN s2.tab = 1 .. Len(s2.tab)
  BY SetFacts
<1>2. A = D \cup B /\ D \cap B = {}
  BY <1>1 DEF NsPlaces, NewCopies
<1>3. IsFiniteSet(D) /\ IsFiniteSet(B)
  <2>1. D \subseteq 1 .. Len(s2.tab) /\ B \subseteq 1 .. Len(s2.tab)
    BY <1>1 DEF NewCopies
  <2>2. IsFiniteSet(1 .. Len(s2.tab))
    <3>1. 1 \in Int /\ Len(s2.tab) \in Int
      BY <1>1
    <3> QED
      BY <3>1, FS_Interval
  <2> HIDE DEF B, D
  <2> QED
    BY <2>1, <2>2, FS_Subset
<1>4. ToSet(s1.tab) \cap ToSet(s2.tab) = {} => D = {}
  BY <1>1 DEF ContainsNode, ToSet
<1>5. NsCount(s2.tab) = Cardinality(A) /\ DuplicateCopies(s1, s2) = Cardinality(D)
  BY DEF NsCount, NsPlaces, DuplicateCopies
<1> HIDE DEF A, B, D
<1>6. Cardinality(D \cap B) = 0 /\ Cardinality(D) \in Nat /\ Cardinality(B) \in Nat
  BY <1>2, <1>3, FS_EmptySet, FS_CardinalityType
<1>7. Cardinality(A) = Cardinality(D) + Cardinality(B) - Cardinality(D \cap B)
  BY <1>2, <1>3, FS_Union
<1>8. ToSet(s1.tab) \cap ToSet(s2.tab) = {} => Cardinality(D) = 0
  BY <1>4, FS_EmptySet
<1>9. Cardinality(A) = Cardinality(D) + Cardinality(B)
  BY <1>6, <1>7
<1> QED
  BY <1>5, <1>6, <1>8, <1>9 DEF B

\* Whatever merges the sets.
LEMMA MergesKeep ==
  ASSUME SetsInv, MergeSets \/ MergeAndClear \/ MergeAndClearNoDupls
  PROVE  SetsInv'
<1> DEFINE t == set2.tab
           new == Cardinality(NewCopies(set1, t, Len(t)))
<1>1. NodeSet(set1) /\ NodeSet(set2) /\ copies = NsCount(set1.tab) + NsCount(t)
  BY DEF SetsInv
<1>2. NsCount(set1.tab) \in Nat /\ NsCount(t) \in Nat /\ Len(t) \in Nat
  BY <1>1, SetFacts
<1>3. new \in Nat
  BY <1>2, NewCopiesFinite
<1>4. CASE MergeSets
  <2>1. set1' = Merged(set1, set2) /\ set2' = set2 /\ copies' = copies + NsCount(set1'.tab) - NsCount(set1.tab)
    BY <1>4 DEF MergeSets
  <2>2. NodeSet(set1')
    BY <1>1, <2>1, MergedSound DEF MergedUpto
  <2>3. NsCount(set1'.tab) \in Nat
    BY <2>2, SetFacts
  <2>4. copies' = NsCount(set1'.tab) + NsCount(set2'.tab)
    BY <1>1, <1>2, <2>1, <2>3
  <2> QED
    BY <1>1, <2>1, <2>2, <2>4 DEF SetsInv
<1>5. ASSUME MergedUpto(set1', set1, t, Len(t)), Roomy, set2' = [set2 EXCEPT !.tab = <<>>],
             copies' = copies - DuplicateCopies(set1, set2)
      PROVE  SetsInv'
  <2>1. NodeSet(set1') /\ NsCount(set1'.tab) = NsCount(set1.tab) + new
    BY <1>5 DEF MergedUpto, Roomy
  <2>2. NodeSet(set2') /\ NsCount(set2'.tab) = 0
    BY <1>1, <1>5, EmptiedSound
  <2>3. NsCount(t) = DuplicateCopies(set1, set2) + new /\ DuplicateCopies(set1, set2) \in Nat
    BY <1>1, CopiesSplit
  <2> HIDE DEF t, new
  <2>4. copies' = NsCount(set1'.tab) + NsCount(set2'.tab)
    BY <1>1, <1>2, <1>3, <1>5, <2>1, <2>2, <2>3
  <2> QED
    BY <2>1, <2>2, <2>4 DEF SetsInv
<1>6. CASE MergeAndClear
  BY <1>1, <1>5, <1>6, MergedSound DEF MergeAndClear
<1>7. CASE MergeAndClearNoDupls
  <2>1. ToSet(set1.tab) \cap ToSet(t) = {} /\ set1' = AllAdded(set1, t) /\ copies' = copies
    BY <1>7 DEF MergeAndClearNoDupls
  <2>2. DuplicateCopies(set1, set2) = 0
    BY <1>1, <2>1, CopiesSplit
  <2>3. copies' = copies - DuplicateCopies(set1, set2)
    BY <1>1, <1>2, <2>1, <2>2
  <2> QED
    BY <1>1, <1>5, <1>7, <2>1, <2>3, AllAddedSound DEF MergeAndClearNoDupls
<1> QED
  BY <1>4, <1>6, <1>7

LEMMA SetsNextKeeps ==
  ASSUME SetsInv, [NNext]_setVars
  PROVE  SetsInv'
<1>0. /\ NodeSet(set1) /\ NodeSet(set2) /\ copies = NsCount(set1.tab) + NsCount(set2.tab)
      /\ NsCount(set1.tab) \in Nat /\ NsCount(set2.tab) \in Nat
      /\ DOMAIN set1.tab = 1 .. Len(set1.tab) /\ Len(set1.tab) \in Nat
  BY SetFacts DEF SetsInv
<1>1. ASSUME NEW at, RemoveNth(at) PROVE SetsInv'
  BY <1>0, <1>1, RemoveFromKeeps DEF RemoveNth
<1>2. ASSUME NEW pos \in Nat, NEW ns, ClearFromPos(pos, ns) PROVE SetsInv'
  <2>1. pos \in 0 .. Len(set1.tab)
    BY <1>0, <1>2 DEF ClearFromPos
  <2> QED
    BY <1>2, <2>1, CutKeeps DEF ClearFromPos
<1>3. CASE FreeNodeSet
  <2>1. set1' = EmptySet /\ set2' = set2 /\ copies' = copies - NsCount(set1.tab)
    BY <1>3 DEF FreeNodeSet
  <2>2. copies' = NsCount(set1'.tab) + NsCount(set2'.tab)
    BY <1>0, <2>1, EmptySetSound
  <2> QED
    BY <1>0, <2>1, <2>2, EmptySetSound DEF SetsInv
<1>4. CASE Swap
  BY <1>0, <1>4 DEF Swap, SetsInv
<1>5. CASE UNCHANGED setVars
  BY <1>5 DEF setVars, SetsInv
<1>6. CASE NNext
  <2>1. ASSUME NEW n \in 0 .. Cardinality(Place), NEW ns \in BOOLEAN, ClearFromPos(n, ns) PROVE SetsInv'
    BY <1>2, <2>1
  <2> QED
    BY <1>1, <1>3, <1>4, <1>6, <2>1, AddKeeps, AddNsKeeps, DelKeeps, KeepLastKeeps, MergesKeep DEF NNext
<1> QED
  BY <1>5, <1>6

LEMMA SetsImplied == SetsInv => SetsSound
  BY DEF SetsInv, SetsSound, NodeSet

\* No node is twice in a node set and every copy of a namespace node belongs to one set,
\* whatever sequence of additions, removals and merges has been gone through, whatever the
\* declarations, also when the limit is hit (nl_xmlXPathNodeSetAdd to
\* nl_xmlXPathFreeNodeSet).
THEOREM NodeSetsSound == NSpec => []SetsSound
<1>1. NInit => SetsInv
  BY SetsInitially
<1>2. SetsInv /\ [NNext]_setVars => SetsInv'
  BY SetsNextKeeps
<1> QED
  BY <1>1, <1>2, SetsImplied, PTL DEF NSpec
-----------------------------------------------------------------------------
(* The keys of the threads.                                                 *)
Kind == {"free", "list"} \cup Key

Specifics == [NativeThread -> [Key -> Address \cup {NULL}]]

\* What CachesLive says of a memory m, the keys s, the living threads l and the
\* abandoned lists b, thread by thread and address by address.
KeysOwn(m, s, l) ==
  \A t \in NativeThread, k \in Key : s[t][k] # NULL => t \in l /\ m[s[t][k]] = k

Unshared(s) ==
  \A t, u \in NativeThread, j, k \in Key : s[t][j] = s[u][k] /\ s[t][j] # NULL => t = u

NothingLost(m, s, b) ==
  \A a \in Address : m[a] # "free" => a \in b \/ \E t \in NativeThread, k \in Key : s[t][k] = a

AllLists(m, b) == \A a \in b : m[a] = "list"

Sound(m, s, l, b) ==
  /\ m \in [Address -> Kind] /\ s \in Specifics /\ l \subseteq NativeThread /\ b \subseteq Address
  /\ KeysOwn(m, s, l) /\ Unshared(s) /\ NothingLost(m, s, b) /\ AllLists(m, b)

\* The inductive invariant.
CachesInv == Sound(memory, specific, alive, abandoned)

USE AddressAssumption

LEMMA CachesInitially == TInit => CachesInv
  BY DEF TInit, CachesInv, Sound, KeysOwn, Unshared, NothingLost, AllLists, Kind, Specifics, Key

LEMMA CachesImplied == CachesInv => CachesLive
<1> SUFFICES ASSUME CachesInv PROVE CachesLive
  OBVIOUS
<1> DEFINE held == {h \in alive \X Key : specific[h[1]][h[2]] # NULL}
<1>1. \A h \in held : memory[specific[h[1]][h[2]]] = h[2]
  BY DEF CachesInv, Sound, KeysOwn
<1>2. \A g, h \in held : specific[g[1]][g[2]] = specific[h[1]][h[2]] => g = h
  <2> SUFFICES ASSUME NEW g \in held, NEW h \in held,
                      specific[g[1]][g[2]] = specific[h[1]][h[2]]
               PROVE  g = h
    OBVIOUS
  <2>1. g[2] = h[2]
    BY <1>1
  <2>2. g[1] = h[1]
    BY DEF CachesInv, Sound, Unshared
  <2> QED
    BY <2>1, <2>2
<1>3. ASSUME NEW a \in Address, memory[a] # "free", a \notin abandoned
      PROVE  \E h \in held : specific[h[1]][h[2]] = a
  <2>1. PICK t \in NativeThread, k \in Key : specific[t][k] = a
    BY <1>3 DEF CachesInv, Sound, NothingLost
  <2>2. <<t, k>> \in held
    BY <2>1 DEF CachesInv, Sound, KeysOwn
  <2> QED
    BY <2>1, <2>2
<1>4. \A a \in abandoned : memory[a] = "list"
  BY DEF CachesInv, Sound, AllLists
<1> QED
  BY <1>1, <1>2, <1>3, <1>4 DEF CachesLive

-----------------------------------------------------------------------------
\* An object that is made and put into its empty key.
LEMMA Making ==
  ASSUME NEW m, NEW s, NEW l, NEW b, Sound(m, s, l, b),
         NEW t \in l, NEW k \in Key, s[t][k] = NULL, NEW a \in Address, m[a] = "free"
  PROVE  Sound([m EXCEPT ![a] = k], [s EXCEPT ![t][k] = a], l, b)
<1> DEFINE m1 == [m EXCEPT ![a] = k]
           s1 == [s EXCEPT ![t][k] = a]
<1>1. m1 \in [Address -> Kind] /\ s1 \in Specifics
  BY DEF Sound, Specifics, Kind
<1>2. \A u \in NativeThread, j \in Key : s[u][j] # a
  BY DEF Sound, KeysOwn, Key, Specifics
<1>3. \A u \in NativeThread, j \in Key :
        s1[u][j] = IF u = t /\ j = k THEN a ELSE s[u][j]
  BY DEF Sound, Specifics
<1>4. KeysOwn(m1, s1, l)
  BY <1>2, <1>3 DEF Sound, KeysOwn, Specifics
<1>5. Unshared(s1)
  BY <1>2, <1>3 DEF Sound, Unshared
<1>6. NothingLost(m1, s1, b)
  <2> SUFFICES ASSUME NEW c \in Address, m1[c] # "free", c \notin b
               PROVE  \E u \in NativeThread, j \in Key : s1[u][j] = c
    BY DEF NothingLost
  <2>1. CASE c = a
    BY <2>1, <1>3 DEF Sound
  <2>2. CASE c # a
    <3>1. PICK u \in NativeThread, j \in Key : s[u][j] = c
      BY <2>2 DEF Sound, NothingLost
    <3>2. c # NULL
      OBVIOUS
    <3> QED
      BY <3>1, <3>2, <1>3
  <2> QED
    BY <2>1, <2>2
<1>7. AllLists(m1, b)
  BY DEF Sound, AllLists
<1> QED
  BY <1>1, <1>4, <1>5, <1>6, <1>7 DEF Sound

\* The object of a key that is destroyed, when the key is cleared.
LEMMA Dropping ==
  ASSUME NEW m, NEW s, NEW l, NEW b, Sound(m, s, l, b), NEW t \in NativeThread, NEW k \in Key
  PROVE  Sound(Destroy(m, s[t][k]), [s EXCEPT ![t][k] = NULL], l, b)
<1> DEFINE m1 == Destroy(m, s[t][k])
           s1 == [s EXCEPT ![t][k] = NULL]
<1>1. m1 \in [Address -> Kind] /\ s1 \in Specifics
  BY DEF Sound, Specifics, Kind, Destroy
<1>2. \A u \in NativeThread, j \in Key :
        s1[u][j] = IF u = t /\ j = k THEN NULL ELSE s[u][j]
  BY DEF Sound, Specifics
<1>3. \A u \in NativeThread, j \in Key :
        s[u][j] # NULL /\ s[u][j] = s[t][k] => u = t /\ j = k
  BY DEF Sound, Unshared, KeysOwn
<1>4. \A c \in Address : m1[c] = IF c = s[t][k] THEN "free" ELSE m[c]
  BY DEF Sound, Destroy
<1>5. KeysOwn(m1, s1, l)
  BY <1>2, <1>3, <1>4 DEF Sound, KeysOwn, Specifics
<1>6. Unshared(s1)
  BY <1>2 DEF Sound, Unshared
<1>7. NothingLost(m1, s1, b)
  <2> SUFFICES ASSUME NEW c \in Address, m1[c] # "free", c \notin b
               PROVE  \E u \in NativeThread, j \in Key : s1[u][j] = c
    BY DEF NothingLost
  <2>1. c # s[t][k] /\ m[c] # "free"
    BY <1>4
  <2>2. PICK u \in NativeThread, j \in Key : s[u][j] = c
    BY <2>1 DEF Sound, NothingLost
  <2> QED
    BY <2>1, <2>2, <1>2
<1>8. AllLists(m1, b)
  <2> SUFFICES ASSUME NEW c \in b PROVE m1[c] = "list"
    BY DEF AllLists
  <2>1. m[c] = "list" /\ c \in Address
    BY DEF Sound, AllLists
  <2>2. c # s[t][k]
    BY <2>1 DEF Sound, KeysOwn, Key
  <2> QED
    BY <2>1, <2>2, <1>4
<1> QED
  BY <1>1, <1>5, <1>6, <1>7, <1>8 DEF Sound

-----------------------------------------------------------------------------
\* nl_node_find and nl_document_parse_native: the object of a key is there, or made;
\* one address at most is taken for it.
LEMMA Obtaining ==
  ASSUME NEW m, NEW s, NEW l, NEW b, Sound(m, s, l, b),
         NEW t \in l, NEW k \in Key, s[t][k] = specific[t][k],
         \E a \in Address : m[a] = "free"
  PROVE  /\ Sound(Obtain(m, t, k).m, [s EXCEPT ![t][k] = Obtain(m, t, k).a], l, b)
         /\ Obtain(m, t, k).a \in Address
         /\ \E c \in Address : \A a \in Address \ {c} : Obtain(m, t, k).m[a] = m[a]
<1>1. CASE s[t][k] # NULL
  <2>1. Obtain(m, t, k).m = m /\ Obtain(m, t, k).a = s[t][k]
    BY <1>1 DEF Obtain
  <2>2. t \in NativeThread /\ s \in Specifics
    BY DEF Sound
  <2>3. [s EXCEPT ![t][k] = s[t][k]] = s
    BY <2>2 DEF Specifics
  <2>4. s[t][k] \in Address
    BY <2>2, <1>1 DEF Specifics
  <2> QED
    BY <2>1, <2>3, <2>4
<1>2. CASE s[t][k] = NULL
  <2>1. FreshAddress(m) \in Address /\ m[FreshAddress(m)] = "free"
    BY DEF FreshAddress
  <2>2. /\ Obtain(m, t, k).m = [m EXCEPT ![FreshAddress(m)] = k]
        /\ Obtain(m, t, k).a = FreshAddress(m)
    BY <1>2 DEF Obtain, CreateAt
  <2>3. m \in [Address -> Kind]
    BY DEF Sound
  <2>4. Sound(Obtain(m, t, k).m, [s EXCEPT ![t][k] = Obtain(m, t, k).a], l, b)
    BY <2>1, <2>2, <1>2, Making
  <2>5. \A a \in Address \ {FreshAddress(m)} : Obtain(m, t, k).m[a] = m[a]
    BY <2>1, <2>2, <2>3
  <2> QED
    BY <2>1, <2>2, <2>4, <2>5
<1> QED
  BY <1>1, <1>2

\* A list that is never destroyed.
LEMMA Abandoning ==
  ASSUME NEW m, NEW s, NEW l, NEW b, Sound(m, s, l, b), NEW a \in Address, m[a] = "free"
  PROVE  Sound([m EXCEPT ![a] = "list"], s, l, b \cup {a})
<1>1. \A u \in NativeThread, j \in Key : s[u][j] # a
  BY DEF Sound, KeysOwn, Key, Specifics
<1> QED
  BY <1>1 DEF Sound, KeysOwn, Unshared, NothingLost, AllLists, Specifics, Kind

\* What is free when there is room.
LEMMA RoomForOne ==
  ASSUME Room(1) PROVE \E a \in Address : memory[a] = "free"
<1> DEFINE F == {a \in Address : memory[a] = "free"}
<1>1. F # {}
  BY FS_EmptySet DEF Room
<1> QED
  BY <1>1

LEMMA RoomForTwo ==
  ASSUME Room(2)
  PROVE  \E x, y \in Address : x # y /\ memory[x] = "free" /\ memory[y] = "free"
<1> DEFINE F == {a \in Address : memory[a] = "free"}
<1>1. Cardinality(F) >= 2
  BY DEF Room
<1> HIDE DEF F
<1>2. F # {}
  BY <1>1, FS_EmptySet
<1>3. ASSUME NEW x PROVE F # {x}
  BY <1>1, FS_Singleton
<1>4. PICK x \in F : TRUE
  BY <1>2
<1>5. PICK y \in F : y # x
  BY <1>3, <1>4
<1> QED
  BY <1>4, <1>5 DEF F

LEMMA RoomForThree ==
  ASSUME Room(3)
  PROVE  \E x, y, z \in Address : /\ x # y /\ x # z /\ y # z
                                  /\ memory[x] = "free" /\ memory[y] = "free" /\ memory[z] = "free"
<1> DEFINE F == {a \in Address : memory[a] = "free"}
<1>1. Cardinality(F) >= 3
  BY DEF Room
<1> HIDE DEF F
<1>2. ASSUME NEW x, NEW y, x # y PROVE F # {x, y}
  <2>1. IsFiniteSet({x}) /\ Cardinality({x}) = 1
    BY FS_Singleton
  <2>2. Cardinality({x} \cup {y}) = 2
    BY <2>1, <1>2, FS_AddElement
  <2>3. {x, y} = {x} \cup {y}
    OBVIOUS
  <2> QED
    BY <2>2, <2>3, <1>1
<1>3. PICK x \in F : TRUE
  BY <1>1, FS_EmptySet
<1>4. PICK y \in F : y # x
  <2>1. F # {x}
    BY <1>1, FS_Singleton
  <2> QED
    BY <2>1, <1>3
<1>5. PICK z \in F : z # x /\ z # y
  BY <1>2, <1>3, <1>4
<1> QED
  BY <1>3, <1>4, <1>5 DEF F

-----------------------------------------------------------------------------
LEMMA StartsSoundly == ASSUME CachesInv, ThreadStarts PROVE CachesInv'
<1>1. PICK t \in NativeThread \ alive :
        /\ alive' = alive \cup {t}
        /\ specific' = [specific EXCEPT ![t] = [k \in Key |-> NULL]]
  BY DEF ThreadStarts
<1>2. specific[t] = [k \in Key |-> NULL]
  BY <1>1 DEF CachesInv, Sound, KeysOwn, Specifics
<1>3. specific' = specific
  BY <1>1, <1>2 DEF CachesInv, Sound, Specifics
<1> QED
  BY <1>1, <1>3 DEF ThreadStarts, CachesInv, Sound, KeysOwn

LEMMA EndsSoundly == ASSUME CachesInv, ThreadEnds PROVE CachesInv'
<1>1. PICK t \in alive :
        /\ alive' = alive \ {t}
        /\ specific' = [specific EXCEPT ![t] = [k \in Key |-> NULL]]
        /\ memory' = [a \in Address |->
                        IF a \in {specific[t][k] : k \in Key} THEN "free" ELSE memory[a]]
  BY DEF ThreadEnds
<1>2. t \in NativeThread
  BY DEF CachesInv, Sound
<1>3. memory' \in [Address -> Kind] /\ specific' \in Specifics /\ alive' \subseteq NativeThread
  BY <1>1, <1>2 DEF CachesInv, Sound, Specifics, Kind
<1>4. \A u \in NativeThread, j \in Key :
        specific'[u][j] = IF u = t THEN NULL ELSE specific[u][j]
  BY <1>1, <1>2 DEF CachesInv, Sound, Specifics
<1>5. \A u \in NativeThread, j, k \in Key :
        specific[u][j] # NULL /\ specific[u][j] = specific[t][k] => u = t
  BY <1>2 DEF CachesInv, Sound, Unshared
<1>6. KeysOwn(memory', specific', alive')
  <2> SUFFICES ASSUME NEW u \in NativeThread, NEW j \in Key, specific'[u][j] # NULL
               PROVE  u \in alive' /\ memory'[specific'[u][j]] = j
    BY DEF KeysOwn
  <2>1. u # t /\ specific'[u][j] = specific[u][j]
    BY <1>4
  <2>2. specific[u][j] \in Address /\ u \in alive /\ memory[specific[u][j]] = j
    BY <2>1 DEF CachesInv, Sound, KeysOwn, Specifics
  <2>3. specific[u][j] \notin {specific[t][k] : k \in Key}
    BY <2>1, <1>5
  <2> QED
    BY <2>1, <2>2, <2>3, <1>1
<1>7. Unshared(specific')
  BY <1>4 DEF CachesInv, Sound, Unshared
<1>8. NothingLost(memory', specific', abandoned')
  <2> SUFFICES ASSUME NEW c \in Address, memory'[c] # "free", c \notin abandoned
               PROVE  \E u \in NativeThread, j \in Key : specific'[u][j] = c
    BY DEF NothingLost, ThreadEnds
  <2>1. c \notin {specific[t][k] : k \in Key} /\ memory[c] # "free"
    BY <1>1
  <2>2. PICK u \in NativeThread, j \in Key : specific[u][j] = c
    BY <2>1 DEF CachesInv, Sound, NothingLost
  <2> QED
    BY <2>1, <2>2, <1>4
<1>9. AllLists(memory', abandoned')
  <2> SUFFICES ASSUME NEW c \in abandoned PROVE memory'[c] = "list"
    BY DEF AllLists, ThreadEnds
  <2>1. memory[c] = "list" /\ c \in Address
    BY DEF CachesInv, Sound, AllLists
  <2>2. c \notin {specific[t][k] : k \in Key}
    BY <2>1, <1>2 DEF CachesInv, Sound, KeysOwn, Key
  <2> QED
    BY <2>1, <2>2, <1>1
<1> QED
  BY <1>3, <1>6, <1>7, <1>8, <1>9 DEF ThreadEnds, CachesInv, Sound

LEMMA CssParserFailsSoundly == ASSUME CachesInv, CssParserFails PROVE CachesInv'
<1> DEFINE css(t) == Obtain(memory, t, "css_parser")
<1>1. PICK t \in alive :
        /\ Missing(t, "css_parser") /\ Room(1)
        /\ InitError(t, css(t).m, css(t).a, specific[t].selectors)
        /\ UNCHANGED <<alive, abandoned>>
  BY DEF CssParserFails
<1> DEFINE s1 == [specific EXCEPT ![t]["css_parser"] = css(t).a]
           s2 == [s1 EXCEPT ![t]["selectors"] = NULL]
           s3 == [s2 EXCEPT ![t]["css_parser"] = NULL]
<1>2. t \in NativeThread /\ specific \in Specifics
  BY DEF CachesInv, Sound
<1>3. Sound(css(t).m, s1, alive, abandoned)
  BY <1>1, RoomForOne, Obtaining DEF CachesInv, Key
<1>4. s1[t].selectors = specific[t].selectors
  BY <1>2 DEF Specifics, Key
<1>5. Sound(Destroy(css(t).m, specific[t].selectors), s2, alive, abandoned)
  BY <1>2, <1>3, <1>4, Dropping DEF Key
<1>6. s2[t].css_parser = css(t).a
  BY <1>2 DEF Specifics, Key
<1>7. Sound(Destroy(Destroy(css(t).m, specific[t].selectors), css(t).a), s3, alive, abandoned)
  BY <1>2, <1>5, <1>6, Dropping DEF Key
<1>8. specific' = s3
  BY <1>1, <1>2 DEF InitError, Specifics, Key
<1> QED
  BY <1>1, <1>7, <1>8 DEF InitError, CachesInv

LEMMA SelectorsFailSoundly == ASSUME CachesInv, SelectorsFail PROVE CachesInv'
<1> DEFINE css(t) == Obtain(memory, t, "css_parser")
           sel(t) == Obtain(css(t).m, t, "selectors")
<1>1. PICK t \in alive :
        /\ Missing(t, "selectors") /\ Room(2)
        /\ InitError(t, sel(t).m, css(t).a, sel(t).a)
        /\ UNCHANGED <<alive, abandoned>>
  BY DEF SelectorsFail
<1> DEFINE s1 == [specific EXCEPT ![t]["css_parser"] = css(t).a]
           s2 == [s1 EXCEPT ![t]["selectors"] = sel(t).a]
           s3 == [s2 EXCEPT ![t]["selectors"] = NULL]
           s4 == [s3 EXCEPT ![t]["css_parser"] = NULL]
<1>2. t \in NativeThread /\ specific \in Specifics
  BY DEF CachesInv, Sound
<1>3. PICK x, y \in Address : x # y /\ memory[x] = "free" /\ memory[y] = "free"
  BY <1>1, RoomForTwo
<1>4. /\ Sound(css(t).m, s1, alive, abandoned)
      /\ \E c \in Address : \A a \in Address \ {c} : css(t).m[a] = memory[a]
  <2>1. \E a \in Address : memory[a] = "free"
    BY <1>3
  <2>2. "css_parser" \in Key /\ Sound(memory, specific, alive, abandoned)
    BY DEF CachesInv, Key
  <2> QED
    BY <2>1, <2>2, Obtaining
<1>5. \E a \in Address : css(t).m[a] = "free"
  BY <1>3, <1>4
<1>6. s1[t]["selectors"] = specific[t]["selectors"]
  BY <1>2 DEF Specifics, Key
<1>7. Sound(sel(t).m, s2, alive, abandoned)
  BY <1>4, <1>5, <1>6, Obtaining DEF Key
<1>8. s2[t]["selectors"] = sel(t).a /\ s3[t]["css_parser"] = css(t).a
  BY <1>2 DEF Specifics, Key
<1>9. Sound(Destroy(sel(t).m, sel(t).a), s3, alive, abandoned)
  BY <1>2, <1>7, <1>8, Dropping DEF Key
<1>10. Sound(Destroy(Destroy(sel(t).m, sel(t).a), css(t).a), s4, alive, abandoned)
  BY <1>2, <1>8, <1>9, Dropping DEF Key
<1>11. specific' = s4
  BY <1>1, <1>2 DEF InitError, Specifics, Key
<1> QED
  BY <1>1, <1>10, <1>11 DEF InitError, CachesInv

LEMMA SearchesSoundly == ASSUME CachesInv, Search PROVE CachesInv'
<1> DEFINE css(t) == Obtain(memory, t, "css_parser")
           sel(t) == Obtain(css(t).m, t, "selectors")
<1>1. PICK t \in alive :
        /\ Room(3)
        /\ specific' = [specific EXCEPT ![t].css_parser = css(t).a, ![t].selectors = sel(t).a]
        /\ \/ memory' = sel(t).m /\ abandoned' = abandoned
           \/ /\ memory' = CreateAt(sel(t).m, "list")
              /\ abandoned' = abandoned \cup {FreshAddress(sel(t).m)}
        /\ alive' = alive
  BY DEF Search
<1> DEFINE s1 == [specific EXCEPT ![t]["css_parser"] = css(t).a]
           s2 == [s1 EXCEPT ![t]["selectors"] = sel(t).a]
<1>2. t \in NativeThread /\ specific \in Specifics
  BY DEF CachesInv, Sound
<1>3. PICK x, y, z \in Address :
        /\ x # y /\ x # z /\ y # z
        /\ memory[x] = "free" /\ memory[y] = "free" /\ memory[z] = "free"
  BY <1>1, RoomForThree
<1>4. /\ Sound(css(t).m, s1, alive, abandoned)
      /\ \E c \in Address : \A a \in Address \ {c} : css(t).m[a] = memory[a]
  <2>1. \E a \in Address : memory[a] = "free"
    BY <1>3
  <2>2. "css_parser" \in Key /\ Sound(memory, specific, alive, abandoned)
    BY DEF CachesInv, Key
  <2> QED
    BY <2>1, <2>2, Obtaining
<1>5. \E a \in Address : css(t).m[a] = "free"
  BY <1>3, <1>4
<1>6. s1[t]["selectors"] = specific[t]["selectors"]
  BY <1>2 DEF Specifics, Key
<1>7. /\ Sound(sel(t).m, s2, alive, abandoned)
      /\ \E c \in Address : \A a \in Address \ {c} : sel(t).m[a] = css(t).m[a]
  <2> HIDE DEF s1
  <2>1. "selectors" \in Key /\ Sound(css(t).m, s1, alive, abandoned)
    BY <1>4 DEF Key
  <2> QED
    BY <2>1, <1>5, <1>6, Obtaining
<1>8. specific' = s2
  BY <1>1, <1>2 DEF Specifics, Key
<1>9. CASE memory' = sel(t).m /\ abandoned' = abandoned
  BY <1>1, <1>7, <1>8, <1>9 DEF CachesInv
<1>10. CASE /\ memory' = CreateAt(sel(t).m, "list")
            /\ abandoned' = abandoned \cup {FreshAddress(sel(t).m)}
  <2>1. \E a \in Address : sel(t).m[a] = "free"
    BY <1>3, <1>4, <1>7
  <2> DEFINE f == FreshAddress(sel(t).m)
  <2>2. f \in Address /\ sel(t).m[f] = "free"
    BY <2>1 DEF FreshAddress
  <2>3. Sound([sel(t).m EXCEPT ![f] = "list"], s2, alive, abandoned \cup {f})
    BY <1>7, <2>2, Abandoning
  <2> QED
    BY <1>1, <1>8, <1>10, <2>3 DEF CachesInv, CreateAt
<1> QED
  BY <1>1, <1>9, <1>10

LEMMA HtmlParserFailsSoundly == ASSUME CachesInv, HtmlParserFails PROVE CachesInv'
<1> DEFINE html(t) == Obtain(memory, t, "html_parser")
<1>1. PICK t \in alive :
        /\ Missing(t, "html_parser") /\ Room(1)
        /\ memory' = Destroy(html(t).m, html(t).a)
        /\ UNCHANGED <<specific, alive, abandoned>>
  BY DEF HtmlParserFails
<1> DEFINE s1 == [specific EXCEPT ![t]["html_parser"] = html(t).a]
           s2 == [s1 EXCEPT ![t]["html_parser"] = NULL]
<1>2. t \in NativeThread /\ specific \in Specifics
  BY DEF CachesInv, Sound
<1>3. Sound(html(t).m, s1, alive, abandoned)
  BY <1>1, RoomForOne, Obtaining DEF CachesInv, Key
<1>4. s1[t]["html_parser"] = html(t).a
  BY <1>2 DEF Specifics, Key
<1>5. Sound(Destroy(html(t).m, html(t).a), s2, alive, abandoned)
  BY <1>2, <1>3, <1>4, Dropping DEF Key
<1>6. s2 = specific
  BY <1>1, <1>2 DEF Missing, Specifics, Key
<1> QED
  BY <1>1, <1>5, <1>6 DEF CachesInv

LEMMA ParsesSoundly == ASSUME CachesInv, ParseDocument PROVE CachesInv'
<1> DEFINE html(t) == Obtain(memory, t, "html_parser")
<1>1. PICK t \in alive :
        /\ Room(1)
        /\ memory' = html(t).m
        /\ specific' = [specific EXCEPT ![t]["html_parser"] = html(t).a]
        /\ UNCHANGED <<alive, abandoned>>
  BY DEF ParseDocument
<1>2. Sound(html(t).m, [specific EXCEPT ![t]["html_parser"] = html(t).a], alive, abandoned)
  BY <1>1, RoomForOne, Obtaining DEF CachesInv, Key
<1> QED
  BY <1>1, <1>2 DEF CachesInv

-----------------------------------------------------------------------------
LEMMA CachesInductive == CachesInv /\ [TNext]_cacheVars => CachesInv'
<1>1. CASE TNext
  BY <1>1, StartsSoundly, EndsSoundly, CssParserFailsSoundly, SelectorsFailSoundly,
     SearchesSoundly, HtmlParserFailsSoundly, ParsesSoundly DEF TNext
<1>2. CASE UNCHANGED cacheVars
  BY <1>2 DEF cacheVars, CachesInv
<1> QED
  BY <1>1, <1>2

\* nl_node_find and nl_document_parse_native never leave a destroyed or a shared object
\* in a key, and lose none but the lists of searches that raise.
THEOREM CachesStayLive == TSpec => []CachesLive
<1>1. TSpec => []CachesInv
  BY CachesInitially, CachesInductive, PTL DEF TSpec
<1> QED
  BY <1>1, CachesImplied, PTL

-----------------------------------------------------------------------------
Block == [form : {"outside", "initialize", "insert", "chain"}, node : Nat, old : Nat, left : BOOLEAN]

BTypeOK ==
  /\ parent \in Nat /\ owner \in Seq(Nat) /\ unwinding \in BOOLEAN
  /\ blocks \in Seq(Block) /\ blocks # <<>>

\* The block of Builder.new is the second one; it and the code around it are about
\* the root.
Outer ==
  /\ blocks[1].node = Root
  /\ \A i \in 1 .. Len(blocks) : blocks[i].form = "initialize" => i = 2 /\ blocks[i].node = Root

\* Also while an exception is on its way.
Current == ~blocks[Len(blocks)].left => parent = blocks[Len(blocks)].node

Returning ==
  \A i \in 2 .. Len(blocks) :
    ~blocks[i - 1].left /\ blocks[i].form # "initialize" => blocks[i].old = blocks[i - 1].node

\* The inductive invariant.
BlocksInv == BTypeOK /\ Outer /\ Current /\ Returning

LEMMA BlocksInitially == BInit => BlocksInv
<1> SUFFICES ASSUME BInit PROVE BlocksInv
  OBVIOUS
<1> DEFINE b1 == Opened("outside", Root, Root)
           b2 == Opened("initialize", Root, Root)
<1>1. /\ b1 \in Block /\ b1.node = Root /\ b1.form = "outside"
      /\ b2 \in Block /\ b2.node = Root /\ b2.form = "initialize"
  BY DEF Opened, Block, Root
<1>2. parent = Root /\ parent \in Nat /\ owner \in Seq(Nat) /\ unwinding \in BOOLEAN
  <2>1. parent = Root /\ owner = <<>> /\ unwinding = FALSE
    BY DEF BInit
  <2>2. owner \in Seq(Nat)
    BY <2>1
  <2> QED
    BY <2>1, <2>2 DEF Root
<1>3. blocks = <<b1>> \/ blocks = <<b1, b2>>
  BY DEF BInit
<1> HIDE DEF b1, b2
<1>4. CASE blocks = <<b1>>
  <2>1. blocks \in Seq(Block) /\ Len(blocks) = 1 /\ blocks[1] = b1 /\ blocks # <<>>
    BY <1>1, <1>4
  <2>2. BTypeOK
    BY <1>2, <2>1 DEF BTypeOK
  <2>3. Outer /\ Current /\ Returning
    BY <1>1, <1>2, <2>1 DEF Outer, Current, Returning
  <2> QED
    BY <2>2, <2>3 DEF BlocksInv
<1>5. CASE blocks = <<b1, b2>>
  <2>1. /\ blocks \in Seq(Block) /\ Len(blocks) = 2 /\ blocks # <<>>
        /\ blocks[1] = b1 /\ blocks[2] = b2
    BY <1>1, <1>5
  <2>2. BTypeOK
    BY <1>2, <2>1 DEF BTypeOK
  <2>3. Outer
    BY <1>1, <2>1 DEF Outer
  <2>4. Current /\ Returning
    BY <1>1, <1>2, <2>1 DEF Current, Returning
  <2> QED
    BY <2>2, <2>3, <2>4 DEF BlocksInv
<1> QED
  BY <1>3, <1>4, <1>5

LEMMA BlocksImplied == BlocksInv => BuiltInItsBlock
  BY DEF BlocksInv, BTypeOK, Current, Returning, BuiltInItsBlock, Innermost, Last

\* A block is entered.
LEMMA Entering ==
  ASSUME BlocksInv, NEW form \in {"insert", "chain"}, NEW node \in Nat,
         blocks' = Append(blocks, Opened(form, node, parent)), parent' = node,
         owner' \in Seq(Nat), unwinding' = unwinding
  PROVE  BlocksInv'
<1> DEFINE b == Opened(form, node, parent)
           n == Len(blocks)
<1>1. b \in Block /\ b.form # "initialize" /\ b.node = node /\ b.old = parent /\ b.left = FALSE
  BY DEF Opened, Block, BlocksInv, BTypeOK
<1>2. /\ blocks' \in Seq(Block) /\ Len(blocks') = n + 1 /\ n \in Nat /\ n >= 1
      /\ \A i \in 1 .. n : blocks'[i] = blocks[i]
      /\ blocks'[n + 1] = b
  BY <1>1 DEF BlocksInv, BTypeOK
<1> HIDE DEF b
<1>3. BTypeOK'
  BY <1>2 DEF BlocksInv, BTypeOK
<1>4. Outer'
  BY <1>1, <1>2 DEF BlocksInv, Outer
<1>5. Current'
  BY <1>1, <1>2 DEF Current
<1>6. Returning'
  BY <1>1, <1>2 DEF BlocksInv, Current, Returning
<1> QED
  BY <1>3, <1>4, <1>5, <1>6 DEF BlocksInv

\* A block is left, either way.
LEMMA Leaving ==
  ASSUME BlocksInv, NEW raised \in BOOLEAN, Len(blocks) > 1, Leave(raised)
  PROVE  BlocksInv'
<1> DEFINE n == Len(blocks)
           b == blocks[n]
           o == blocks[n - 1]
<1>1. n \in Nat /\ n >= 2 /\ b \in Block /\ o \in Block
  BY DEF BlocksInv, BTypeOK
<1>2. Innermost = b
  BY DEF Innermost, Last
<1>3. /\ Front(blocks) \in Seq(Block) /\ Len(Front(blocks)) = n - 1
      /\ \A i \in 1 .. n - 1 : Front(blocks)[i] = blocks[i]
  BY <1>1 DEF Front, BlocksInv, BTypeOK
<1>4. blocks' = [Front(blocks) EXCEPT ![Len(Front(blocks))].left =
                     Front(blocks)[Len(Front(blocks))].left \/ Left(Innermost, raised)]
  BY DEF Leave
<1>5. Front(blocks)[Len(Front(blocks))] = o /\ o.left \in BOOLEAN /\ Left(b, raised) \in BOOLEAN
  BY <1>1, <1>3 DEF Left, Block
<1>6. /\ blocks' \in Seq(Block) /\ Len(blocks') = n - 1
      /\ \A i \in 1 .. n - 1 :
           /\ blocks'[i].form = blocks[i].form /\ blocks'[i].node = blocks[i].node
           /\ blocks'[i].old = blocks[i].old
           /\ blocks'[i].left = IF i = n - 1 THEN o.left \/ Left(b, raised) ELSE blocks[i].left
  <2> DEFINE f == Front(blocks)
             v == o.left \/ Left(b, raised)
  <2>1. blocks' = [f EXCEPT ![Len(f)].left = v]
    BY <1>2, <1>4, <1>5
  <2>2. f \in Seq(Block) /\ Len(f) >= 1 /\ v \in BOOLEAN
    BY <1>1, <1>3, <1>5
  <2> HIDE DEF f, v
  <2>3. Len(f) \in Nat /\ Len(f) \in 1 .. Len(f) /\ f[Len(f)] \in Block
    BY <2>2
  <2>4. [f[Len(f)] EXCEPT !.left = v] \in Block
    BY <2>2, <2>3 DEF Block
  <2>5. \A i \in 1 .. Len(f) :
          blocks'[i] = IF i = Len(f) THEN [f[Len(f)] EXCEPT !.left = v] ELSE f[i]
    BY <2>1, <2>2, <2>3
  <2>6. blocks' \in Seq(Block) /\ Len(blocks') = Len(f)
    BY <2>1, <2>2, <2>3, <2>4
  <2>7. \A i \in 1 .. Len(f) :
          /\ blocks'[i].form = f[i].form /\ blocks'[i].node = f[i].node
          /\ blocks'[i].old = f[i].old
          /\ blocks'[i].left = IF i = Len(f) THEN v ELSE f[i].left
    BY <2>3, <2>5 DEF Block
  <2> QED
    BY <2>6, <2>7, <1>3 DEF f, v
<1>7. /\ b.form = "initialize" => n = 2 /\ b.node = Root /\ o.node = Root
      /\ ~o.left /\ b.form # "initialize" => b.old = o.node
      /\ ~b.left => parent = b.node
  <2>1. n \in 1 .. n /\ n \in 2 .. n
    BY <1>1
  <2>2. b.form = "initialize" => n = 2 /\ b.node = Root
    BY <2>1 DEF BlocksInv, Outer
  <2>3. n = 2 => o.node = Root
    BY DEF BlocksInv, Outer
  <2>4. ~o.left /\ b.form # "initialize" => b.old = o.node
    BY <2>1 DEF BlocksInv, Returning
  <2>5. ~b.left => parent = b.node
    BY DEF BlocksInv, Current
  <2> QED
    BY <2>2, <2>3, <2>4, <2>5
<1>8. parent' = Restored(b, raised) /\ owner' = owner /\ unwinding' = unwinding
  BY <1>2 DEF Leave
<1> HIDE DEF n, b, o
<1>9. BTypeOK'
  BY <1>1, <1>6, <1>8 DEF BlocksInv, BTypeOK, Restored, Block
<1>10. Outer'
  <2>1. 1 \in 1 .. n - 1 /\ \A i \in 1 .. n - 1 : i \in 1 .. n
    BY <1>1
  <2> QED
    BY <1>6, <2>1 DEF BlocksInv, Outer, n
<1>11. Current'
  <2>1. n - 1 \in 1 .. n - 1 /\ blocks'[n - 1].node = o.node
    BY <1>1, <1>6 DEF o
  <2> SUFFICES ASSUME ~o.left, ~Left(b, raised) PROVE parent' = o.node
    BY <1>6, <2>1 DEF Current
  <2>2. CASE b.form = "initialize"
    BY <1>7, <1>8, <2>2 DEF Restored, Left
  <2>3. CASE b.form # "initialize"
    BY <1>7, <1>8, <2>3 DEF Restored, Left
  <2> QED
    BY <2>2, <2>3
<1>12. Returning'
  <2> SUFFICES ASSUME NEW i \in 2 .. n - 1, ~blocks'[i - 1].left, blocks'[i].form # "initialize"
               PROVE  blocks'[i].old = blocks'[i - 1].node
    BY <1>6 DEF Returning
  <2>1. i \in 2 .. n /\ i \in 1 .. n - 1 /\ i - 1 \in 1 .. n - 1 /\ i - 1 # n - 1
    BY <1>1
  <2> QED
    BY <2>1, <1>6 DEF BlocksInv, Returning, n
<1> QED
  BY <1>9, <1>10, <1>11, <1>12 DEF BlocksInv

-----------------------------------------------------------------------------
LEMMA BlocksInductive == BlocksInv /\ [BNext]_builderVars => BlocksInv'
<1> SUFFICES ASSUME BlocksInv, [BNext]_builderVars PROVE BlocksInv'
  OBVIOUS
<1>1. CASE Insert \/ InsertParsed
  <2>1. owner' \in Seq(Nat)
    <3>1. CASE Insert
      BY <3>1 DEF Insert, BlocksInv, BTypeOK
    <3>2. CASE InsertParsed
      <4>1. <<parent, parent>> \in Seq(Nat)
        BY DEF BlocksInv, BTypeOK
      <4> QED
        BY <3>2, <4>1 DEF InsertParsed, BlocksInv, BTypeOK
    <3> QED
      BY <1>1, <3>1, <3>2
  <2>2. UNCHANGED <<parent, blocks, unwinding>>
    BY <1>1 DEF Insert, InsertParsed
  <2> QED
    BY <2>1, <2>2 DEF BlocksInv, BTypeOK, Outer, Current, Returning
<1>2. CASE InsertWithBlock
  <2>1. owner' \in Seq(Nat) /\ Len(owner') \in Nat
    BY <1>2 DEF InsertWithBlock, BlocksInv, BTypeOK
  <2> QED
    BY <1>2, <2>1, Entering DEF InsertWithBlock
<1>3. CASE ChainWithBlock
  <2>1. PICK node \in BuiltNode :
          blocks' = Append(blocks, Opened("chain", node, parent)) /\ parent' = node
    BY <1>3 DEF ChainWithBlock
  <2>2. node \in Nat /\ owner' \in Seq(Nat) /\ unwinding' = unwinding
    BY <1>3 DEF ChainWithBlock, BuiltNode, BlocksInv, BTypeOK
  <2> QED
    BY <2>1, <2>2, Entering
<1>4. CASE BlockReturns
  BY <1>4, Leaving DEF BlockReturns
<1>5. CASE Unwind
  BY <1>5, Leaving DEF Unwind
<1>6. CASE Raise \/ Rescue
  BY <1>6 DEF Raise, Rescue, BlocksInv, BTypeOK, Outer, Current, Returning
<1>7. CASE UNCHANGED builderVars
  BY <1>7 DEF builderVars, BlocksInv, BTypeOK, Outer, Current, Returning
<1> QED
  BY <1>1, <1>2, <1>3, <1>4, <1>5, <1>6, <1>7 DEF BNext

\* However blocks are entered, left, left by exceptions and rescued, what is built goes
\* below the node of its block (Builder#insert), except where a NodeBuilder block was
\* left by an exception.
THEOREM BuiltWhereItBelongs == BSpec => []BuiltInItsBlock
<1>1. BSpec => []BlocksInv
  BY BlocksInitially, BlocksInductive, PTL DEF BSpec
<1> QED
  BY <1>1, BlocksImplied, PTL
-----------------------------------------------------------------------------
(* Sorting.                                                                *)

Element == [key : Int, was : Nat]

\* The order of a stable sort.
Precedes(x, y) == x.key < y.key \/ (x.key = y.key /\ x.was < y.was)

Rising(s) == \A i, j \in DOMAIN s : i < j => Precedes(s[i], s[j])

\* The sequence s has the elements of S in order.
Sorts(s, S) == Lists(s, S, Element) /\ Rising(s)

LEMMA ElementFacts ==
  ASSUME NEW x \in Element, NEW y \in Element
  PROVE  /\ x.key \in Int /\ x.was \in Nat /\ Cmp(x, y) \in Int
         /\ (Cmp(x, y) < 0 <=> x.key < y.key) /\ (Cmp(x, y) <= 0 <=> x.key <= y.key)
         /\ (Cmp(x, y) > 0 <=> x.key > y.key)
<1>1. x.key \in Int /\ y.key \in Int /\ x.was \in Nat
  BY DEF Element
<1> QED
  BY <1>1 DEF Cmp

-----------------------------------------------------------------------------
(* The binary search.                                                      *)

Middle(p) == p[1] + (p[2] - p[1]) \div 2

SearchStep(f, s, x, p) ==
  IF Cmp(x, s[Middle(p)]) < 0
  THEN IF Middle(p) - p[1] <= 1 THEN Middle(p) ELSE f[<<p[1], Middle(p)>>]
  ELSE IF p[2] - Middle(p) <= 1 THEN Middle(p) + 1 ELSE f[<<Middle(p), p[2]>>]

LEMMA MiddleFacts ==
  ASSUME NEW n \in Nat, NEW l \in 1 .. n, NEW r \in 1 .. n, NEW c, c = Middle(<<l, r>>)
  PROVE  /\ c \in 1 .. n
         /\ c - l > 1 => l < c /\ c < r
         /\ r - c > 1 => l < c /\ c < r
         /\ l < r => l <= c /\ c < r
<1>1. c = l + (r - l) \div 2
  BY DEF Middle
<1> DEFINE h == (r - l) \div 2
<1>2. h \in Int /\ 2 * h <= r - l /\ r - l <= 2 * h + 1
  OBVIOUS
<1> HIDE DEF h
<1>3. c = l + h
  BY <1>1 DEF h
<1> QED
  BY <1>2, <1>3

\* A function that is what the search says of itself.
Searches(f, s, x) ==
  LET D == (1 .. Len(s)) \X (1 .. Len(s))
  IN f \in [D -> Int] /\ \A p \in D : f[p] = SearchStep(f, s, x, p)

LEMMA SearchExists ==
  ASSUME NEW s \in Seq(Element), NEW x \in Element
  PROVE  \E f : Searches(f, s, x)
<1> DEFINE n == Len(s)
           D == (1 .. n) \X (1 .. n)
           Width(p) == p[2] - p[1]
           Good(f, m) == \A p \in D : Width(p) < m => f[p] = SearchStep(f, s, x, p)
           Has(m) == \E f \in [D -> Int] : Good(f, m)
           S == {m \in Nat : Has(m)}
<1>0. n \in Nat
  BY LenProperties
<1>1. \A p \in D : /\ p[1] \in 1 .. n /\ p[2] \in 1 .. n /\ p = <<p[1], p[2]>>
                   /\ Width(p) \in Int /\ Width(p) < n /\ Middle(p) \in 1 .. n
  <2> TAKE p \in D
  <2>1. p[1] \in 1 .. n /\ p[2] \in 1 .. n /\ p = <<p[1], p[2]>>
    OBVIOUS
  <2> DEFINE l == p[1]
             r == p[2]
  <2>2. l \in 1 .. n /\ r \in 1 .. n /\ Middle(p) = Middle(<<l, r>>)
    BY <2>1
  <2> HIDE DEF l, r
  <2>3. Middle(p) \in 1 .. n
    BY <1>0, <2>2, MiddleFacts
  <2> QED
    BY <1>0, <2>1, <2>3
\* A step that goes on goes on to a narrower part.
<1>2. \A p \in D : /\ Middle(p) - p[1] > 1 => <<p[1], Middle(p)>> \in D /\ Width(<<p[1], Middle(p)>>) < Width(p)
                   /\ p[2] - Middle(p) > 1 => <<Middle(p), p[2]>> \in D /\ Width(<<Middle(p), p[2]>>) < Width(p)
  <2> TAKE p \in D
  <2> DEFINE l == p[1]
             r == p[2]
             c == Middle(p)
  <2>1. l \in 1 .. n /\ r \in 1 .. n /\ c \in 1 .. n /\ c = Middle(<<l, r>>) /\ Width(p) = r - l
    BY <1>1
  <2> HIDE DEF l, r, c
  <2>2. /\ c - l > 1 => l < c /\ c < r
        /\ r - c > 1 => l < c /\ c < r
    BY <1>0, <2>1, MiddleFacts
  <2>3. <<l, c>> \in D /\ <<c, r>> \in D /\ Width(<<l, c>>) = c - l /\ Width(<<c, r>>) = r - c
    BY <2>1
  <2>4. /\ c - l > 1 => <<l, c>> \in D /\ Width(<<l, c>>) < Width(p)
        /\ r - c > 1 => <<c, r>> \in D /\ Width(<<c, r>>) < Width(p)
    BY <1>0, <2>1, <2>2, <2>3
  <2> QED
    BY <2>4 DEF l, r, c
<1> HIDE DEF Width
<1>3. \A f \in [D -> Int], p \in D : SearchStep(f, s, x, p) \in Int
  <2> TAKE f \in [D -> Int], p \in D
  <2>1. Middle(p) \in Int /\ p[1] \in Int /\ p[2] \in Int
    BY <1>0, <1>1
  <2>2. Middle(p) - p[1] > 1 => f[<<p[1], Middle(p)>>] \in Int
    BY <1>2
  <2>3. p[2] - Middle(p) > 1 => f[<<Middle(p), p[2]>>] \in Int
    BY <1>2
  <2> QED
    BY <2>1, <2>2, <2>3 DEF SearchStep
<1>4. ASSUME NEW m \in Int, NEW f \in [D -> Int], Good(f, m) PROVE Has(m + 1)
  <2> DEFINE g == [p \in D |-> IF Width(p) < m THEN f[p] ELSE SearchStep(f, s, x, p)]
  <2>1. g \in [D -> Int]
    BY <1>3
  <2>2. \A p \in D : Width(p) < m + 1 => g[p] = SearchStep(g, s, x, p)
    <3> SUFFICES ASSUME NEW p \in D, Width(p) < m + 1 PROVE g[p] = SearchStep(g, s, x, p)
      OBVIOUS
    <3>1. \A q \in D : Width(q) < Width(p) => g[q] = f[q]
      <4> TAKE q \in D
      <4>1. Width(q) \in Int /\ Width(p) \in Int
        BY <1>1
      <4> QED
        BY <4>1
    <3>2. g[p] = SearchStep(f, s, x, p)
      BY <1>4
    <3> HIDE DEF g
    <3>3. SearchStep(g, s, x, p) = SearchStep(f, s, x, p)
      <4>1. Middle(p) \in Int /\ p[1] \in Int /\ p[2] \in Int
        BY <1>0, <1>1
      <4>2. Middle(p) - p[1] > 1 => g[<<p[1], Middle(p)>>] = f[<<p[1], Middle(p)>>]
        BY <1>2, <3>1
      <4>3. p[2] - Middle(p) > 1 => g[<<Middle(p), p[2]>>] = f[<<Middle(p), p[2]>>]
        BY <1>2, <3>1
      <4> QED
        BY <4>1, <4>2, <4>3 DEF SearchStep
    <3> QED
      BY <3>2, <3>3
  <2> HIDE DEF g
  <2> QED
    BY <2>1, <2>2
<1>5. Has(0)
  <2> DEFINE f0 == [p \in D |-> 0]
             f == [p \in D |-> SearchStep(f0, s, x, p)]
  <2>1. f0 \in [D -> Int]
    OBVIOUS
  <2> HIDE DEF f0
  <2>2. f \in [D -> Int]
    BY <1>3, <2>1
  <2>3. \A p \in D : Width(p) < 0 => f[p] = SearchStep(f, s, x, p)
    <3> SUFFICES ASSUME NEW p \in D, Width(p) < 0 PROVE f[p] = SearchStep(f, s, x, p)
      OBVIOUS
    <3> DEFINE l == p[1]
               r == p[2]
               c == Middle(p)
    <3>1. l \in 1 .. n /\ r \in 1 .. n /\ c = Middle(<<l, r>>) /\ r < l
      BY <1>1 DEF Width
    <3>2. c - l <= 1 /\ r - c <= 1
      <4> HIDE DEF l, r, c
      <4>1. c \in 1 .. n /\ (c - l > 1 => l < c /\ c < r) /\ (r - c > 1 => l < c /\ c < r)
        BY <1>0, <3>1, MiddleFacts
      <4> QED
        BY <1>0, <3>1, <4>1
    <3> QED
      BY <3>2 DEF SearchStep
  <2> HIDE DEF f
  <2> QED
    BY <2>2, <2>3
<1>6. n \in S
  <2>1. 0 \in S
    BY <1>5
  <2>2. \A i \in 1 .. n : i - 1 \in S => i \in S
    <3> SUFFICES ASSUME NEW i \in 1 .. n, i - 1 \in S PROVE i \in S
      OBVIOUS
    <3>1. i - 1 \in Int /\ (i - 1) + 1 = i /\ i \in Nat
      BY <1>0
    <3>2. PICK f \in [D -> Int] : Good(f, i - 1)
      OBVIOUS
    <3> HIDE DEF Good
    <3>3. Has((i - 1) + 1)
      <4> DEFINE m == i - 1
      <4>1. m \in Int /\ Good(f, m)
        BY <3>1, <3>2
      <4> HIDE DEF m, Has
      <4>2. Has(m + 1)
        BY <1>4, <4>1
      <4> QED
        BY <4>2 DEF m
    <3> HIDE DEF Has
    <3> QED
      BY <3>1, <3>3
  <2> HIDE DEF S
  <2>3. \A i \in 0 .. n : i \in S
    BY <1>0, <2>1, <2>2, InductionUpto
  <2> QED
    BY <1>0, <2>3
<1>7. PICK f \in [D -> Int] : Good(f, n)
  BY <1>6
<1>8. \A p \in D : f[p] = SearchStep(f, s, x, p)
  BY <1>1, <1>7
<1> QED
  BY <1>8 DEF Searches

LEMMA PlaceSearched ==
  ASSUME NEW s \in Seq(Element), NEW x \in Element, NEW D, D = (1 .. Len(s)) \X (1 .. Len(s)),
         NEW f, \A p \in D : f[p] = SearchStep(f, s, x, p),
         NEW l \in 1 .. Len(s), NEW r \in 1 .. Len(s), l < r, s[l].key <= x.key, x.key < s[r].key
  PROVE  f[<<l, r>>] \in l + 1 .. r /\ s[f[<<l, r>>] - 1].key <= x.key /\ x.key < s[f[<<l, r>>]].key
<1> DEFINE n == Len(s)
           FoundPlace(a, b) == LET q == f[<<a, b>>] IN
             q \in a + 1 .. b /\ s[q - 1].key <= x.key /\ x.key < s[q].key
           Right(m) == \A a, b \in 1 .. n : a < b /\ b - a <= m /\ s[a].key <= x.key /\ x.key < s[b].key => FoundPlace(a, b)
           S == {m \in Nat : Right(m)}
<1>0. n \in Nat /\ \A i \in 1 .. n : s[i] \in Element /\ s[i].key \in Int
  <2>1. n \in Nat /\ \A i \in 1 .. n : s[i] \in Element
    BY LenProperties, ElementOfSeq
  <2> QED
    BY <2>1, ElementFacts
<1>1. 0 \in S
  <2>1. \A a, b \in 1 .. n : ~(a < b /\ b - a <= 0)
    BY <1>0
  <2> QED
    BY <2>1
<1>2. \A m \in 1 .. n : m - 1 \in S => m \in S
  <2> SUFFICES ASSUME NEW m \in 1 .. n, Right(m - 1) PROVE Right(m)
    <3> HIDE DEF Right
    <3>1. \A m \in 1 .. n : m \in Nat
      BY <1>0
    <3> QED
      BY <3>1
  <2> SUFFICES ASSUME NEW a \in 1 .. n, NEW b \in 1 .. n, a < b, b - a <= m, s[a].key <= x.key, x.key < s[b].key
               PROVE  FoundPlace(a, b)
    OBVIOUS
  <2> DEFINE c == Middle(<<a, b>>)
  <2>1. c \in 1 .. n /\ a <= c /\ c < b /\ (c - a > 1 => a < c) /\ (b - c > 1 => a < c)
    BY <1>0, MiddleFacts
  <2>2. f[<<a, b>>] = SearchStep(f, s, x, <<a, b>>)
    OBVIOUS
  <2>3. f[<<a, b>>] = IF Cmp(x, s[c]) < 0
                      THEN IF c - a <= 1 THEN c ELSE f[<<a, c>>]
                      ELSE IF b - c <= 1 THEN c + 1 ELSE f[<<c, b>>]
    BY <2>2 DEF SearchStep
  <2>4. Cmp(x, s[c]) < 0 <=> x.key < s[c].key
    BY <1>0, <2>1, ElementFacts
  <2>5. x.key \in Int
    BY ElementFacts
  <2>6. \A u, v \in 1 .. n : u < v /\ v - u <= m - 1 /\ s[u].key <= x.key /\ x.key < s[v].key => FoundPlace(u, v)
    OBVIOUS
  <2> HIDE DEF c, S, FoundPlace
  <2>7. CASE x.key < s[c].key
    <3>1. a < c
      <4>1. a # c
        BY <1>0, <2>5, <2>7
      <4> QED
        BY <2>1, <4>1
    <3>2. CASE c - a <= 1
      <4>1. f[<<a, b>>] = c
        BY <2>3, <2>4, <2>7, <3>2
      <4>2. c - 1 = a
        BY <1>0, <2>1, <3>1, <3>2
      <4>3. c \in a + 1 .. b
        BY <1>0, <2>1, <3>1
      <4> QED
        BY <2>7, <4>1, <4>2, <4>3 DEF FoundPlace
    <3>3. CASE c - a > 1
      <4>1. f[<<a, b>>] = f[<<a, c>>]
        BY <1>0, <2>1, <2>3, <2>4, <2>7, <3>3
      <4>2. FoundPlace(a, c)
        <5>1. c - a <= m - 1
          BY <1>0, <2>1
        <5> QED
          BY <2>1, <2>6, <2>7, <3>1, <5>1
      <4>3. f[<<a, c>>] \in a + 1 .. b
        BY <1>0, <2>1, <4>2 DEF FoundPlace
      <4> QED
        BY <4>1, <4>2, <4>3 DEF FoundPlace
    <3> QED
      BY <1>0, <2>1, <3>2, <3>3
  <2>8. CASE ~(x.key < s[c].key)
    <3>1. s[c].key <= x.key
      <4>1. s[c].key \in Int
        BY <1>0, <2>1
      <4> QED
        BY <2>5, <2>8, <4>1
    <3>2. CASE b - c <= 1
      <4>1. f[<<a, b>>] = c + 1
        BY <2>3, <2>4, <2>8, <3>2
      <4>2. c + 1 = b /\ (c + 1) - 1 = c
        BY <1>0, <2>1, <3>2
      <4>3. c + 1 \in a + 1 .. b
        BY <1>0, <2>1
      <4> QED
        BY <3>1, <4>1, <4>2, <4>3 DEF FoundPlace
    <3>3. CASE b - c > 1
      <4>1. f[<<a, b>>] = f[<<c, b>>]
        BY <1>0, <2>1, <2>3, <2>4, <2>8, <3>3
      <4>2. FoundPlace(c, b)
        <5>1. b - c <= m - 1
          BY <1>0, <2>1, <3>3
        <5> QED
          BY <2>1, <2>6, <3>1, <5>1
      <4>3. f[<<c, b>>] \in a + 1 .. b
        BY <1>0, <2>1, <4>2 DEF FoundPlace
      <4> QED
        BY <4>1, <4>2, <4>3 DEF FoundPlace
    <3> QED
      BY <1>0, <2>1, <3>2, <3>3
  <2> QED
    BY <2>7, <2>8
<1>3. n \in S
  <2> HIDE DEF S
  <2>1. \A i \in 0 .. n : i \in S
    BY <1>0, <1>1, <1>2, InductionUpto
  <2> QED
    BY <1>0, <2>1
<1>4. l < r /\ r - l <= n
  BY <1>0
<1> QED
  BY <1>3, <1>4

\* The search of the definition is such a function.
SearchOf(s, x) == CHOOSE g : g = [q \in (1 .. Len(s)) \X (1 .. Len(s)) |-> SearchStep(g, s, x, q)]

LEMMA SearchSolved ==
  ASSUME NEW s \in Seq(Element), NEW x \in Element
  PROVE  \A q \in (1 .. Len(s)) \X (1 .. Len(s)) : SearchOf(s, x)[q] = SearchStep(SearchOf(s, x), s, x, q)
<1> DEFINE D == (1 .. Len(s)) \X (1 .. Len(s))
           Is(g) == g = [q \in D |-> SearchStep(g, s, x, q)]
           f == SearchOf(s, x)
<1>1. PICK g : Searches(g, s, x)
  BY SearchExists
<1>2. g \in [D -> Int] /\ \A q \in D : g[q] = SearchStep(g, s, x, q)
  BY <1>1 DEF Searches
<1>3. Is(g)
  BY <1>2
<1>4. Is(f)
  BY <1>3 DEF SearchOf
<1> HIDE DEF f
<1>5. \A q \in D : f[q] = SearchStep(f, s, x, q)
  BY <1>4
<1> QED
  BY <1>5 DEF f

\* The search finds the first element that is greater.
LEMMA PlaceFound ==
  ASSUME NEW s \in Seq(Element), Len(s) >= 1, \A i, j \in 1 .. Len(s) : i <= j => s[i].key <= s[j].key,
         NEW x \in Element, x.key < Last(s).key, NEW p, p = InsertionFind(s, x)
  PROVE  /\ p \in 1 .. Len(s)
         /\ \A i \in 1 .. Len(s) : (i < p => s[i].key <= x.key) /\ (i >= p => x.key < s[i].key)
<1> DEFINE n == Len(s)
           D == (1 .. n) \X (1 .. n)
           search == SearchOf(s, x)
<1>0. /\ n \in Nat /\ 1 \in 1 .. n /\ n \in 1 .. n /\ Last(s) = s[n]
      /\ \A i \in 1 .. n : s[i] \in Element /\ s[i].key \in Int
  <2>1. n \in Nat /\ \A i \in 1 .. n : s[i] \in Element
    BY LenProperties, ElementOfSeq
  <2> QED
    BY <2>1, ElementFacts DEF Last
<1>1. p = IF Cmp(x, s[1]) < 0 THEN 1 ELSE IF Cmp(x, Last(s)) > 0 THEN n ELSE search[<<1, n>>]
  BY Zenon DEF InsertionFind, SearchOf, SearchStep, Middle
<1>2. x.key \in Int /\ (Cmp(x, s[1]) < 0 <=> x.key < s[1].key) /\ (Cmp(x, Last(s)) > 0 <=> x.key > Last(s).key)
  BY <1>0, ElementFacts
<1>3. CASE x.key < s[1].key
  <2>1. p = 1
    BY <1>1, <1>2, <1>3
  <2>2. \A i \in 1 .. n : x.key < s[i].key
    <3> TAKE i \in 1 .. n
    <3>1. s[1].key <= s[i].key /\ s[i].key \in Int /\ s[1].key \in Int
      BY <1>0
    <3> QED
      BY <1>2, <1>3, <3>1
  <2> QED
    BY <1>0, <2>1, <2>2
<1>4. CASE ~(x.key < s[1].key)
  <2>1. p = search[<<1, n>>]
    BY <1>0, <1>1, <1>2, <1>4
  <2>4. \A q \in D : search[q] = SearchStep(search, s, x, q)
    BY SearchSolved
  <2> HIDE DEF search
  <2>5. 1 < n /\ s[1].key <= x.key /\ x.key < s[n].key
    <3>1. s[1].key \in Int /\ s[n].key \in Int
      BY <1>0
    <3> QED
      BY <1>0, <1>2, <1>4, <3>1
  <2>6. p \in 2 .. n /\ s[p - 1].key <= x.key /\ x.key < s[p].key
    <3> DEFINE q == search[<<1, n>>]
    <3>1. q \in 1 + 1 .. n /\ s[q - 1].key <= x.key /\ x.key < s[q].key
      BY <1>0, <2>4, <2>5, PlaceSearched
    <3> HIDE DEF q
    <3>2. q = p
      BY <2>1 DEF q
    <3> QED
      BY <3>1, <3>2
  <2>7. \A i \in 1 .. n : (i < p => s[i].key <= x.key) /\ (i >= p => x.key < s[i].key)
    <3> TAKE i \in 1 .. n
    <3>1. p - 1 \in 1 .. n /\ p \in 1 .. n /\ i \in Int
      BY <1>0, <2>6
    <3>2. s[p - 1].key \in Int /\ s[p].key \in Int /\ s[i].key \in Int
      BY <1>0, <3>1
    <3>3. i < p => s[i].key <= s[p - 1].key
      BY <1>0, <3>1
    <3>4. i >= p => s[p].key <= s[i].key
      BY <3>1
    <3> QED
      BY <1>2, <2>6, <3>2, <3>3, <3>4
  <2> QED
    BY <1>0, <2>6, <2>7
<1> QED
  BY <1>3, <1>4
-----------------------------------------------------------------------------
(* Insertion.                                                              *)

Inserted(s, x) == IF Cmp(Last(s), x) <= 0 THEN Append(s, x) ELSE InsertAt(s, InsertionFind(s, x), x)

\* An element that came after those of S is put in its place among them.
LEMMA InsertedInOrder ==
  ASSUME NEW S, NEW s, Sorts(s, S), S # {}, NEW x \in Element, \A y \in S : y.was < x.was
  PROVE  Sorts(Inserted(s, x), S \cup {x})
<1> DEFINE n == Len(s)
<1>0. Lists(s, S, Element)
  BY DEF Sorts
<1>1. /\ s \in Seq(Element) /\ n \in Nat /\ n >= 1 /\ Last(s) = s[n] /\ n \in 1 .. n
      /\ \A i \in 1 .. n : s[i] \in S /\ s[i] \in Element
  <2>1. n # 0
    BY <1>0, ListFacts
  <2> QED
    BY <1>0, <2>1, ListFacts DEF Last
<1>2. x \in Element \ S
  <2>1. x.was \in Nat
    BY ElementFacts
  <2> QED
    BY <2>1
<1>3. \A i \in 1 .. n : s[i].key \in Int /\ s[i].was \in Nat /\ s[i].was < x.was
  BY <1>1, ElementFacts
<1>4. x.key \in Int /\ x.was \in Nat
  BY ElementFacts
<1>5. \A i, j \in 1 .. n : i < j => Precedes(s[i], s[j])
  BY <1>0, ListFacts DEF Sorts, Rising
<1>6. \A i, j \in 1 .. n : i <= j => s[i].key <= s[j].key
  BY <1>3, <1>5 DEF Precedes
<1>7. Cmp(Last(s), x) <= 0 <=> s[n].key <= x.key
  BY <1>1, ElementFacts
<1>8. CASE s[n].key <= x.key
  <2> DEFINE t == Append(s, x)
  <2>1. Inserted(s, x) = t
    BY <1>7, <1>8 DEF Inserted
  <2>2. Lists(t, S \cup {x}, Element)
    BY <1>0, <1>2, ListAppend
  <2>3. Len(t) = n + 1 /\ t[n + 1] = x /\ \A i \in 1 .. n : t[i] = s[i]
    BY <1>1, AppendProperties
  <2> HIDE DEF t
  <2>4. DOMAIN t = 1 .. n + 1
    BY <2>2, <2>3, ListFacts
  <2>5. ASSUME NEW i \in 1 .. n + 1, NEW j \in 1 .. n + 1, i < j PROVE Precedes(t[i], t[j])
    <3>1. i \in 1 .. n /\ (j \in 1 .. n \/ j = n + 1)
      BY <1>1, <2>5
    <3>2. CASE j \in 1 .. n
      BY <1>5, <2>3, <2>5, <3>1, <3>2
    <3>3. CASE j = n + 1
      <4>1. s[i].key <= x.key
        <5>1. s[i].key <= s[n].key /\ s[i].key \in Int /\ s[n].key \in Int
          BY <1>1, <1>3, <1>6, <3>1
        <5> QED
          BY <1>4, <1>8, <5>1
      <4>2. Precedes(s[i], x)
        BY <1>3, <1>4, <3>1, <4>1 DEF Precedes
      <4> QED
        BY <2>3, <3>1, <3>3, <4>2
    <3> QED
      BY <3>1, <3>2, <3>3
  <2>6. Rising(t)
    BY <2>4, <2>5 DEF Rising
  <2> QED
    BY <2>1, <2>2, <2>6 DEF Sorts
<1>9. CASE ~(s[n].key <= x.key)
  <2> DEFINE p == InsertionFind(s, x)
             t == InsertAt(s, p, x)
  <2>0. x.key < Last(s).key
    BY <1>1, <1>3, <1>4, <1>9
  <2>1. Inserted(s, x) = t
    BY <1>7, <1>9 DEF Inserted
  <2>2. /\ p \in 1 .. n
        /\ \A i \in 1 .. n : (i < p => s[i].key <= x.key) /\ (i >= p => x.key < s[i].key)
    <3> DEFINE q == InsertionFind(s, x)
    <3>1. q = InsertionFind(s, x)
      OBVIOUS
    <3> HIDE DEF q
    <3>2. /\ q \in 1 .. n
          /\ \A i \in 1 .. n : (i < q => s[i].key <= x.key) /\ (i >= q => x.key < s[i].key)
      BY <1>1, <1>6, <2>0, <3>1, PlaceFound
    <3> QED
      BY <3>2 DEF q
  <2> HIDE DEF p
  <2>3. Lists(t, S \cup {x}, Element)
    BY <1>0, <1>2, <2>2, ListInserted
  <2>4. Len(t) = n + 1 /\ \A i \in 1 .. n + 1 : t[i] = IF i < p THEN s[i] ELSE IF i = p THEN x ELSE s[i - 1]
    <3>1. s \in Seq(Element) /\ p \in 1 .. Len(s)
      BY <1>1, <2>2
    <3>2. HasMore(t, s, p, x)
      BY <3>1, InsertedSeq
    <3> QED
      BY <3>2 DEF HasMore
  <2> HIDE DEF t
  <2>5. DOMAIN t = 1 .. n + 1
    BY <2>3, <2>4, ListFacts
  <2>6. ASSUME NEW i \in 1 .. n + 1, NEW j \in 1 .. n + 1, i < j PROVE Precedes(t[i], t[j])
    <3> DEFINE i1 == IF i < p THEN i ELSE i - 1
               j1 == IF j < p THEN j ELSE j - 1
    <3>1. /\ i # p => i1 \in 1 .. n /\ t[i] = s[i1]
          /\ j # p => j1 \in 1 .. n /\ t[j] = s[j1]
          /\ i # p /\ j # p => i1 < j1
          /\ i = p => t[i] = x /\ j # p /\ j1 >= p
          /\ j = p => t[j] = x /\ i # p /\ i1 < p
      BY <1>1, <2>2, <2>4, <2>6
    <3> HIDE DEF i1, j1
    <3>2. CASE i # p /\ j # p
      BY <1>5, <3>1, <3>2
    <3>3. CASE i = p
      <4>1. x.key < s[j1].key
        BY <2>2, <3>1, <3>3
      <4> QED
        BY <3>1, <3>3, <4>1 DEF Precedes
    <3>4. CASE j = p
      <4>1. s[i1].key <= x.key /\ i1 \in 1 .. n
        BY <2>2, <3>1, <3>4
      <4>2. Precedes(s[i1], x)
        BY <1>3, <1>4, <4>1 DEF Precedes
      <4> QED
        BY <3>1, <3>4, <4>2
    <3> QED
      BY <3>2, <3>3, <3>4
  <2>7. Rising(t)
    BY <2>5, <2>6 DEF Rising
  <2> QED
    BY <2>1, <2>3, <2>7 DEF Sorts
<1> QED
  BY <1>8, <1>9

\* Whatever it is searched in, the search finds a place.
LEMMA SearchRange ==
  ASSUME NEW s \in Seq(Element), NEW x \in Element,
         NEW f, \A p \in (1 .. Len(s)) \X (1 .. Len(s)) : f[p] = SearchStep(f, s, x, p),
         NEW l \in 1 .. Len(s), NEW r \in 1 .. Len(s), l < r
  PROVE  f[<<l, r>>] \in 1 .. Len(s)
<1> DEFINE n == Len(s)
           Right(m) == \A a, b \in 1 .. n : a < b /\ b - a <= m => f[<<a, b>>] \in 1 .. n
           S == {m \in Nat : Right(m)}
<1>0. n \in Nat
  BY LenProperties
<1>1. 0 \in S
  <2>1. \A a, b \in 1 .. n : ~(a < b /\ b - a <= 0)
    BY <1>0
  <2> QED
    BY <2>1
<1>2. \A m \in 1 .. n : m - 1 \in S => m \in S
  <2> SUFFICES ASSUME NEW m \in 1 .. n, Right(m - 1) PROVE Right(m)
    <3> HIDE DEF Right
    <3>1. \A m \in 1 .. n : m \in Nat
      BY <1>0
    <3> QED
      BY <3>1
  <2> SUFFICES ASSUME NEW a \in 1 .. n, NEW b \in 1 .. n, a < b, b - a <= m PROVE f[<<a, b>>] \in 1 .. n
    OBVIOUS
  <2> DEFINE c == Middle(<<a, b>>)
  <2>1. c \in 1 .. n /\ a <= c /\ c < b /\ (c - a > 1 => a < c) /\ (b - c > 1 => a < c)
    BY <1>0, MiddleFacts
  <2>2. f[<<a, b>>] = SearchStep(f, s, x, <<a, b>>)
    OBVIOUS
  <2>3. \/ f[<<a, b>>] = c
        \/ c - a > 1 /\ f[<<a, b>>] = f[<<a, c>>]
        \/ f[<<a, b>>] = c + 1
        \/ b - c > 1 /\ f[<<a, b>>] = f[<<c, b>>]
    <3>1. c - a \in Int /\ b - c \in Int
      BY <2>1
    <3>2. f[<<a, b>>] = IF Cmp(x, s[c]) < 0
                        THEN IF c - a <= 1 THEN c ELSE f[<<a, c>>]
                        ELSE IF b - c <= 1 THEN c + 1 ELSE f[<<c, b>>]
      BY <2>2 DEF SearchStep
    <3> QED
      BY <3>1, <3>2
  <2>4. \A u, v \in 1 .. n : u < v /\ v - u <= m - 1 => f[<<u, v>>] \in 1 .. n
    OBVIOUS
  <2> HIDE DEF c, S
  <2>5. c - a > 1 => f[<<a, c>>] \in 1 .. n
    <3>1. c - a > 1 => a < c /\ c - a <= m - 1
      BY <1>0, <2>1
    <3> QED
      BY <2>1, <2>4, <3>1
  <2>6. b - c > 1 => f[<<c, b>>] \in 1 .. n
    <3>1. b - c > 1 => c < b /\ b - c <= m - 1
      BY <1>0, <2>1
    <3> QED
      BY <2>1, <2>4, <3>1
  <2>7. c + 1 \in 1 .. n
    BY <1>0, <2>1
  <2> QED
    BY <2>1, <2>3, <2>5, <2>6, <2>7
<1>3. n \in S
  <2> HIDE DEF S
  <2>1. \A i \in 0 .. n : i \in S
    BY <1>0, <1>1, <1>2, InductionUpto
  <2> QED
    BY <1>0, <2>1
<1>4. l < r /\ r - l <= n
  BY <1>0
<1> QED
  BY <1>3, <1>4

LEMMA InsertedType ==
  ASSUME NEW s \in Seq(Element), s # <<>>, NEW x \in Element
  PROVE  Inserted(s, x) \in Seq(Element) /\ Inserted(s, x) # <<>>
<1> DEFINE n == Len(s)
<1>1. /\ n \in Nat /\ n >= 1 /\ 1 \in 1 .. n /\ n \in 1 .. n /\ Last(s) = s[n]
      /\ \A i \in 1 .. n : s[i] \in Element
  BY LenProperties, EmptySeq, ElementOfSeq DEF Last
<1>2. CASE Cmp(Last(s), x) <= 0
  <2>1. Inserted(s, x) = Append(s, x)
    BY <1>2 DEF Inserted
  <2> QED
    BY <2>1, AppendProperties
<1>3. CASE ~(Cmp(Last(s), x) <= 0)
  <2> DEFINE p == InsertionFind(s, x)
  <2>1. p \in 1 .. n
    <3> DEFINE D == (1 .. n) \X (1 .. n)
               search == SearchOf(s, x)
    <3>1. p = IF Cmp(x, s[1]) < 0 THEN 1 ELSE IF Cmp(x, Last(s)) > 0 THEN n ELSE search[<<1, n>>]
      BY Zenon DEF InsertionFind, SearchOf, SearchStep, Middle
    <3>2. n = 1 => Cmp(x, s[1]) < 0
      BY <1>1, <1>3, ElementFacts
    <3>3. \A q \in D : search[q] = SearchStep(search, s, x, q)
      BY SearchSolved
    <3> HIDE DEF search
    <3>4. n # 1 => search[<<1, n>>] \in 1 .. n
      <4>1. n # 1 => 1 < n
        <5>1. n \in Nat /\ n >= 1
          BY <1>1
        <5> HIDE DEF n
        <5> QED
          BY <5>1
      <4> QED
        BY <1>1, <3>3, <4>1, SearchRange
    <3> QED
      BY <1>1, <3>1, <3>2, <3>4
  <2>2. Inserted(s, x) = InsertAt(s, p, x)
    BY <1>3 DEF Inserted
  <2> DEFINE t == InsertAt(s, p, x)
  <2> HIDE DEF p
  <2>3. t \in Seq(Element) /\ HasMore(t, s, p, x)
    BY <2>1, InsertedSeq
  <2>4. t # <<>>
    BY <1>1, <2>3, EmptySeq DEF HasMore
  <2> QED
    BY <2>2, <2>3, <2>4
<1> QED
  BY <1>2, <1>3

\* Inserting the elements of t one after the other.
InsertedAll(s, t) ==
  FoldLeft(LAMBDA sorted, x :
             IF Cmp(Last(sorted), x) <= 0 THEN Append(sorted, x)
             ELSE InsertAt(sorted, InsertionFind(sorted, x), x), s, t)

Inserting(f, s, t) ==
  /\ f[0] = s /\ f[Len(t)] = InsertedAll(s, t)
  /\ \A i \in 1 .. Len(t) : f[i] = Inserted(f[i - 1], t[i])

LEMMA InsertedSteps ==
  ASSUME NEW s \in Seq(Element), s # <<>>, NEW t \in Seq(Element)
  PROVE  \E f : Inserting(f, s, t)
<1> DEFINE V == Seq(Element) \ {<<>>}
           Op(x, y) == Inserted(x, y)
           step == [p \in V \X Element |-> Op(p[1], p[2])]
           Is(g) == g = [x \in SUBSET (1 .. Len(t)) |->
                           IF x = {} THEN s ELSE Op(g[x \ {Max(x)}], t[Max(x)])]
           iter == CHOOSE g : Is(g)
<1>1. \A x \in V, y \in Element : Op(x, y) \in V
  BY InsertedType
<1>2. InsertedAll(s, t) = iter[1 .. Len(t)]
  <2>1. DOMAIN t = 1 .. Len(t)
    BY LenProperties
  <2> QED
    BY <2>1 DEF InsertedAll, Inserted, FoldLeft, MapThenFoldSet
<1> HIDE DEF Op, V
<1>3. step \in [V \X Element -> V] /\ \A x \in V, y \in Element : step[<<x, y>>] = Op(x, y)
  BY <1>1
<1>4. \A x \in SUBSET (1 .. Len(t)) : x # {} => Max(x) \in 1 .. Len(t) /\ t[Max(x)] \in Element
  <2>1. Len(t) \in Nat
    BY LenProperties
  <2> QED
    BY <2>1, MaxUpto, ElementOfSeq
<1>0. s \in V
  BY DEF V
<1> HIDE DEF step
<1>5. PICK g \in [SUBSET (1 .. Len(t)) -> V] : IsIter(g, step, s, t)
  BY <1>0, <1>3, IterExists
<1>6. Is(g)
  BY <1>3, <1>4, <1>5 DEF IsIter
<1>7. Is(iter)
  BY <1>6
<1> HIDE DEF iter
<1>8. IsFoldOf(iter, step, s, t, V)
  BY <1>3, <1>4, <1>7 DEF IsFoldOf
<1>9. PICK f \in [0 .. Len(t) -> V] : TakenFrom(f, iter, step, s, t)
  BY <1>0, <1>3, <1>8, FoldSteps
<1>10. \A i \in 1 .. Len(t) : f[i] = Op(f[i - 1], t[i])
  <2> TAKE i \in 1 .. Len(t)
  <2>1. i - 1 \in 0 .. Len(t) /\ t[i] \in Element
    BY LenProperties, ElementOfSeq
  <2> QED
    BY <1>3, <1>9, <2>1 DEF TakenFrom
<1> QED
  BY <1>2, <1>9, <1>10 DEF Op, TakenFrom, Inserting

\* The elements after the first n, which came later the further they stand, are put in order.
LEMMA InsertionSorts ==
  ASSUME NEW S, NEW s, Lists(s, S, Element), NEW n \in 1 .. Len(s), Rising(SubSeq(s, 1, n)),
         \A i \in n + 1 .. Len(s) : \A j \in 1 .. i - 1 : s[j].was < s[i].was
  PROVE  Sorts(InsertionSortStart(s, n), S)
<1> DEFINE u == SubSeq(s, 1, n)
           t == SubSeq(s, n + 1, Len(s))
           Upto(i) == {s[j] : j \in 1 .. n + i}
<1>1. /\ s \in Seq(Element) /\ Len(s) \in Nat /\ n \in Nat /\ n >= 1 /\ n <= Len(s)
      /\ \A i \in 1 .. Len(s) : s[i] \in S /\ s[i] \in Element
  BY ListFacts
<1>2. u \in Seq(Element) /\ Len(u) = n /\ \A i \in 1 .. n : u[i] = s[i]
  <2>1. /\ SubSeq(s, 1, n) \in Seq(Element) /\ Len(SubSeq(s, 1, n)) = n - 1 + 1
        /\ \A i \in 1 .. n - 1 + 1 : SubSeq(s, 1, n)[i] = s[1 + i - 1]
    BY <1>1, Segment
  <2>2. n - 1 + 1 = n /\ \A i \in 1 .. n : 1 + i - 1 = i
    BY <1>1
  <2> QED
    BY <2>1, <2>2
<1>3. t \in Seq(Element) /\ Len(t) = Len(s) - n /\ \A i \in 1 .. Len(s) - n : t[i] = s[n + i]
  <2>1. /\ SubSeq(s, n + 1, Len(s)) \in Seq(Element) /\ Len(SubSeq(s, n + 1, Len(s))) = Len(s) - (n + 1) + 1
        /\ \A i \in 1 .. Len(s) - (n + 1) + 1 : SubSeq(s, n + 1, Len(s))[i] = s[n + 1 + i - 1]
    BY <1>1, Segment
  <2>2. Len(s) - (n + 1) + 1 = Len(s) - n /\ \A i \in 1 .. Len(s) - n : n + 1 + i - 1 = n + i
    BY <1>1
  <2> QED
    BY <2>1, <2>2
<1>4. InsertionSortStart(s, n) = InsertedAll(u, t)
  BY DEF InsertionSortStart, InsertedAll
<1>5. Rising(u)
  OBVIOUS
<1> HIDE DEF u, t
<1>6. PICK f : Inserting(f, u, t)
  <2>1. u # <<>>
    BY <1>1, <1>2, EmptySeq
  <2> QED
    BY <1>2, <1>3, <2>1, InsertedSteps
<1> DEFINE T == {i \in Nat : i <= Len(t) => Sorts(f[i], Upto(i))}
<1>7. 0 \in T
  <2>1. \A i \in 1 .. Len(u) : u[i] \in Upto(0)
    BY <1>1, <1>2
  <2>2. \A x \in Upto(0) : \E i \in 1 .. Len(u) : u[i] = x
    BY <1>1, <1>2
  <2>3. \A i, j \in 1 .. Len(u) : u[i] = u[j] => i = j
    <3>1. \A i \in 1 .. Len(u) : i \in 1 .. Len(s) /\ u[i] = s[i]
      BY <1>1, <1>2
    <3> QED
      BY <3>1, ListFacts
  <2> HIDE DEF Upto
  <2>4. Lists(u, Upto(0), Element)
    BY <1>2, <2>1, <2>2, <2>3, ListsWhen
  <2> QED
    BY <1>5, <1>6, <2>4 DEF Sorts, Inserting
<1>8. \A i \in 1 .. Len(t) : i - 1 \in T => i \in T
  <2> SUFFICES ASSUME NEW i \in 1 .. Len(t), i - 1 \in T PROVE i \in T
    OBVIOUS
  <2>1. Sorts(f[i - 1], Upto(i - 1)) /\ i \in Nat
    BY <1>1, <1>3
  <2>2. /\ n + i \in n + 1 .. Len(s) /\ n + i \in 1 .. Len(s) /\ t[i] = s[n + i]
        /\ n + (i - 1) = n + i - 1
    BY <1>1, <1>3
  <2>3. \A y \in Upto(i - 1) : y.was < t[i].was
    BY <2>2
  <2>4. Upto(i - 1) # {} /\ Upto(i) = Upto(i - 1) \cup {t[i]}
    <3>1. 1 .. n + i = (1 .. n + (i - 1)) \cup {n + i} /\ 1 \in 1 .. n + (i - 1)
      BY <1>1, <2>2
    <3> QED
      BY <2>2, <3>1
  <2>5. t[i] \in Element /\ f[i] = Inserted(f[i - 1], t[i])
    BY <1>1, <1>6, <2>2 DEF Inserting
  <2> HIDE DEF Upto
  <2>6. Sorts(Inserted(f[i - 1], t[i]), Upto(i - 1) \cup {t[i]})
    BY <2>1, <2>3, <2>4, <2>5, InsertedInOrder
  <2> QED
    BY <2>1, <2>4, <2>5, <2>6
<1> HIDE DEF T
<1>9. Len(t) \in T
  <2>1. Len(t) \in Nat
    BY <1>1, <1>3
  <2>2. \A i \in 0 .. Len(t) : i \in T
    BY <1>7, <1>8, <2>1, InductionUpto
  <2> QED
    BY <2>1, <2>2
<1>10. Upto(Len(t)) = S
  <2>1. n + Len(t) = Len(s)
    BY <1>1, <1>3
  <2>2. S = {s[j] : j \in 1 .. Len(s)}
    <3>1. \A x \in S : \E j \in 1 .. Len(s) : s[j] = x
      BY ListFacts
    <3> QED
      BY <1>1, <3>1
  <2> QED
    BY <2>1, <2>2
<1>11. Sorts(f[Len(t)], Upto(Len(t)))
  BY <1>1, <1>3, <1>9 DEF T
<1> QED
  BY <1>4, <1>6, <1>10, <1>11 DEF Inserting
-----------------------------------------------------------------------------
(* Merging.                                                                *)

\* The elements of a up to a place, and behind it.
FirstOf(a, i) == {a[x] : x \in 1 .. i}
RestOf(a, i) == {a[x] : x \in i + 1 .. Len(a)}

LEMMA PartsOf ==
  ASSUME NEW S, NEW a, Sorts(a, S)
  PROVE  /\ FirstOf(a, 0) = {} /\ RestOf(a, 0) = S /\ FirstOf(a, Len(a)) = S /\ RestOf(a, Len(a)) = {}
         /\ \A i \in 0 .. Len(a) : FirstOf(a, i) \subseteq S /\ RestOf(a, i) \subseteq S
         /\ S \subseteq Element /\ Len(a) \in Nat
<1>1. /\ Len(a) \in Nat /\ S \subseteq Element /\ \A i \in 1 .. Len(a) : a[i] \in S
      /\ \A x \in S : \E i \in 1 .. Len(a) : a[i] = x
  BY ListFacts DEF Sorts
<1>2. 1 .. 0 = {} /\ Len(a) + 1 .. Len(a) = {} /\ 0 + 1 .. Len(a) = 1 .. Len(a)
  BY <1>1
<1>3. \A i \in 0 .. Len(a) : 1 .. i \subseteq 1 .. Len(a) /\ i + 1 .. Len(a) \subseteq 1 .. Len(a)
  BY <1>1
<1>4. FirstOf(a, 0) = {} /\ RestOf(a, Len(a)) = {}
  BY <1>2 DEF FirstOf, RestOf
<1>5. FirstOf(a, Len(a)) = S /\ RestOf(a, 0) = S
  BY <1>1, <1>2 DEF FirstOf, RestOf
<1>6. \A i \in 0 .. Len(a) : FirstOf(a, i) \subseteq S /\ RestOf(a, i) \subseteq S
  BY <1>1, <1>3 DEF FirstOf, RestOf
<1> QED
  BY <1>1, <1>4, <1>5, <1>6

\* The first of those behind a place, which is the last of those up to the next.
LEMMA NextOf ==
  ASSUME NEW S, NEW a, Sorts(a, S), NEW i \in 1 .. Len(a), NEW k, k = i - 1
  PROVE  /\ FirstOf(a, i) = FirstOf(a, k) \cup {a[i]} /\ RestOf(a, k) = RestOf(a, i) \cup {a[i]}
         /\ a[i] \notin FirstOf(a, k) /\ a[i] \notin RestOf(a, i) /\ a[i] \in S /\ a[i] \in Element
         /\ \A x \in FirstOf(a, k) : Precedes(x, a[i])
         /\ \A x \in FirstOf(a, i) : x.key <= a[i].key
         /\ \A x \in RestOf(a, i) : Precedes(a[i], x)
         /\ \A x \in RestOf(a, k) : a[i].key <= x.key
<1>1. /\ Len(a) \in Nat /\ S \subseteq Element /\ \A x \in 1 .. Len(a) : a[x] \in S /\ a[x] \in Element
      /\ \A x, y \in 1 .. Len(a) : a[x] = a[y] => x = y
  BY ListFacts DEF Sorts
<1>2. \A x, y \in 1 .. Len(a) : x < y => Precedes(a[x], a[y])
  BY ListFacts DEF Sorts, Rising
<1>3. \A x \in 1 .. Len(a) : a[x].key \in Int
  BY <1>1, ElementFacts
<1>4. \A x, y \in 1 .. Len(a) : x <= y => a[x].key <= a[y].key
  BY <1>2, <1>3 DEF Precedes
<1>5. /\ 1 .. i = (1 .. k) \cup {i} /\ k + 1 .. Len(a) = (i + 1 .. Len(a)) \cup {i}
      /\ \A x \in 1 .. k : x \in 1 .. Len(a) /\ x < i
      /\ \A x \in 1 .. i : x \in 1 .. Len(a) /\ x <= i
      /\ \A x \in i + 1 .. Len(a) : x \in 1 .. Len(a) /\ i < x
      /\ \A x \in k + 1 .. Len(a) : x \in 1 .. Len(a) /\ i <= x
  BY <1>1
<1>6. FirstOf(a, i) = FirstOf(a, k) \cup {a[i]} /\ RestOf(a, k) = RestOf(a, i) \cup {a[i]}
  BY <1>5 DEF FirstOf, RestOf
<1>7. a[i] \notin FirstOf(a, k)
  <2> SUFFICES ASSUME NEW x \in 1 .. k, a[x] = a[i] PROVE FALSE
    BY DEF FirstOf
  <2>1. x = i
    BY <1>1, <1>5
  <2> QED
    BY <1>5, <2>1
<1>8. a[i] \notin RestOf(a, i)
  <2> SUFFICES ASSUME NEW x \in i + 1 .. Len(a), a[x] = a[i] PROVE FALSE
    BY DEF RestOf
  <2>1. x = i
    BY <1>1, <1>5
  <2> QED
    BY <1>5, <2>1
<1>9. /\ \A x \in FirstOf(a, k) : Precedes(x, a[i])
      /\ \A x \in RestOf(a, i) : Precedes(a[i], x)
  BY <1>2, <1>5 DEF FirstOf, RestOf
<1>10. /\ \A x \in FirstOf(a, i) : x.key <= a[i].key
       /\ \A x \in RestOf(a, k) : a[i].key <= x.key
  BY <1>4, <1>5 DEF FirstOf, RestOf
<1> QED
  BY <1>1, <1>6, <1>7, <1>8, <1>9, <1>10

\* All of D come before all of R.
AllPrecede(D, R) == \A x \in D, y \in R : Precedes(x, y)

\* An element behind those that come before it, or ahead of those that come after it.
LEMMA SortedAppend ==
  ASSUME NEW D, NEW s, Sorts(s, D), NEW z \in Element \ D, \A x \in D : Precedes(x, z)
  PROVE  Sorts(Append(s, z), D \cup {z})
<1> DEFINE n == Len(s)
           t == Append(s, z)
<1>0. Lists(s, D, Element)
  BY DEF Sorts
<1>1. s \in Seq(Element) /\ n \in Nat /\ \A i \in 1 .. n : s[i] \in D
  BY <1>0, ListFacts
<1>2. \A i, j \in 1 .. n : i < j => Precedes(s[i], s[j])
  BY <1>0, ListFacts DEF Sorts, Rising
<1>3. Lists(t, D \cup {z}, Element)
  BY <1>0, ListAppend
<1>4. Len(t) = n + 1 /\ t[n + 1] = z /\ \A i \in 1 .. n : t[i] = s[i]
  BY <1>1, AppendProperties
<1> HIDE DEF t
<1>5. DOMAIN t = 1 .. n + 1
  BY <1>3, <1>4, ListFacts
<1>6. ASSUME NEW i \in 1 .. n + 1, NEW j \in 1 .. n + 1, i < j PROVE Precedes(t[i], t[j])
  <2>1. i \in 1 .. n /\ (j \in 1 .. n \/ j = n + 1)
    BY <1>1, <1>6
  <2>2. CASE j \in 1 .. n
    BY <1>2, <1>4, <1>6, <2>1, <2>2
  <2>3. CASE j = n + 1
    BY <1>1, <1>4, <2>1, <2>3
  <2> QED
    BY <2>1, <2>2, <2>3
<1>7. Rising(t)
  BY <1>5, <1>6 DEF Rising
<1> QED
  BY <1>3, <1>7 DEF Sorts, t

LEMMA SortedPut ==
  ASSUME NEW D, NEW s, Sorts(s, D), NEW z \in Element \ D, \A x \in D : Precedes(z, x)
  PROVE  Sorts(<<z>> \o s, D \cup {z})
<1> DEFINE n == Len(s)
           o == <<z>>
           t == o \o s
<1>0. Lists(s, D, Element)
  BY DEF Sorts
<1>1. s \in Seq(Element) /\ n \in Nat /\ \A i \in 1 .. n : s[i] \in D
  BY <1>0, ListFacts
<1>2. \A i, j \in 1 .. n : i < j => Precedes(s[i], s[j])
  BY <1>0, ListFacts DEF Sorts, Rising
<1>3. Lists(o, {z}, Element)
  BY ListOne
<1>4. o \in Seq(Element) /\ Len(o) = 1 /\ o[1] = z
  OBVIOUS
<1> HIDE DEF o
<1>5. Lists(t, {z} \cup D, Element)
  <2>1. {z} \cap D = {}
    OBVIOUS
  <2> QED
    BY <1>0, <1>3, <2>1, ListConcat
<1>6. Len(t) = 1 + n /\ \A i \in 1 .. 1 + n : t[i] = IF i <= 1 THEN o[i] ELSE s[i - 1]
  <2>1. /\ Len(t) = Len(o) + Len(s)
        /\ \A i \in 1 .. Len(o) + Len(s) : t[i] = IF i <= Len(o) THEN o[i] ELSE s[i - Len(o)]
    BY <1>1, <1>4, ConcatProperties
  <2> HIDE DEF t
  <2> QED
    BY <1>4, <2>1
<1> HIDE DEF t
<1>7. DOMAIN t = 1 .. 1 + n
  BY <1>5, <1>6, ListFacts
<1>8. \A i \in 1 .. 1 + n : (i = 1 => t[i] = z) /\ (i # 1 => i - 1 \in 1 .. n /\ t[i] = s[i - 1])
  BY <1>1, <1>4, <1>6
<1>9. ASSUME NEW i \in 1 .. 1 + n, NEW j \in 1 .. 1 + n, i < j PROVE Precedes(t[i], t[j])
  <2>1. j # 1
    BY <1>9
  <2>2. CASE i = 1
    <3>1. s[j - 1] \in D
      BY <1>1, <1>8, <2>1
    <3> QED
      BY <1>8, <2>1, <2>2, <3>1
  <2>3. CASE i # 1
    <3>1. i - 1 \in 1 .. n /\ j - 1 \in 1 .. n /\ i - 1 < j - 1
      BY <1>8, <1>9, <2>1, <2>3
    <3>2. Precedes(s[i - 1], s[j - 1])
      BY <1>2, <3>1
    <3> QED
      BY <1>8, <2>1, <2>3, <3>2
  <2> QED
    BY <2>2, <2>3
<1>10. Rising(t)
  BY <1>7, <1>9 DEF Rising
<1>11. {z} \cup D = D \cup {z}
  OBVIOUS
<1> QED
  BY <1>5, <1>10, <1>11 DEF Sorts, t, o

\* Taking the first of what is left, and the last of what is left.
LEMMA FirstTaken ==
  ASSUME NEW out, NEW D, NEW R, NEW Q, NEW z \in Element \ D, Sorts(out, D), AllPrecede(D, R), R = Q \cup {z},
         \A y \in Q : Precedes(z, y), NEW G, G = D \cup {z}
  PROVE  Sorts(Append(out, z), G) /\ AllPrecede(G, Q)
<1>1. \A x \in D : Precedes(x, z)
  BY DEF AllPrecede
<1>2. Sorts(Append(out, z), D \cup {z})
  BY <1>1, SortedAppend
<1> QED
  BY <1>2 DEF AllPrecede

LEMMA LastTaken ==
  ASSUME NEW out, NEW D, NEW R, NEW Q, NEW z \in Element \ R, Sorts(out, R), AllPrecede(D, R), D = Q \cup {z},
         \A x \in Q : Precedes(x, z), NEW G, G = R \cup {z}
  PROVE  Sorts(<<z>> \o out, G) /\ AllPrecede(Q, G)
<1>1. \A y \in R : Precedes(z, y)
  BY DEF AllPrecede
<1>2. Sorts(<<z>> \o out, R \cup {z})
  BY <1>1, SortedPut
<1> QED
  BY <1>2 DEF AllPrecede

\* Elements of the left run and elements of the right one.
LEMMA LeftBeforeRight ==
  ASSUME NEW x \in Element, NEW y \in Element, x.was < y.was
  PROVE  (x.key <= y.key => Precedes(x, y)) /\ (y.key < x.key => Precedes(y, x)) /\ x # y
<1>1. x.key \in Int /\ y.key \in Int /\ x.was \in Nat /\ y.was \in Nat
  BY ElementFacts
<1> QED
  BY <1>1 DEF Precedes

\* Two runs, each in order, and all of a stood before all of b at first.
Mergeable(a, S, b, T) == Sorts(a, S) /\ Sorts(b, T) /\ \A x \in S, y \in T : x.was < y.was

LEMMA MergeableFacts ==
  ASSUME NEW a, NEW S, NEW b, NEW T, Mergeable(a, S, b, T)
  PROVE  /\ Sorts(a, S) /\ Sorts(b, T) /\ S \subseteq Element /\ T \subseteq Element /\ S \cap T = {}
         /\ Len(a) \in Nat /\ Len(b) \in Nat /\ a \in Seq(Element) /\ b \in Seq(Element)
         /\ \A x \in S, y \in T : /\ x.key <= y.key => Precedes(x, y)
                                  /\ y.key < x.key => Precedes(y, x)
<1>1. /\ Sorts(a, S) /\ Sorts(b, T) /\ S \subseteq Element /\ T \subseteq Element
      /\ Len(a) \in Nat /\ Len(b) \in Nat /\ a \in Seq(Element) /\ b \in Seq(Element)
  BY ListFacts DEF Sorts, Mergeable
<1>2. \A x \in S, y \in T : x \in Element /\ y \in Element /\ x.was < y.was
  BY <1>1 DEF Mergeable
<1> QED
  BY <1>1, <1>2, LeftBeforeRight

\* What of the two runs is taken, and what is left.
TakenOf(a, b, i, j) == FirstOf(a, i) \cup FirstOf(b, j)
LeftOf(a, b, i, j) == RestOf(a, i) \cup RestOf(b, j)

LeftTake(a, b, m) ==
  IF m.i < Len(a) /\ (m.j < Len(b) => Cmp(a[m.i + 1], b[m.j + 1]) <= 0)
  THEN [i |-> m.i + 1, j |-> m.j, out |-> Append(m.out, a[m.i + 1])]
  ELSE [i |-> m.i, j |-> m.j + 1, out |-> Append(m.out, b[m.j + 1])]

RightTake(a, b, m) ==
  IF m.i > 0 /\ (m.j > 0 => Cmp(a[m.i], b[m.j]) > 0)
  THEN [i |-> m.i - 1, j |-> m.j, out |-> <<a[m.i]>> \o m.out]
  ELSE [i |-> m.i, j |-> m.j - 1, out |-> <<b[m.j]>> \o m.out]

LeftTook(a, b, m, k) ==
  /\ m.i \in 0 .. Len(a) /\ m.j \in 0 .. Len(b) /\ m.i + m.j = k
  /\ Sorts(m.out, TakenOf(a, b, m.i, m.j)) /\ AllPrecede(TakenOf(a, b, m.i, m.j), LeftOf(a, b, m.i, m.j))

RightTook(a, b, m, k) ==
  /\ m.i \in 0 .. Len(a) /\ m.j \in 0 .. Len(b) /\ m.i + m.j = Len(a) + Len(b) - k
  /\ Sorts(m.out, LeftOf(a, b, m.i, m.j)) /\ AllPrecede(TakenOf(a, b, m.i, m.j), LeftOf(a, b, m.i, m.j))

\* What the comparison of a left and a right element says.
LEMMA Compared ==
  ASSUME NEW a, NEW S, NEW b, NEW T, Mergeable(a, S, b, T), NEW i \in 1 .. Len(a), NEW j \in 1 .. Len(b)
  PROVE  /\ a[i] \in S /\ b[j] \in T /\ a[i].key \in Int /\ b[j].key \in Int
         /\ Cmp(a[i], b[j]) <= 0 <=> a[i].key <= b[j].key
         /\ Cmp(a[i], b[j]) > 0 <=> b[j].key < a[i].key
<1>1. Sorts(a, S) /\ Sorts(b, T)
  BY MergeableFacts
<1>2. a[i] \in S /\ b[j] \in T /\ a[i] \in Element /\ b[j] \in Element
  BY <1>1, ListFacts DEF Sorts
<1> QED
  BY <1>2, ElementFacts

\* Taking from the left run: all that is left of the right one is not smaller.
LEMMA TakeFromLeft ==
  ASSUME NEW a, NEW S, NEW b, NEW T, Mergeable(a, S, b, T), NEW out, NEW i \in 1 .. Len(a), NEW j \in 0 .. Len(b),
         NEW k, k = i - 1, Sorts(out, TakenOf(a, b, k, j)), AllPrecede(TakenOf(a, b, k, j), LeftOf(a, b, k, j)),
         \A y \in RestOf(b, j) : a[i].key <= y.key
  PROVE  Sorts(Append(out, a[i]), TakenOf(a, b, i, j)) /\ AllPrecede(TakenOf(a, b, i, j), LeftOf(a, b, i, j))
<1>1. /\ Sorts(a, S) /\ Sorts(b, T) /\ S \cap T = {}
      /\ \A x \in S, y \in T : x.key <= y.key => Precedes(x, y)
  BY MergeableFacts
<1>2. /\ FirstOf(a, i) = FirstOf(a, k) \cup {a[i]} /\ RestOf(a, k) = RestOf(a, i) \cup {a[i]}
      /\ a[i] \notin FirstOf(a, k) /\ a[i] \in S /\ a[i] \in Element
      /\ \A x \in RestOf(a, i) : Precedes(a[i], x)
  BY <1>1, NextOf
<1>3. FirstOf(b, j) \subseteq T /\ RestOf(b, j) \subseteq T
  BY <1>1, PartsOf
<1> DEFINE z == a[i]
           D == TakenOf(a, b, k, j)
           R == LeftOf(a, b, k, j)
           Q == LeftOf(a, b, i, j)
           G == TakenOf(a, b, i, j)
<1>4. R = Q \cup {z} /\ G = D \cup {z} /\ z \in Element \ D
  BY <1>1, <1>2, <1>3 DEF TakenOf, LeftOf
<1>5. \A y \in Q : Precedes(z, y)
  BY <1>1, <1>2, <1>3 DEF LeftOf
<1>6. Sorts(out, D) /\ AllPrecede(D, R)
  OBVIOUS
<1> HIDE DEF z, D, R, Q, G
<1>7. Sorts(Append(out, z), G) /\ AllPrecede(G, Q)
  BY <1>4, <1>5, <1>6, FirstTaken
<1> QED
  BY <1>7 DEF z, G, Q

LEMMA TakeFromRight ==
  ASSUME NEW a, NEW S, NEW b, NEW T, Mergeable(a, S, b, T), NEW out, NEW i \in 0 .. Len(a), NEW j \in 1 .. Len(b),
         NEW k, k = j - 1, Sorts(out, TakenOf(a, b, i, k)), AllPrecede(TakenOf(a, b, i, k), LeftOf(a, b, i, k)),
         \A x \in RestOf(a, i) : b[j].key < x.key
  PROVE  Sorts(Append(out, b[j]), TakenOf(a, b, i, j)) /\ AllPrecede(TakenOf(a, b, i, j), LeftOf(a, b, i, j))
<1>1. /\ Sorts(a, S) /\ Sorts(b, T) /\ S \cap T = {}
      /\ \A x \in S, y \in T : y.key < x.key => Precedes(y, x)
  BY MergeableFacts
<1>2. /\ FirstOf(b, j) = FirstOf(b, k) \cup {b[j]} /\ RestOf(b, k) = RestOf(b, j) \cup {b[j]}
      /\ b[j] \notin FirstOf(b, k) /\ b[j] \in T /\ b[j] \in Element
      /\ \A x \in RestOf(b, j) : Precedes(b[j], x)
  BY <1>1, NextOf
<1>3. FirstOf(a, i) \subseteq S /\ RestOf(a, i) \subseteq S
  BY <1>1, PartsOf
<1> DEFINE z == b[j]
           D == TakenOf(a, b, i, k)
           R == LeftOf(a, b, i, k)
           Q == LeftOf(a, b, i, j)
           G == TakenOf(a, b, i, j)
<1>4. R = Q \cup {z} /\ G = D \cup {z} /\ z \in Element \ D
  BY <1>1, <1>2, <1>3 DEF TakenOf, LeftOf
<1>5. \A y \in Q : Precedes(z, y)
  BY <1>1, <1>2, <1>3 DEF LeftOf
<1>6. Sorts(out, D) /\ AllPrecede(D, R)
  OBVIOUS
<1> HIDE DEF z, D, R, Q, G
<1>7. Sorts(Append(out, z), G) /\ AllPrecede(G, Q)
  BY <1>4, <1>5, <1>6, FirstTaken
<1> QED
  BY <1>7 DEF z, G, Q

\* The same from the ends of the two runs.
LEMMA PutFromLeft ==
  ASSUME NEW a, NEW S, NEW b, NEW T, Mergeable(a, S, b, T), NEW out, NEW i \in 1 .. Len(a), NEW j \in 0 .. Len(b),
         NEW k, k = i - 1, Sorts(out, LeftOf(a, b, i, j)), AllPrecede(TakenOf(a, b, i, j), LeftOf(a, b, i, j)),
         \A y \in FirstOf(b, j) : y.key < a[i].key
  PROVE  Sorts(<<a[i]>> \o out, LeftOf(a, b, k, j)) /\ AllPrecede(TakenOf(a, b, k, j), LeftOf(a, b, k, j))
<1>1. /\ Sorts(a, S) /\ Sorts(b, T) /\ S \cap T = {}
      /\ \A x \in S, y \in T : y.key < x.key => Precedes(y, x)
  BY MergeableFacts
<1>2. /\ FirstOf(a, i) = FirstOf(a, k) \cup {a[i]} /\ RestOf(a, k) = RestOf(a, i) \cup {a[i]}
      /\ a[i] \notin RestOf(a, i) /\ a[i] \in S /\ a[i] \in Element
      /\ \A x \in FirstOf(a, k) : Precedes(x, a[i])
  BY <1>1, NextOf
<1>3. FirstOf(b, j) \subseteq T /\ RestOf(b, j) \subseteq T
  BY <1>1, PartsOf
<1> DEFINE z == a[i]
           D == TakenOf(a, b, i, j)
           R == LeftOf(a, b, i, j)
           Q == TakenOf(a, b, k, j)
           G == LeftOf(a, b, k, j)
<1>4. D = Q \cup {z} /\ G = R \cup {z} /\ z \in Element \ R
  BY <1>1, <1>2, <1>3 DEF TakenOf, LeftOf
<1>5. \A y \in Q : Precedes(y, z)
  BY <1>1, <1>2, <1>3 DEF TakenOf
<1>6. Sorts(out, R) /\ AllPrecede(D, R)
  OBVIOUS
<1> HIDE DEF z, D, R, Q, G
<1>7. Sorts(<<z>> \o out, G) /\ AllPrecede(Q, G)
  BY <1>4, <1>5, <1>6, LastTaken
<1> QED
  BY <1>7 DEF z, G, Q

LEMMA PutFromRight ==
  ASSUME NEW a, NEW S, NEW b, NEW T, Mergeable(a, S, b, T), NEW out, NEW i \in 0 .. Len(a), NEW j \in 1 .. Len(b),
         NEW k, k = j - 1, Sorts(out, LeftOf(a, b, i, j)), AllPrecede(TakenOf(a, b, i, j), LeftOf(a, b, i, j)),
         \A x \in FirstOf(a, i) : x.key <= b[j].key
  PROVE  Sorts(<<b[j]>> \o out, LeftOf(a, b, i, k)) /\ AllPrecede(TakenOf(a, b, i, k), LeftOf(a, b, i, k))
<1>1. /\ Sorts(a, S) /\ Sorts(b, T) /\ S \cap T = {}
      /\ \A x \in S, y \in T : x.key <= y.key => Precedes(x, y)
  BY MergeableFacts
<1>2. /\ FirstOf(b, j) = FirstOf(b, k) \cup {b[j]} /\ RestOf(b, k) = RestOf(b, j) \cup {b[j]}
      /\ b[j] \notin RestOf(b, j) /\ b[j] \in T /\ b[j] \in Element
      /\ \A x \in FirstOf(b, k) : Precedes(x, b[j])
  BY <1>1, NextOf
<1>3. FirstOf(a, i) \subseteq S /\ RestOf(a, i) \subseteq S
  BY <1>1, PartsOf
<1> DEFINE z == b[j]
           D == TakenOf(a, b, i, j)
           R == LeftOf(a, b, i, j)
           Q == TakenOf(a, b, i, k)
           G == LeftOf(a, b, i, k)
<1>4. D = Q \cup {z} /\ G = R \cup {z} /\ z \in Element \ R
  BY <1>1, <1>2, <1>3 DEF TakenOf, LeftOf
<1>5. \A y \in Q : Precedes(y, z)
  BY <1>1, <1>2, <1>3 DEF TakenOf
<1>6. Sorts(out, R) /\ AllPrecede(D, R)
  OBVIOUS
<1> HIDE DEF z, D, R, Q, G
<1>7. Sorts(<<z>> \o out, G) /\ AllPrecede(Q, G)
  BY <1>4, <1>5, <1>6, LastTaken
<1> QED
  BY <1>7 DEF z, G, Q


\* One step of the merge from the left.
LEMMA LeftTakeStep ==
  ASSUME NEW a, NEW S, NEW b, NEW T, Mergeable(a, S, b, T), NEW k \in 1 .. Len(a) + Len(b), NEW m, LeftTook(a, b, m, k - 1)
  PROVE  LeftTook(a, b, LeftTake(a, b, m), k)
<1> DEFINE i == m.i
           j == m.j
           i1 == m.i + 1
           j1 == m.j + 1
<1>0. /\ Sorts(a, S) /\ Sorts(b, T) /\ S \subseteq Element /\ T \subseteq Element
      /\ Len(a) \in Nat /\ Len(b) \in Nat
  BY MergeableFacts
<1>1. /\ i \in 0 .. Len(a) /\ j \in 0 .. Len(b) /\ i + j = k - 1
      /\ Sorts(m.out, TakenOf(a, b, i, j)) /\ AllPrecede(TakenOf(a, b, i, j), LeftOf(a, b, i, j))
  BY DEF LeftTook
<1>2. i1 = i + 1 /\ j1 = j + 1 /\ i = i1 - 1 /\ j = j1 - 1
  BY <1>1
<1> DEFINE takesLeft == i < Len(a) /\ (j < Len(b) => Cmp(a[i1], b[j1]) <= 0)
<1>3. LeftTake(a, b, m) = IF takesLeft THEN [i |-> i1, j |-> j, out |-> Append(m.out, a[i1])]
                          ELSE [i |-> i, j |-> j1, out |-> Append(m.out, b[j1])]
  BY DEF LeftTake
<1> HIDE DEF i, j, i1, j1
<1>4. i < Len(a) => i1 \in 1 .. Len(a)
  BY <1>0, <1>1, <1>2
<1>5. j < Len(b) => j1 \in 1 .. Len(b)
  BY <1>0, <1>1, <1>2
<1>6. i < Len(a) /\ j < Len(b) =>
        /\ a[i1].key \in Int /\ b[j1].key \in Int
        /\ Cmp(a[i1], b[j1]) <= 0 <=> a[i1].key <= b[j1].key
  BY <1>4, <1>5, Compared
<1>7. i < Len(a) => \A x \in RestOf(a, i) : a[i1].key <= x.key /\ x.key \in Int
  <2>1. ASSUME i < Len(a) PROVE \A x \in RestOf(a, i) : a[i1].key <= x.key
    BY <1>0, <1>2, <1>4, <2>1, NextOf
  <2>2. RestOf(a, i) \subseteq S
    BY <1>0, <1>1, PartsOf
  <2>3. \A x \in RestOf(a, i) : x.key \in Int
    BY <1>0, <2>2, ElementFacts
  <2> QED
    BY <2>1, <2>3
<1>8. j < Len(b) => \A y \in RestOf(b, j) : b[j1].key <= y.key /\ y.key \in Int
  <2>1. ASSUME j < Len(b) PROVE \A y \in RestOf(b, j) : b[j1].key <= y.key
    BY <1>0, <1>2, <1>5, <2>1, NextOf
  <2>2. RestOf(b, j) \subseteq T
    BY <1>0, <1>1, PartsOf
  <2>3. \A y \in RestOf(b, j) : y.key \in Int
    BY <1>0, <2>2, ElementFacts
  <2> QED
    BY <2>1, <2>3
<1>9. CASE takesLeft
  <2> DEFINE n == [i |-> i1, j |-> j, out |-> Append(m.out, a[i1])]
  <2>1. i1 \in 1 .. Len(a)
    BY <1>4, <1>9
  <2>2. \A y \in RestOf(b, j) : a[i1].key <= y.key
    <3>1. CASE j < Len(b)
      <4>1. a[i1].key <= b[j1].key /\ a[i1].key \in Int /\ b[j1].key \in Int
        BY <1>6, <1>9, <3>1
      <4> QED
        BY <1>8, <3>1, <4>1
    <3>2. CASE ~(j < Len(b))
      <4>1. j = Len(b)
        BY <1>0, <1>1, <3>2
      <4>2. RestOf(b, j) = {}
        BY <1>0, <4>1, PartsOf
      <4> QED
        BY <4>2
    <3> QED
      BY <3>1, <3>2
  <2>3. Sorts(Append(m.out, a[i1]), TakenOf(a, b, i1, j)) /\ AllPrecede(TakenOf(a, b, i1, j), LeftOf(a, b, i1, j))
    BY <1>1, <1>2, <2>1, <2>2, TakeFromLeft
  <2>4. i1 \in 0 .. Len(a) /\ i1 + j = k
    BY <1>0, <1>1, <1>2, <2>1
  <2>5. n.i = i1 /\ n.j = j /\ n.out = Append(m.out, a[i1]) /\ LeftTake(a, b, m) = n
    BY <1>3, <1>9
  <2> HIDE DEF n
  <2> QED
    BY <1>1, <2>3, <2>4, <2>5 DEF LeftTook
<1>10. CASE ~takesLeft
  <2> DEFINE n == [i |-> i, j |-> j1, out |-> Append(m.out, b[j1])]
  <2>1. j1 \in 1 .. Len(b)
    <3>1. j < Len(b)
      <4>1. CASE i < Len(a)
        BY <1>10, <4>1
      <4>2. CASE ~(i < Len(a))
        BY <1>0, <1>1, <4>2
      <4> QED
        BY <4>1, <4>2
    <3> QED
      BY <1>5, <3>1
  <2>2. \A x \in RestOf(a, i) : b[j1].key < x.key
    <3>1. CASE i < Len(a)
      <4>1. b[j1].key < a[i1].key /\ a[i1].key \in Int /\ b[j1].key \in Int
        BY <1>6, <1>10, <3>1
      <4> QED
        BY <1>7, <3>1, <4>1
    <3>2. CASE ~(i < Len(a))
      <4>1. i = Len(a)
        BY <1>0, <1>1, <3>2
      <4>2. RestOf(a, i) = {}
        BY <1>0, <4>1, PartsOf
      <4> QED
        BY <4>2
    <3> QED
      BY <3>1, <3>2
  <2>3. Sorts(Append(m.out, b[j1]), TakenOf(a, b, i, j1)) /\ AllPrecede(TakenOf(a, b, i, j1), LeftOf(a, b, i, j1))
    BY <1>1, <1>2, <2>1, <2>2, TakeFromRight
  <2>4. j1 \in 0 .. Len(b) /\ i + j1 = k
    BY <1>0, <1>1, <1>2, <2>1
  <2>5. n.i = i /\ n.j = j1 /\ n.out = Append(m.out, b[j1]) /\ LeftTake(a, b, m) = n
    BY <1>3, <1>10
  <2> HIDE DEF n
  <2> QED
    BY <1>1, <2>3, <2>4, <2>5 DEF LeftTook
<1> QED
  BY <1>9, <1>10

\* One step of the merge from the right.
LEMMA RightTakeStep ==
  ASSUME NEW a, NEW S, NEW b, NEW T, Mergeable(a, S, b, T), NEW k \in 1 .. Len(a) + Len(b), NEW m, RightTook(a, b, m, k - 1)
  PROVE  RightTook(a, b, RightTake(a, b, m), k)
<1> DEFINE i == m.i
           j == m.j
           i0 == m.i - 1
           j0 == m.j - 1
<1>0. /\ Sorts(a, S) /\ Sorts(b, T) /\ S \subseteq Element /\ T \subseteq Element
      /\ Len(a) \in Nat /\ Len(b) \in Nat
  BY MergeableFacts
<1>1. /\ i \in 0 .. Len(a) /\ j \in 0 .. Len(b) /\ i + j = Len(a) + Len(b) - (k - 1)
      /\ Sorts(m.out, LeftOf(a, b, i, j)) /\ AllPrecede(TakenOf(a, b, i, j), LeftOf(a, b, i, j))
  BY DEF RightTook
<1>2. i0 = i - 1 /\ j0 = j - 1
  OBVIOUS
<1> DEFINE takesLeft == i > 0 /\ (j > 0 => Cmp(a[i], b[j]) > 0)
<1>3. RightTake(a, b, m) = IF takesLeft THEN [i |-> i0, j |-> j, out |-> <<a[i]>> \o m.out]
                           ELSE [i |-> i, j |-> j0, out |-> <<b[j]>> \o m.out]
  BY DEF RightTake
<1> HIDE DEF i, j, i0, j0
<1>4. i > 0 => i \in 1 .. Len(a)
  BY <1>0, <1>1
<1>5. j > 0 => j \in 1 .. Len(b)
  BY <1>0, <1>1
<1>6. i > 0 /\ j > 0 =>
        /\ a[i].key \in Int /\ b[j].key \in Int
        /\ Cmp(a[i], b[j]) > 0 <=> b[j].key < a[i].key
  BY <1>4, <1>5, Compared
<1>7. i > 0 => \A x \in FirstOf(a, i) : x.key <= a[i].key /\ x.key \in Int
  <2>1. ASSUME i > 0 PROVE \A x \in FirstOf(a, i) : x.key <= a[i].key
    BY <1>0, <1>2, <1>4, <2>1, NextOf
  <2>2. FirstOf(a, i) \subseteq S
    BY <1>0, <1>1, PartsOf
  <2>3. \A x \in FirstOf(a, i) : x.key \in Int
    BY <1>0, <2>2, ElementFacts
  <2> QED
    BY <2>1, <2>3
<1>8. j > 0 => \A y \in FirstOf(b, j) : y.key <= b[j].key /\ y.key \in Int
  <2>1. ASSUME j > 0 PROVE \A y \in FirstOf(b, j) : y.key <= b[j].key
    BY <1>0, <1>2, <1>5, <2>1, NextOf
  <2>2. FirstOf(b, j) \subseteq T
    BY <1>0, <1>1, PartsOf
  <2>3. \A y \in FirstOf(b, j) : y.key \in Int
    BY <1>0, <2>2, ElementFacts
  <2> QED
    BY <2>1, <2>3
<1>9. CASE takesLeft
  <2> DEFINE n == [i |-> i0, j |-> j, out |-> <<a[i]>> \o m.out]
  <2>1. i \in 1 .. Len(a)
    BY <1>4, <1>9
  <2>2. \A y \in FirstOf(b, j) : y.key < a[i].key
    <3>1. CASE j > 0
      <4>1. b[j].key < a[i].key /\ a[i].key \in Int /\ b[j].key \in Int
        BY <1>6, <1>9, <3>1
      <4> QED
        BY <1>8, <3>1, <4>1
    <3>2. CASE ~(j > 0)
      <4>1. j = 0
        BY <1>0, <1>1, <3>2
      <4>2. FirstOf(b, j) = {}
        BY <1>0, <4>1, PartsOf
      <4> QED
        BY <4>2
    <3> QED
      BY <3>1, <3>2
  <2>3. Sorts(<<a[i]>> \o m.out, LeftOf(a, b, i0, j)) /\ AllPrecede(TakenOf(a, b, i0, j), LeftOf(a, b, i0, j))
    BY <1>1, <1>2, <2>1, <2>2, PutFromLeft
  <2>4. i0 \in 0 .. Len(a) /\ i0 + j = Len(a) + Len(b) - k
    BY <1>0, <1>1, <1>2, <2>1
  <2>5. n.i = i0 /\ n.j = j /\ n.out = <<a[i]>> \o m.out /\ RightTake(a, b, m) = n
    BY <1>3, <1>9
  <2> HIDE DEF n
  <2> QED
    BY <1>1, <2>3, <2>4, <2>5 DEF RightTook
<1>10. CASE ~takesLeft
  <2> DEFINE n == [i |-> i, j |-> j0, out |-> <<b[j]>> \o m.out]
  <2>1. j \in 1 .. Len(b)
    <3>1. j > 0
      <4>1. CASE i > 0
        BY <1>10, <4>1
      <4>2. CASE ~(i > 0)
        BY <1>0, <1>1, <4>2
      <4> QED
        BY <4>1, <4>2
    <3> QED
      BY <1>5, <3>1
  <2>2. \A x \in FirstOf(a, i) : x.key <= b[j].key
    <3>1. CASE i > 0
      <4>1. a[i].key <= b[j].key /\ a[i].key \in Int /\ b[j].key \in Int
        <5>1. j > 0
          BY <2>1
        <5>2. ~(b[j].key < a[i].key) /\ a[i].key \in Int /\ b[j].key \in Int
          BY <1>6, <1>10, <3>1, <5>1
        <5> QED
          BY <5>2
      <4> QED
        BY <1>7, <3>1, <4>1
    <3>2. CASE ~(i > 0)
      <4>1. i = 0
        BY <1>0, <1>1, <3>2
      <4>2. FirstOf(a, i) = {}
        BY <1>0, <4>1, PartsOf
      <4> QED
        BY <4>2
    <3> QED
      BY <3>1, <3>2
  <2>3. Sorts(<<b[j]>> \o m.out, LeftOf(a, b, i, j0)) /\ AllPrecede(TakenOf(a, b, i, j0), LeftOf(a, b, i, j0))
    BY <1>1, <1>2, <2>1, <2>2, PutFromRight
  <2>4. j0 \in 0 .. Len(b) /\ i + j0 = Len(a) + Len(b) - k
    BY <1>0, <1>1, <1>2, <2>1
  <2>5. n.i = i /\ n.j = j0 /\ n.out = <<b[j]>> \o m.out /\ RightTake(a, b, m) = n
    BY <1>3, <1>10
  <2> HIDE DEF n
  <2> QED
    BY <1>1, <2>3, <2>4, <2>5 DEF RightTook
<1> QED
  BY <1>9, <1>10

\* What the steps are taken in.
Between(a, b) == [i : 0 .. Len(a), j : Int, out : Seq(Element \cup {b[k] : k \in Int})]

LEMMA TakeTypes ==
  ASSUME NEW a \in Seq(Element), NEW b, NEW m \in Between(a, b)
  PROVE  LeftTake(a, b, m) \in Between(a, b) /\ RightTake(a, b, m) \in Between(a, b)
<1> DEFINE E == Element \cup {b[k] : k \in Int}
           i == m.i
           j == m.j
           i1 == i + 1
           j1 == j + 1
           i0 == i - 1
           j0 == j - 1
<1>1. i \in 0 .. Len(a) /\ j \in Int /\ m.out \in Seq(E) /\ Len(a) \in Nat
  BY LenProperties DEF Between
<1>2. /\ i < Len(a) => i1 \in 0 .. Len(a) /\ i1 \in 1 .. Len(a)
      /\ i > 0 => i0 \in 0 .. Len(a) /\ i \in 1 .. Len(a)
      /\ j1 \in Int /\ j0 \in Int
  BY <1>1
<1>3. /\ i < Len(a) => a[i1] \in E
      /\ i > 0 => a[i] \in E
  BY <1>2, ElementOfSeq
<1>4. b[j1] \in E /\ b[j] \in E
  BY <1>1, <1>2
<1>5. /\ LeftTake(a, b, m) = IF i < Len(a) /\ (j < Len(b) => Cmp(a[i1], b[j1]) <= 0)
                             THEN [i |-> i1, j |-> j, out |-> Append(m.out, a[i1])]
                             ELSE [i |-> i, j |-> j1, out |-> Append(m.out, b[j1])]
      /\ RightTake(a, b, m) = IF i > 0 /\ (j > 0 => Cmp(a[i], b[j]) > 0)
                              THEN [i |-> i0, j |-> j, out |-> <<a[i]>> \o m.out]
                              ELSE [i |-> i, j |-> j0, out |-> <<b[j]>> \o m.out]
  BY DEF LeftTake, RightTake
<1>6. \A x \in E : Append(m.out, x) \in Seq(E) /\ <<x>> \o m.out \in Seq(E)
  <2> TAKE x \in E
  <2> HIDE DEF E
  <2>1. <<x>> \in Seq(E)
    OBVIOUS
  <2> QED
    BY <1>1, <2>1, AppendProperties, ConcatProperties
<1>7. Between(a, b) = [i : 0 .. Len(a), j : Int, out : Seq(E)]
  BY DEF Between
<1> HIDE DEF E, i, j, i1, j1, i0, j0
<1>8. LeftTake(a, b, m) \in Between(a, b)
  BY <1>1, <1>2, <1>3, <1>4, <1>5, <1>6, <1>7
<1>9. RightTake(a, b, m) \in Between(a, b)
  BY <1>1, <1>2, <1>3, <1>4, <1>5, <1>6, <1>7
<1> QED
  BY <1>8, <1>9

\* The merge from the left, step by step.
LeftTaking(f, a, b) ==
  /\ f[0] = [i |-> 0, j |-> 0, out |-> <<>>] /\ f[Len(a) + Len(b)].out = LeftMerge(a, b)
  /\ \A k \in 1 .. Len(a) + Len(b) : f[k] = LeftTake(a, b, f[k - 1])

LEMMA LeftMergeSteps ==
  ASSUME NEW a \in Seq(Element), NEW b \in Seq(Element)
  PROVE  \E f : LeftTaking(f, a, b)
<1> DEFINE V == Between(a, b)
           N == Len(a) + Len(b)
           t == [k \in 1 .. N |-> k]
           first == [i |-> 0, j |-> 0, out |-> <<>>]
           Op(x, y) == LeftTake(a, b, x)
           step == [p \in V \X Nat |-> Op(p[1], p[2])]
           Is(g) == g = [x \in SUBSET (1 .. N) |->
                           IF x = {} THEN first ELSE Op(g[x \ {Max(x)}], t[Max(x)])]
           iter == CHOOSE g : Is(g)
<1>0. /\ N \in Nat /\ Len(a) \in Nat /\ Len(b) \in Nat
      /\ t \in Seq(Nat) /\ Len(t) = N /\ DOMAIN t = 1 .. N
  <2>1. N \in Nat /\ Len(a) \in Nat /\ Len(b) \in Nat
    BY LenProperties
  <2> HIDE DEF N
  <2>2. t \in [1 .. N -> Nat]
    BY <2>1
  <2>3. t \in Seq(Nat)
    BY <2>1, <2>2, SeqDef
  <2>4. DOMAIN t = 1 .. N
    OBVIOUS
  <2> HIDE DEF t
  <2>5. Len(t) = N
    BY <2>1, <2>3, <2>4, LenProperties
  <2> QED
    BY <2>1, <2>3, <2>4, <2>5
<1>1. \A x \in V, y \in Nat : Op(x, y) \in V
  BY TakeTypes
<1>2. LeftMerge(a, b) = iter[1 .. N].out
  <2>1. LeftMerge(a, b) = FoldLeft(LAMBDA x, y : LeftTake(a, b, x), first, t).out
    BY Zenon DEF LeftMerge, LeftTake
  <2>2. DOMAIN t = 1 .. N
    BY <1>0
  <2> QED
    BY <2>1, <2>2 DEF FoldLeft, MapThenFoldSet
<1>3. first \in V
  <2>1. <<>> \in Seq(Element \cup {b[k] : k \in Int})
    BY EmptySeq
  <2> QED
    BY <1>0, <2>1 DEF Between
<1> HIDE DEF Op, V, first
<1>4. step \in [V \X Nat -> V] /\ \A x \in V, y \in Nat : step[<<x, y>>] = Op(x, y)
  BY <1>1
<1>5. \A x \in SUBSET (1 .. N) : x # {} => Max(x) \in 1 .. N /\ t[Max(x)] \in Nat
  <2>1. \A x \in SUBSET (1 .. N) : x # {} => Max(x) \in 1 .. N
    BY <1>0, MaxUpto
  <2> QED
    BY <1>0, <2>1
<1> HIDE DEF step, t
<1>6. PICK g \in [SUBSET (1 .. Len(t)) -> V] : IsIter(g, step, first, t)
  BY <1>0, <1>3, <1>4, IterExists
<1>7. Is(g)
  BY <1>0, <1>4, <1>5, <1>6 DEF IsIter
<1>8. Is(iter)
  BY <1>7
<1> HIDE DEF iter
<1>9. IsFoldOf(iter, step, first, t, V)
  BY <1>0, <1>4, <1>5, <1>8 DEF IsFoldOf
<1>10. PICK f \in [0 .. Len(t) -> V] : TakenFrom(f, iter, step, first, t)
  BY <1>0, <1>3, <1>4, <1>9, FoldSteps
<1>11. \A k \in 1 .. N : f[k] = Op(f[k - 1], t[k])
  <2> TAKE k \in 1 .. N
  <2>1. k - 1 \in 0 .. N /\ t[k] \in Nat
    BY <1>0, ElementOfSeq
  <2> QED
    BY <1>0, <1>4, <1>10, <2>1 DEF TakenFrom
<1>12. f[0] = first /\ f[N] = iter[1 .. N]
  BY <1>0, <1>10 DEF TakenFrom
<1> QED
  BY <1>2, <1>11, <1>12 DEF Op, first, LeftTaking

LEMMA LeftMerged ==
  ASSUME NEW a, NEW S, NEW b, NEW T, Mergeable(a, S, b, T)
  PROVE  Sorts(LeftMerge(a, b), S \cup T)
<1> DEFINE N == Len(a) + Len(b)
<1>1. /\ Sorts(a, S) /\ Sorts(b, T) /\ Len(a) \in Nat /\ Len(b) \in Nat /\ N \in Nat
      /\ a \in Seq(Element) /\ b \in Seq(Element)
  BY MergeableFacts
<1>2. /\ FirstOf(a, 0) = {} /\ RestOf(a, 0) = S /\ FirstOf(a, Len(a)) = S /\ RestOf(a, Len(a)) = {}
      /\ FirstOf(b, 0) = {} /\ RestOf(b, 0) = T /\ FirstOf(b, Len(b)) = T /\ RestOf(b, Len(b)) = {}
  BY <1>1, PartsOf
<1>3. PICK f : LeftTaking(f, a, b)
  BY <1>1, LeftMergeSteps
<1> DEFINE D == {k \in Nat : k <= N => LeftTook(a, b, f[k], k)}
<1>4. 0 \in D
  <2>1. f[0].i = 0 /\ f[0].j = 0 /\ f[0].out = <<>>
    BY <1>3 DEF LeftTaking
  <2>2. TakenOf(a, b, 0, 0) = {} /\ LeftOf(a, b, 0, 0) = S \cup T
    BY <1>2 DEF TakenOf, LeftOf
  <2>3. Sorts(<<>>, {})
    <3>1. Lists(<<>>, {}, Element)
      BY ListEmpty
    <3>2. \A i \in DOMAIN <<>> : FALSE
      OBVIOUS
    <3> QED
      BY <3>1, <3>2 DEF Sorts, Rising
  <2>4. AllPrecede({}, S \cup T) /\ AllPrecede(S \cup T, {})
    BY DEF AllPrecede
  <2>5. 0 \in 0 .. Len(a) /\ 0 \in 0 .. Len(b) /\ 0 + 0 = 0
    BY <1>1
  <2>6. LeftTook(a, b, f[0], 0)
    BY <2>1, <2>2, <2>3, <2>4, <2>5 DEF LeftTook
  <2> QED
    BY <2>6
<1>5. \A k \in 1 .. N : k - 1 \in D => k \in D
  <2> SUFFICES ASSUME NEW k \in 1 .. N, k - 1 \in D PROVE k \in D
    OBVIOUS
  <2>1. LeftTook(a, b, f[k - 1], k - 1) /\ k \in Nat
    BY <1>1
  <2>2. f[k] = LeftTake(a, b, f[k - 1])
    BY <1>3 DEF LeftTaking
  <2> DEFINE m == f[k - 1]
  <2>3. LeftTook(a, b, m, k - 1) /\ f[k] = LeftTake(a, b, m)
    BY <2>1, <2>2
  <2> HIDE DEF m, D
  <2>4. LeftTook(a, b, LeftTake(a, b, m), k)
    BY <2>3, LeftTakeStep
  <2> QED
    BY <2>1, <2>3, <2>4 DEF D
<1> HIDE DEF D
<1>6. N \in D
  <2>1. \A k \in 0 .. N : k \in D
    BY <1>1, <1>4, <1>5, InductionUpto
  <2> QED
    BY <1>1, <2>1
<1>7. LeftTook(a, b, f[N], N)
  BY <1>1, <1>6 DEF D
<1>8. Sorts(f[N].out, S \cup T)
  <2> DEFINE m == f[N]
  <2>1. m.i \in 0 .. Len(a) /\ m.j \in 0 .. Len(b) /\ m.i + m.j = N /\ Sorts(m.out, TakenOf(a, b, m.i, m.j))
    BY <1>7 DEF LeftTook
  <2>2. m.i = Len(a) /\ m.j = Len(b)
    BY <1>1, <2>1
  <2> QED
    BY <1>2, <2>1, <2>2 DEF TakenOf, LeftOf
<1> QED
  BY <1>3, <1>8 DEF LeftTaking

\* The merge from the right, step by step.
RightTaking(f, a, b) ==
  /\ f[0] = [i |-> Len(a), j |-> Len(b), out |-> <<>>] /\ f[Len(a) + Len(b)].out = RightMerge(a, b)
  /\ \A k \in 1 .. Len(a) + Len(b) : f[k] = RightTake(a, b, f[k - 1])

LEMMA RightMergeSteps ==
  ASSUME NEW a \in Seq(Element), NEW b \in Seq(Element)
  PROVE  \E f : RightTaking(f, a, b)
<1> DEFINE V == Between(a, b)
           N == Len(a) + Len(b)
           t == [k \in 1 .. N |-> k]
           first == [i |-> Len(a), j |-> Len(b), out |-> <<>>]
           Op(x, y) == RightTake(a, b, x)
           step == [p \in V \X Nat |-> Op(p[1], p[2])]
           Is(g) == g = [x \in SUBSET (1 .. N) |->
                           IF x = {} THEN first ELSE Op(g[x \ {Max(x)}], t[Max(x)])]
           iter == CHOOSE g : Is(g)
<1>0. /\ N \in Nat /\ Len(a) \in Nat /\ Len(b) \in Nat
      /\ t \in Seq(Nat) /\ Len(t) = N /\ DOMAIN t = 1 .. N
  <2>1. N \in Nat /\ Len(a) \in Nat /\ Len(b) \in Nat
    BY LenProperties
  <2> HIDE DEF N
  <2>2. t \in [1 .. N -> Nat]
    BY <2>1
  <2>3. t \in Seq(Nat)
    BY <2>1, <2>2, SeqDef
  <2>4. DOMAIN t = 1 .. N
    OBVIOUS
  <2> HIDE DEF t
  <2>5. Len(t) = N
    BY <2>1, <2>3, <2>4, LenProperties
  <2> QED
    BY <2>1, <2>3, <2>4, <2>5
<1>1. \A x \in V, y \in Nat : Op(x, y) \in V
  BY TakeTypes
<1>2. RightMerge(a, b) = iter[1 .. N].out
  <2>1. RightMerge(a, b) = FoldLeft(LAMBDA x, y : RightTake(a, b, x), first, t).out
    BY Zenon DEF RightMerge, RightTake
  <2>2. DOMAIN t = 1 .. N
    BY <1>0
  <2> QED
    BY <2>1, <2>2 DEF FoldLeft, MapThenFoldSet
<1>3. first \in V
  <2>1. <<>> \in Seq(Element \cup {b[k] : k \in Int})
    BY EmptySeq
  <2> QED
    BY <1>0, <2>1 DEF Between
<1> HIDE DEF Op, V, first
<1>4. step \in [V \X Nat -> V] /\ \A x \in V, y \in Nat : step[<<x, y>>] = Op(x, y)
  BY <1>1
<1>5. \A x \in SUBSET (1 .. N) : x # {} => Max(x) \in 1 .. N /\ t[Max(x)] \in Nat
  <2>1. \A x \in SUBSET (1 .. N) : x # {} => Max(x) \in 1 .. N
    BY <1>0, MaxUpto
  <2> QED
    BY <1>0, <2>1
<1> HIDE DEF step, t
<1>6. PICK g \in [SUBSET (1 .. Len(t)) -> V] : IsIter(g, step, first, t)
  BY <1>0, <1>3, <1>4, IterExists
<1>7. Is(g)
  BY <1>0, <1>4, <1>5, <1>6 DEF IsIter
<1>8. Is(iter)
  BY <1>7
<1> HIDE DEF iter
<1>9. IsFoldOf(iter, step, first, t, V)
  BY <1>0, <1>4, <1>5, <1>8 DEF IsFoldOf
<1>10. PICK f \in [0 .. Len(t) -> V] : TakenFrom(f, iter, step, first, t)
  BY <1>0, <1>3, <1>4, <1>9, FoldSteps
<1>11. \A k \in 1 .. N : f[k] = Op(f[k - 1], t[k])
  <2> TAKE k \in 1 .. N
  <2>1. k - 1 \in 0 .. N /\ t[k] \in Nat
    BY <1>0, ElementOfSeq
  <2> QED
    BY <1>0, <1>4, <1>10, <2>1 DEF TakenFrom
<1>12. f[0] = first /\ f[N] = iter[1 .. N]
  BY <1>0, <1>10 DEF TakenFrom
<1> QED
  BY <1>2, <1>11, <1>12 DEF Op, first, RightTaking

LEMMA RightMerged ==
  ASSUME NEW a, NEW S, NEW b, NEW T, Mergeable(a, S, b, T)
  PROVE  Sorts(RightMerge(a, b), S \cup T)
<1> DEFINE N == Len(a) + Len(b)
<1>1. /\ Sorts(a, S) /\ Sorts(b, T) /\ Len(a) \in Nat /\ Len(b) \in Nat /\ N \in Nat
      /\ a \in Seq(Element) /\ b \in Seq(Element)
  BY MergeableFacts
<1>2. /\ FirstOf(a, 0) = {} /\ RestOf(a, 0) = S /\ FirstOf(a, Len(a)) = S /\ RestOf(a, Len(a)) = {}
      /\ FirstOf(b, 0) = {} /\ RestOf(b, 0) = T /\ FirstOf(b, Len(b)) = T /\ RestOf(b, Len(b)) = {}
  BY <1>1, PartsOf
<1>3. PICK f : RightTaking(f, a, b)
  BY <1>1, RightMergeSteps
<1> DEFINE D == {k \in Nat : k <= N => RightTook(a, b, f[k], k)}
<1>4. 0 \in D
  <2>1. f[0].i = Len(a) /\ f[0].j = Len(b) /\ f[0].out = <<>>
    BY <1>3 DEF RightTaking
  <2>2. TakenOf(a, b, Len(a), Len(b)) = S \cup T /\ LeftOf(a, b, Len(a), Len(b)) = {}
    BY <1>2 DEF TakenOf, LeftOf
  <2>3. Sorts(<<>>, {})
    <3>1. Lists(<<>>, {}, Element)
      BY ListEmpty
    <3>2. \A i \in DOMAIN <<>> : FALSE
      OBVIOUS
    <3> QED
      BY <3>1, <3>2 DEF Sorts, Rising
  <2>4. AllPrecede({}, S \cup T) /\ AllPrecede(S \cup T, {})
    BY DEF AllPrecede
  <2>5. Len(a) \in 0 .. Len(a) /\ Len(b) \in 0 .. Len(b) /\ Len(a) + Len(b) = Len(a) + Len(b) - 0
    BY <1>1
  <2>6. RightTook(a, b, f[0], 0)
    BY <2>1, <2>2, <2>3, <2>4, <2>5 DEF RightTook
  <2> QED
    BY <2>6
<1>5. \A k \in 1 .. N : k - 1 \in D => k \in D
  <2> SUFFICES ASSUME NEW k \in 1 .. N, k - 1 \in D PROVE k \in D
    OBVIOUS
  <2>1. RightTook(a, b, f[k - 1], k - 1) /\ k \in Nat
    BY <1>1
  <2>2. f[k] = RightTake(a, b, f[k - 1])
    BY <1>3 DEF RightTaking
  <2> DEFINE m == f[k - 1]
  <2>3. RightTook(a, b, m, k - 1) /\ f[k] = RightTake(a, b, m)
    BY <2>1, <2>2
  <2> HIDE DEF m, D
  <2>4. RightTook(a, b, RightTake(a, b, m), k)
    BY <2>3, RightTakeStep
  <2> QED
    BY <2>1, <2>3, <2>4 DEF D
<1> HIDE DEF D
<1>6. N \in D
  <2>1. \A k \in 0 .. N : k \in D
    BY <1>1, <1>4, <1>5, InductionUpto
  <2> QED
    BY <1>1, <2>1
<1>7. RightTook(a, b, f[N], N)
  BY <1>1, <1>6 DEF D
<1>8. Sorts(f[N].out, S \cup T)
  <2> DEFINE m == f[N]
  <2>1. m.i \in 0 .. Len(a) /\ m.j \in 0 .. Len(b) /\ m.i + m.j = Len(a) + Len(b) - N /\ Sorts(m.out, LeftOf(a, b, m.i, m.j))
    BY <1>7 DEF RightTook
  <2>2. m.i = 0 /\ m.j = 0
    BY <1>1, <2>1
  <2> QED
    BY <1>2, <2>1, <2>2 DEF TakenOf, LeftOf
<1> QED
  BY <1>3, <1>8 DEF RightTaking
-----------------------------------------------------------------------------
(* How long a run has to be.                                               *)

LEMMA TopBitType ==
  ASSUME NEW n \in Nat
  PROVE  TopBit(n) \in Nat
<1>1. {b \in 0 .. n : 2 ^ b <= n} \subseteq 0 .. n /\ IsFiniteSet(0 .. n)
  BY FS_Interval
<1>2. IsFiniteSet({b \in 0 .. n : 2 ^ b <= n})
  BY <1>1, FS_Subset
<1> QED
  BY <1>2, FS_CardinalityType DEF TopBit

LEMMA ShiftedRightType ==
  ASSUME NEW n \in Nat, NEW bits \in Nat
  PROVE  ShiftedRight(n, bits) \in Nat
<1> DEFINE t == [b \in 1 .. bits |-> b]
           Op(x, y) == x \div 2
           step == [p \in Nat \X Nat |-> Op(p[1], p[2])]
           Is(g) == g = [x \in SUBSET (1 .. bits) |->
                           IF x = {} THEN n ELSE Op(g[x \ {Max(x)}], t[Max(x)])]
           iter == CHOOSE g : Is(g)
<1>0. t \in Seq(Nat) /\ Len(t) = bits /\ DOMAIN t = 1 .. bits
  <2>1. t \in [1 .. bits -> Nat]
    OBVIOUS
  <2>2. t \in Seq(Nat)
    BY <2>1, SeqDef
  <2>3. DOMAIN t = 1 .. bits
    OBVIOUS
  <2> HIDE DEF t
  <2>4. Len(t) = bits
    BY <2>2, <2>3, LenProperties
  <2> QED
    BY <2>2, <2>3, <2>4
<1>1. \A x, y \in Nat : Op(x, y) \in Nat
  OBVIOUS
<1>2. ShiftedRight(n, bits) = iter[1 .. bits]
  <2>1. DOMAIN t = 1 .. bits
    BY <1>0
  <2> QED
    BY <2>1 DEF ShiftedRight, FoldLeft, MapThenFoldSet
<1> HIDE DEF Op
<1>3. step \in [Nat \X Nat -> Nat] /\ \A x, y \in Nat : step[<<x, y>>] = Op(x, y)
  BY <1>1
<1>4. \A x \in SUBSET (1 .. bits) : x # {} => Max(x) \in 1 .. bits /\ t[Max(x)] \in Nat
  <2>1. \A x \in SUBSET (1 .. bits) : x # {} => Max(x) \in 1 .. bits
    BY MaxUpto
  <2> QED
    BY <2>1
<1> HIDE DEF step, t
<1>5. PICK g \in [SUBSET (1 .. Len(t)) -> Nat] : IsIter(g, step, n, t)
  BY <1>0, <1>3, IterExists
<1>6. Is(g)
  BY <1>0, <1>3, <1>4, <1>5 DEF IsIter
<1>7. Is(iter)
  BY <1>6
<1> HIDE DEF iter
<1>8. IsFoldOf(iter, step, n, t, Nat)
  BY <1>0, <1>3, <1>4, <1>7 DEF IsFoldOf
<1>9. PICK f \in [0 .. Len(t) -> Nat] : TakenFrom(f, iter, step, n, t)
  BY <1>0, <1>3, <1>8, FoldSteps
<1>10. f[Len(t)] = iter[1 .. bits] /\ f[Len(t)] \in Nat
  BY <1>0, <1>9 DEF TakenFrom
<1> QED
  BY <1>2, <1>10

LEMMA MinRunType ==
  ASSUME NEW n \in Nat
  PROVE  MinRun(n) \in Nat
<1> DEFINE shift == IF TopBit(n) > RUN_BITS THEN TopBit(n) - RUN_BITS ELSE 0
           minrun == ShiftedRight(n, shift)
<1>1. shift \in Nat
  BY TopBitType, SortAssumption
<1>2. MinRun(n) = IF minrun * 2 ^ shift # n THEN minrun + 1 ELSE minrun
  BY DEF MinRun
<1> HIDE DEF shift
<1>3. minrun \in Nat
  BY <1>1, ShiftedRightType
<1> HIDE DEF minrun
<1> QED
  BY <1>2, <1>3
-----------------------------------------------------------------------------
(* Runs.                                                                   *)

\* A set of places has a first one, and it is the least.
LEMMA MinFacts ==
  ASSUME NEW I \in SUBSET Nat, I # {}
  PROVE  Min(I) \in I /\ \A k \in I : Min(I) <= k
<1>1. PICK least \in I : \A k \in I : least <= k
  BY LeastNatural
<1> QED
  BY <1>1 DEF Min

\* What holds from each place to the next holds from each place to all later ones.
LEMMA ChainOfKeys ==
  ASSUME NEW k, NEW lo \in Nat, NEW hi \in Nat, \A i \in lo .. hi : k[i] \in Int,
         \A i \in lo + 1 .. hi : k[i - 1] <= k[i]
  PROVE  \A i, j \in lo .. hi : i <= j => k[i] <= k[j]
<1> DEFINE S == {m \in Nat : \A i, j \in lo .. hi : i <= j /\ j - i <= m => k[i] <= k[j]}
<1>1. 0 \in S
  <2>1. ASSUME NEW i \in lo .. hi, NEW j \in lo .. hi, i <= j, j - i <= 0 PROVE k[i] <= k[j]
    <3>1. i = j /\ k[i] \in Int
      BY <2>1
    <3> QED
      BY <3>1
  <2> QED
    BY <2>1
<1>2. ASSUME NEW m \in Nat, m \in S PROVE m + 1 \in S
  <2>1. \A i, j \in lo .. hi : i <= j /\ j - i <= m => k[i] <= k[j]
    BY <1>2
  <2>2. ASSUME NEW i \in lo .. hi, NEW j \in lo .. hi, i <= j, j - i <= m + 1 PROVE k[i] <= k[j]
    <3>1. CASE i = j
      <4>1. k[i] \in Int
        OBVIOUS
      <4> QED
        BY <3>1, <4>1
    <3>2. CASE i < j
      <4>1. j - 1 \in lo .. hi /\ j \in lo + 1 .. hi /\ i <= j - 1 /\ (j - 1) - i <= m
        BY <2>2, <3>2
      <4>2. k[i] <= k[j - 1] /\ k[j - 1] <= k[j]
        BY <2>1, <4>1
      <4>3. k[i] \in Int /\ k[j] \in Int /\ k[j - 1] \in Int
        BY <4>1
      <4> QED
        BY <4>2, <4>3
    <3> QED
      BY <2>2, <3>1, <3>2
  <2> QED
    BY <2>2
<1>3. \A m \in Nat : m \in S
  <2>1. S \in SUBSET Nat
    OBVIOUS
  <2> HIDE DEF S
  <2> QED
    BY <1>1, <1>2, <2>1, SetInduction
<1>4. \A i, j \in lo .. hi : i <= j => j - i \in Nat
  OBVIOUS
<1> QED
  BY <1>3, <1>4

\* The sequence s is in order and has the elements that stood from lo to hi at first.
Ordered(s, lo, hi) == \E S : Sorts(s, S) /\ {x.was : x \in S} = lo .. hi

\* Part of an array that is still as it was.
Unmoved(d, lo, hi) ==
  d \in Seq(Element) /\ lo \in Nat \ {0} /\ hi \in Nat /\ lo <= hi /\ hi <= Len(d) /\ \A i \in lo .. hi : d[i].was = i

\* The sequence s is that part, and S its elements.
IsPart(s, S, d, lo, hi) ==
  /\ Lists(s, S, Element) /\ {x.was : x \in S} = lo .. hi /\ Len(s) = hi - lo + 1
  /\ \A i \in 1 .. Len(s) : s[i] = d[lo + i - 1] /\ lo + i - 1 \in lo .. hi
  /\ \A i \in lo .. hi : d[i] \in Element /\ d[i].key \in Int /\ d[i].was = i

LEMMA UnmovedPart ==
  ASSUME NEW d, NEW lo, NEW hi, Unmoved(d, lo, hi), NEW s, s = SubSeq(d, lo, hi), NEW S, S = {d[i] : i \in lo .. hi}
  PROVE  IsPart(s, S, d, lo, hi)
<1>1. /\ d \in Seq(Element) /\ lo \in Nat \ {0} /\ hi \in Nat /\ lo <= hi /\ hi <= Len(d)
      /\ \A i \in lo .. hi : d[i].was = i
  BY DEF Unmoved
<1>2. \A i \in lo .. hi : d[i] \in Element /\ d[i].key \in Int
  <2>1. \A i \in lo .. hi : i \in 1 .. Len(d)
    BY <1>1
  <2>2. \A i \in lo .. hi : d[i] \in Element
    BY <1>1, <2>1, ElementOfSeq
  <2> QED
    BY <2>2, ElementFacts
<1>3. /\ s \in Seq(Element) /\ Len(s) = hi - lo + 1
      /\ \A i \in 1 .. hi - lo + 1 : s[i] = d[lo + i - 1]
  <2>1. /\ SubSeq(d, lo, hi) \in Seq(Element) /\ Len(SubSeq(d, lo, hi)) = hi - lo + 1
        /\ \A i \in 1 .. hi - lo + 1 : SubSeq(d, lo, hi)[i] = d[lo + i - 1]
    BY <1>1, Segment
  <2> QED
    BY <2>1
<1>4. \A i \in 1 .. Len(s) : s[i] = d[lo + i - 1] /\ lo + i - 1 \in lo .. hi
  BY <1>1, <1>3
<1>5. Lists(s, S, Element)
  <2>1. \A i \in 1 .. Len(s) : s[i] \in S
    BY <1>4
  <2>2. \A x \in S : \E i \in 1 .. Len(s) : s[i] = x
    <3> SUFFICES ASSUME NEW j \in lo .. hi PROVE \E i \in 1 .. Len(s) : s[i] = d[j]
      OBVIOUS
    <3>1. j - lo + 1 \in 1 .. Len(s) /\ lo + (j - lo + 1) - 1 = j
      BY <1>1, <1>3
    <3> QED
      BY <1>4, <3>1
  <2>3. \A i, j \in 1 .. Len(s) : s[i] = s[j] => i = j
    <3> TAKE i, j \in 1 .. Len(s)
    <3> HAVE s[i] = s[j]
    <3>1. lo + i - 1 = lo + j - 1
      BY <1>1, <1>4
    <3> QED
      BY <1>1, <3>1
  <2> QED
    BY <1>3, <2>1, <2>2, <2>3, ListsWhen
<1>6. {x.was : x \in S} = lo .. hi
  BY <1>1
<1> QED
  BY <1>1, <1>2, <1>3, <1>4, <1>5, <1>6 DEF IsPart

\* A part in which no element is followed by a smaller one.
LEMMA RisingRun ==
  ASSUME NEW d, NEW lo, NEW hi, Unmoved(d, lo, hi), \A i \in lo + 1 .. hi : ~Falls(d[i - 1], d[i])
  PROVE  Ordered(SubSeq(d, lo, hi), lo, hi)
<1> DEFINE s == SubSeq(d, lo, hi)
           S == {d[i] : i \in lo .. hi}
           k == [i \in lo .. hi |-> d[i].key]
<1>1. /\ Lists(s, S, Element) /\ {x.was : x \in S} = lo .. hi
      /\ \A i \in 1 .. Len(s) : s[i] = d[lo + i - 1] /\ lo + i - 1 \in lo .. hi
      /\ \A i \in lo .. hi : d[i] \in Element /\ d[i].key \in Int /\ d[i].was = i
  <2>1. s = SubSeq(d, lo, hi) /\ S = {d[i] : i \in lo .. hi}
    OBVIOUS
  <2> HIDE DEF s, S
  <2>2. IsPart(s, S, d, lo, hi)
    BY <2>1, UnmovedPart
  <2> QED
    BY <2>2 DEF IsPart
<1>2. lo \in Nat /\ hi \in Nat
  BY DEF Unmoved
<1>3. \A i \in lo + 1 .. hi : d[i - 1].key <= d[i].key
  <2> TAKE i \in lo + 1 .. hi
  <2>1. i \in lo .. hi /\ i - 1 \in lo .. hi
    BY <1>2
  <2>2. d[i - 1] \in Element /\ d[i] \in Element /\ d[i - 1].key \in Int /\ d[i].key \in Int
    BY <1>1, <2>1
  <2>3. Falls(d[i - 1], d[i]) <=> d[i - 1].key > d[i].key
    BY <2>2, ElementFacts DEF Falls
  <2> QED
    BY <2>2, <2>3
<1> HIDE DEF s, S
<1>4. \A i, j \in lo .. hi : i <= j => d[i].key <= d[j].key
  <2>1. \A i \in lo .. hi : k[i] \in Int /\ k[i] = d[i].key
    BY <1>1
  <2>2. \A i \in lo + 1 .. hi : k[i - 1] <= k[i]
    <3> TAKE i \in lo + 1 .. hi
    <3>1. i \in lo .. hi /\ i - 1 \in lo .. hi
      BY <1>2
    <3> QED
      BY <1>3, <2>1, <3>1
  <2> HIDE DEF k
  <2>3. \A i, j \in lo .. hi : i <= j => k[i] <= k[j]
    BY <1>2, <2>1, <2>2, ChainOfKeys
  <2> QED
    BY <2>1, <2>3
<1>5. ASSUME NEW i \in 1 .. Len(s), NEW j \in 1 .. Len(s), i < j PROVE Precedes(s[i], s[j])
  <2> DEFINE p == lo + i - 1
             q == lo + j - 1
  <2>1. p \in lo .. hi /\ q \in lo .. hi /\ s[i] = d[p] /\ s[j] = d[q]
    BY <1>1
  <2>2. p < q
    BY <1>2, <1>5
  <2> HIDE DEF p, q
  <2>3. d[p].key <= d[q].key /\ d[p].key \in Int /\ d[q].key \in Int /\ d[p].was < d[q].was
    BY <1>1, <1>2, <1>4, <2>1, <2>2
  <2>4. Precedes(d[p], d[q])
    BY <2>3 DEF Precedes
  <2> QED
    BY <2>1, <2>4
<1>6. Rising(s)
  <2>1. DOMAIN s = 1 .. Len(s)
    BY <1>1, ListFacts
  <2> QED
    BY <1>5, <2>1 DEF Rising
<1> QED
  BY <1>1, <1>6 DEF Ordered, Sorts, s

\* A part in which each element is followed by a smaller one, the other way round.
LEMMA FallingRun ==
  ASSUME NEW d, NEW lo, NEW hi, Unmoved(d, lo, hi), \A i \in lo + 1 .. hi : Falls(d[i - 1], d[i])
  PROVE  Ordered(Reverse(SubSeq(d, lo, hi)), lo, hi) /\ Len(Reverse(SubSeq(d, lo, hi))) = hi - lo + 1
<1> DEFINE s == SubSeq(d, lo, hi)
           t == Reverse(s)
           n == Len(s)
           S == {d[i] : i \in lo .. hi}
           k == [i \in lo .. hi |-> 0 - d[i].key]
<1>1. /\ Lists(s, S, Element) /\ {x.was : x \in S} = lo .. hi /\ n = hi - lo + 1
      /\ \A i \in 1 .. n : s[i] = d[lo + i - 1] /\ lo + i - 1 \in lo .. hi
      /\ \A i \in lo .. hi : d[i] \in Element /\ d[i].key \in Int /\ d[i].was = i
  <2>1. s = SubSeq(d, lo, hi) /\ S = {d[i] : i \in lo .. hi}
    OBVIOUS
  <2> HIDE DEF s, S
  <2>2. IsPart(s, S, d, lo, hi)
    BY <2>1, UnmovedPart
  <2> QED
    BY <2>2 DEF IsPart
<1>2. lo \in Nat /\ hi \in Nat
  BY DEF Unmoved
<1>3. \A i \in lo + 1 .. hi : d[i].key < d[i - 1].key
  <2> TAKE i \in lo + 1 .. hi
  <2>1. i \in lo .. hi /\ i - 1 \in lo .. hi
    BY <1>2
  <2>2. d[i - 1] \in Element /\ d[i] \in Element /\ d[i - 1].key \in Int /\ d[i].key \in Int
    BY <1>1, <2>1
  <2>3. Falls(d[i - 1], d[i]) <=> d[i - 1].key > d[i].key
    BY <2>2, ElementFacts DEF Falls
  <2> QED
    BY <2>2, <2>3
<1>4. s \in Seq(Element) /\ n \in Nat
  <2> HIDE DEF s, S
  <2> QED
    BY <1>1, ListFacts
<1>5. t \in Seq(Element) /\ Len(t) = n /\ \A i \in 1 .. n : t[i] = s[n - i + 1]
  <2>1. t \in Seq(Element)
    BY <1>4, ReversedSeq
  <2>2. t = [i \in 1 .. n |-> s[n - i + 1]]
    BY DEF Reverse
  <2>3. DOMAIN t = 1 .. Len(t)
    BY <2>1, LenProperties
  <2>4. Len(t) \in Nat
    BY <2>1, LenProperties
  <2> HIDE DEF t, n
  <2>5. DOMAIN t = 1 .. n /\ \A i \in 1 .. n : t[i] = s[n - i + 1]
    BY <2>2
  <2>6. 1 .. n = 1 .. Len(t) /\ n \in Nat
    BY <1>4, <2>3, <2>5 DEF n
  <2> DEFINE m == Len(t)
  <2>7. m \in Nat /\ 1 .. n = 1 .. m
    BY <2>4, <2>6
  <2> HIDE DEF m
  <2>8. m = n
    <3>1. m \in 1 .. m \/ m = 0
      BY <2>7
    <3>2. n \in 1 .. n \/ n = 0
      BY <2>6
    <3>3. (m \in 1 .. n \/ m = 0) /\ (n \in 1 .. m \/ n = 0)
      BY <2>7, <3>1, <3>2
    <3> QED
      BY <2>6, <2>7, <3>3
  <2> QED
    BY <2>1, <2>5, <2>8 DEF m
<1> HIDE DEF s, S, t, n
<1>6. \A i, j \in lo .. hi : i <= j => d[j].key <= d[i].key
  <2>1. \A i \in lo .. hi : k[i] \in Int /\ k[i] = 0 - d[i].key
    BY <1>1
  <2>2. \A i \in lo + 1 .. hi : k[i - 1] <= k[i]
    <3> TAKE i \in lo + 1 .. hi
    <3>1. i \in lo .. hi /\ i - 1 \in lo .. hi
      BY <1>2
    <3>2. d[i].key \in Int /\ d[i - 1].key \in Int /\ k[i] = 0 - d[i].key /\ k[i - 1] = 0 - d[i - 1].key
      BY <1>1, <2>1, <3>1
    <3> QED
      BY <1>3, <3>2
  <2> HIDE DEF k
  <2>3. \A i, j \in lo .. hi : i <= j => k[i] <= k[j]
    BY <1>2, <2>1, <2>2, ChainOfKeys
  <2> TAKE i, j \in lo .. hi
  <2> HAVE i <= j
  <2>4. k[i] <= k[j] /\ d[i].key \in Int /\ d[j].key \in Int /\ k[i] = 0 - d[i].key /\ k[j] = 0 - d[j].key
    BY <1>1, <2>1, <2>3
  <2> QED
    BY <2>4
<1>7. \A i \in 1 .. n : n - i + 1 \in 1 .. n /\ n - (n - i + 1) + 1 = i
  BY <1>4
<1>8. Lists(t, S, Element)
  <2>1. \A i \in 1 .. Len(t) : t[i] \in S
    BY <1>1, <1>5, <1>7, ListFacts DEF n
  <2>2. \A x \in S : \E i \in 1 .. Len(t) : t[i] = x
    <3> TAKE x \in S
    <3>1. PICK j \in 1 .. n : s[j] = x
      BY <1>1, ListFacts DEF n
    <3>2. t[n - j + 1] = x /\ n - j + 1 \in 1 .. n
      BY <1>5, <1>7, <3>1
    <3> QED
      BY <1>5, <3>2
  <2>3. \A i, j \in 1 .. Len(t) : t[i] = t[j] => i = j
    <3> TAKE i, j \in 1 .. Len(t)
    <3> HAVE t[i] = t[j]
    <3> DEFINE p == n - i + 1
               q == n - j + 1
    <3>1. p \in 1 .. n /\ q \in 1 .. n /\ s[p] = s[q]
      BY <1>5, <1>7
    <3>2. p = q => i = j
      BY <1>4, <1>5
    <3> HIDE DEF p, q
    <3>3. \A a, b \in 1 .. n : s[a] = s[b] => a = b
      BY <1>1, ListFacts DEF n
    <3>4. p = q
      BY <3>1, <3>3
    <3> QED
      BY <3>2, <3>4
  <2> QED
    BY <1>5, <2>1, <2>2, <2>3, ListsWhen
<1>9. ASSUME NEW i \in 1 .. n, NEW j \in 1 .. n, i < j PROVE Precedes(t[i], t[j])
  <2> DEFINE p == lo + (n - i + 1) - 1
             q == lo + (n - j + 1) - 1
  <2>1. p \in lo .. hi /\ q \in lo .. hi /\ t[i] = d[p] /\ t[j] = d[q]
    BY <1>1, <1>5, <1>7
  <2>2. q < p
    BY <1>2, <1>4, <1>9
  <2> HIDE DEF p, q
  <2>3. d[p].key < d[q].key
    <3>1. q + 1 \in lo .. hi /\ q + 1 \in lo + 1 .. hi /\ q + 1 <= p /\ (q + 1) - 1 = q
      BY <1>2, <2>1, <2>2
    <3>2. d[p].key <= d[q + 1].key /\ d[q + 1].key < d[q].key
      BY <1>3, <1>6, <2>1, <3>1
    <3>3. d[p].key \in Int /\ d[q + 1].key \in Int /\ d[q].key \in Int
      BY <1>1, <2>1, <3>1
    <3> QED
      BY <3>2, <3>3
  <2>4. Precedes(d[p], d[q])
    BY <2>3 DEF Precedes
  <2> QED
    BY <2>1, <2>4
<1>10. Rising(t)
  BY <1>5, <1>8, <1>9, ListFacts DEF Rising
<1>11. Ordered(t, lo, hi)
  BY <1>1, <1>8, <1>10 DEF Ordered, Sorts
<1> QED
  BY <1>1, <1>5, <1>11 DEF t, s
-----------------------------------------------------------------------------
(* What is written into the array.                                         *)

WritesAt(e, d, lo, s) ==
  /\ e \in Seq(Element) /\ Len(e) = Len(d)
  /\ \A i \in 1 .. Len(d) : e[i] = IF i \in lo .. lo + Len(s) - 1 THEN s[i - lo + 1] ELSE d[i]

LEMMA WrittenSeq ==
  ASSUME NEW d \in Seq(Element), NEW s \in Seq(Element), NEW lo \in Nat \ {0}, lo + Len(s) - 1 <= Len(d)
  PROVE  WritesAt(Written(d, lo, s), d, lo, s)
<1> DEFINE n == Len(d)
           e(i) == IF i \in lo .. lo + Len(s) - 1 THEN s[i - lo + 1] ELSE d[i]
           t == [i \in 1 .. n |-> e(i)]
<1>1. n \in Nat /\ Len(s) \in Nat /\ DOMAIN d = 1 .. n
  BY LenProperties
<1>2. \A i \in 1 .. n : e(i) \in Element
  <2> TAKE i \in 1 .. n
  <2>1. i \in lo .. lo + Len(s) - 1 => i - lo + 1 \in 1 .. Len(s)
    BY <1>1
  <2> QED
    BY <2>1, ElementOfSeq
<1>3. Written(d, lo, s) = t
  BY <1>1 DEF Written
<1> HIDE DEF e
<1>4. t \in [1 .. n -> Element] /\ \A i \in 1 .. n : t[i] = e(i)
  BY <1>2
<1>5. t \in Seq(Element)
  <2> HIDE DEF t, n
  <2> QED
    BY <1>1, <1>4, SeqDef
<1>6. Len(t) = n
  <2>1. Len(t) \in Nat /\ DOMAIN t = 1 .. Len(t) /\ DOMAIN t = 1 .. n
    BY <1>5, LenProperties
  <2> HIDE DEF t, n
  <2> DEFINE m == Len(t)
  <2>2. m \in Nat /\ 1 .. n = 1 .. m
    BY <2>1
  <2> HIDE DEF m
  <2>3. n \in Nat
    BY <1>1 DEF n
  <2>4. m = n
    <3>1. (m \in 1 .. m \/ m = 0) /\ (n \in 1 .. n \/ n = 0)
      BY <2>2, <2>3
    <3>2. (m \in 1 .. n \/ m = 0) /\ (n \in 1 .. m \/ n = 0)
      BY <2>2, <3>1
    <3> QED
      BY <2>2, <2>3, <3>2
  <2> QED
    BY <2>4 DEF m
<1> HIDE DEF t
<1> QED
  BY <1>3, <1>4, <1>5, <1>6 DEF e, WritesAt

\* Parts that are the same.
LEMMA SamePart ==
  ASSUME NEW d \in Seq(Element), NEW e \in Seq(Element), Len(e) = Len(d), NEW lo \in Nat \ {0}, NEW hi \in Int,
         lo - 1 <= hi, hi <= Len(d), \A i \in lo .. hi : e[i] = d[i]
  PROVE  SubSeq(e, lo, hi) = SubSeq(d, lo, hi)
<1> DEFINE s == SubSeq(e, lo, hi)
           t == SubSeq(d, lo, hi)
           n == hi - lo + 1
<1>1. s \in Seq(Element) /\ Len(s) = n /\ \A i \in 1 .. n : s[i] = e[lo + i - 1]
  BY Segment
<1>2. t \in Seq(Element) /\ Len(t) = n /\ \A i \in 1 .. n : t[i] = d[lo + i - 1]
  BY Segment
<1>3. \A i \in 1 .. n : lo + i - 1 \in lo .. hi
  OBVIOUS
<1> HIDE DEF s, t
<1>4. \A i \in 1 .. Len(s) : s[i] = t[i]
  BY <1>1, <1>2, <1>3
<1>5. Len(s) = Len(t)
  BY <1>1, <1>2
<1>6. s = t
  BY <1>1, <1>2, <1>4, <1>5, SeqEqual
<1> QED
  BY <1>6 DEF s, t

LEMMA WrittenPart ==
  ASSUME NEW d \in Seq(Element), NEW s \in Seq(Element), NEW lo \in Nat \ {0}, NEW hi \in Int, hi = lo + Len(s) - 1,
         hi <= Len(d), NEW e, WritesAt(e, d, lo, s), Ordered(s, lo, hi)
  PROVE  Ordered(SubSeq(e, lo, hi), lo, hi)
<1>1. e \in Seq(Element) /\ Len(e) = Len(d) /\ Len(s) \in Nat /\ Len(d) \in Nat
  BY LenProperties DEF WritesAt
<1>2. \A i \in 1 .. Len(d) : i \in lo .. hi => e[i] = s[i - lo + 1]
  BY DEF WritesAt
<1> DEFINE t == SubSeq(e, lo, hi)
           n == hi - lo + 1
<1>3. t \in Seq(Element) /\ Len(t) = n /\ \A i \in 1 .. n : t[i] = e[lo + i - 1]
  BY <1>1, Segment
<1> HIDE DEF t
<1>4. n = Len(s)
  BY <1>1
<1>5. \A i \in 1 .. n : lo + i - 1 \in 1 .. Len(d) /\ lo + i - 1 \in lo .. hi /\ (lo + i - 1) - lo + 1 = i
  BY <1>1
<1> HIDE DEF n
<1>6. \A i \in 1 .. Len(t) : t[i] = s[i]
  <2> TAKE i \in 1 .. Len(t)
  <2> DEFINE p == lo + i - 1
  <2>1. t[i] = e[p] /\ p \in 1 .. Len(d) /\ p \in lo .. hi /\ p - lo + 1 = i
    BY <1>3, <1>5
  <2> HIDE DEF p
  <2>2. e[p] = s[p - lo + 1]
    BY <1>2, <2>1
  <2> QED
    BY <2>1, <2>2
<1>7. t = s
  BY <1>3, <1>4, <1>6, SeqEqual
<1> QED
  BY <1>7 DEF t

\* The elements from lo to hi of d stand in another order in e, which is d otherwise.
Rearranged(e, d, lo, hi) ==
  /\ e \in Seq(Element) /\ Len(e) = Len(d) /\ \A i \in 1 .. Len(d) : i \notin lo .. hi => e[i] = d[i]
  /\ Ordered(SubSeq(e, lo, hi), lo, hi)

LEMMA RearrangedWhen ==
  ASSUME NEW d \in Seq(Element), NEW s \in Seq(Element), NEW lo \in Nat \ {0}, NEW hi \in Nat, hi = lo + Len(s) - 1,
         hi <= Len(d), Ordered(s, lo, hi), NEW e, e = Written(d, lo, s)
  PROVE  Rearranged(e, d, lo, hi)
<1>0. lo + Len(s) - 1 <= Len(d)
  OBVIOUS
<1>1. WritesAt(e, d, lo, s)
  <2>1. WritesAt(Written(d, lo, s), d, lo, s)
    BY <1>0, WrittenSeq
  <2> QED
    BY <2>1
<1>2. Ordered(SubSeq(e, lo, hi), lo, hi)
  <2>1. hi \in Int
    OBVIOUS
  <2> QED
    BY <1>1, <2>1, WrittenPart
<1>3. \A i \in 1 .. Len(d) : i \notin lo .. hi => e[i] = d[i]
  BY <1>1 DEF WritesAt
<1> QED
  BY <1>1, <1>2, <1>3 DEF Rearranged, WritesAt

\* A run that does not fall is left as it is, one that falls is turned round.
LEMMA RunLeft ==
  ASSUME NEW d, NEW lo, NEW hi, Unmoved(d, lo, hi), \A i \in lo + 1 .. hi : ~Falls(d[i - 1], d[i])
  PROVE  Rearranged(d, d, lo, hi)
  BY RisingRun DEF Rearranged, Unmoved

LEMMA RunTurned ==
  ASSUME NEW d, NEW lo, NEW hi, Unmoved(d, lo, hi), \A i \in lo + 1 .. hi : Falls(d[i - 1], d[i]),
         NEW e, e = Written(d, lo, Reverse(SubSeq(d, lo, hi)))
  PROVE  Rearranged(e, d, lo, hi)
<1> DEFINE s == Reverse(SubSeq(d, lo, hi))
<1>1. Ordered(s, lo, hi) /\ Len(s) = hi - lo + 1
  BY FallingRun
<1>2. d \in Seq(Element) /\ lo \in Nat \ {0} /\ hi \in Nat /\ hi <= Len(d)
  BY DEF Unmoved
<1>3. e = Written(d, lo, s)
  OBVIOUS
<1> HIDE DEF s
<1>4. s \in Seq(Element)
  BY <1>1, ListFacts DEF Ordered, Sorts
<1>5. hi = lo + Len(s) - 1
  BY <1>1, <1>2
<1> QED
  BY <1>1, <1>2, <1>3, <1>4, <1>5, RearrangedWhen

\* From curr on the array is as it was.
RestUnmoved == dst \in Seq(Element) /\ curr \in 1 .. Size /\ \A i \in curr .. Size : dst[i].was = i

LEMMA PartUnmoved ==
  ASSUME RestUnmoved, NEW hi \in curr .. Size
  PROVE  Unmoved(dst, curr, hi)
<1>1. Size \in Nat
  BY LenProperties DEF RestUnmoved, Size
<1> QED
  BY <1>1 DEF RestUnmoved, Unmoved, Size

\* What is counted as a run.
Counted(e, n) == n \in 1 .. Size - curr + 1 /\ Rearranged(e, dst, curr, curr + n - 1)

LEMMA OneCounted ==
  ASSUME RestUnmoved, curr = Size
  PROVE  Counted(CountRun.dst, CountRun.length)
<1>1. CountRun.dst = dst /\ CountRun.length = 1
  BY DEF CountRun
<1>2. curr \in Nat /\ Size \in Nat /\ curr + 1 - 1 = curr /\ 1 \in 1 .. Size - curr + 1 /\ curr \in curr .. Size
  BY LenProperties DEF RestUnmoved, Size
<1>3. Unmoved(dst, curr, curr)
  BY <1>2, PartUnmoved
<1>4. curr + 1 .. curr = {}
  BY <1>2
<1>5. Rearranged(dst, dst, curr, curr)
  BY <1>3, <1>4, RunLeft
<1> QED
  BY <1>1, <1>2, <1>5 DEF Counted

LEMMA TwoCounted ==
  ASSUME RestUnmoved, curr = Size - 1
  PROVE  Counted(CountRun.dst, CountRun.length)
<1> DEFINE pair == SubSeq(dst, curr, Size)
           e == IF Falls(dst[curr], dst[Size]) THEN Written(dst, curr, Reverse(pair)) ELSE dst
<1>1. /\ curr \in Nat \ {0} /\ Size \in Nat /\ curr + 2 - 1 = Size /\ 2 \in 1 .. Size - curr + 1 /\ Size \in curr .. Size
      /\ curr # Size /\ curr >= Size - 1 /\ Size - 1 = curr /\ dst \in Seq(Element) /\ Size = Len(dst)
  BY LenProperties DEF RestUnmoved, Size
<1>2. pair[1] = dst[curr] /\ pair[2] = dst[Size]
  <2>1. \A i \in 1 .. Size - curr + 1 : pair[i] = dst[curr + i - 1]
    BY <1>1, Segment
  <2>2. 1 \in 1 .. Size - curr + 1 /\ 2 \in 1 .. Size - curr + 1 /\ curr + 1 - 1 = curr /\ curr + 2 - 1 = Size
    BY <1>1
  <2> HIDE DEF pair
  <2> QED
    BY <2>1, <2>2
<1>3. CountRun.dst = e /\ CountRun.length = 2
  <2>1. CountRun = [dst |-> IF Falls(pair[1], pair[2]) THEN Written(dst, Size - 1, Reverse(pair)) ELSE dst, length |-> 2]
    BY <1>1 DEF CountRun
  <2> HIDE DEF pair
  <2> QED
    BY <1>1, <1>2, <2>1
<1>4. Unmoved(dst, curr, Size)
  BY <1>1, PartUnmoved
<1>5. \A i \in curr + 1 .. Size : i = Size /\ i - 1 = curr
  BY <1>1
<1>6. Rearranged(e, dst, curr, Size)
  <2>1. CASE Falls(dst[curr], dst[Size])
    <3>1. e = Written(dst, curr, Reverse(SubSeq(dst, curr, Size)))
      BY <2>1
    <3>2. \A i \in curr + 1 .. Size : Falls(dst[i - 1], dst[i])
      BY <1>5, <2>1
    <3> HIDE DEF e
    <3> QED
      BY <1>4, <3>1, <3>2, RunTurned
  <2>2. CASE ~Falls(dst[curr], dst[Size])
    <3>1. e = dst
      BY <2>2
    <3>2. \A i \in curr + 1 .. Size : ~Falls(dst[i - 1], dst[i])
      BY <1>5, <2>2
    <3> HIDE DEF e
    <3>3. Rearranged(dst, dst, curr, Size)
      BY <1>4, <3>2, RunLeft
    <3> QED
      BY <3>1, <3>3
  <2> QED
    BY <2>1, <2>2
<1> HIDE DEF e
<1> QED
  BY <1>1, <1>3, <1>6 DEF Counted

\* Up to the place where a run stops it goes on as it began.
LEMMA RunGoesOn ==
  ASSUME RestUnmoved, curr < Size - 1, NEW n, n = RunLength(curr)
  PROVE  /\ n \in 2 .. Size - curr
         /\ \A i \in curr + 1 .. curr + n - 1 : Falls(dst[i - 1], dst[i]) <=> Falls(dst[curr], dst[curr + 1])
<1> DEFINE falling == Falls(dst[curr], dst[curr + 1])
           stops == {i \in curr + 2 .. Size : i = Size \/ Falls(dst[i - 1], dst[i]) # falling}
           m == Min(stops)
<1>0. curr \in Nat \ {0} /\ Size \in Nat
  BY LenProperties DEF RestUnmoved, Size
<1>1. n = m - curr
  BY DEF RunLength
<1>2. stops \in SUBSET Nat /\ Size \in stops
  BY <1>0
<1>3. m \in stops /\ \A k \in stops : m <= k
  <2> HIDE DEF stops
  <2> QED
    BY <1>2, MinFacts
<1> HIDE DEF m
<1>4. m \in curr + 2 .. Size
  BY <1>3
<1>5. ASSUME NEW i \in curr + 1 .. curr + n - 1 PROVE Falls(dst[i - 1], dst[i]) <=> falling
  <2>1. CASE i = curr + 1
    <3>1. i - 1 = curr
      BY <1>0, <2>1
    <3> QED
      BY <2>1, <3>1
  <2>2. CASE i # curr + 1
    <3>1. i \in curr + 2 .. Size /\ i < m /\ i # Size
      BY <1>0, <1>1, <1>4, <2>2
    <3>2. i \notin stops
      <4> HIDE DEF stops
      <4>1. ~(m <= i)
        BY <1>4, <3>1
      <4> QED
        BY <1>3, <4>1
    <3>3. ~(Falls(dst[i - 1], dst[i]) # falling)
      BY <3>1, <3>2
    <3> QED
      BY <3>3
  <2> QED
    BY <2>1, <2>2
<1>6. n \in 2 .. Size - curr
  BY <1>0, <1>1, <1>4
<1> QED
  BY <1>5, <1>6

LEMMA ManyCounted ==
  ASSUME RestUnmoved, curr < Size - 1
  PROVE  Counted(CountRun.dst, CountRun.length)
<1> DEFINE n == RunLength(curr)
           hi == curr + n - 1
           e == IF Falls(dst[curr], dst[curr + 1]) THEN Written(dst, curr, Reverse(SubSeq(dst, curr, hi))) ELSE dst
<1>0. curr \in Nat \ {0} /\ Size \in Nat /\ curr # Size /\ ~(curr >= Size - 1)
  BY LenProperties DEF RestUnmoved, Size
<1>1. CountRun.dst = e /\ CountRun.length = n
  BY <1>0 DEF CountRun
<1>2. /\ n \in 2 .. Size - curr
      /\ \A i \in curr + 1 .. hi : Falls(dst[i - 1], dst[i]) <=> Falls(dst[curr], dst[curr + 1])
  <2>1. n = RunLength(curr)
    OBVIOUS
  <2> HIDE DEF n
  <2> QED
    BY <2>1, RunGoesOn
<1> HIDE DEF n
<1>3. hi \in curr .. Size /\ n \in 1 .. Size - curr + 1
  BY <1>0, <1>2
<1>4. Unmoved(dst, curr, hi)
  <2> HIDE DEF hi
  <2> QED
    BY <1>3, PartUnmoved
<1>5. Rearranged(e, dst, curr, hi)
  <2>1. CASE Falls(dst[curr], dst[curr + 1])
    <3>1. e = Written(dst, curr, Reverse(SubSeq(dst, curr, hi)))
      BY <2>1
    <3>2. \A i \in curr + 1 .. hi : Falls(dst[i - 1], dst[i])
      BY <1>2, <2>1
    <3> HIDE DEF e, hi
    <3> QED
      BY <1>4, <3>1, <3>2, RunTurned
  <2>2. CASE ~Falls(dst[curr], dst[curr + 1])
    <3>1. e = dst
      BY <2>2
    <3>2. \A i \in curr + 1 .. hi : ~Falls(dst[i - 1], dst[i])
      BY <1>2, <2>2
    <3> HIDE DEF e, hi
    <3>3. Rearranged(dst, dst, curr, hi)
      BY <1>4, <3>2, RunLeft
    <3> QED
      BY <3>1, <3>3
  <2> QED
    BY <2>1, <2>2
<1> HIDE DEF e
<1> QED
  BY <1>1, <1>3, <1>5 DEF Counted

LEMMA RunCounted ==
  ASSUME RestUnmoved
  PROVE  Counted(CountRun.dst, CountRun.length)
<1>1. curr \in Nat /\ Size \in Nat /\ curr <= Size
  BY LenProperties DEF RestUnmoved, Size
<1>2. curr = Size \/ curr = Size - 1 \/ curr < Size - 1
  BY <1>1
<1> QED
  BY <1>2, OneCounted, TwoCounted, ManyCounted
-----------------------------------------------------------------------------
(* The next run.                                                           *)

LEMMA OrderedPart ==
  ASSUME NEW e \in Seq(Element), NEW lo \in Nat \ {0}, NEW hi \in Nat, lo <= hi, hi <= Len(e),
         Ordered(SubSeq(e, lo, hi), lo, hi)
  PROVE  /\ \A i \in lo .. hi : e[i].was \in lo .. hi
         /\ \A w \in lo .. hi : \E i \in lo .. hi : e[i].was = w
         /\ \A i, j \in lo .. hi : i < j => Precedes(e[i], e[j])
         /\ \A i, j \in lo .. hi : e[i] = e[j] => i = j
<1> DEFINE s == SubSeq(e, lo, hi)
<1>1. PICK S : Sorts(s, S) /\ {x.was : x \in S} = lo .. hi
  BY DEF Ordered
<1>2. Len(s) = hi - lo + 1 /\ \A i \in 1 .. hi - lo + 1 : s[i] = e[lo + i - 1]
  BY Segment
<1>3. /\ \A i \in 1 .. Len(s) : s[i] \in S
      /\ \A x \in S : \E i \in 1 .. Len(s) : s[i] = x
      /\ \A i, j \in 1 .. Len(s) : s[i] = s[j] => i = j
      /\ \A i, j \in 1 .. Len(s) : i < j => Precedes(s[i], s[j])
  <2>1. Lists(s, S, Element) /\ Rising(s)
    BY <1>1 DEF Sorts
  <2> HIDE DEF s
  <2> QED
    BY <2>1, ListFacts DEF Rising
<1> HIDE DEF s
<1>4. \A i \in lo .. hi : i - lo + 1 \in 1 .. Len(s) /\ s[i - lo + 1] = e[i]
  <2> TAKE i \in lo .. hi
  <2>1. i - lo + 1 \in 1 .. hi - lo + 1 /\ lo + (i - lo + 1) - 1 = i
    OBVIOUS
  <2> QED
    BY <1>2, <2>1
<1>5. \A i \in lo .. hi : e[i] \in S
  BY <1>3, <1>4
<1>6. \A i \in lo .. hi : e[i].was \in lo .. hi
  BY <1>1, <1>5
<1>7. \A w \in lo .. hi : \E i \in lo .. hi : e[i].was = w
  <2> TAKE w \in lo .. hi
  <2>1. PICK x \in S : x.was = w
    BY <1>1
  <2>2. PICK i \in 1 .. Len(s) : s[i] = x
    BY <1>3
  <2>3. lo + i - 1 \in lo .. hi /\ s[i] = e[lo + i - 1]
    BY <1>2
  <2> QED
    BY <2>1, <2>2, <2>3
<1>8. \A i, j \in lo .. hi : i < j => Precedes(e[i], e[j])
  <2> TAKE i, j \in lo .. hi
  <2> HAVE i < j
  <2> DEFINE p == i - lo + 1
             q == j - lo + 1
  <2>1. p \in 1 .. Len(s) /\ q \in 1 .. Len(s) /\ s[p] = e[i] /\ s[q] = e[j] /\ p < q
    BY <1>4
  <2> HIDE DEF p, q
  <2> QED
    BY <1>3, <2>1
<1>9. \A i, j \in lo .. hi : e[i] = e[j] => i = j
  <2> TAKE i, j \in lo .. hi
  <2> HAVE e[i] = e[j]
  <2> DEFINE p == i - lo + 1
             q == j - lo + 1
  <2>1. p \in 1 .. Len(s) /\ q \in 1 .. Len(s) /\ s[p] = e[i] /\ s[q] = e[j] /\ (p = q => i = j)
    BY <1>4
  <2> HIDE DEF p, q
  <2>2. p = q
    BY <1>3, <2>1
  <2> QED
    BY <2>1, <2>2
<1> QED
  BY <1>6, <1>7, <1>8, <1>9

\* A run of the elements that had the places from lo to hi.
IsRun(s, lo, hi) == Ordered(s, lo, hi) /\ s \in Seq(Element) /\ Len(s) = hi - lo + 1

\* A run that is made longer by insertion.
LEMMA LongerRun ==
  ASSUME NEW d \in Seq(Element), NEW e, NEW lo \in Nat \ {0}, NEW mid \in Nat, NEW hi \in Nat,
         lo <= mid, mid < hi, hi <= Len(d), Rearranged(e, d, lo, mid), \A i \in mid + 1 .. hi : d[i].was = i,
         NEW s, s = InsertionSortStart(SubSeq(e, lo, hi), mid - lo + 1)
  PROVE  IsRun(s, lo, hi)
<1> DEFINE r == SubSeq(e, lo, hi)
           n == mid - lo + 1
           S == {e[i] : i \in lo .. hi}
<1>1. /\ e \in Seq(Element) /\ Len(e) = Len(d) /\ Len(d) \in Nat
      /\ \A i \in 1 .. Len(d) : i \notin lo .. mid => e[i] = d[i]
      /\ Ordered(SubSeq(e, lo, mid), lo, mid)
  BY LenProperties DEF Rearranged
<1>2. /\ \A i \in lo .. mid : e[i].was \in lo .. mid
      /\ \A w \in lo .. mid : \E i \in lo .. mid : e[i].was = w
      /\ \A i, j \in lo .. mid : i < j => Precedes(e[i], e[j])
      /\ \A i, j \in lo .. mid : e[i] = e[j] => i = j
  <2>1. mid <= Len(e)
    BY <1>1
  <2> QED
    BY <1>1, <2>1, OrderedPart
<1>3. \A i \in mid + 1 .. hi : e[i].was = i
  <2> TAKE i \in mid + 1 .. hi
  <2>1. i \in 1 .. Len(d) /\ i \notin lo .. mid
    BY <1>1
  <2> QED
    BY <1>1, <2>1
<1>4. \A i \in lo .. hi : e[i] \in Element
  <2>1. \A i \in lo .. hi : i \in 1 .. Len(e)
    BY <1>1
  <2> QED
    BY <1>1, <2>1, ElementOfSeq
<1>5. \A i \in lo .. hi : \A j \in lo .. hi : i < j /\ j > mid => e[i].was < e[j].was
  <2> TAKE i \in lo .. hi
  <2> TAKE j \in lo .. hi
  <2> HAVE i < j /\ j > mid
  <2>1. j \in mid + 1 .. hi /\ (i \in mid + 1 .. hi \/ i \in lo .. mid)
    OBVIOUS
  <2>2. e[j].was = j
    BY <1>3, <2>1
  <2>3. CASE i \in mid + 1 .. hi
    BY <1>3, <2>2, <2>3
  <2>4. CASE i \in lo .. mid
    <3>1. e[i].was \in lo .. mid
      BY <1>2, <2>4
    <3> QED
      BY <2>1, <2>2, <3>1
  <2> QED
    BY <2>1, <2>3, <2>4
<1>6. /\ r \in Seq(Element) /\ Len(r) = hi - lo + 1
      /\ \A i \in 1 .. hi - lo + 1 : r[i] = e[lo + i - 1]
  BY <1>1, Segment
<1>7. n \in 1 .. Len(r) /\ Len(r) \in Nat /\ n \in Nat /\ n + lo - 1 = mid /\ lo + n - 1 = mid
  <2> HIDE DEF r
  <2> QED
    BY <1>6
<1>8. s = InsertionSortStart(r, n)
  OBVIOUS
<1> HIDE DEF r, n
<1>9. \A i \in 1 .. Len(r) : lo + i - 1 \in lo .. hi /\ r[i] = e[lo + i - 1]
  <2> TAKE i \in 1 .. Len(r)
  <2>1. i \in 1 .. hi - lo + 1
    BY <1>6
  <2>2. lo \in Nat /\ hi \in Nat
    BY <1>1
  <2>3. lo + i - 1 \in lo .. hi
    BY <2>1, <2>2
  <2> QED
    BY <1>6, <2>1, <2>3
<1>10. \A i, j \in lo .. hi : e[i] = e[j] => i = j
  <2> TAKE i, j \in lo .. hi
  <2> HAVE e[i] = e[j]
  <2>1. e[i].was \in Nat /\ e[j].was = e[i].was
    BY <1>4, ElementFacts
  <2>2. CASE i > mid \/ j > mid
    <3>1. ~(i < j) /\ ~(j < i)
      BY <1>5, <2>1, <2>2
    <3> QED
      BY <3>1
  <2>3. CASE ~(i > mid \/ j > mid)
    <3>1. i \in lo .. mid /\ j \in lo .. mid
      BY <2>3
    <3> QED
      BY <1>2, <3>1
  <2> QED
    BY <2>2, <2>3
<1>11. Lists(r, S, Element)
  <2>1. \A i \in 1 .. Len(r) : r[i] \in S
    BY <1>9
  <2>2. \A x \in S : \E i \in 1 .. Len(r) : r[i] = x
    <3> SUFFICES ASSUME NEW j \in lo .. hi PROVE \E i \in 1 .. Len(r) : r[i] = e[j]
      OBVIOUS
    <3>1. j - lo + 1 \in 1 .. Len(r) /\ lo + (j - lo + 1) - 1 = j
      BY <1>6
    <3> QED
      BY <1>9, <3>1
  <2>3. \A i, j \in 1 .. Len(r) : r[i] = r[j] => i = j
    <3> TAKE i, j \in 1 .. Len(r)
    <3> HAVE r[i] = r[j]
    <3> DEFINE p == lo + i - 1
               q == lo + j - 1
    <3>1. p \in lo .. hi /\ q \in lo .. hi /\ e[p] = e[q] /\ (p = q => i = j)
      BY <1>6, <1>9
    <3> HIDE DEF p, q
    <3>2. p = q
      BY <1>10, <3>1
    <3> QED
      BY <3>1, <3>2
  <2> HIDE DEF S
  <2> QED
    BY <1>6, <2>1, <2>2, <2>3, ListsWhen
<1>12. Rising(SubSeq(r, 1, n))
  <2> DEFINE u == SubSeq(r, 1, n)
  <2>1. u \in Seq(Element) /\ Len(u) = n /\ \A i \in 1 .. n : u[i] = r[i]
    <3>1. /\ SubSeq(r, 1, n) \in Seq(Element) /\ Len(SubSeq(r, 1, n)) = n - 1 + 1
          /\ \A i \in 1 .. n - 1 + 1 : SubSeq(r, 1, n)[i] = r[1 + i - 1]
      BY <1>6, <1>7, Segment
    <3>2. n - 1 + 1 = n /\ \A i \in 1 .. n : 1 + i - 1 = i
      BY <1>7
    <3> QED
      BY <3>1, <3>2
  <2>2. DOMAIN u = 1 .. n
    BY <2>1, LenProperties
  <2> HIDE DEF u
  <2>3. ASSUME NEW i \in 1 .. n, NEW j \in 1 .. n, i < j PROVE Precedes(u[i], u[j])
    <3> DEFINE p == lo + i - 1
               q == lo + j - 1
    <3>1. p \in lo .. mid /\ q \in lo .. mid /\ p < q /\ i \in 1 .. Len(r) /\ j \in 1 .. Len(r)
      BY <1>7, <2>3
    <3>2. u[i] = e[p] /\ u[j] = e[q]
      BY <1>9, <2>1, <3>1
    <3> HIDE DEF p, q
    <3>3. Precedes(e[p], e[q])
      BY <1>2, <3>1
    <3> QED
      BY <3>2, <3>3
  <2>4. Rising(u)
    BY <2>2, <2>3 DEF Rising
  <2> QED
    BY <2>4 DEF u
<1>13. \A i \in n + 1 .. Len(r) : \A j \in 1 .. i - 1 : r[j].was < r[i].was
  <2> TAKE i \in n + 1 .. Len(r)
  <2> TAKE j \in 1 .. i - 1
  <2> DEFINE p == lo + j - 1
             q == lo + i - 1
  <2>1. i \in 1 .. Len(r) /\ j \in 1 .. Len(r)
    BY <1>7
  <2>2. p \in lo .. hi /\ q \in lo .. hi /\ r[j] = e[p] /\ r[i] = e[q]
    BY <1>9, <2>1
  <2>3. p < q /\ q > mid
    BY <1>7, <2>1
  <2> HIDE DEF p, q
  <2> QED
    BY <1>5, <2>2, <2>3
<1> HIDE DEF S
<1>14. Sorts(s, S)
  <2>1. Sorts(InsertionSortStart(r, n), S)
    BY <1>7, <1>11, <1>12, <1>13, InsertionSorts
  <2> QED
    BY <1>8, <2>1
<1>15. {x.was : x \in S} = lo .. hi
  <2>1. \A i \in lo .. hi : e[i].was \in lo .. hi
    <3> TAKE i \in lo .. hi
    <3>1. i \in mid + 1 .. hi \/ i \in lo .. mid
      OBVIOUS
    <3>2. i \in mid + 1 .. hi => e[i].was = i
      BY <1>3
    <3>3. i \in lo .. mid => e[i].was \in lo .. mid
      BY <1>2
    <3> QED
      BY <3>1, <3>2, <3>3
  <2>2. \A w \in lo .. hi : \E i \in lo .. hi : e[i].was = w
    <3> TAKE w \in lo .. hi
    <3>1. w \in mid + 1 .. hi \/ w \in lo .. mid
      OBVIOUS
    <3>2. w \in mid + 1 .. hi => e[w].was = w
      BY <1>3
    <3>3. w \in lo .. mid => \E i \in lo .. mid : e[i].was = w
      BY <1>2
    <3>4. lo .. mid \subseteq lo .. hi
      OBVIOUS
    <3> QED
      BY <3>1, <3>2, <3>3, <3>4
  <2> QED
    BY <2>1, <2>2 DEF S
<1>16. Len(s) = Len(r) /\ s \in Seq(Element)
  <2>1. Lists(s, S, Element)
    BY <1>14 DEF Sorts
  <2> QED
    BY <1>11, <2>1, ListLength, ListFacts
<1> QED
  BY <1>6, <1>14, <1>15, <1>16 DEF Ordered, IsRun

\* What NextRun does: a run of some length is in order behind the others.
LEMMA NextRunFound ==
  ASSUME RestUnmoved, PushNext
  PROVE  \E n \in 1 .. Size - curr + 1 :
           /\ Rearranged(dst', dst, curr, curr + n - 1)
           /\ runs' = Append(runs, [start |-> curr, length |-> n]) /\ curr' = curr + n
<1> DEFINE e == CountRun.dst
           m == CountRun.length
           K == Size - curr + 1
           run == IF MinRun(Size) > K THEN K ELSE MinRun(Size)
           n == IF run > m THEN run ELSE m
           r == SubSeq(e, curr, curr + n - 1)
           s == IF run > m THEN InsertionSortStart(r, m) ELSE r
<1>0. /\ curr \in Nat \ {0} /\ Size \in Nat /\ curr <= Size /\ K \in Nat /\ dst \in Seq(Element) /\ Size = Len(dst)
      /\ \A i \in curr .. Size : dst[i].was = i
  BY LenProperties DEF RestUnmoved, Size
<1>1. Counted(e, m)
  BY RunCounted
<1>2. m \in 1 .. K /\ Rearranged(e, dst, curr, curr + m - 1)
  BY <1>1 DEF Counted
<1>3. MinRun(Size) \in Int
  BY <1>0, MinRunType
<1>4. dst' = Written(e, curr, s) /\ runs' = Append(runs, [start |-> curr, length |-> n]) /\ curr' = curr + n
  BY DEF PushNext
<1> HIDE DEF e, m
<1>5. run \in Int /\ run <= K /\ n \in 1 .. K /\ n >= m /\ (run > m => n > m) /\ (~(run > m) => n = m)
  BY <1>0, <1>2, <1>3
<1>6. /\ run > m => s = InsertionSortStart(r, m)
      /\ ~(run > m) => s = r
  OBVIOUS
<1> DEFINE hi == curr + n - 1
<1>7. /\ e \in Seq(Element) /\ Len(e) = Len(dst)
      /\ \A i \in 1 .. Len(dst) : i \notin curr .. curr + m - 1 => e[i] = dst[i]
      /\ Ordered(SubSeq(e, curr, curr + m - 1), curr, curr + m - 1)
  BY <1>2 DEF Rearranged
<1> HIDE DEF run, n, s
<1>8. /\ hi \in Nat /\ curr <= hi /\ hi <= Len(dst) /\ curr - 1 <= hi
      /\ hi - curr + 1 = n
  BY <1>0, <1>5
<1>9. Ordered(s, curr, hi) /\ s \in Seq(Element) /\ Len(s) = n
  <2>1. CASE run > m
    <3> DEFINE mid == curr + m - 1
    <3>1. mid \in Nat /\ curr <= mid /\ mid < hi /\ mid - curr + 1 = m
      BY <1>0, <1>2, <1>5, <2>1
    <3>2. \A i \in mid + 1 .. hi : dst[i].was = i
      BY <1>0, <1>8, <3>1
    <3>3. s = InsertionSortStart(SubSeq(e, curr, hi), mid - curr + 1)
      BY <1>6, <2>1, <3>1
    <3>4. Rearranged(e, dst, curr, mid)
      BY <1>2
    <3> HIDE DEF mid, hi
    <3>5. IsRun(s, curr, hi)
      BY <1>0, <1>8, <3>1, <3>2, <3>3, <3>4, LongerRun
    <3> QED
      BY <1>8, <3>5 DEF IsRun
  <2>2. CASE ~(run > m)
    <3>1. s = r /\ n = m
      BY <1>5, <1>6, <2>2
    <3>2. r \in Seq(Element) /\ Len(r) = hi - curr + 1
      BY <1>0, <1>7, <1>8, Segment
    <3>3. Ordered(r, curr, hi)
      BY <1>7, <3>1
    <3> HIDE DEF r, hi
    <3> QED
      BY <1>8, <3>1, <3>2, <3>3
  <2> QED
    BY <2>1, <2>2
<1> HIDE DEF r
<1>10. Rearranged(dst', e, curr, hi)
  <2>1. hi = curr + Len(s) - 1
    BY <1>9
  <2> HIDE DEF hi
  <2> QED
    BY <1>0, <1>4, <1>7, <1>8, <1>9, <2>1, RearrangedWhen
<1>11. Rearranged(dst', dst, curr, hi)
  <2>1. \A i \in 1 .. Len(dst) : i \notin curr .. hi => i \notin curr .. curr + m - 1
    BY <1>0, <1>2, <1>5
  <2>2. \A i \in 1 .. Len(dst) : i \notin curr .. hi => dst'[i] = dst[i]
    BY <1>7, <1>10, <2>1 DEF Rearranged
  <2> HIDE DEF hi
  <2> QED
    BY <1>7, <1>10, <2>2 DEF Rearranged
<1> QED
  BY <1>4, <1>5, <1>11
-----------------------------------------------------------------------------
(* The invariant of the sort.                                              *)

\* The array holds the elements it had.
WholeArray(d) ==
  /\ d \in Seq(Element) /\ \A i \in 1 .. Len(d) : d[i].was \in 1 .. Len(d)
  /\ \A w \in 1 .. Len(d) : \E i \in 1 .. Len(d) : d[i].was = w

LEMMA WholeRearranged ==
  ASSUME NEW d, WholeArray(d), NEW e, NEW lo \in Nat \ {0}, NEW hi \in Nat, lo <= hi, hi <= Len(d),
         Rearranged(e, d, lo, hi), \A i \in lo .. hi : d[i].was \in lo .. hi
  PROVE  WholeArray(e)
<1>1. /\ d \in Seq(Element) /\ Len(d) \in Nat /\ \A i \in 1 .. Len(d) : d[i].was \in 1 .. Len(d)
      /\ \A w \in 1 .. Len(d) : \E i \in 1 .. Len(d) : d[i].was = w
  BY LenProperties DEF WholeArray
<1>2. /\ e \in Seq(Element) /\ Len(e) = Len(d) /\ \A i \in 1 .. Len(d) : i \notin lo .. hi => e[i] = d[i]
      /\ Ordered(SubSeq(e, lo, hi), lo, hi)
  BY DEF Rearranged
<1>3. /\ \A i \in lo .. hi : e[i].was \in lo .. hi
      /\ \A w \in lo .. hi : \E i \in lo .. hi : e[i].was = w
  BY <1>2, OrderedPart
<1>4. lo .. hi \subseteq 1 .. Len(d)
  BY <1>1
<1>5. \A i \in 1 .. Len(e) : e[i].was \in 1 .. Len(e)
  <2> TAKE i \in 1 .. Len(e)
  <2>1. CASE i \in lo .. hi
    BY <1>2, <1>3, <1>4, <2>1
  <2>2. CASE i \notin lo .. hi
    BY <1>1, <1>2, <2>2
  <2> QED
    BY <2>1, <2>2
<1>6. \A w \in 1 .. Len(e) : \E i \in 1 .. Len(e) : e[i].was = w
  <2> TAKE w \in 1 .. Len(e)
  <2>1. CASE w \in lo .. hi
    <3>1. PICK i \in lo .. hi : e[i].was = w
      BY <1>3, <2>1
    <3> QED
      BY <1>2, <1>4, <3>1
  <2>2. CASE w \notin lo .. hi
    <3>1. PICK i \in 1 .. Len(d) : d[i].was = w
      BY <1>1, <1>2
    <3>2. i \notin lo .. hi
      BY <2>2, <3>1
    <3> QED
      BY <1>2, <3>1, <3>2
  <2> QED
    BY <2>1, <2>2
<1> QED
  BY <1>2, <1>5, <1>6 DEF WholeArray
-----------------------------------------------------------------------------
(* The stack of runs.                                                      *)

RunType == [start : Nat \ {0}, length : Nat \ {0}]

EndOf(r) == r.start + r.length - 1

\* The runs of the stack lie one after the other up to the place before c.
OneAfterOther(rs, c) ==
  /\ rs \in Seq(RunType)
  /\ \A n \in 1 .. Len(rs) : rs[n].start = IF n = 1 THEN 1 ELSE EndOf(rs[n - 1]) + 1
  /\ c = IF Len(rs) = 0 THEN 1 ELSE EndOf(rs[Len(rs)]) + 1
  /\ \A n \in 1 .. Len(rs) : EndOf(rs[n]) < c
  /\ \A m, n \in 1 .. Len(rs) : m < n => EndOf(rs[m]) < rs[n].start

InOrderAt(d, r) == Ordered(SubSeq(d, r.start, EndOf(r)), r.start, EndOf(r))

EachInOrder(d, rs) == \A n \in 1 .. Len(rs) : InOrderAt(d, rs[n])

LEMMA RunFacts ==
  ASSUME NEW r \in RunType
  PROVE  /\ r.start \in Nat \ {0} /\ r.length \in Nat \ {0} /\ EndOf(r) \in Nat \ {0} /\ r.start <= EndOf(r)
         /\ EndOf(r) - r.start + 1 = r.length
  BY DEF RunType, EndOf

\* A run is found behind the others.
LEMMA RunPushed ==
  ASSUME NEW rs, NEW c, OneAfterOther(rs, c), NEW n \in Nat \ {0}, NEW r, r = [start |-> c, length |-> n],
         NEW ss, ss = Append(rs, r)
  PROVE  OneAfterOther(ss, c + n) /\ r \in RunType
<1>1. /\ rs \in Seq(RunType) /\ Len(rs) \in Nat /\ \A i \in 1 .. Len(rs) : rs[i] \in RunType
      /\ \A i \in 1 .. Len(rs) : rs[i].start = IF i = 1 THEN 1 ELSE EndOf(rs[i - 1]) + 1
      /\ c = IF Len(rs) = 0 THEN 1 ELSE EndOf(rs[Len(rs)]) + 1
      /\ \A i \in 1 .. Len(rs) : EndOf(rs[i]) < c
      /\ \A i, j \in 1 .. Len(rs) : i < j => EndOf(rs[i]) < rs[j].start
  BY LenProperties, ElementOfSeq DEF OneAfterOther
<1>2. c \in Nat \ {0}
  <2>1. Len(rs) # 0 => EndOf(rs[Len(rs)]) \in Nat
    BY <1>1, RunFacts
  <2> QED
    BY <1>1, <2>1
<1>3. r \in RunType /\ EndOf(r) = c + n - 1 /\ r.start = c
  BY <1>2 DEF RunType, EndOf
<1>4. /\ ss \in Seq(RunType) /\ Len(ss) = Len(rs) + 1 /\ ss[Len(rs) + 1] = r
      /\ \A i \in 1 .. Len(rs) : ss[i] = rs[i]
  BY <1>1, <1>3, AppendProperties
<1>5. \A i \in 1 .. Len(ss) : i \in 1 .. Len(rs) \/ i = Len(rs) + 1
  BY <1>1, <1>4
<1>6. \A i \in 1 .. Len(ss) : ss[i].start = IF i = 1 THEN 1 ELSE EndOf(ss[i - 1]) + 1
  <2> TAKE i \in 1 .. Len(ss)
  <2>1. CASE i \in 1 .. Len(rs)
    <3>1. i # 1 => i - 1 \in 1 .. Len(rs)
      BY <1>1, <2>1
    <3> QED
      BY <1>1, <1>4, <2>1, <3>1
  <2>2. CASE i = Len(rs) + 1
    <3>1. ss[i].start = c
      BY <1>3, <1>4, <2>2
    <3>2. i # 1 => i - 1 = Len(rs) /\ Len(rs) \in 1 .. Len(rs)
      BY <1>1, <2>2
    <3>3. i = 1 <=> Len(rs) = 0
      BY <1>1, <2>2
    <3> QED
      BY <1>1, <1>4, <3>1, <3>2, <3>3
  <2> QED
    BY <1>5, <2>1, <2>2
<1>7. c + n = IF Len(ss) = 0 THEN 1 ELSE EndOf(ss[Len(ss)]) + 1
  BY <1>1, <1>2, <1>3, <1>4
<1>8. \A i \in 1 .. Len(ss) : EndOf(ss[i]) < c + n
  <2> TAKE i \in 1 .. Len(ss)
  <2>1. CASE i \in 1 .. Len(rs)
    <3>1. EndOf(rs[i]) \in Nat /\ EndOf(rs[i]) < c
      BY <1>1, <2>1, RunFacts
    <3> QED
      BY <1>2, <1>4, <2>1, <3>1
  <2> QED
    BY <1>2, <1>3, <1>4, <1>5, <2>1
<1>9. \A i, j \in 1 .. Len(ss) : i < j => EndOf(ss[i]) < ss[j].start
  <2> TAKE i, j \in 1 .. Len(ss)
  <2> HAVE i < j
  <2>1. i \in 1 .. Len(rs)
    BY <1>1, <1>4
  <2>2. j \in 1 .. Len(rs) \/ ss[j].start = c
    BY <1>3, <1>4, <1>5
  <2> QED
    BY <1>1, <1>4, <2>1, <2>2
<1> DEFINE c2 == c + n
<1> HIDE DEF c2
<1>10. OneAfterOther(ss, c2)
  <2>1. c2 = c + n
    BY DEF c2
  <2> QED
    BY <1>4, <1>6, <1>7, <1>8, <1>9, <2>1 DEF OneAfterOther
<1>11. r \in RunType
  BY <1>3
<1>12. OneAfterOther(ss, c + n)
  BY <1>10 DEF c2
<1> QED
  BY <1>11, <1>12

\* Two neighbours become one run.
Both(a, b) == [start |-> a.start, length |-> a.length + b.length]

Joined(rs, k) == RemoveAt([rs EXCEPT ![k - 1].length = rs[k - 1].length + rs[k].length], k)

JoinedAt(rs, k, i) == IF i < k - 1 THEN rs[i] ELSE IF i = k - 1 THEN Both(rs[k - 1], rs[k]) ELSE rs[i + 1]

IsJoined(ss, rs, k) ==
  ss \in Seq(RunType) /\ Len(ss) = Len(rs) - 1 /\ \A i \in 1 .. Len(rs) - 1 : ss[i] = JoinedAt(rs, k, i)

LEMMA BothType ==
  ASSUME NEW a \in RunType, NEW b \in RunType, EndOf(a) + 1 = b.start
  PROVE  Both(a, b) \in RunType /\ EndOf(Both(a, b)) = EndOf(b) /\ Both(a, b).start = a.start
  BY DEF RunType, EndOf, Both

LEMMA JoinedRuns ==
  ASSUME NEW rs \in Seq(RunType), NEW k \in 2 .. Len(rs), EndOf(rs[k - 1]) + 1 = rs[k].start
  PROVE  IsJoined(Joined(rs, k), rs, k)
<1> DEFINE n == rs[k - 1].length + rs[k].length
           x == [rs[k - 1] EXCEPT !.length = n]
           t == [rs EXCEPT ![k - 1] = x]
           ss == RemoveAt(t, k)
<1>1. Len(rs) \in Nat /\ k - 1 \in 1 .. Len(rs) /\ k \in 1 .. Len(rs) /\ DOMAIN rs = 1 .. Len(rs)
  BY LenProperties
<1>2. rs[k - 1] \in RunType /\ rs[k] \in RunType
  BY <1>1, ElementOfSeq
<1>3. x = Both(rs[k - 1], rs[k]) /\ x \in RunType
  BY <1>2 DEF RunType, Both
<1>4. Joined(rs, k) = ss
  BY DEF Joined
<1> HIDE DEF x
<1>5. /\ t \in Seq(RunType) /\ Len(t) = Len(rs)
      /\ \A i \in 1 .. Len(rs) : t[i] = IF i = k - 1 THEN x ELSE rs[i]
  BY <1>1, <1>3, ExceptSeq
<1> HIDE DEF t
<1>6. /\ ss \in Seq(RunType) /\ Len(ss) = Len(rs) - 1
      /\ \A i \in 1 .. Len(rs) - 1 : ss[i] = t[IF i < k THEN i ELSE i + 1]
  <2>1. t \in Seq(RunType) /\ k \in 1 .. Len(t)
    BY <1>1, <1>5
  <2>2. /\ ss \in Seq(RunType) /\ Len(ss) = Len(t) - 1
        /\ \A i \in 1 .. Len(t) - 1 : ss[i] = t[IF i < k THEN i ELSE i + 1]
    BY <2>1, RemovedSeq
  <2> QED
    BY <1>5, <2>2
<1> HIDE DEF ss
<1>7. \A i \in 1 .. Len(rs) - 1 : ss[i] = JoinedAt(rs, k, i)
  <2> TAKE i \in 1 .. Len(rs) - 1
  <2>1. i \in 1 .. Len(rs) /\ i + 1 \in 1 .. Len(rs)
    BY <1>1
  <2>2. CASE i < k
    <3>1. ss[i] = t[i] /\ t[i] = IF i = k - 1 THEN x ELSE rs[i]
      BY <1>5, <1>6, <2>1, <2>2
    <3>2. i < k - 1 => i # k - 1
      OBVIOUS
    <3>3. i < k - 1 \/ i = k - 1
      BY <1>1, <2>2
    <3> QED
      BY <1>3, <3>1, <3>2, <3>3 DEF JoinedAt
  <2>3. CASE ~(i < k)
    <3>1. i + 1 # k - 1 /\ ~(i < k - 1) /\ i # k - 1
      BY <2>3
    <3> QED
      BY <1>5, <1>6, <2>1, <2>3, <3>1 DEF JoinedAt
  <2> QED
    BY <2>2, <2>3
<1> QED
  BY <1>4, <1>6, <1>7 DEF IsJoined

LEMMA JoinedStack ==
  ASSUME NEW rs, NEW c, OneAfterOther(rs, c), NEW k \in 2 .. Len(rs), NEW ss, IsJoined(ss, rs, k)
  PROVE  OneAfterOther(ss, c)
<1>1. /\ rs \in Seq(RunType) /\ Len(rs) \in Nat /\ \A i \in 1 .. Len(rs) : rs[i] \in RunType
      /\ \A i \in 1 .. Len(rs) : rs[i].start = IF i = 1 THEN 1 ELSE EndOf(rs[i - 1]) + 1
      /\ c = IF Len(rs) = 0 THEN 1 ELSE EndOf(rs[Len(rs)]) + 1
      /\ \A i \in 1 .. Len(rs) : EndOf(rs[i]) < c
      /\ \A i, j \in 1 .. Len(rs) : i < j => EndOf(rs[i]) < rs[j].start
  BY LenProperties, ElementOfSeq DEF OneAfterOther
<1>2. \A i \in 1 .. Len(rs) : /\ rs[i].start \in Nat \ {0} /\ EndOf(rs[i]) \in Nat \ {0}
                              /\ rs[i].start <= EndOf(rs[i])
  BY <1>1, RunFacts
<1> DEFINE b == Both(rs[k - 1], rs[k])
<1>3. k - 1 \in 1 .. Len(rs) /\ k \in 1 .. Len(rs) /\ k # 1 /\ k - 1 # k /\ k \in Nat
  BY <1>1
<1>4. b \in RunType /\ EndOf(b) = EndOf(rs[k]) /\ b.start = rs[k - 1].start
  BY <1>1, <1>3, BothType
<1> HIDE DEF b
<1>5. /\ ss \in Seq(RunType) /\ Len(ss) = Len(rs) - 1
      /\ \A i \in 1 .. Len(rs) - 1 : /\ i < k - 1 => ss[i] = rs[i]
                                     /\ i = k - 1 => ss[i] = b
                                     /\ i > k - 1 => ss[i] = rs[i + 1]
  BY <1>3 DEF IsJoined, JoinedAt, b
\* The place of a run of ss in rs: where it begins and where it ends.
<1> DEFINE lo(i) == IF i <= k - 1 THEN i ELSE i + 1
           hi(i) == IF i < k - 1 THEN i ELSE i + 1
<1>6. \A i \in 1 .. Len(rs) - 1 : /\ lo(i) \in 1 .. Len(rs) /\ hi(i) \in 1 .. Len(rs)
                                  /\ i = 1 => lo(i) = 1
                                  /\ i # 1 => hi(i - 1) = lo(i) - 1 /\ lo(i) # 1
                                  /\ \A j \in 1 .. Len(rs) - 1 : i < j => hi(i) < lo(j)
                                  /\ i = Len(rs) - 1 => hi(i) = Len(rs)
  BY <1>1, <1>3
<1>7. \A i \in 1 .. Len(rs) - 1 : ss[i].start = rs[lo(i)].start /\ EndOf(ss[i]) = EndOf(rs[hi(i)])
  <2> TAKE i \in 1 .. Len(rs) - 1
  <2>1. CASE i < k - 1
    BY <1>3, <1>5, <2>1
  <2>2. CASE i = k - 1
    BY <1>3, <1>4, <1>5, <2>2
  <2>3. CASE i > k - 1
    BY <1>3, <1>5, <2>3
  <2> QED
    BY <1>3, <2>1, <2>2, <2>3
<1> HIDE DEF lo, hi
<1>8. \A i \in 1 .. Len(ss) : ss[i].start = IF i = 1 THEN 1 ELSE EndOf(ss[i - 1]) + 1
  <2> TAKE i \in 1 .. Len(ss)
  <2>0. i \in 1 .. Len(rs) - 1
    BY <1>5
  <2>1. CASE i = 1
    <3>1. rs[lo(i)].start = 1
      BY <1>1, <1>6, <2>0, <2>1
    <3> QED
      BY <1>7, <2>0, <2>1, <3>1
  <2>2. CASE i # 1
    <3>1. i - 1 \in 1 .. Len(rs) - 1
      BY <2>0, <2>2
    <3>2. ss[i].start = rs[lo(i)].start /\ EndOf(ss[i - 1]) = EndOf(rs[hi(i - 1)])
      BY <1>7, <2>0, <3>1
    <3>3. hi(i - 1) = lo(i) - 1 /\ lo(i) # 1 /\ lo(i) \in 1 .. Len(rs)
      BY <1>6, <2>0, <2>2
    <3>4. rs[lo(i)].start = EndOf(rs[lo(i) - 1]) + 1
      BY <1>1, <3>3
    <3> QED
      BY <2>2, <3>2, <3>3, <3>4
  <2> QED
    BY <2>1, <2>2
<1>9. c = IF Len(ss) = 0 THEN 1 ELSE EndOf(ss[Len(ss)]) + 1
  <2>1. Len(rs) # 0 /\ Len(rs) - 1 \in 1 .. Len(rs) - 1 /\ Len(ss) # 0
    BY <1>1, <1>3, <1>5
  <2>2. EndOf(ss[Len(rs) - 1]) = EndOf(rs[hi(Len(rs) - 1)]) /\ hi(Len(rs) - 1) = Len(rs)
    BY <1>6, <1>7, <2>1
  <2> QED
    BY <1>1, <1>5, <2>1, <2>2
<1>10. \A i \in 1 .. Len(ss) : EndOf(ss[i]) < c
  <2> TAKE i \in 1 .. Len(ss)
  <2>1. EndOf(ss[i]) = EndOf(rs[hi(i)]) /\ hi(i) \in 1 .. Len(rs)
    BY <1>5, <1>6, <1>7
  <2> QED
    BY <1>1, <2>1
<1>11. \A i, j \in 1 .. Len(ss) : i < j => EndOf(ss[i]) < ss[j].start
  <2> TAKE i, j \in 1 .. Len(ss)
  <2> HAVE i < j
  <2>1. i \in 1 .. Len(rs) - 1 /\ j \in 1 .. Len(rs) - 1
    BY <1>5
  <2>2. hi(i) \in 1 .. Len(rs) /\ lo(j) \in 1 .. Len(rs) /\ hi(i) < lo(j)
    BY <1>6, <2>1
  <2>3. EndOf(rs[hi(i)]) < rs[lo(j)].start
    BY <1>1, <2>2
  <2> QED
    BY <1>7, <2>1, <2>3
<1> QED
  BY <1>5, <1>8, <1>9, <1>10, <1>11 DEF OneAfterOther

\* A run is in order still when only other places of the array have changed.
LEMMA RunUntouched ==
  ASSUME NEW d \in Seq(Element), NEW lo, NEW hi, NEW e, Rearranged(e, d, lo, hi), lo \in Nat, hi \in Nat,
         NEW r \in RunType, EndOf(r) <= Len(d), EndOf(r) < lo \/ hi < r.start, InOrderAt(d, r)
  PROVE  InOrderAt(e, r)
<1> DEFINE x == r.start
           y == EndOf(r)
<1>1. x \in Nat \ {0} /\ y \in Nat \ {0} /\ y \in Int /\ x - 1 <= y /\ y <= Len(d) /\ Len(d) \in Nat
      /\ (y < lo \/ hi < x)
  BY RunFacts, LenProperties
<1>2. e \in Seq(Element) /\ Len(e) = Len(d) /\ \A i \in 1 .. Len(d) : i \notin lo .. hi => e[i] = d[i]
  BY DEF Rearranged
<1>3. Ordered(SubSeq(d, x, y), x, y)
  BY DEF InOrderAt
<1>4. InOrderAt(e, r) <=> Ordered(SubSeq(e, x, y), x, y)
  BY DEF InOrderAt
<1> HIDE DEF x, y
<1>5. \A i \in x .. y : e[i] = d[i]
  <2> TAKE i \in x .. y
  <2>1. i \in 1 .. Len(d) /\ i \notin lo .. hi
    BY <1>1
  <2> QED
    BY <1>2, <2>1
<1>6. SubSeq(e, x, y) = SubSeq(d, x, y)
  BY <1>1, <1>2, <1>5, SamePart
<1> QED
  BY <1>3, <1>4, <1>6

LEMMA RunFoundInOrder ==
  ASSUME NEW rs, NEW c, OneAfterOther(rs, c), NEW d \in Seq(Element), EachInOrder(d, rs), c - 1 <= Len(d),
         NEW n \in Nat \ {0}, NEW r, r = [start |-> c, length |-> n], NEW ss, ss = Append(rs, r),
         NEW e, NEW hi \in Nat, hi = c + n - 1, Rearranged(e, d, c, hi), c \in Nat
  PROVE  EachInOrder(e, ss)
<1>1. /\ rs \in Seq(RunType) /\ Len(rs) \in Nat /\ \A i \in 1 .. Len(rs) : rs[i] \in RunType
      /\ \A i \in 1 .. Len(rs) : EndOf(rs[i]) < c
  BY LenProperties, ElementOfSeq DEF OneAfterOther
<1>2. r \in RunType
  BY RunPushed
<1>3. /\ Len(ss) = Len(rs) + 1 /\ ss[Len(rs) + 1] = r
      /\ \A i \in 1 .. Len(rs) : ss[i] = rs[i]
  BY <1>1, <1>2, AppendProperties
<1>4. r.start = c /\ EndOf(r) = hi
  BY DEF EndOf
<1>5. InOrderAt(e, r)
  BY <1>4 DEF Rearranged, InOrderAt
<1>6. \A i \in 1 .. Len(rs) : InOrderAt(e, rs[i])
  <2> TAKE i \in 1 .. Len(rs)
  <2>1. rs[i] \in RunType /\ EndOf(rs[i]) < c /\ EndOf(rs[i]) \in Nat /\ Len(d) \in Nat
    BY <1>1, RunFacts, LenProperties
  <2>2. EndOf(rs[i]) <= Len(d)
    BY <2>1
  <2>3. InOrderAt(d, rs[i])
    BY DEF EachInOrder
  <2> QED
    BY <2>1, <2>2, <2>3, RunUntouched
<1>7. \A i \in 1 .. Len(ss) : i \in 1 .. Len(rs) \/ i = Len(rs) + 1
  BY <1>1, <1>3
<1> QED
  BY <1>3, <1>5, <1>6, <1>7 DEF EachInOrder

LEMMA RunJoinedInOrder ==
  ASSUME NEW rs, NEW c, OneAfterOther(rs, c), NEW d \in Seq(Element), EachInOrder(d, rs), c - 1 <= Len(d),
         NEW k \in 2 .. Len(rs), NEW ss, IsJoined(ss, rs, k), c \in Nat,
         NEW e, NEW lo, NEW hi, lo = rs[k - 1].start, hi = EndOf(rs[k]), Rearranged(e, d, lo, hi)
  PROVE  EachInOrder(e, ss)
<1>1. /\ rs \in Seq(RunType) /\ Len(rs) \in Nat /\ \A i \in 1 .. Len(rs) : rs[i] \in RunType
      /\ \A i \in 1 .. Len(rs) : rs[i].start = IF i = 1 THEN 1 ELSE EndOf(rs[i - 1]) + 1
      /\ \A i \in 1 .. Len(rs) : EndOf(rs[i]) < c
      /\ \A i, j \in 1 .. Len(rs) : i < j => EndOf(rs[i]) < rs[j].start
  BY LenProperties, ElementOfSeq DEF OneAfterOther
<1> DEFINE b == Both(rs[k - 1], rs[k])
<1>3. k - 1 \in 1 .. Len(rs) /\ k \in 1 .. Len(rs) /\ k # 1 /\ k - 1 # k /\ k \in Nat
  BY <1>1
<1>4. b \in RunType /\ EndOf(b) = hi /\ b.start = lo
  BY <1>1, <1>3, BothType
<1> HIDE DEF b
<1>5. /\ Len(ss) = Len(rs) - 1
      /\ \A i \in 1 .. Len(rs) - 1 : /\ i < k - 1 => ss[i] = rs[i]
                                     /\ i = k - 1 => ss[i] = b
                                     /\ i > k - 1 => ss[i] = rs[i + 1]
  BY <1>3 DEF IsJoined, JoinedAt, b
<1>6. InOrderAt(e, b)
  BY <1>4 DEF Rearranged, InOrderAt
<1>7. lo \in Nat /\ hi \in Nat /\ Len(d) \in Nat
  BY <1>1, <1>3, RunFacts, LenProperties
<1>8. ASSUME NEW j \in 1 .. Len(rs), j < k - 1 \/ j > k
      PROVE  InOrderAt(e, rs[j])
  <2>1. rs[j] \in RunType /\ EndOf(rs[j]) < c /\ EndOf(rs[j]) \in Nat
    BY <1>1, RunFacts
  <2>2. EndOf(rs[j]) <= Len(d)
    BY <1>7, <2>1
  <2>3. InOrderAt(d, rs[j])
    BY DEF EachInOrder
  <2>4. EndOf(rs[j]) < lo \/ hi < rs[j].start
    BY <1>1, <1>3, <1>8
  <2> QED
    BY <1>7, <2>1, <2>2, <2>3, <2>4, RunUntouched
<1>9. \A i \in 1 .. Len(ss) : InOrderAt(e, ss[i])
  <2> TAKE i \in 1 .. Len(ss)
  <2>0. i \in 1 .. Len(rs) - 1
    BY <1>5
  <2>1. CASE i < k - 1
    <3>1. i \in 1 .. Len(rs) /\ ss[i] = rs[i]
      BY <1>1, <1>5, <2>0, <2>1
    <3> QED
      BY <1>8, <2>1, <3>1
  <2>2. CASE i = k - 1
    BY <1>5, <1>6, <2>0, <2>2
  <2>3. CASE i > k - 1
    <3>1. i + 1 \in 1 .. Len(rs) /\ ss[i] = rs[i + 1] /\ i + 1 > k
      BY <1>1, <1>3, <1>5, <2>0, <2>3
    <3> QED
      BY <1>8, <3>1
  <2> QED
    BY <1>3, <2>0, <2>1, <2>2, <2>3
<1> QED
  BY <1>9 DEF EachInOrder

\* What Merge does with two neighbouring runs.
MergedParts(A, B) == IF A.length < B.length THEN LeftMerge(Part(A), Part(B)) ELSE RightMerge(Part(A), Part(B))

LEMMA PartsMergedInOrder ==
  ASSUME NEW A \in RunType, NEW B \in RunType, EndOf(A) + 1 = B.start, EndOf(B) <= Size,
         dst \in Seq(Element), InOrderAt(dst, A), InOrderAt(dst, B)
  PROVE  IsRun(MergedParts(A, B), A.start, EndOf(B))
<1> DEFINE a == Part(A)
           b == Part(B)
           lo == A.start
           mid == EndOf(A)
           hi == EndOf(B)
           s == MergedParts(A, B)
<1>1. /\ lo \in Nat \ {0} /\ mid \in Nat \ {0} /\ hi \in Nat \ {0} /\ lo <= mid /\ mid < hi
      /\ B.start = mid + 1
  BY RunFacts
<1>2. a = SubSeq(dst, lo, mid) /\ b = SubSeq(dst, mid + 1, hi)
  BY DEF Part, EndOf
<1>3. Ordered(a, lo, mid) /\ Ordered(b, mid + 1, hi)
  BY <1>1, <1>2 DEF InOrderAt
<1>4. Len(a) = mid - lo + 1 /\ Len(b) = hi - mid
  <2>1. Len(dst) \in Nat /\ hi <= Len(dst)
    BY LenProperties DEF Size
  <2> HIDE DEF a, b, lo, mid, hi
  <2>2. mid \in Int /\ hi \in Int /\ mid + 1 \in Nat \ {0} /\ lo - 1 <= mid /\ mid <= Len(dst)
        /\ mid + 1 - 1 <= hi
    BY <1>1, <2>1
  <2>3. Len(a) = mid - lo + 1
    BY <1>1, <1>2, <2>1, <2>2, Segment
  <2>4. Len(b) = hi - (mid + 1) + 1
    BY <1>1, <1>2, <2>1, <2>2, Segment
  <2> QED
    BY <1>1, <2>3, <2>4
<1>5. s = LeftMerge(a, b) \/ s = RightMerge(a, b)
  BY DEF MergedParts
<1> HIDE DEF a, b, lo, mid, hi, s
<1>6. PICK S : Sorts(a, S) /\ {x.was : x \in S} = lo .. mid
  BY <1>3 DEF Ordered
<1>7. PICK T : Sorts(b, T) /\ {x.was : x \in T} = mid + 1 .. hi
  BY <1>3 DEF Ordered
<1>8. \A x \in S, y \in T : x.was < y.was
  <2> TAKE x \in S, y \in T
  <2>1. x.was \in lo .. mid /\ y.was \in mid + 1 .. hi
    BY <1>6, <1>7
  <2> QED
    BY <1>1, <2>1
<1>9. Mergeable(a, S, b, T)
  BY <1>6, <1>7, <1>8 DEF Mergeable
<1>10. Sorts(s, S \cup T)
  BY <1>5, <1>9, LeftMerged, RightMerged
<1>11. {x.was : x \in S \cup T} = lo .. hi
  <2>1. {x.was : x \in S \cup T} = (lo .. mid) \cup (mid + 1 .. hi)
    BY <1>6, <1>7
  <2> QED
    BY <1>1, <2>1
<1>12. Ordered(s, lo, hi)
  BY <1>10, <1>11 DEF Ordered
<1>13. s \in Seq(Element) /\ Len(s) = Len(a) + Len(b)
  <2>1. Lists(s, S \cup T, Element) /\ Lists(a, S, Element) /\ Lists(b, T, Element) /\ S \cap T = {}
    BY <1>6, <1>7, <1>9, <1>10, MergeableFacts DEF Sorts
  <2>2. Lists(a \o b, S \cup T, Element)
    BY <2>1, ListConcat
  <2>3. Len(s) = Cardinality(S \cup T) /\ Len(a \o b) = Cardinality(S \cup T)
    BY <2>1, <2>2, ListLength
  <2>4. Len(a \o b) = Len(a) + Len(b)
    BY <2>1, ConcatProperties, ListFacts
  <2> QED
    BY <2>1, <2>3, <2>4, ListFacts
<1>14. IsRun(s, lo, hi)
  BY <1>1, <1>4, <1>12, <1>13 DEF IsRun
<1> QED
  BY <1>14 DEF s, lo, hi

\* The invariant: between the runs and the rest nothing is lost, the runs are in
\* order, and what is behind them is as it was.
StackSound ==
  /\ WholeArray(dst) /\ OneAfterOther(runs, curr) /\ EachInOrder(dst, runs) /\ curr <= Size + 1

RestAsItWas == \A i \in curr .. Size : dst[i].was = i

SortInv ==
  /\ StackSound
  /\ sorting \in {"start", "begin", "push", "check", "collapse", "finish", "done"}
  /\ sorting # "done" => RestAsItWas
  /\ sorting = "start" => runs = <<>>
  /\ sorting \in {"begin", "push", "check", "collapse"} => curr <= Size
  /\ sorting = "finish" => curr = Size + 1 /\ Size >= 1
  /\ sorting = "done" => Rising(dst)

LEMMA StackFacts ==
  ASSUME StackSound
  PROVE  /\ dst \in Seq(Element) /\ Size \in Nat /\ Size = Len(dst) /\ DOMAIN dst = 1 .. Size
         /\ runs \in Seq(RunType) /\ Len(runs) \in Nat /\ DOMAIN runs = 1 .. Len(runs)
         /\ curr \in Nat \ {0} /\ curr <= Size + 1
         /\ \A n \in 1 .. Len(runs) : /\ runs[n] \in RunType /\ EndOf(runs[n]) < curr
                                      /\ InOrderAt(dst, runs[n])
                                      /\ runs[n].start = IF n = 1 THEN 1 ELSE EndOf(runs[n - 1]) + 1
         /\ Len(runs) = 0 => curr = 1
<1>1. /\ dst \in Seq(Element) /\ Size \in Nat /\ Size = Len(dst) /\ DOMAIN dst = 1 .. Size
      /\ runs \in Seq(RunType) /\ Len(runs) \in Nat /\ DOMAIN runs = 1 .. Len(runs)
      /\ curr <= Size + 1
      /\ \A n \in 1 .. Len(runs) : runs[n] \in RunType
  BY LenProperties, ElementOfSeq DEF StackSound, WholeArray, OneAfterOther, Size
<1>2. curr \in Nat \ {0} /\ (Len(runs) = 0 => curr = 1)
  <2>1. curr = IF Len(runs) = 0 THEN 1 ELSE EndOf(runs[Len(runs)]) + 1
    BY DEF StackSound, OneAfterOther
  <2>2. Len(runs) # 0 => EndOf(runs[Len(runs)]) \in Nat
    BY <1>1, RunFacts
  <2> QED
    BY <2>1, <2>2
<1>3. \A n \in 1 .. Len(runs) : EndOf(runs[n]) < curr
                                /\ runs[n].start = IF n = 1 THEN 1 ELSE EndOf(runs[n - 1]) + 1
  BY DEF StackSound, OneAfterOther
<1>4. \A n \in 1 .. Len(runs) : InOrderAt(dst, runs[n])
  BY DEF StackSound, EachInOrder
<1> QED
  BY <1>1, <1>2, <1>3, <1>4

LEMMA AllInOrder ==
  ASSUME NEW s \in Seq(Element), Ordered(s, 1, Len(s))
  PROVE  WholeArray(s) /\ Rising(s)
<1>1. PICK S : Sorts(s, S) /\ {x.was : x \in S} = 1 .. Len(s)
  BY DEF Ordered
<1>2. /\ Rising(s) /\ Len(s) \in Nat /\ \A i \in 1 .. Len(s) : s[i] \in S
      /\ \A x \in S : \E i \in 1 .. Len(s) : s[i] = x
  BY <1>1, ListFacts DEF Sorts
<1>3. \A w \in 1 .. Len(s) : \E i \in 1 .. Len(s) : s[i].was = w
  <2> TAKE w \in 1 .. Len(s)
  <2>1. PICK x \in S : x.was = w
    BY <1>1
  <2> QED
    BY <1>2, <2>1
<1> QED
  BY <1>1, <1>2, <1>3 DEF WholeArray

LEMMA SortStarts ==
  ASSUME SInit
  PROVE  SortInv
<1>1. PICK s \in SortInput : dst = [i \in DOMAIN s |-> [key |-> s[i], was |-> i]]
  BY DEF SInit
<1>2. s \in Seq(Int) /\ Len(s) \in Nat /\ DOMAIN s = 1 .. Len(s) /\ \A i \in 1 .. Len(s) : s[i] \in Int
  BY SortAssumption, LenProperties, ElementOfSeq
<1>3. /\ \A i \in 1 .. Len(s) : dst[i] = [key |-> s[i], was |-> i]
      /\ dst = [i \in 1 .. Len(s) |-> dst[i]] /\ \A i \in 1 .. Len(s) : dst[i] \in Element
  BY <1>1, <1>2 DEF Element
<1>4. dst \in Seq(Element) /\ Len(dst) = Len(s)
  BY <1>2, <1>3, SeqDef, LenProperties
<1>5. \A i \in 1 .. Len(dst) : dst[i].was = i
  BY <1>3, <1>4
<1>6. WholeArray(dst)
  BY <1>4, <1>5 DEF WholeArray
<1>7. runs = <<>> /\ curr = 1 /\ sorting = "start" /\ Len(runs) = 0 /\ runs \in Seq(RunType)
  BY EmptySeq DEF SInit
<1>8. OneAfterOther(runs, curr) /\ EachInOrder(dst, runs)
  BY <1>7 DEF OneAfterOther, EachInOrder
<1>9. RestAsItWas /\ curr <= Size + 1
  BY <1>2, <1>4, <1>5, <1>7 DEF RestAsItWas, Size
<1> QED
  BY <1>6, <1>7, <1>8, <1>9 DEF SortInv, StackSound

LEMMA WholeByInsertion ==
  ASSUME SortInv, InsertionSort
  PROVE  SortInv'
<1>1. /\ sorting = "start" /\ runs = <<>> /\ sorting' = "done" /\ runs' = runs /\ curr' = curr
      /\ StackSound /\ RestAsItWas
  BY DEF SortInv, InsertionSort
<1>2. Len(runs) = 0 /\ curr = 1 /\ dst \in Seq(Element) /\ Size \in Nat /\ Size = Len(dst)
  BY <1>1, StackFacts, EmptySeq
<1>3. \A i \in 1 .. Size : dst[i].was = i
  BY <1>1, <1>2 DEF RestAsItWas
<1>4. WholeArray(dst') /\ Rising(dst')
  <2>1. CASE Size <= 1
    <3>1. dst' = dst /\ DOMAIN dst = 1 .. Size
      BY <1>2, <2>1, LenProperties DEF InsertionSort
    <3>2. WholeArray(dst)
      BY <1>1 DEF StackSound
    <3>3. Rising(dst)
      BY <1>2, <2>1, <3>1 DEF Rising
    <3> QED
      BY <3>1, <3>2, <3>3
  <2>2. CASE Size > 1
    <3>1. dst' = InsertionSortStart(dst, 1)
      BY <1>2, <2>2 DEF InsertionSort
    <3> DEFINE hi == Size
               mid == 1
               lo == 1
    <3>2. lo \in Nat \ {0} /\ mid \in Nat /\ hi \in Nat /\ lo <= mid /\ mid < hi /\ hi <= Len(dst)
      BY <1>2, <2>2
    <3>3. \A i \in mid + 1 .. hi : dst[i].was = i
      BY <1>2, <1>3
    <3>4. SubSeq(dst, lo, hi) = dst
      <4>1. SubSeq(dst, 1, Len(dst)) = dst
        BY <1>2, SubSeqFull
      <4> QED
        BY <1>2, <4>1
    <3>5. dst' = InsertionSortStart(SubSeq(dst, lo, hi), mid - lo + 1)
      <4>1. mid - lo + 1 = 1
        OBVIOUS
      <4> QED
        BY <3>1, <3>4, <4>1
    <3>6. Unmoved(dst, lo, mid) /\ \A i \in lo + 1 .. mid : ~Falls(dst[i - 1], dst[i])
      BY <1>2, <1>3, <2>2 DEF Unmoved
    <3>7. lo = 1 /\ hi = Size
      OBVIOUS
    <3> HIDE DEF lo, mid, hi
    <3>8. Rearranged(dst, dst, lo, mid)
      BY <3>6, RunLeft
    <3>9. IsRun(dst', lo, hi)
      BY <1>2, <3>2, <3>3, <3>5, <3>8, LongerRun
    <3>10. dst' \in Seq(Element) /\ Len(dst') = hi /\ Ordered(dst', 1, hi)
      BY <1>2, <3>7, <3>9 DEF IsRun
    <3> QED
      BY <3>10, AllInOrder
  <2> QED
    BY <1>2, <2>1, <2>2
<1>5. OneAfterOther(runs', curr')
  BY <1>1 DEF StackSound
<1>6. EachInOrder(dst', runs')
  BY <1>1, <1>2 DEF EachInOrder
<1>7. curr' <= Size' + 1
  <2>1. Len(dst') \in Nat
    BY <1>4, LenProperties DEF WholeArray
  <2> QED
    BY <1>1, <1>2, <2>1 DEF Size
<1> QED
  BY <1>1, <1>4, <1>5, <1>6, <1>7 DEF SortInv, StackSound

LEMMA NextRunKeepsInv ==
  ASSUME SortInv, NextRun
  PROVE  SortInv'
<1>1. /\ StackSound /\ RestAsItWas /\ curr <= Size /\ PushNext /\ sorting \in {"begin", "push"}
  BY DEF SortInv, NextRun
<1>2. /\ dst \in Seq(Element) /\ Size \in Nat /\ Size = Len(dst) /\ curr \in Nat \ {0} /\ WholeArray(dst)
      /\ OneAfterOther(runs, curr) /\ EachInOrder(dst, runs)
  BY <1>1, StackFacts DEF StackSound
<1>3. RestUnmoved
  BY <1>1, <1>2 DEF RestUnmoved, RestAsItWas
<1>4. PICK n \in 1 .. Size - curr + 1 :
        /\ Rearranged(dst', dst, curr, curr + n - 1)
        /\ runs' = Append(runs, [start |-> curr, length |-> n]) /\ curr' = curr + n
  BY <1>1, <1>3, NextRunFound
<1> DEFINE hi == curr + n - 1
           r == [start |-> curr, length |-> n]
           ss == runs'
           e == dst'
<1>5. n \in Nat \ {0} /\ hi \in Nat /\ curr <= hi /\ hi <= Len(dst) /\ curr - 1 <= Len(dst) /\ hi = curr + n - 1
  BY <1>1, <1>2
<1>6. ss = Append(runs, r) /\ Rearranged(e, dst, curr, hi) /\ r = [start |-> curr, length |-> n]
  BY <1>4
<1>7. e \in Seq(Element) /\ Len(e) = Len(dst) /\ \A i \in 1 .. Len(dst) : i \notin curr .. hi => e[i] = dst[i]
  BY <1>6 DEF Rearranged
<1>8. Size' = Size
  BY <1>2, <1>7 DEF Size
<1> HIDE DEF hi, r, ss, e
<1>9. WholeArray(e)
  <2>1. \A i \in curr .. hi : dst[i].was \in curr .. hi
    BY <1>1, <1>2, <1>5 DEF RestAsItWas
  <2> QED
    BY <1>2, <1>5, <1>6, <2>1, WholeRearranged
<1>10. OneAfterOther(ss, curr + n)
  BY <1>2, <1>5, <1>6, RunPushed
<1>11. EachInOrder(e, ss)
  BY <1>2, <1>5, <1>6, RunFoundInOrder
<1>12. StackSound'
  <2>1. curr' <= Size' + 1
    BY <1>1, <1>2, <1>4, <1>8
  <2>2. WholeArray(dst') /\ OneAfterOther(runs', curr') /\ EachInOrder(dst', runs')
    BY <1>4, <1>9, <1>10, <1>11 DEF e, ss
  <2> QED
    BY <2>1, <2>2 DEF StackSound
<1>13. RestAsItWas'
  <2> SUFFICES ASSUME NEW i \in curr' .. Size'
               PROVE  dst'[i].was = i
    BY DEF RestAsItWas
  <2>1. i \in 1 .. Len(dst) /\ i \notin curr .. hi /\ i \in curr .. Size
    BY <1>2, <1>4, <1>5, <1>8
  <2>2. dst'[i] = dst[i]
    BY <1>7, <2>1 DEF e
  <2>3. dst[i].was = i
    BY <1>1, <2>1 DEF RestAsItWas
  <2> QED
    BY <2>2, <2>3
<1>14. sorting' = IF curr' > Size THEN "finish"
                  ELSE IF sorting = "begin" /\ Len(runs') < 3 THEN "begin" ELSE "check"
  BY <1>1 DEF PushNext
<1>15. CASE curr' > Size
  <2>1. sorting' = "finish"
    BY <1>14, <1>15
  <2>2. curr' = Size' + 1 /\ Size' >= 1
    <3> DEFINE c2 == curr'
               z2 == Size'
    <3>1. c2 = curr + n /\ z2 = Size /\ c2 > Size
      BY <1>4, <1>8, <1>15
    <3> HIDE DEF c2, z2
    <3>2. c2 = z2 + 1 /\ z2 >= 1
      BY <1>1, <1>2, <3>1
    <3> QED
      BY <3>2 DEF c2, z2
  <2> QED
    BY <1>12, <1>13, <2>1, <2>2 DEF SortInv
<1>16. CASE ~(curr' > Size)
  <2>1. sorting' \in {"begin", "check"}
    BY <1>14, <1>16
  <2>2. curr' <= Size'
    BY <1>2, <1>4, <1>8, <1>16
  <2> QED
    BY <1>12, <1>13, <2>1, <2>2 DEF SortInv
<1> QED
  BY <1>15, <1>16

\* What a merge keeps, whatever TIM_SORT is doing.
LEMMA MergeKeeps ==
  ASSUME StackSound, NEW k \in 2 .. Len(runs), Merge(k)
  PROVE  StackSound' /\ Size' = Size /\ curr' = curr /\ (RestAsItWas => RestAsItWas')
<1>1. /\ dst \in Seq(Element) /\ Size \in Nat /\ Size = Len(dst) /\ curr \in Nat \ {0} /\ curr <= Size + 1
      /\ WholeArray(dst) /\ OneAfterOther(runs, curr) /\ EachInOrder(dst, runs)
      /\ runs \in Seq(RunType) /\ Len(runs) \in Nat
  BY StackFacts DEF StackSound
<1> DEFINE A == runs[k - 1]
           B == runs[k]
           lo == A.start
           mid == EndOf(A)
           hi == EndOf(B)
           s == MergedParts(A, B)
           e == dst'
           ss == runs'
<1>2. /\ A \in RunType /\ B \in RunType /\ mid + 1 = B.start /\ hi < curr
      /\ InOrderAt(dst, A) /\ InOrderAt(dst, B)
  <2>1. k - 1 \in 1 .. Len(runs) /\ k \in 1 .. Len(runs) /\ k # 1
    BY <1>1
  <2> QED
    BY <2>1, StackFacts
<1>3. /\ lo \in Nat \ {0} /\ mid \in Nat /\ hi \in Nat /\ lo <= mid /\ mid < hi /\ hi <= Len(dst) /\ hi <= Size
      /\ lo <= hi
  <2>1. /\ lo \in Nat \ {0} /\ mid \in Nat \ {0} /\ lo <= mid
        /\ B.start \in Nat \ {0} /\ hi \in Nat \ {0} /\ B.start <= hi
    <3>1. A \in RunType /\ B \in RunType
      BY <1>2
    <3>2. lo = A.start /\ mid = EndOf(A) /\ hi = EndOf(B)
      OBVIOUS
    <3> HIDE DEF A, B, lo, mid, hi
    <3> QED
      BY <3>1, <3>2, RunFacts
  <2>2. mid + 1 = B.start /\ hi < curr
    BY <1>2
  <2> HIDE DEF A, B, lo, mid, hi
  <2> QED
    BY <1>1, <2>1, <2>2
<1>4. IsRun(s, lo, hi)
  BY <1>1, <1>2, <1>3, PartsMergedInOrder
<1>5. e = Written(dst, lo, s)
  BY DEF Merge, MergedParts
<1>6. ss = Joined(runs, k)
  BY DEF Merge, Joined
<1>7. IsJoined(ss, runs, k)
  BY <1>1, <1>2, <1>6, JoinedRuns
<1>8. /\ InOrderAt(dst, A) <=> Ordered(SubSeq(dst, lo, mid), lo, mid)
      /\ InOrderAt(dst, B) <=> Ordered(SubSeq(dst, mid + 1, hi), mid + 1, hi)
  BY <1>2 DEF InOrderAt
<1>9. lo = runs[k - 1].start /\ hi = EndOf(runs[k])
  OBVIOUS
<1> HIDE DEF A, B, lo, mid, hi, s, e, ss
<1>10. Rearranged(e, dst, lo, hi)
  <2>1. s \in Seq(Element) /\ Ordered(s, lo, hi) /\ hi = lo + Len(s) - 1
    BY <1>3, <1>4 DEF IsRun
  <2> QED
    BY <1>1, <1>3, <1>5, <2>1, RearrangedWhen
<1>11. e \in Seq(Element) /\ Len(e) = Len(dst) /\ \A i \in 1 .. Len(dst) : i \notin lo .. hi => e[i] = dst[i]
  BY <1>10 DEF Rearranged
<1>12. \A i \in lo .. hi : dst[i].was \in lo .. hi
  <2>1. \A i \in lo .. mid : dst[i].was \in lo .. mid
    <3>1. mid <= Len(dst)
      BY <1>1, <1>3
    <3>2. Ordered(SubSeq(dst, lo, mid), lo, mid)
      BY <1>2, <1>8
    <3> QED
      BY <1>1, <1>3, <3>1, <3>2, OrderedPart
  <2>2. \A i \in mid + 1 .. hi : dst[i].was \in mid + 1 .. hi
    <3> DEFINE m == mid + 1
    <3>1. m \in Nat \ {0} /\ m <= hi
      BY <1>3
    <3>2. Ordered(SubSeq(dst, m, hi), m, hi)
      BY <1>2, <1>8
    <3> HIDE DEF m
    <3>3. \A i \in m .. hi : dst[i].was \in m .. hi
      BY <1>1, <1>3, <3>1, <3>2, OrderedPart
    <3> QED
      BY <3>3 DEF m
  <2> TAKE i \in lo .. hi
  <2>3. i \in lo .. mid \/ i \in mid + 1 .. hi
    BY <1>3
  <2>4. lo .. mid \subseteq lo .. hi /\ mid + 1 .. hi \subseteq lo .. hi
    BY <1>3
  <2> QED
    BY <2>1, <2>2, <2>3, <2>4
<1>13. WholeArray(e)
  BY <1>1, <1>3, <1>10, <1>12, WholeRearranged
<1>14. OneAfterOther(ss, curr)
  BY <1>1, <1>7, JoinedStack
<1>15. EachInOrder(e, ss)
  <2>1. curr \in Nat /\ curr - 1 <= Len(dst)
    BY <1>1
  <2> QED
    BY <1>1, <1>7, <1>9, <1>10, <2>1, RunJoinedInOrder
<1>16. Size' = Size /\ curr' = curr
  BY <1>1, <1>11 DEF Size, e, Merge
<1>17. StackSound'
  BY <1>1, <1>13, <1>14, <1>15, <1>16 DEF StackSound, e, ss
<1>18. ASSUME RestAsItWas
       PROVE  RestAsItWas'
  <2> SUFFICES ASSUME NEW i \in curr .. Size
               PROVE  e[i].was = i
    BY <1>16 DEF RestAsItWas, e
  <2>1. i \in 1 .. Len(dst) /\ i \notin lo .. hi
    BY <1>1, <1>2, <1>3 DEF hi
  <2> QED
    BY <1>11, <1>18, <2>1 DEF RestAsItWas
<1> QED
  BY <1>16, <1>17, <1>18

LEMMA CollapsingRange ==
  ASSUME runs \in Seq(RunType)
  PROVE  Collapsing \in {0} \cup 2 .. Len(runs)
<1>1. Len(runs) \in Nat
  BY LenProperties
<1> QED
  BY <1>1 DEF Collapsing

LEMMA SortInvKept ==
  ASSUME SortInv, [SNext]_sortVars
  PROVE  SortInv'
<1>1. StackSound
  BY DEF SortInv
<1>2. runs \in Seq(RunType) /\ Len(runs) \in Nat
  BY <1>1, StackFacts
<1>3. CASE InsertionSort
  BY <1>3, WholeByInsertion
<1>4. CASE Start
  <2>1. dst' = dst /\ runs' = runs /\ curr' = curr /\ sorting' = "begin" /\ sorting = "start" /\ Size > 1
    BY <1>4 DEF Start
  <2>2. curr = 1 /\ runs = <<>>
    BY <1>1, <2>1, StackFacts, EmptySeq DEF SortInv
  <2>3. StackSound' /\ RestAsItWas' /\ curr' <= Size'
    BY <1>1, <2>1, <2>2 DEF SortInv, StackSound, RestAsItWas, Size
  <2> QED
    BY <2>1, <2>3 DEF SortInv
<1>5. CASE NextRun
  BY <1>5, NextRunKeepsInv
<1>6. CASE CheckInvariant
  <2>1. dst' = dst /\ runs' = runs /\ curr' = curr /\ sorting' \in {"push", "collapse"} /\ sorting = "check"
    BY <1>6 DEF CheckInvariant
  <2>2. StackSound' /\ RestAsItWas' /\ curr' <= Size'
    BY <1>1, <2>1 DEF SortInv, StackSound, RestAsItWas, Size
  <2> QED
    BY <2>1, <2>2 DEF SortInv
<1>7. CASE Collapse
  <2>0. sorting = "collapse" /\ RestAsItWas /\ curr <= Size
    BY <1>7 DEF Collapse, SortInv
  <2>1. CASE Collapsing = 0
    <3>1. dst' = dst /\ runs' = runs /\ curr' = curr /\ sorting' = "check"
      BY <1>7, <2>1 DEF Collapse
    <3>2. StackSound' /\ RestAsItWas' /\ curr' <= Size'
      BY <1>1, <2>0, <3>1 DEF StackSound, RestAsItWas, Size
    <3> QED
      BY <3>1, <3>2 DEF SortInv
  <2>2. CASE Collapsing # 0
    <3>1. Merge(Collapsing) /\ sorting' \in {"check", "collapse"}
      BY <1>7, <2>2 DEF Collapse
    <3>2. Collapsing \in 2 .. Len(runs)
      BY <1>2, <2>2, CollapsingRange
    <3>3. StackSound' /\ RestAsItWas' /\ Size' = Size /\ curr' = curr
      BY <1>1, <2>0, <3>1, <3>2, MergeKeeps
    <3> QED
      BY <2>0, <3>1, <3>3 DEF SortInv
  <2> QED
    BY <2>1, <2>2
<1>8. CASE FinishUp
  <2>0. sorting = "finish" /\ RestAsItWas /\ curr = Size + 1 /\ Size >= 1
    BY <1>8 DEF FinishUp, SortInv
  <2>1. CASE Len(runs) > 1
    <3>1. Merge(Len(runs)) /\ sorting' = "finish"
      BY <1>8, <2>0, <2>1 DEF FinishUp
    <3>2. Len(runs) \in 2 .. Len(runs)
      BY <1>2, <2>1
    <3>3. StackSound' /\ RestAsItWas' /\ Size' = Size /\ curr' = curr
      BY <1>1, <2>0, <3>1, <3>2, MergeKeeps
    <3> QED
      BY <2>0, <3>1, <3>3 DEF SortInv
  <2>2. CASE ~(Len(runs) > 1)
    <3>1. dst' = dst /\ runs' = runs /\ curr' = curr /\ sorting' = "done"
      BY <1>8, <2>2 DEF FinishUp
    <3>2. /\ dst \in Seq(Element) /\ Size \in Nat /\ Size = Len(dst)
          /\ curr = IF Len(runs) = 0 THEN 1 ELSE EndOf(runs[Len(runs)]) + 1
          /\ \A n \in 1 .. Len(runs) : /\ runs[n] \in RunType /\ InOrderAt(dst, runs[n])
                                       /\ runs[n].start = IF n = 1 THEN 1 ELSE EndOf(runs[n - 1]) + 1
      BY <1>1, StackFacts DEF StackSound, OneAfterOther
    <3>3. Len(runs) = 1
      <4>1. Len(runs) = 0 => curr = 1
        BY <3>2
      <4>2. Len(runs) # 0
        BY <2>0, <3>2, <4>1
      <4> DEFINE m == Len(runs)
      <4>3. m \in Nat /\ ~(m > 1) /\ m # 0
        BY <1>2, <2>2, <4>2
      <4> HIDE DEF m
      <4>4. m = 1
        BY <4>3
      <4> QED
        BY <4>4 DEF m
    <3>4. runs[1] \in RunType /\ InOrderAt(dst, runs[1]) /\ runs[1].start = 1 /\ EndOf(runs[1]) + 1 = Size + 1
      BY <2>0, <3>2, <3>3
    <3>5. EndOf(runs[1]) = Len(dst)
      BY <3>2, <3>4, RunFacts
    <3>6. Ordered(SubSeq(dst, 1, Len(dst)), 1, Len(dst))
      BY <3>4, <3>5 DEF InOrderAt
    <3>7. Ordered(dst, 1, Len(dst))
      BY <3>2, <3>6, SubSeqFull
    <3>8. Rising(dst)
      BY <3>2, <3>7, AllInOrder
    <3>9. StackSound' /\ Rising(dst')
      BY <1>1, <3>1, <3>8 DEF StackSound, Size
    <3> QED
      BY <3>1, <3>9 DEF SortInv
  <2> QED
    BY <2>1, <2>2
<1>9. CASE UNCHANGED sortVars
  <2>1. dst' = dst /\ runs' = runs /\ curr' = curr /\ sorting' = sorting
    BY <1>9 DEF sortVars
  <2>2. Size' = Size /\ (StackSound => StackSound') /\ (RestAsItWas => RestAsItWas')
    BY <2>1 DEF StackSound, RestAsItWas, Size
  <2> QED
    BY <2>1, <2>2 DEF SortInv
<1> QED
  BY <1>3, <1>4, <1>5, <1>6, <1>7, <1>8, <1>9 DEF SNext

-----------------------------------------------------------------------------
(* The room on the stack.                                                  *)

\* The body of the recursion of Least.
LeastStep(g, k) ==
  IF k <= 1 THEN [run |-> k, all |-> k]
  ELSE LET run == g[k - 1].run + g[k - 2].run + 1 IN [run |-> run, all |-> g[k - 1].all + run]

LeastUpto(g, n) == g = [k \in 0 .. n |-> LeastStep(g, k)]

Totals == [run : Nat, all : Nat]

LEMMA LeastExists ==
  ASSUME NEW n \in Nat
  PROVE  \E g \in [0 .. n -> Totals] : LeastUpto(g, n)
<1> DEFINE S == {m \in Nat : \E g \in [0 .. m -> Totals] : LeastUpto(g, m)}
<1>1. 0 \in S
  <2> DEFINE g == [k \in 0 .. 0 |-> [run |-> k, all |-> k]]
  <2>1. g = [k \in 0 .. 0 |-> LeastStep(g, k)]
    BY DEF LeastStep
  <2>2. g \in [0 .. 0 -> Totals]
    BY DEF Totals
  <2> HIDE DEF g
  <2> QED
    BY <2>1, <2>2 DEF LeastUpto
<1>2. ASSUME NEW m \in Nat, m \in S PROVE m + 1 \in S
  <2>1. PICK g \in [0 .. m -> Totals] : LeastUpto(g, m)
    BY <1>2
  <2> DEFINE h == [k \in 0 .. m + 1 |-> LeastStep(g, k)]
  <2>2. \A k \in 0 .. m : h[k] = g[k]
    <3> TAKE k \in 0 .. m
    <3>1. g[k] = LeastStep(g, k)
      BY <2>1 DEF LeastUpto
    <3>2. k \in 0 .. m + 1
      OBVIOUS
    <3> QED
      BY <3>1, <3>2
  <2>3. \A k \in 0 .. m + 1 : LeastStep(g, k) = LeastStep(h, k)
    <3> TAKE k \in 0 .. m + 1
    <3>1. CASE k <= 1
      BY <3>1 DEF LeastStep
    <3>2. CASE ~(k <= 1)
      <4>1. k - 1 \in 0 .. m /\ k - 2 \in 0 .. m
        BY <3>2
      <4>2. h[k - 1] = g[k - 1] /\ h[k - 2] = g[k - 2]
        BY <2>2, <4>1
      <4> HIDE DEF h
      <4> QED
        BY <4>2 DEF LeastStep
    <3> QED
      BY <3>1, <3>2
  <2>4. \A k \in 0 .. m + 1 : LeastStep(g, k) \in Totals
    <3> TAKE k \in 0 .. m + 1
    <3>1. CASE k <= 1
      BY <3>1 DEF LeastStep, Totals
    <3>2. CASE ~(k <= 1)
      <4>1. k - 1 \in 0 .. m /\ k - 2 \in 0 .. m
        BY <3>2
      <4>2. g[k - 1] \in Totals /\ g[k - 2] \in Totals
        BY <4>1
      <4> QED
        BY <3>2, <4>2 DEF LeastStep, Totals
    <3> QED
      BY <3>1, <3>2
  <2>5. h = [k \in 0 .. m + 1 |-> LeastStep(h, k)] /\ h \in [0 .. m + 1 -> Totals]
    BY <2>3, <2>4
  <2> HIDE DEF h
  <2> QED
    BY <2>5 DEF LeastUpto
<1> HIDE DEF S
<1>3. S \in SUBSET Nat
  BY DEF S
<1>4. n \in S
  BY <1>1, <1>2, <1>3, SetInduction
<1> QED
  BY <1>4 DEF S

\* How Least grows.
LEMMA LeastFacts ==
  /\ TIM_SORT_STACK_SIZE \in Nat /\ TIM_SORT_STACK_SIZE >= 3
  /\ \A k \in 0 .. TIM_SORT_STACK_SIZE : Least[k].run \in Nat /\ Least[k].all \in Nat
  /\ Least[0].run = 0 /\ Least[1].run = 1 /\ Least[1].all = 1
  /\ \A k \in 2 .. TIM_SORT_STACK_SIZE :
       /\ Least[k].run = Least[k - 1].run + Least[k - 2].run + 1
       /\ Least[k].all = Least[k - 1].all + Least[k].run
<1> DEFINE N == TIM_SORT_STACK_SIZE
<1>1. N \in Nat /\ N >= 3
  BY StackAssumption
<1>2. Least = CHOOSE g : LeastUpto(g, N)
  BY DEF Least, LeastUpto, LeastStep
<1> HIDE DEF N
<1>3. PICK g \in [0 .. N -> Totals] : LeastUpto(g, N)
  BY <1>1, LeastExists
<1>4. LeastUpto(Least, N)
  BY <1>2, <1>3
<1>5. \A k \in 0 .. N : Least[k] = g[k]
  <2> DEFINE S == {k \in Nat : k + 1 <= N => Least[k] = g[k] /\ Least[k + 1] = g[k + 1]}
  <2>1. \A k \in 0 .. N : Least[k] = LeastStep(Least, k) /\ g[k] = LeastStep(g, k)
    BY <1>3, <1>4 DEF LeastUpto
  <2>2. Least[0] = g[0] /\ Least[1] = g[1]
    <3>1. 0 \in 0 .. N /\ 1 \in 0 .. N
      BY <1>1
    <3>2. \A f : LeastStep(f, 0) = [run |-> 0, all |-> 0] /\ LeastStep(f, 1) = [run |-> 1, all |-> 1]
      BY DEF LeastStep
    <3>3. /\ Least[0] = LeastStep(Least, 0) /\ g[0] = LeastStep(g, 0)
          /\ Least[1] = LeastStep(Least, 1) /\ g[1] = LeastStep(g, 1)
      BY <2>1, <3>1
    <3> QED
      BY <3>2, <3>3
  <2>3. 0 \in S
    BY <2>2
  <2>4. ASSUME NEW k \in Nat, k \in S PROVE k + 1 \in S
    <3> SUFFICES ASSUME (k + 1) + 1 <= N PROVE Least[k + 1] = g[k + 1] /\ Least[(k + 1) + 1] = g[(k + 1) + 1]
      OBVIOUS
    <3>1. Least[k] = g[k] /\ Least[k + 1] = g[k + 1]
      BY <1>1, <2>4
    <3> DEFINE m == k + 2
    <3>2. m \in 0 .. N /\ ~(m <= 1) /\ m - 1 = k + 1 /\ m - 2 = k /\ (k + 1) + 1 = m
      BY <1>1
    <3> HIDE DEF m
    <3>3. LeastStep(Least, m) = LeastStep(g, m)
      BY <3>1, <3>2 DEF LeastStep
    <3> QED
      BY <2>1, <3>1, <3>2, <3>3
  <2>5. S \in SUBSET Nat
    OBVIOUS
  <2> HIDE DEF S
  <2>6. \A k \in Nat : k \in S
    BY <2>3, <2>4, <2>5, SetInduction
  <2> TAKE k \in 0 .. N
  <2>7. CASE k = 0
    BY <2>2, <2>7
  <2>8. CASE k # 0
    <3>1. k - 1 \in Nat /\ (k - 1) + 1 = k /\ k <= N
      BY <1>1, <2>8
    <3>2. k - 1 \in S
      BY <2>6, <3>1
    <3> QED
      BY <3>1, <3>2 DEF S
  <2> QED
    BY <2>7, <2>8
<1>6. \A k \in 0 .. N : Least[k] \in Totals
  BY <1>5
<1>7. \A k \in 0 .. N : Least[k] = LeastStep(Least, k)
  BY <1>4 DEF LeastUpto
<1>8. Least[0].run = 0 /\ Least[1].run = 1 /\ Least[1].all = 1
  <2>1. 0 \in 0 .. N /\ 1 \in 0 .. N
    BY <1>1
  <2>2. LeastStep(Least, 0) = [run |-> 0, all |-> 0] /\ LeastStep(Least, 1) = [run |-> 1, all |-> 1]
    BY DEF LeastStep
  <2>3. Least[0] = LeastStep(Least, 0) /\ Least[1] = LeastStep(Least, 1)
    BY <1>7, <2>1
  <2> QED
    BY <2>2, <2>3
<1>9. \A k \in 2 .. N : /\ Least[k].run = Least[k - 1].run + Least[k - 2].run + 1
                        /\ Least[k].all = Least[k - 1].all + Least[k].run
  <2> TAKE k \in 2 .. N
  <2>1. k \in 0 .. N /\ ~(k <= 1)
    BY <1>1
  <2>2. Least[k] = LeastStep(Least, k)
    BY <1>7, <2>1
  <2> QED
    BY <2>1, <2>2 DEF LeastStep
<1>10. \A k \in 0 .. N : Least[k].run \in Nat /\ Least[k].all \in Nat
  BY <1>6 DEF Totals
<1> QED
  BY <1>1, <1>8, <1>9, <1>10 DEF N

\* The i-th run is longer than the two above it together.
Outweighs(rs, i) == rs[i].length > rs[i + 1].length + rs[i + 2].length

\* The runs below the topmost m + 2 do so.
FallingBelow(rs, m) == \A i \in 1 .. Len(rs) - 2 - m : Outweighs(rs, i)

\* How much of the stack is known to fall: all of it where the next run is looked
\* for, and all but the last one or two runs while it is put in order.
StackInv ==
  /\ sorting = "begin" => Len(runs) <= 2
  /\ sorting = "check" => FallingBelow(runs, 1)
  /\ sorting = "collapse" => FallingBelow(runs, 2)
  /\ sorting = "push" => /\ FallingBelow(runs, 0)
                         /\ Len(runs) >= 2 => runs[Len(runs) - 1].length > runs[Len(runs)].length
  /\ sorting # "done" => Size <= Least[TIM_SORT_STACK_SIZE].all

LEMMA LengthsOf ==
  ASSUME NEW rs \in Seq(RunType)
  PROVE  Len(rs) \in Nat /\ \A i \in 1 .. Len(rs) : rs[i].length \in Nat \ {0}
<1>1. Len(rs) \in Nat /\ \A i \in 1 .. Len(rs) : rs[i] \in RunType
  BY LenProperties, ElementOfSeq
<1> QED
  BY <1>1 DEF RunType

\* With one more run the others fall as they did.
LEMMA PushedFalls ==
  ASSUME NEW rs \in Seq(RunType), NEW r \in RunType, NEW ss, ss = Append(rs, r), FallingBelow(rs, 0)
  PROVE  FallingBelow(ss, 1)
<1>1. Len(rs) \in Nat /\ Len(ss) = Len(rs) + 1 /\ \A i \in 1 .. Len(rs) : ss[i] = rs[i]
  BY LenProperties, AppendProperties
<1> SUFFICES ASSUME NEW i \in 1 .. Len(ss) - 2 - 1 PROVE Outweighs(ss, i)
  BY DEF FallingBelow
<1>2. i \in 1 .. Len(rs) - 2 - 0 /\ i \in 1 .. Len(rs) /\ i + 1 \in 1 .. Len(rs) /\ i + 2 \in 1 .. Len(rs)
  BY <1>1
<1>3. Outweighs(rs, i)
  BY <1>2 DEF FallingBelow
<1> QED
  BY <1>1, <1>2, <1>3 DEF Outweighs

\* A merge at the top of the stack leaves what is below it as it was.
LEMMA MergedFalls ==
  ASSUME NEW rs \in Seq(RunType), FallingBelow(rs, 2), NEW k \in 2 .. Len(rs), k >= Len(rs) - 1,
         NEW ss, IsJoined(ss, rs, k)
  PROVE  FallingBelow(ss, 2)
<1>1. Len(rs) \in Nat /\ Len(ss) = Len(rs) - 1 /\ \A i \in 1 .. Len(rs) - 1 : ss[i] = JoinedAt(rs, k, i)
  BY LenProperties DEF IsJoined
<1> SUFFICES ASSUME NEW i \in 1 .. Len(ss) - 2 - 2 PROVE Outweighs(ss, i)
  BY DEF FallingBelow
<1>2. i \in 1 .. Len(rs) - 2 - 2 /\ \A j \in i .. i + 2 : j \in 1 .. Len(rs) - 1 /\ j < k - 1
  BY <1>1
<1>3. \A j \in i .. i + 2 : ss[j] = rs[j]
  BY <1>1, <1>2 DEF JoinedAt
<1>4. i \in i .. i + 2 /\ i + 1 \in i .. i + 2 /\ i + 2 \in i .. i + 2
  BY <1>1
<1>5. Outweighs(rs, i)
  BY <1>2 DEF FallingBelow
<1> QED
  BY <1>3, <1>4, <1>5 DEF Outweighs

LEMMA CollapsingTop ==
  ASSUME runs \in Seq(RunType), Collapsing # 0
  PROVE  Collapsing >= Len(runs) - 1
<1> DEFINE n == Len(runs)
<1>1. n \in Nat
  BY LenProperties
<1>2. Collapsing \in {n - 1, n} \/ (Collapsing = 2 /\ n = 2)
  BY DEF Collapsing
<1> HIDE DEF n
<1>3. Collapsing >= n - 1
  BY <1>1, <1>2
<1> QED
  BY <1>3 DEF n

\* What CHECK_INVARIANT and TIM_SORT_COLLAPSE find at the top of the stack.
LEMMA BalancedFalls ==
  ASSUME runs \in Seq(RunType), FallingBelow(runs, 1), Balanced
  PROVE  FallingBelow(runs, 0) /\ (Len(runs) >= 2 => runs[Len(runs) - 1].length > runs[Len(runs)].length)
<1> DEFINE n == Len(runs)
<1>1. n \in Nat /\ \A i \in 1 .. n : runs[i].length \in Nat \ {0}
  BY LengthsOf
<1>2. n >= 2 => runs[n - 1].length > runs[n].length
  <2>1. Length(1) = runs[n - 1].length /\ Length(0) = runs[n - 0].length
    BY DEF Length
  <2>2. n >= 2 => Length(1) > Length(0)
    BY <1>1 DEF Balanced
  <2> HIDE DEF n
  <2> QED
    BY <1>1, <2>1, <2>2
<1>3. n >= 3 => Outweighs(runs, n - 2)
  <2>1. Length(2) = runs[n - 2].length /\ Length(1) = runs[n - 1].length /\ Length(0) = runs[n - 0].length
    BY DEF Length
  <2>2. n >= 3 => Length(2) > Length(1) + Length(0)
    BY <1>1 DEF Balanced
  <2> HIDE DEF n
  <2>3. n - 0 = n /\ (n - 2) + 1 = n - 1 /\ (n - 2) + 2 = n
    BY <1>1
  <2> QED
    BY <1>1, <2>1, <2>2, <2>3 DEF Outweighs
<1>4. \A i \in 1 .. n - 2 - 0 : Outweighs(runs, i)
  <2> TAKE i \in 1 .. n - 2 - 0
  <2>1. i \in 1 .. n - 2 - 1 \/ (i = n - 2 /\ n >= 3)
    <3> HIDE DEF n
    <3> QED
      BY <1>1
  <2> QED
    BY <1>3, <2>1 DEF FallingBelow
<1> QED
  BY <1>2, <1>4 DEF FallingBelow

LEMMA SettledFalls ==
  ASSUME runs \in Seq(RunType), FallingBelow(runs, 2), Collapsing = 0
  PROVE  FallingBelow(runs, 1)
<1> DEFINE n == Len(runs)
<1>1. n \in Nat /\ \A i \in 1 .. n : runs[i].length \in Nat \ {0}
  BY LengthsOf
<1>2. n >= 4 => Outweighs(runs, n - 3)
  <2>1. \A i \in {0, 1, 2, 3} : Length(i) = runs[n - i].length
    BY DEF Length
  <2>2. n >= 4 => \A i \in {0, 1, 2, 3} : Length(i) \in Nat
    <3> HIDE DEF n
    <3> QED
      BY <1>1, <2>1
  <2>3. n >= 4 => Length(3) > Length(2) + Length(1)
    BY <1>1, <2>2 DEF Collapsing
  <2> HIDE DEF n
  <2>4. (n - 3) + 1 = n - 2 /\ (n - 3) + 2 = n - 1
    BY <1>1
  <2> QED
    BY <2>1, <2>3, <2>4 DEF Outweighs
<1>3. \A i \in 1 .. n - 2 - 1 : Outweighs(runs, i)
  <2> TAKE i \in 1 .. n - 2 - 1
  <2>1. i \in 1 .. n - 2 - 2 \/ (i = n - 3 /\ n >= 4)
    <3> HIDE DEF n
    <3> QED
      BY <1>1
  <2> QED
    BY <1>2, <2>1 DEF FallingBelow
<1> QED
  BY <1>3 DEF FallingBelow

LEMMA StackStarts ==
  ASSUME SInit
  PROVE  StackInv
<1>1. PICK s \in SortInput : dst = [i \in DOMAIN s |-> [key |-> s[i], was |-> i]]
  BY DEF SInit
<1>2. s \in Seq(Int) /\ Len(s) \in Nat /\ DOMAIN s = 1 .. Len(s)
  BY SortAssumption, LenProperties
<1>3. DOMAIN dst = 1 .. Len(s)
  BY <1>1, <1>2
<1>4. dst \in Seq(Element)
  <2>1. SortInv
    BY SortStarts
  <2> QED
    BY <2>1, StackFacts DEF SortInv
<1>5. Size = Len(s)
  BY <1>2, <1>3, <1>4, LenProperties DEF Size
<1>6. Size <= Least[TIM_SORT_STACK_SIZE].all
  BY <1>5, StackAssumption
<1>7. sorting = "start"
  BY DEF SInit
<1> QED
  BY <1>6, <1>7 DEF StackInv

LEMMA NextRunFalls ==
  ASSUME SortInv, StackInv, NextRun
  PROVE  StackInv'
<1>1. /\ StackSound /\ RestAsItWas /\ curr <= Size /\ PushNext /\ sorting \in {"begin", "push"}
  BY DEF SortInv, NextRun
<1>2. /\ dst \in Seq(Element) /\ Size \in Nat /\ Size = Len(dst) /\ curr \in Nat \ {0}
      /\ runs \in Seq(RunType) /\ Len(runs) \in Nat
  BY <1>1, StackFacts DEF StackSound
<1>3. RestUnmoved
  BY <1>1, <1>2 DEF RestUnmoved, RestAsItWas
<1>4. PICK n \in 1 .. Size - curr + 1 :
        /\ Rearranged(dst', dst, curr, curr + n - 1)
        /\ runs' = Append(runs, [start |-> curr, length |-> n])
  BY <1>1, <1>3, NextRunFound
<1> DEFINE r == [start |-> curr, length |-> n]
           ss == runs'
<1>5. r \in RunType
  BY <1>1, <1>2 DEF RunType
<1>6. ss = Append(runs, r)
  BY <1>4
<1>7. Size' = Size
  BY <1>2, <1>4 DEF Size, Rearranged
<1>8. sorting' \in {"begin", "check", "finish"} /\ (sorting' = "begin" => Len(ss) < 3)
      /\ (sorting' = "check" => sorting = "begin" \/ sorting = "push")
  BY <1>1 DEF PushNext
<1> HIDE DEF r, ss
<1>9. Len(ss) = Len(runs) + 1
  BY <1>2, <1>5, <1>6, AppendProperties
<1>10. FallingBelow(runs, 0)
  <2>1. CASE sorting = "begin"
    <3>1. Len(runs) <= 2
      BY <2>1 DEF StackInv
    <3>2. 1 .. Len(runs) - 2 - 0 = {}
      BY <1>2, <3>1
    <3> QED
      BY <3>2 DEF FallingBelow
  <2>2. CASE sorting = "push"
    BY <2>2 DEF StackInv
  <2> QED
    BY <1>1, <2>1, <2>2
<1>11. FallingBelow(ss, 1)
  BY <1>2, <1>5, <1>6, <1>10, PushedFalls
<1>12. sorting' = "begin" => Len(ss) <= 2
  BY <1>2, <1>8, <1>9
<1>13. Size' <= Least[TIM_SORT_STACK_SIZE].all
  BY <1>1, <1>7 DEF StackInv
<1> QED
  BY <1>8, <1>11, <1>12, <1>13 DEF StackInv, ss

LEMMA StackInvKept ==
  ASSUME SortInv, StackInv, [SNext]_sortVars
  PROVE  StackInv'
<1>1. StackSound
  BY DEF SortInv
<1>2. runs \in Seq(RunType) /\ Len(runs) \in Nat
  BY <1>1, StackFacts
<1>3. ASSUME dst' = dst, runs' = runs, sorting # "done"
      PROVE  Size' = Size /\ Size' <= Least[TIM_SORT_STACK_SIZE].all /\ \A m : FallingBelow(runs, m) => FallingBelow(runs', m)
  BY <1>3 DEF StackInv, Size
<1>4. CASE InsertionSort
  BY <1>4 DEF InsertionSort, StackInv
<1>5. CASE Start
  <2>1. dst' = dst /\ runs' = runs /\ sorting' = "begin" /\ sorting = "start" /\ runs = <<>>
    BY <1>5 DEF Start, SortInv
  <2>2. Len(runs') <= 2
    BY <2>1, EmptySeq
  <2> QED
    BY <1>3, <2>1, <2>2 DEF StackInv
<1>6. CASE NextRun
  BY <1>6, NextRunFalls
<1>7. CASE CheckInvariant
  <2>1. /\ dst' = dst /\ runs' = runs /\ sorting = "check"
        /\ sorting' = IF Balanced THEN "push" ELSE "collapse"
    BY <1>7 DEF CheckInvariant
  <2>2. FallingBelow(runs, 1) /\ Size' <= Least[TIM_SORT_STACK_SIZE].all
    BY <1>3, <2>1 DEF StackInv
  <2>3. CASE Balanced
    <3>1. sorting' = "push"
      BY <2>1, <2>3
    <3>2. FallingBelow(runs, 0) /\ (Len(runs) >= 2 => runs[Len(runs) - 1].length > runs[Len(runs)].length)
      BY <1>2, <2>2, <2>3, BalancedFalls
    <3> QED
      BY <2>1, <2>2, <3>1, <3>2 DEF StackInv
  <2>4. CASE ~Balanced
    <3>1. sorting' = "collapse"
      BY <2>1, <2>4
    <3>2. FallingBelow(runs, 2)
      <4>1. 1 .. Len(runs) - 2 - 2 \subseteq 1 .. Len(runs) - 2 - 1
        BY <1>2
      <4> QED
        BY <2>2, <4>1 DEF FallingBelow
    <3> QED
      BY <2>1, <2>2, <3>1, <3>2 DEF StackInv
  <2> QED
    BY <2>3, <2>4
<1>8. CASE Collapse
  <2>0. sorting = "collapse" /\ FallingBelow(runs, 2)
    BY <1>8 DEF Collapse, StackInv
  <2>1. CASE Collapsing = 0
    <3>1. dst' = dst /\ runs' = runs /\ sorting' = "check"
      BY <1>8, <2>1 DEF Collapse
    <3>2. FallingBelow(runs, 1)
      BY <1>2, <2>0, <2>1, SettledFalls
    <3> QED
      BY <1>3, <2>0, <3>1, <3>2 DEF StackInv
  <2>2. CASE Collapsing # 0
    <3> DEFINE k == Collapsing
    <3>1. Merge(k) /\ sorting' = IF Len(runs) = 2 THEN "check" ELSE "collapse"
      BY <1>8, <2>2 DEF Collapse
    <3>2. k \in 2 .. Len(runs)
      BY <1>2, <2>2, CollapsingRange
    <3>3. k >= Len(runs) - 1
      BY <1>2, <2>2, CollapsingTop
    <3> HIDE DEF k
    <3>4. Size' = Size
      BY <1>1, <3>1, <3>2, MergeKeeps
    <3>5. Size' <= Least[TIM_SORT_STACK_SIZE].all
      BY <2>0, <3>4 DEF StackInv
    <3>6. runs' = Joined(runs, k)
      BY <3>1 DEF Merge, Joined
    <3>7. EndOf(runs[k - 1]) + 1 = runs[k].start
      <4>1. k \in 1 .. Len(runs) /\ k # 1
        BY <1>2, <3>2
      <4> QED
        BY <1>1, <4>1, StackFacts
    <3>8. IsJoined(runs', runs, k)
      BY <1>2, <3>2, <3>6, <3>7, JoinedRuns
    <3>9. FallingBelow(runs', 2)
      BY <1>2, <2>0, <3>2, <3>3, <3>8, MergedFalls
    <3>10. Len(runs) = 2 => FallingBelow(runs', 1)
      <4>1. Len(runs') = Len(runs) - 1
        BY <3>8 DEF IsJoined
      <4>2. Len(runs) = 2 => 1 .. Len(runs') - 2 - 1 = {}
        BY <4>1
      <4> QED
        BY <4>2 DEF FallingBelow
    <3> QED
      BY <3>1, <3>5, <3>9, <3>10 DEF StackInv
  <2> QED
    BY <2>1, <2>2
<1>9. CASE FinishUp
  <2>0. sorting = "finish"
    BY <1>9 DEF FinishUp
  <2>1. CASE Len(runs) > 1
    <3>1. Merge(Len(runs)) /\ sorting' = "finish"
      BY <1>9, <2>0, <2>1 DEF FinishUp
    <3>2. Len(runs) \in 2 .. Len(runs)
      BY <1>2, <2>1
    <3>3. Size' = Size
      BY <1>1, <3>1, <3>2, MergeKeeps
    <3> QED
      BY <2>0, <3>1, <3>3 DEF StackInv
  <2>2. CASE ~(Len(runs) > 1)
    BY <1>9, <2>2 DEF FinishUp, StackInv
  <2> QED
    BY <2>1, <2>2
<1>10. CASE UNCHANGED sortVars
  <2>1. dst' = dst /\ runs' = runs /\ sorting' = sorting
    BY <1>10 DEF sortVars
  <2>2. Size' = Size
    BY <2>1 DEF Size
  <2> QED
    BY <2>1, <2>2 DEF StackInv
<1> QED
  BY <1>4, <1>5, <1>6, <1>7, <1>8, <1>9, <1>10 DEF SNext

LEMMA RunLonger ==
  ASSUME NEW a \in Nat, NEW b \in Nat, NEW c \in Nat, NEW p \in Nat, NEW q \in Nat
  PROVE  a > b + c /\ b >= p /\ c >= q => a >= p + q + 1
  OBVIOUS

LEMMA TotalLonger ==
  ASSUME NEW c \in Nat, NEW x \in Nat, NEW y \in Nat, NEW l \in Nat, NEW r \in Nat, NEW a \in Nat
  PROVE  c - y >= a /\ y = x + l /\ l >= r => c - x >= a + r
  OBVIOUS

\* The k topmost runs, when each outweighs the two above it, are as long as Least says.
LEMMA StackGrows ==
  ASSUME SortInv, StackInv, sorting = "push", NEW k \in 1 .. Len(runs), k <= TIM_SORT_STACK_SIZE
  PROVE  /\ runs[Len(runs) - k + 1].length >= Least[k].run
         /\ curr - runs[Len(runs) - k + 1].start >= Least[k].all
<1> DEFINE N == TIM_SORT_STACK_SIZE
           n == Len(runs)
           L(j) == runs[n - j + 1].length
           A(j) == curr - runs[n - j + 1].start
           Holds(j) == L(j) >= Least[j].run /\ A(j) >= Least[j].all
           S == {j \in Nat : \A i \in {j, j + 1} : i \in 1 .. n /\ i <= N => Holds(i)}
<1>1. StackSound
  BY DEF SortInv
<1>2. /\ n \in Nat /\ curr \in Nat /\ runs \in Seq(RunType)
      /\ \A i \in 1 .. n : /\ runs[i] \in RunType
                           /\ runs[i].start = IF i = 1 THEN 1 ELSE EndOf(runs[i - 1]) + 1
      /\ curr = IF n = 0 THEN 1 ELSE EndOf(runs[n]) + 1
  BY <1>1, StackFacts DEF StackSound, OneAfterOther
<1>3. \A i \in 1 .. n : runs[i].start \in Nat \ {0} /\ runs[i].length \in Nat \ {0}
  BY <1>2 DEF RunType
<1>4. \A i \in 1 .. n : i < n => runs[i + 1].start = runs[i].start + runs[i].length
  <2> TAKE i \in 1 .. n
  <2> HAVE i < n
  <2>1. i + 1 \in 1 .. n /\ i + 1 # 1 /\ (i + 1) - 1 = i
    BY <1>2
  <2>2. runs[i + 1].start = EndOf(runs[i]) + 1
    BY <1>2, <2>1
  <2>3. runs[i].start \in Nat /\ runs[i].length \in Nat
    BY <1>3
  <2>4. EndOf(runs[i]) + 1 = runs[i].start + runs[i].length
    BY <2>3 DEF EndOf
  <2> QED
    BY <2>2, <2>4
<1>5. n >= 1 => curr = runs[n].start + runs[n].length
  <2>1. n >= 1 => n \in 1 .. n
    BY <1>2
  <2> QED
    BY <1>2, <1>3, <2>1 DEF EndOf
<1>6. /\ \A i \in 1 .. n - 2 - 0 : Outweighs(runs, i)
      /\ n >= 2 => runs[n - 1].length > runs[n].length
  BY DEF StackInv, FallingBelow
<1> HIDE DEF n
<1>7. n >= 1 => Holds(1)
  <2>1. n >= 1 => n - 1 + 1 = n /\ n \in 1 .. n
    BY <1>2
  <2>2. Least[1].run = 1 /\ Least[1].all = 1
    BY LeastFacts
  <2>3. n >= 1 => runs[n].length >= 1 /\ curr - runs[n].start >= 1
    BY <1>3, <1>5, <2>1, <1>2
  <2> QED
    BY <2>1, <2>2, <2>3
<1>8. 0 \in S
  BY <1>7
<1>9. ASSUME NEW j \in Nat, j \in S, j + 2 \in 1 .. n, j + 2 <= N
      PROVE  Holds(j + 2)
  <2> DEFINE i == n - (j + 2) + 1
  <2>0. N \in Nat
    BY LeastFacts
  <2>1. /\ i \in 1 .. n /\ i < n /\ i + 1 = n - (j + 1) + 1 /\ i + 1 \in 1 .. n
        /\ j + 2 \in 2 .. N /\ (j + 2) - 1 = j + 1 /\ (j + 2) - 2 = j /\ j \in 0 .. N /\ j + 1 \in 0 .. N
        /\ j + 1 \in 1 .. n /\ j + 1 <= N
    <3> HIDE DEF N, Holds, S
    <3>1. n \in Nat /\ j \in Nat /\ j + 2 <= n /\ j + 2 <= N
      BY <1>2, <1>9
    <3>2. i \in 1 .. n /\ i < n /\ i + 1 = n - (j + 1) + 1 /\ i + 1 \in 1 .. n
      BY <3>1
    <3>3. /\ j + 2 \in 2 .. N /\ (j + 2) - 1 = j + 1 /\ (j + 2) - 2 = j /\ j \in 0 .. N /\ j + 1 \in 0 .. N
          /\ j + 1 \in 1 .. n /\ j + 1 <= N
      BY <2>0, <3>1
    <3> QED
      BY <3>2, <3>3
  <2>2. Holds(j + 1)
    BY <1>9, <2>1
  <2>3. /\ Least[j + 2].run = Least[j + 1].run + Least[j].run + 1
        /\ Least[j + 2].all = Least[j + 1].all + Least[j + 2].run
        /\ Least[j].run \in Nat /\ Least[j + 1].run \in Nat /\ Least[j + 1].all \in Nat
    BY <2>1, LeastFacts
  <2>4. runs[i].length >= Least[j + 1].run + Least[j].run + 1
    <3>1. runs[i + 1].length >= Least[j + 1].run
      BY <2>1, <2>2
    <3>2. CASE j = 0
      <4>1. i + 1 = n /\ i = n - 1 /\ n >= 2
        BY <1>2, <2>1, <3>2
      <4>2. runs[i].length > runs[i + 1].length
        BY <1>6, <4>1
      <4>3. Least[j].run = 0
        BY <3>2, LeastFacts
      <4>4. runs[i].length \in Nat /\ runs[i + 1].length \in Nat
        BY <1>3, <2>1
      <4> HIDE DEF N, i, L, A, Holds, S
      <4>5. runs[i].length >= Least[j + 1].run + 0 + 1
        <5>1. runs[i].length > runs[i + 1].length + 0 /\ 0 \in Nat /\ 0 >= 0
          BY <4>2, <4>4
        <5> QED
          BY <2>3, <3>1, <4>4, <5>1, RunLonger
      <4> QED
        BY <4>3, <4>5
    <3>3. CASE j # 0
      <4>1. i \in 1 .. n - 2 - 0 /\ i + 2 = n - j + 1 /\ i + 2 \in 1 .. n /\ j \in 1 .. n /\ j <= N
        BY <1>2, <2>1, <3>3
      <4>2. Holds(j)
        BY <1>9, <4>1
      <4>3. runs[i + 2].length >= Least[j].run
        BY <4>1, <4>2
      <4>4. runs[i].length > runs[i + 1].length + runs[i + 2].length
        BY <1>6, <4>1 DEF Outweighs
      <4>5. runs[i].length \in Nat /\ runs[i + 1].length \in Nat /\ runs[i + 2].length \in Nat
        BY <1>3, <2>1, <4>1
      <4> HIDE DEF N, i, L, A, Holds, S
      <4> QED
        BY <2>3, <3>1, <4>3, <4>4, <4>5, RunLonger
    <3> QED
      BY <3>2, <3>3
  <2>5. curr - runs[i].start >= Least[j + 2].all
    <3>1. curr - runs[i + 1].start >= Least[j + 1].all
      BY <2>1, <2>2
    <3>2. runs[i + 1].start = runs[i].start + runs[i].length
      BY <1>4, <2>1
    <3>3. curr \in Nat /\ runs[i].start \in Nat /\ runs[i + 1].start \in Nat /\ runs[i].length \in Nat
      BY <1>2, <1>3, <2>1
    <3>4. Least[j + 2].run \in Nat /\ runs[i].length >= Least[j + 2].run
      BY <2>3, <2>4
    <3> HIDE DEF N, i, L, A, Holds, S
    <3>5. curr - runs[i].start >= Least[j + 1].all + Least[j + 2].run
      <4>1. Least[j + 1].all \in Nat
        BY <2>3
      <4> QED
        BY <3>1, <3>2, <3>3, <3>4, <4>1, TotalLonger
    <3> QED
      BY <2>3, <3>5
  <2> QED
    BY <2>3, <2>4, <2>5
<1> HIDE DEF Holds
<1>10. ASSUME NEW j \in Nat, j \in S PROVE j + 1 \in S
  <2>1. j + 1 \in 1 .. n /\ j + 1 <= N => Holds(j + 1)
    BY <1>10
  <2>2. j + 2 \in 1 .. n /\ j + 2 <= N => Holds(j + 2)
    BY <1>9, <1>10
  <2>3. (j + 1) + 1 = j + 2
    OBVIOUS
  <2> QED
    BY <2>1, <2>2, <2>3
<1>11. S \in SUBSET Nat
  OBVIOUS
<1>12. k \in S
  <2> HIDE DEF S
  <2>1. k \in Nat
    BY <1>2 DEF n
  <2> QED
    BY <1>8, <1>10, <1>11, <2>1, SetInduction
<1>13. Holds(k)
  BY <1>12 DEF n
<1> QED
  BY <1>13 DEF Holds, n

\* So that a full stack would hold more elements than there are.
LEMMA RoomLeft ==
  ASSUME SortInv, StackInv
  PROVE  StackHasRoom
<1> DEFINE N == TIM_SORT_STACK_SIZE
           n == Len(runs)
<1>1. n \in Nat /\ N \in Nat /\ N >= 3
  BY StackFacts, LeastFacts DEF SortInv
<1>2. CASE sorting = "begin"
  BY <1>1, <1>2 DEF StackInv, StackHasRoom
<1>3. CASE sorting = "push"
  <2> SUFFICES ASSUME ~(n < N) PROVE FALSE
    BY <1>3 DEF StackHasRoom
  <2> DEFINE i == n - N + 1
  <2>1. N \in 1 .. n /\ i \in 1 .. n
    BY <1>1
  <2>2. curr - runs[i].start >= Least[N].all
    BY <1>1, <1>3, <2>1, StackGrows
  <2>3. runs[i].start \in Nat \ {0}
    BY <2>1, StackFacts DEF SortInv, RunType
  <2>4. curr \in Nat /\ curr <= Size /\ Size \in Nat /\ Size <= Least[N].all
    BY <1>3, StackFacts DEF SortInv, StackInv
  <2>5. Least[N].all \in Nat
    BY <1>1, LeastFacts
  <2> HIDE DEF N, n, i
  <2> QED
    BY <2>2, <2>3, <2>4, <2>5
<1> QED
  BY <1>2, <1>3 DEF StackHasRoom
-----------------------------------------------------------------------------
(* What the two invariants say.                                            *)

\* A stack that is not balanced is one that collapses.
LEMMA UnbalancedCollapses ==
  ASSUME runs \in Seq(RunType)
  PROVE  Balanced \/ Collapsing # 0
<1>1. Len(runs) \in Nat /\ \A i \in 1 .. Len(runs) : runs[i].length \in Int
  <2>1. Len(runs) \in Nat
    BY LenProperties
  <2>2. \A i \in 1 .. Len(runs) : runs[i] \in RunType
    BY ElementOfSeq
  <2> QED
    BY <2>1, <2>2 DEF RunType
<1>2. \A i \in 0 .. Len(runs) - 1 : Length(i) \in Int
  <2> TAKE i \in 0 .. Len(runs) - 1
  <2>1. Len(runs) - i \in 1 .. Len(runs)
    BY <1>1
  <2> QED
    BY <1>1, <2>1 DEF Length
<1>3. /\ Len(runs) >= 1 => Length(0) \in Int
      /\ Len(runs) >= 2 => Length(1) \in Int
      /\ Len(runs) >= 3 => Length(2) \in Int
  BY <1>1, <1>2
<1>4. CASE Len(runs) < 2
  BY <1>4 DEF Balanced
<1>5. CASE Len(runs) = 2
  BY <1>3, <1>5 DEF Balanced, Collapsing
<1>6. CASE Len(runs) > 2
  BY <1>1, <1>3, <1>6 DEF Balanced, Collapsing
<1> DEFINE m == Len(runs)
<1>7. m \in Nat
  BY <1>1
<1>8. m < 2 \/ m = 2 \/ m > 2
  <2> HIDE DEF m
  <2> QED
    BY <1>7
<1> QED
  BY <1>4, <1>5, <1>6, <1>8, Zenon

LEMMA SortInvSays ==
  ASSUME SortInv, StackInv
  PROVE  SortedStably
<1>0. StackSound
  BY DEF SortInv
<1>1. /\ dst \in Seq(Element) /\ Size \in Nat /\ Size = Len(dst)
      /\ runs \in Seq(RunType) /\ DOMAIN runs = 1 .. Len(runs) /\ Len(runs) \in Nat
      /\ \A n \in 1 .. Len(runs) : /\ runs[n] \in RunType /\ InOrderAt(dst, runs[n])
                                   /\ runs[n].start = IF n = 1 THEN 1 ELSE EndOf(runs[n - 1]) + 1
  <2>1. dst \in Seq(Element) /\ Size \in Nat /\ Size = Len(dst)
    BY <1>0, StackFacts
  <2>2. runs \in Seq(RunType) /\ DOMAIN runs = 1 .. Len(runs) /\ Len(runs) \in Nat
    BY <1>0, StackFacts
  <2>3. \A n \in 1 .. Len(runs) : /\ runs[n] \in RunType /\ InOrderAt(dst, runs[n])
                                  /\ runs[n].start = IF n = 1 THEN 1 ELSE EndOf(runs[n - 1]) + 1
    BY <1>0, StackFacts
  <2> QED
    BY <2>1, <2>2, <2>3
<1>2. {dst[i].was : i \in 1 .. Size} = 1 .. Size
  <2>1. /\ \A i \in 1 .. Size : dst[i].was \in 1 .. Size
        /\ \A w \in 1 .. Size : \E i \in 1 .. Size : dst[i].was = w
    BY <1>0 DEF StackSound, WholeArray, Size
  <2> QED
    BY <2>1
<1>3. \A n \in DOMAIN runs : Rising(Part(runs[n]))
  <2> TAKE n \in DOMAIN runs
  <2>1. InOrderAt(dst, runs[n])
    BY <1>1
  <2>2. Part(runs[n]) = SubSeq(dst, runs[n].start, EndOf(runs[n]))
    BY DEF Part, EndOf
  <2> QED
    BY <2>1, <2>2 DEF InOrderAt, Ordered, Sorts
<1>4. \A n \in DOMAIN runs : runs[n].start = IF n = 1 THEN 1 ELSE runs[n - 1].start + runs[n - 1].length
  <2> TAKE n \in DOMAIN runs
  <2>1. n # 1 => n - 1 \in 1 .. Len(runs)
    BY <1>1
  <2>2. n # 1 => EndOf(runs[n - 1]) + 1 = runs[n - 1].start + runs[n - 1].length
    BY <1>1, <2>1 DEF EndOf, RunType
  <2> QED
    BY <1>1, <2>2
<1>5. Balanced \/ Collapsing # 0
  BY <1>1, UnbalancedCollapses
<1>6. sorting = "done" => Rising(dst)
  BY DEF SortInv
<1>7. StackHasRoom
  BY RoomLeft
<1> QED
  BY <1>2, <1>3, <1>4, <1>5, <1>6, <1>7 DEF SortedStably, Rising, Precedes

LEMMA SortInvariant == SortSpec => [](SortInv /\ StackInv)
<1>1. SInit => SortInv /\ StackInv
  BY SortStarts, StackStarts
<1>2. SortInv /\ StackInv /\ [SNext]_sortVars => SortInv' /\ StackInv'
  BY SortInvKept, StackInvKept
<1> QED
  BY <1>1, <1>2, PTL DEF SortSpec

\* Whatever keys an array of whatever size holds, TIM_SORT and the insertion sort it
\* uses for small arrays leave every element in the array, in order and, where keys
\* are equal, in the order they had; on the way the runs on the stack are in order,
\* one after the other, TIM_SORT_COLLAPSE never leaves a stack that CHECK_INVARIANT
\* goes on rejecting, and run_stack has room for the next run (timsort.h).
THEOREM SortsStably == SortSpec => []SortedStably
<1>1. SortInv /\ StackInv => SortedStably
  BY SortInvSays
<1> QED
  BY <1>1, SortInvariant, PTL

\* PUSH_NEXT never writes behind run_stack: a stack as high as that would hold more
\* elements than a size_t counts, because the lengths of its runs, from the top,
\* grow faster than the Fibonacci numbers (timsort.h:55, 322, 424, 507).
THEOREM RunsFitTheStack == SortSpec => []StackHasRoom
<1>1. SortInv /\ StackInv => StackHasRoom
  BY RoomLeft
<1> QED
  BY <1>1, SortInvariant, PTL
=============================================================================
