----------------------------- MODULE ListProofs -----------------------------
(* Facts about sequences that the proofs of several modules rest on.       *)
(*                                                                         *)
(* What a fold gives is shown by induction, which is a fact about sets of  *)
(* numbers here: a set of natural numbers has a least element.             *)
EXTENDS Integers, SequencesExt, WellFoundedInduction, FiniteSetTheorems, SequenceTheorems, TLAPS

-----------------------------------------------------------------------------
(* Induction.                                                              *)

\* A set of natural numbers has a least element.
LEMMA LeastNatural ==
  ASSUME NEW S \in SUBSET Nat, S # {}
  PROVE  \E m \in S : \A k \in S : m <= k
<1> DEFINE Upto(k) == 0 .. k
           T == {Upto(k) : k \in S}
<1>1. T \subseteq FiniteSubsetsOf(Nat)
  <2>1. \A k \in S : IsFiniteSet(0 .. k) /\ 0 .. k \subseteq Nat
    BY FS_Interval
  <2> QED
    BY <2>1 DEF FiniteSubsetsOf
<1>2. T # {}
  OBVIOUS
<1>3. IsWellFoundedOn(StrictSubsetOrdering(Nat), FiniteSubsetsOf(Nat))
  BY FS_StrictSubsetOrderingWellFounded
<1> HIDE DEF T
<1>4. PICK x \in T : \A y \in T : ~ (<<y, x>> \in StrictSubsetOrdering(Nat))
  BY <1>1, <1>2, <1>3, WFMin
<1>5. PICK m \in S : x = 0 .. m
  BY DEF T
<1>6. ASSUME NEW k \in S, ~(m <= k) PROVE FALSE
  <2>1. 0 .. k \in T
    BY DEF T
  <2>2. <<0 .. k, 0 .. m>> \in StrictSubsetOrdering(Nat)
    <3>1. k \in Nat /\ m \in Nat /\ k < m
      BY <1>6
    <3>2. 0 .. k \subseteq 0 .. m
      BY <3>1
    <3>3. m \in 0 .. m /\ m \notin 0 .. k
      BY <3>1
    <3>4. 0 .. k \in SUBSET Nat /\ 0 .. m \in SUBSET Nat
      BY <3>1
    <3> QED
      BY <3>2, <3>3, <3>4 DEF StrictSubsetOrdering
  <2> QED
    BY <1>4, <1>5, <2>1, <2>2
<1> QED
  BY <1>5, <1>6

\* Induction, said of a set.
LEMMA SetInduction ==
  ASSUME NEW S \in SUBSET Nat, 0 \in S, \A n \in Nat : n \in S => n + 1 \in S
  PROVE  \A n \in Nat : n \in S
<1> SUFFICES ASSUME Nat \ S # {} PROVE FALSE
  OBVIOUS
<1>1. PICK m \in Nat \ S : \A k \in Nat \ S : m <= k
  BY LeastNatural
<1>2. m # 0 /\ m - 1 \in Nat /\ (m - 1) + 1 = m
  BY <1>1
<1>3. m - 1 \in S
  BY <1>1, <1>2
<1> QED
  BY <1>1, <1>2, <1>3

\* The form in which it is used.
LEMMA InductionUpto ==
  ASSUME NEW n \in Nat, NEW S, 0 \in S, \A i \in 1 .. n : i - 1 \in S => i \in S
  PROVE  \A i \in 0 .. n : i \in S
<1> DEFINE T == {i \in Nat : i <= n => i \in S}
<1>1. T \in SUBSET Nat /\ 0 \in T
  OBVIOUS
<1>2. ASSUME NEW i \in Nat, i \in T PROVE i + 1 \in T
  <2>1. i + 1 <= n => i + 1 \in 1 .. n /\ i <= n /\ (i + 1) - 1 = i
    OBVIOUS
  <2> QED
    BY <1>2, <2>1
<1> HIDE DEF T
<1>3. \A i \in Nat : i \in T
  BY <1>1, <1>2, SetInduction
<1> QED
  BY <1>3 DEF T

\* A set of places has a largest one.
LEMMA MaxUpto ==
  ASSUME NEW n \in Nat, NEW s \in SUBSET (1 .. n), s # {}
  PROVE  Max(s) \in s /\ \A k \in s : k <= Max(s)
<1> DEFINE T == {n - k : k \in s}
<1>1. T \in SUBSET Nat /\ T # {}
  OBVIOUS
<1> HIDE DEF T
<1>2. PICK m \in T : \A k \in T : m <= k
  BY <1>1, LeastNatural
<1>3. PICK x \in s : m = n - x
  BY DEF T
<1>4. \A k \in s : x >= k
  <2> TAKE k \in s
  <2>1. n - k \in T
    BY DEF T
  <2> QED
    BY <1>2, <1>3, <2>1
<1>5. \E z \in s : \A k \in s : z >= k
  BY <1>4
<1>6. Max(s) \in s /\ \A k \in s : Max(s) >= k
  BY <1>5 DEF Max
<1> QED
  BY <1>6

\* The last place of an interval.
LEMMA MaxOfInterval ==
  ASSUME NEW n \in Nat, NEW i \in 1 .. n
  PROVE  Max(1 .. i) = i
<1>1. 1 .. i \in SUBSET (1 .. n) /\ 1 .. i # {}
  OBVIOUS
<1>2. Max(1 .. i) \in 1 .. i /\ \A k \in 1 .. i : k <= Max(1 .. i)
  BY <1>1, MaxUpto
<1>3. i <= Max(1 .. i)
  BY <1>2
<1> QED
  BY <1>2, <1>3

-----------------------------------------------------------------------------
(* Folds.                                                                  *)

IsIter(g, step, b, t) ==
  \A s \in SUBSET (1 .. Len(t)) : g[s] = IF s = {} THEN b ELSE step[<<g[s \ {Max(s)}], t[Max(s)]>>]

\* What the fold of the Folds module folds with exists: a function on sets of places.
LEMMA IterExists ==
  ASSUME NEW V, NEW b \in V, NEW E, NEW t \in Seq(E), NEW step \in [V \X E -> V]
  PROVE  \E g \in [SUBSET (1 .. Len(t)) -> V] :
            IsIter(g, step, b, t)
<1> DEFINE Good(g, m) == \A s \in SUBSET (1 .. m) :
                            g[s] = IF s = {} THEN b ELSE step[<<g[s \ {Max(s)}], t[Max(s)]>>]
           Has(m) == \E g \in [SUBSET (1 .. m) -> V] : Good(g, m)
           S == {m \in Nat : m <= Len(t) => Has(m)}
<1>0. Len(t) \in Nat /\ \A i \in 1 .. Len(t) : t[i] \in E
  BY ElementOfSeq, LenProperties
<1>1. Has(0)
  <2> DEFINE g == [s \in SUBSET (1 .. 0) |-> b]
  <2>1. g \in [SUBSET (1 .. 0) -> V]
    OBVIOUS
  <2>2. \A s \in SUBSET (1 .. 0) : s = {}
    OBVIOUS
  <2>3. Good(g, 0)
    BY <2>2
  <2> QED
    BY <2>1, <2>3
<1>2. ASSUME NEW m \in Nat, m + 1 <= Len(t), Has(m) PROVE Has(m + 1)
  <2>1. PICK g \in [SUBSET (1 .. m) -> V] : Good(g, m)
    BY <1>2
  <2> DEFINE h == [s \in SUBSET (1 .. m + 1) |->
                     IF m + 1 \in s THEN step[<<g[s \ {m + 1}], t[m + 1]>>] ELSE g[s]]
  <2>2. \A s \in SUBSET (1 .. m + 1) : s \ {m + 1} \in SUBSET (1 .. m)
    OBVIOUS
  <2>3. h \in [SUBSET (1 .. m + 1) -> V]
    <3>1. ASSUME NEW s \in SUBSET (1 .. m + 1) PROVE h[s] \in V
      <4>1. CASE m + 1 \in s
        <5>1. g[s \ {m + 1}] \in V
          BY <2>2
        <5>2. t[m + 1] \in E
          <6>1. m + 1 \in 1 .. Len(t)
            BY <1>0, <1>2
          <6> QED
            BY <1>0, <6>1
        <5> QED
          BY <4>1, <5>1, <5>2
      <4>2. CASE m + 1 \notin s
        <5>1. s \in SUBSET (1 .. m)
          BY <4>2
        <5> QED
          BY <4>2, <5>1
      <4> QED
        BY <4>1, <4>2
    <3> QED
      BY <3>1
  <2>4. Good(h, m + 1)
    <3> TAKE s \in SUBSET (1 .. m + 1)
    <3>1. CASE m + 1 \in s
      <4>1. Max(s) = m + 1
        <5>1. Max(s) \in s /\ \A k \in s : k <= Max(s)
          <6>1. m + 1 \in Nat /\ s # {}
            BY <3>1
          <6> QED
            BY <6>1, MaxUpto
        <5>2. Max(s) \in 1 .. m + 1 /\ m + 1 <= Max(s)
          BY <3>1, <5>1
        <5> QED
          BY <5>2
      <4>2. s \ {m + 1} \in SUBSET (1 .. m + 1) /\ m + 1 \notin s \ {m + 1}
        OBVIOUS
      <4>3. h[s \ {m + 1}] = g[s \ {m + 1}]
        BY <4>2
      <4> QED
        BY <3>1, <4>1, <4>3
    <3>2. CASE m + 1 \notin s
      <4>1. s \in SUBSET (1 .. m)
        BY <3>2
      <4>2. h[s] = g[s] /\ h[s \ {Max(s)}] = g[s \ {Max(s)}]
        BY <3>2, <4>1
      <4> QED
        BY <2>1, <4>1, <4>2
    <3> QED
      BY <3>1, <3>2
  <2> QED
    BY <2>3, <2>4
<1> HIDE DEF Has
<1>3. \A n \in Nat : n \in S
  <2>1. S \in SUBSET Nat
    OBVIOUS
  <2>2. 0 \in S
    BY <1>1
  <2>3. ASSUME NEW m \in Nat, m \in S PROVE m + 1 \in S
    <3> SUFFICES ASSUME m + 1 <= Len(t) PROVE Has(m + 1)
      OBVIOUS
    <3>1. m <= Len(t)
      BY <1>0
    <3>2. Has(m)
      BY <2>3, <3>1
    <3> QED
      BY <1>2, <3>2
  <2> HIDE DEF S
  <2> QED
    BY <2>1, <2>2, <2>3, SetInduction
<1>4. PICK g \in [SUBSET (1 .. Len(t)) -> V] : Good(g, Len(t))
  <2>1. Has(Len(t))
    BY <1>0, <1>3
  <2> QED
    BY <2>1 DEF Has
<1> QED
  BY <1>4 DEF IsIter

\* A function of sets of places that the next place extends as step says.
IsFoldOf(iter, step, b, t, V) ==
  /\ iter[{}] = b
  /\ \A x \in SUBSET (1 .. Len(t)) :
       x # {} /\ iter[x \ {Max(x)}] \in V => iter[x] = step[<<iter[x \ {Max(x)}], t[Max(x)]>>]

\* Taken place by place.
TakenFrom(f, iter, step, b, t) ==
  /\ f[0] = b /\ f[Len(t)] = iter[1 .. Len(t)]
  /\ \A i \in 1 .. Len(t) : f[i] = step[<<f[i - 1], t[i]>>]

\* A fold is its last step taken on the fold before it.
LEMMA FoldSteps ==
  ASSUME NEW V, NEW b \in V, NEW E, NEW t \in Seq(E), NEW step \in [V \X E -> V],
         NEW iter, IsFoldOf(iter, step, b, t, V)
  PROVE  \E f \in [0 .. Len(t) -> V] : TakenFrom(f, iter, step, b, t)
<1> DEFINE f == [i \in 0 .. Len(t) |-> iter[1 .. i]]
<1>1. Len(t) \in Nat /\ \A i \in 1 .. Len(t) : t[i] \in E
  BY LenProperties, ElementOfSeq
<1>2. iter[1 .. 0] = b
  <2>1. 1 .. 0 = {}
    OBVIOUS
  <2> QED
    BY <2>1 DEF IsFoldOf
<1>3. ASSUME NEW i \in 1 .. Len(t), iter[1 .. (i - 1)] \in V
      PROVE  iter[1 .. i] = step[<<iter[1 .. (i - 1)], t[i]>>]
  <2>1. i \in Nat /\ 1 .. i \in SUBSET (1 .. Len(t)) /\ i \in 1 .. i
    BY <1>1
  <2>2. Max(1 .. i) = i
    BY <1>1, <2>1, MaxOfInterval
  <2>3. (1 .. i) \ {i} = 1 .. (i - 1)
    BY <1>1
  <2> QED
    BY <1>3, <2>1, <2>2, <2>3 DEF IsFoldOf
<1>4. ASSUME NEW i \in 0 .. Len(t) PROVE iter[1 .. i] \in V
  <2> DEFINE S == {j \in Nat : iter[1 .. j] \in V}
  <2>1. 0 \in S
    BY <1>2
  <2>2. ASSUME NEW j \in 1 .. Len(t), j - 1 \in S PROVE j \in S
    <3>1. iter[1 .. (j - 1)] \in V /\ t[j] \in E /\ j \in Nat
      BY <1>1, <2>2
    <3>2. iter[1 .. j] = step[<<iter[1 .. (j - 1)], t[j]>>]
      BY <1>3, <3>1
    <3> QED
      BY <3>1, <3>2
  <2> HIDE DEF S
  <2>3. i \in S
    BY <1>1, <2>1, <2>2, InductionUpto
  <2> QED
    BY <2>3 DEF S
<1>5. f \in [0 .. Len(t) -> V]
  BY <1>4
<1>6. f[0] = b /\ f[Len(t)] = iter[1 .. Len(t)]
  BY <1>1, <1>2
<1>7. ASSUME NEW i \in 1 .. Len(t) PROVE f[i] = step[<<f[i - 1], t[i]>>]
  <2>1. i \in 0 .. Len(t) /\ i - 1 \in 0 .. Len(t)
    BY <1>1
  <2> QED
    BY <1>3, <1>4, <2>1
<1> HIDE DEF f
<1> QED
  BY <1>5, <1>6, <1>7 DEF TakenFrom

\* Sequences one after the other, taken sequence by sequence.
Flattening(f, ss) ==
  /\ f[0] = <<>> /\ f[Len(ss)] = FlattenSeq(ss)
  /\ \A i \in 1 .. Len(ss) : f[i] = f[i - 1] \o ss[i]

LEMMA FlattenedSteps ==
  ASSUME NEW E, NEW ss \in Seq(Seq(E))
  PROVE  \E f \in [0 .. Len(ss) -> Seq(E)] : Flattening(f, ss)
<1> DEFINE n == Len(ss)
           step == [p \in Seq(E) \X Seq(E) |-> p[1] \o p[2]]
           Is(g) == g = [i \in 1 .. n |-> IF i = 1 THEN ss[i] ELSE g[i - 1] \o ss[i]]
           flatten == CHOOSE g : Is(g)
           none == SubSeq(ss, 1, 0)
<1>0. n \in Nat /\ \A i \in 1 .. n : ss[i] \in Seq(E)
  BY LenProperties, ElementOfSeq
<1>1. none = <<>> /\ none \in Seq(E)
  BY SubSeqEmpty, EmptySeq
<1>2. FlattenSeq(ss) = IF n = 0 THEN ss ELSE flatten[n]
  BY DEF FlattenSeq
<1>3. step \in [Seq(E) \X Seq(E) -> Seq(E)] /\ \A x, y \in Seq(E) : step[<<x, y>>] = x \o y
  BY ConcatProperties
<1> HIDE DEF step, none
<1>4. PICK h \in [SUBSET (1 .. Len(ss)) -> Seq(E)] : IsIter(h, step, none, ss)
  BY <1>1, <1>3, IterExists
<1>5. IsFoldOf(h, step, none, ss, Seq(E))
  BY <1>4 DEF IsIter, IsFoldOf
<1>6. PICK f \in [0 .. Len(ss) -> Seq(E)] : TakenFrom(f, h, step, none, ss)
  BY <1>1, <1>3, <1>5, FoldSteps
<1>7. f[0] = <<>>
  BY <1>1, <1>6 DEF TakenFrom
<1>8. \A i \in 1 .. n : f[i] = f[i - 1] \o ss[i]
  <2> TAKE i \in 1 .. n
  <2>0. i - 1 \in 0 .. Len(ss)
    BY <1>0
  <2>1. f[i - 1] \in Seq(E) /\ ss[i] \in Seq(E)
    BY <1>0, <2>0
  <2> QED
    BY <1>3, <1>6, <2>1 DEF TakenFrom
<1>9. CASE n = 0
  <2>1. ss = <<>>
    BY <1>9, EmptySeq
  <2> QED
    BY <1>2, <1>7, <1>8, <1>9, <2>1 DEF Flattening
<1>10. CASE n # 0
  <2>1. f[1] = ss[1]
    <3>1. 1 \in 1 .. n /\ 1 - 1 = 0
      BY <1>0, <1>10
    <3>2. ss[1] \in Seq(E)
      BY <1>0, <3>1
    <3>3. f[1] = <<>> \o ss[1]
      BY <1>7, <1>8, <3>1
    <3> QED
      BY <3>2, <3>3, ConcatEmptySeq
  <2> DEFINE g == [i \in 1 .. n |-> f[i]]
  <2>2. Is(g)
    <3>1. \A i \in 1 .. n : i # 1 => i - 1 \in 1 .. n
      BY <1>0
    <3>2. \A i \in 1 .. n : g[i] = IF i = 1 THEN ss[i] ELSE g[i - 1] \o ss[i]
      BY <1>8, <2>1, <3>1
    <3> QED
      BY <3>2
  <2>3. Is(flatten)
    <3> HIDE DEF g
    <3> QED
      BY <2>2
  <2> HIDE DEF flatten
  <2> DEFINE S == {i \in Nat : i # 0 => flatten[i] = f[i]}
  <2>4. 0 \in S
    OBVIOUS
  <2>5. ASSUME NEW i \in 1 .. n, i - 1 \in S PROVE i \in S
    <3>0. i \in Nat
      OBVIOUS
    <3>1. CASE i = 1
      <4>1. flatten[i] = f[i]
        BY <2>1, <2>3, <3>1
      <4> QED
        BY <3>0, <4>1
    <3>2. CASE i # 1
      <4>1. flatten[i - 1] = f[i - 1]
        BY <1>0, <2>5, <3>2
      <4>2. flatten[i] = flatten[i - 1] \o ss[i]
        BY <2>3, <3>2
      <4>3. flatten[i] = f[i]
        BY <1>8, <4>1, <4>2
      <4> QED
        BY <3>0, <4>3
    <3> QED
      BY <3>1, <3>2
  <2> HIDE DEF S
  <2>6. \A i \in 0 .. n : i \in S
    BY <1>0, <2>4, <2>5, InductionUpto
  <2>7. f[n] = FlattenSeq(ss)
    BY <1>0, <1>2, <1>10, <2>6 DEF S
  <2> QED
    BY <1>7, <1>8, <2>7 DEF Flattening
<1> QED
  BY <1>9, <1>10

\* The nodes of sequences one after the other are nodes.
LEMMA FlattenedType ==
  ASSUME NEW E, NEW ss \in Seq(Seq(E))
  PROVE  FlattenSeq(ss) \in Seq(E)
<1>1. PICK f \in [0 .. Len(ss) -> Seq(E)] : Flattening(f, ss)
  BY FlattenedSteps
<1> QED
  BY <1>1, LenProperties DEF Flattening
-----------------------------------------------------------------------------
(* A sequence less one of its places, and where things are in it.          *)

\* The places of a sequence that one node is taken from.
LEMMA RemovedSeq ==
  ASSUME NEW E, NEW s \in Seq(E), NEW at \in 1 .. Len(s)
  PROVE  /\ RemoveAt(s, at) \in Seq(E) /\ Len(RemoveAt(s, at)) = Len(s) - 1
         /\ \A i \in 1 .. Len(s) - 1 : RemoveAt(s, at)[i] = s[IF i < at THEN i ELSE i + 1]
<1> DEFINE u == SubSeq(s, 1, at - 1)
           v == SubSeq(s, at + 1, Len(s))
<1>1. Len(s) \in Nat /\ at \in Nat /\ 1 <= at /\ at <= Len(s)
  BY LenProperties
<1>2. u \in Seq(E) /\ Len(u) = at - 1 /\ \A i \in 1 .. at - 1 : u[i] = s[i]
  <2>1. CASE at = 1
    <3>1. u = <<>>
      BY <2>1, SubSeqEmpty
    <3> QED
      BY <2>1, <3>1, EmptySeq
  <2>2. CASE at > 1
    <3>1. 1 \in 1 .. Len(s) + 1 /\ at - 1 \in 1 - 1 .. Len(s)
      BY <1>1, <2>2
    <3> QED
      BY <1>1, <3>1, <2>2, SubSeqProperties
  <2> QED
    BY <1>1, <2>1, <2>2
<1>3. v \in Seq(E) /\ Len(v) = Len(s) - at /\ \A i \in 1 .. Len(s) - at : v[i] = s[at + i]
  <2>1. at + 1 \in 1 .. Len(s) + 1 /\ Len(s) \in at + 1 - 1 .. Len(s)
    BY <1>1
  <2> QED
    BY <1>1, <2>1, SubSeqProperties
<1> HIDE DEF u, v
<1>4. /\ u \o v \in Seq(E) /\ Len(u \o v) = Len(u) + Len(v)
      /\ \A i \in 1 .. Len(u) + Len(v) : (u \o v)[i] = IF i <= Len(u) THEN u[i] ELSE v[i - Len(u)]
  BY <1>2, <1>3, ConcatProperties
<1>5. RemoveAt(s, at) = u \o v
  BY DEF RemoveAt, u, v
<1>6. ASSUME NEW i \in 1 .. Len(s) - 1 PROVE (u \o v)[i] = s[IF i < at THEN i ELSE i + 1]
  <2>1. CASE i < at
    <3>1. i \in 1 .. at - 1 /\ i \in 1 .. Len(u) + Len(v) /\ i <= Len(u)
      BY <1>1, <1>2, <1>3, <2>1
    <3> QED
      BY <1>2, <1>4, <2>1, <3>1
  <2>2. CASE ~(i < at)
    <3>1. /\ i - Len(u) \in 1 .. Len(s) - at /\ i \in 1 .. Len(u) + Len(v) /\ ~(i <= Len(u))
          /\ at + (i - Len(u)) = i + 1
      BY <1>1, <1>2, <1>3, <2>2
    <3> QED
      BY <1>3, <1>4, <2>2, <3>1
  <2> QED
    BY <2>1, <2>2
<1>7. Len(u) + Len(v) = Len(s) - 1
  BY <1>1, <1>2, <1>3
<1> QED
  BY <1>4, <1>5, <1>6, <1>7

\* It repeats nothing if the sequence did not.
LEMMA RemovedIsInjective ==
  ASSUME NEW E, NEW s \in Seq(E), IsInjective(s), NEW at \in 1 .. Len(s)
  PROVE  IsInjective(RemoveAt(s, at))
<1>1. /\ Len(s) \in Nat /\ DOMAIN s = 1 .. Len(s) /\ DOMAIN RemoveAt(s, at) = 1 .. Len(s) - 1
      /\ \A i \in 1 .. Len(s) - 1 : RemoveAt(s, at)[i] = s[IF i < at THEN i ELSE i + 1]
  BY RemovedSeq, LenProperties
<1>2. \A i, j \in 1 .. Len(s) - 1 :
        LET i1 == IF i < at THEN i ELSE i + 1
            j1 == IF j < at THEN j ELSE j + 1
        IN i1 \in 1 .. Len(s) /\ j1 \in 1 .. Len(s) /\ (i1 = j1 => i = j)
  BY <1>1
<1> QED
  BY <1>1, <1>2 DEF IsInjective

\* The first place a node is at.
LEMMA FoundInSeq ==
  ASSUME NEW E, NEW s \in Seq(E), NEW n \in ToSet(s)
  PROVE  /\ SelectInSeq(s, LAMBDA m : m = n) \in 1 .. Len(s)
         /\ s[SelectInSeq(s, LAMBDA m : m = n)] = n
<1> DEFINE I == {i \in 1 .. Len(s) : s[i] = n}
<1>1. Len(s) \in Nat /\ DOMAIN s = 1 .. Len(s)
  BY LenProperties
<1>2. I # {} /\ I \in SUBSET Nat
  BY <1>1 DEF ToSet
<1>3. PICK least \in I : \A k \in I : least <= k
  BY <1>2, LeastNatural
<1>4. SelectInSeq(s, LAMBDA m : m = n) = Min(I)
  BY <1>2 DEF SelectInSeq
<1>5. Min(I) \in I
  BY <1>3 DEF Min
<1> QED
  BY <1>4, <1>5

\* A reversed sequence holds the same at other places.
LEMMA ReversedSeq ==
  ASSUME NEW E, NEW s \in Seq(E)
  PROVE  Reverse(s) \in Seq(E)
<1>1. Len(s) \in Nat /\ \A i \in 1 .. Len(s) : s[i] \in E
  BY LenProperties, ElementOfSeq
<1>2. \A i \in 1 .. Len(s) : Len(s) - i + 1 \in 1 .. Len(s)
  BY <1>1
<1>3. \A i \in 1 .. Len(s) : Reverse(s)[i] \in E
  BY <1>1, <1>2 DEF Reverse
<1> QED
  BY <1>1, <1>3, IsASeq DEF Reverse
-----------------------------------------------------------------------------
(* Sequences that list the elements of a set once.                         *)

Lists(s, S, E) == s \in Seq(E) /\ IsInjective(s) /\ ToSet(s) = S

LEMMA ListFacts ==
  ASSUME NEW E, NEW S, NEW s, Lists(s, S, E)
  PROVE  /\ s \in Seq(E) /\ Len(s) \in Nat /\ DOMAIN s = 1 .. Len(s) /\ S \in SUBSET E
         /\ \A i \in 1 .. Len(s) : s[i] \in S /\ s[i] \in E
         /\ \A x \in S : \E i \in 1 .. Len(s) : s[i] = x
         /\ \A i, j \in 1 .. Len(s) : s[i] = s[j] => i = j
  BY LenProperties, ElementOfSeq DEF Lists, IsInjective, ToSet

LEMMA ListsWhen ==
  ASSUME NEW E, NEW S, NEW s \in Seq(E), \A i \in 1 .. Len(s) : s[i] \in S,
         \A x \in S : \E i \in 1 .. Len(s) : s[i] = x,
         \A i, j \in 1 .. Len(s) : s[i] = s[j] => i = j
  PROVE  Lists(s, S, E)
  BY LenProperties DEF Lists, IsInjective, ToSet

LEMMA ListEmpty ==
  ASSUME NEW E
  PROVE  Lists(<<>>, {}, E)
<1> DEFINE s == SubSeq(<<>>, 1, 0)
<1>1. s = <<>> /\ s \in Seq(E) /\ Len(s) = 0
  BY SubSeqEmpty, EmptySeq
<1> HIDE DEF s
<1>2. \A i \in 1 .. Len(s) : FALSE
  BY <1>1
<1>3. Lists(s, {}, E)
  BY <1>1, <1>2, ListsWhen
<1> QED
  BY <1>1, <1>3

LEMMA ListIsEmpty ==
  ASSUME NEW E, NEW S, NEW s, Lists(s, S, E)
  PROVE  s = <<>> <=> S = {}
<1>1. s = <<>> <=> Len(s) = 0
  BY ListFacts, EmptySeq
<1>2. Len(s) # 0 => s[1] \in S
  BY ListFacts
<1> QED
  BY <1>1, <1>2, ListFacts

LEMMA ListOne ==
  ASSUME NEW E, NEW x \in E
  PROVE  Lists(<<x>>, {x}, E)
<1>1. <<x>> \in Seq(E) /\ Len(<<x>>) = 1 /\ <<x>>[1] = x
  OBVIOUS
<1> DEFINE s == <<x>>
<1>2. s \in Seq(E) /\ Len(s) = 1 /\ s[1] = x
  BY <1>1
<1> HIDE DEF s
<1>3. 1 \in 1 .. Len(s) /\ \A i \in 1 .. Len(s) : i = 1
  BY <1>2
<1>4. Lists(s, {x}, E)
  BY <1>2, <1>3, ListsWhen
<1> QED
  BY <1>4 DEF s

LEMMA ListAppend ==
  ASSUME NEW E, NEW S, NEW s, Lists(s, S, E), NEW x \in E \ S
  PROVE  Lists(Append(s, x), S \cup {x}, E)
<1> DEFINE t == Append(s, x)
<1>1. /\ t \in Seq(E) /\ Len(t) = Len(s) + 1
      /\ \A i \in 1 .. Len(s) : t[i] = s[i]
      /\ t[Len(s) + 1] = x
  BY ListFacts, AppendProperties
<1> HIDE DEF t
<1>2. Len(s) \in Nat /\ \A i \in 1 .. Len(t) : i = Len(s) + 1 \/ i \in 1 .. Len(s)
  BY <1>1, ListFacts
<1>3. Len(s) + 1 \in 1 .. Len(t) /\ \A i \in 1 .. Len(s) : i \in 1 .. Len(t)
  BY <1>1, <1>2
<1>4. \A i \in 1 .. Len(t) : t[i] \in S \cup {x}
  BY <1>1, <1>2, ListFacts
<1>5. \A y \in S \cup {x} : \E i \in 1 .. Len(t) : t[i] = y
  BY <1>1, <1>3, ListFacts
<1>6. \A i, j \in 1 .. Len(t) : t[i] = t[j] => i = j
  BY <1>1, <1>2, ListFacts
<1> QED
  BY <1>1, <1>4, <1>5, <1>6, ListsWhen DEF t

LEMMA ListConcat ==
  ASSUME NEW E, NEW S, NEW s, Lists(s, S, E), NEW T, NEW t, Lists(t, T, E), S \cap T = {}
  PROVE  Lists(s \o t, S \cup T, E)
<1> DEFINE u == s \o t
<1>1. /\ u \in Seq(E) /\ Len(u) = Len(s) + Len(t)
      /\ \A i \in 1 .. Len(s) + Len(t) : u[i] = IF i <= Len(s) THEN s[i] ELSE t[i - Len(s)]
  BY ListFacts, ConcatProperties
<1> HIDE DEF u
<1>2. Len(s) \in Nat /\ Len(t) \in Nat
  BY ListFacts
<1>3. \A i \in 1 .. Len(u) : IF i <= Len(s) THEN i \in 1 .. Len(s) /\ u[i] = s[i]
                             ELSE i - Len(s) \in 1 .. Len(t) /\ u[i] = t[i - Len(s)]
  BY <1>1, <1>2
<1>4. \A i \in 1 .. Len(s) : i \in 1 .. Len(u) /\ u[i] = s[i]
  BY <1>1, <1>2
<1>5. \A i \in 1 .. Len(t) : Len(s) + i \in 1 .. Len(u) /\ u[Len(s) + i] = t[i]
  <2> TAKE i \in 1 .. Len(t)
  <2>1. Len(s) + i \in 1 .. Len(s) + Len(t) /\ ~(Len(s) + i <= Len(s)) /\ (Len(s) + i) - Len(s) = i
    BY <1>2
  <2> QED
    BY <1>1, <2>1
<1>6. \A i \in 1 .. Len(u) : u[i] \in S \cup T
  BY <1>3, ListFacts
<1>7. \A x \in S \cup T : \E i \in 1 .. Len(u) : u[i] = x
  <2> TAKE x \in S \cup T
  <2>1. CASE x \in S
    <3>1. PICK i \in 1 .. Len(s) : s[i] = x
      BY <2>1, ListFacts
    <3> QED
      BY <1>4, <3>1
  <2>2. CASE x \in T
    <3>1. PICK i \in 1 .. Len(t) : t[i] = x
      BY <2>2, ListFacts
    <3> QED
      BY <1>5, <3>1
  <2> QED
    BY <2>1, <2>2
<1>8. \A i, j \in 1 .. Len(u) : u[i] = u[j] => i = j
  <2> TAKE i, j \in 1 .. Len(u)
  <2> HAVE u[i] = u[j]
  <2>1. CASE i <= Len(s) /\ j <= Len(s)
    BY <1>3, <2>1, ListFacts
  <2>2. CASE ~(i <= Len(s)) /\ ~(j <= Len(s))
    <3>1. i - Len(s) = j - Len(s)
      BY <1>3, <2>2, ListFacts
    <3> QED
      BY <1>1, <1>2, <3>1
  <2>3. CASE i <= Len(s) /\ ~(j <= Len(s))
    <3>1. u[i] \in S
      <4>1. i \in 1 .. Len(s) /\ u[i] = s[i]
        BY <1>3, <2>3
      <4> QED
        BY <4>1, ListFacts
    <3>2. u[j] \in T
      <4>1. j - Len(s) \in 1 .. Len(t) /\ u[j] = t[j - Len(s)]
        BY <1>3, <2>3
      <4> QED
        BY <4>1, ListFacts
    <3> QED
      BY <3>1, <3>2
  <2>4. CASE ~(i <= Len(s)) /\ j <= Len(s)
    <3>1. u[j] \in S
      BY <1>3, <2>4, ListFacts
    <3>2. u[i] \in T
      <4>1. i - Len(s) \in 1 .. Len(t) /\ u[i] = t[i - Len(s)]
        BY <1>3, <2>4
      <4> QED
        BY <4>1, ListFacts
    <3> QED
      BY <3>1, <3>2
  <2> QED
    BY <2>1, <2>2, <2>3, <2>4
<1> QED
  BY <1>1, <1>6, <1>7, <1>8, ListsWhen DEF u

LEMMA ListRemoved ==
  ASSUME NEW E, NEW S, NEW s, Lists(s, S, E), NEW at \in 1 .. Len(s)
  PROVE  Lists(RemoveAt(s, at), S \ {s[at]}, E)
<1> DEFINE t == RemoveAt(s, at)
<1>0. s \in Seq(E)
  BY ListFacts
<1>1. /\ t \in Seq(E) /\ Len(t) = Len(s) - 1
      /\ \A i \in 1 .. Len(s) - 1 : t[i] = s[IF i < at THEN i ELSE i + 1]
  BY <1>0, RemovedSeq
<1> HIDE DEF t
<1>2. Len(s) \in Nat /\ at \in Nat
  BY ListFacts
<1>3. \A i \in 1 .. Len(t) :
        LET j == IF i < at THEN i ELSE i + 1
        IN j \in 1 .. Len(s) /\ j # at /\ t[i] = s[j]
  BY <1>1, <1>2
<1>4. \A j \in 1 .. Len(s) : j # at => \E i \in 1 .. Len(t) : t[i] = s[j]
  <2> TAKE j \in 1 .. Len(s)
  <2> HAVE j # at
  <2> DEFINE i == IF j < at THEN j ELSE j - 1
  <2>1. i \in 1 .. Len(t) /\ (IF i < at THEN i ELSE i + 1) = j
    BY <1>1, <1>2
  <2> HIDE DEF i
  <2> QED
    BY <1>1, <2>1
<1>5. \A i \in 1 .. Len(t) : t[i] \in S \ {s[at]}
  BY <1>3, ListFacts
<1>6. \A x \in S \ {s[at]} : \E i \in 1 .. Len(t) : t[i] = x
  BY <1>4, ListFacts
<1>7. \A i, j \in 1 .. Len(t) : t[i] = t[j] => i = j
  <2> TAKE i, j \in 1 .. Len(t)
  <2> HAVE t[i] = t[j]
  <2> DEFINE k == IF i < at THEN i ELSE i + 1
             l == IF j < at THEN j ELSE j + 1
  <2>1. k \in 1 .. Len(s) /\ l \in 1 .. Len(s) /\ s[k] = s[l]
    BY <1>3
  <2>2. k = l => i = j
    BY <1>1, <1>2
  <2> HIDE DEF k, l
  <2>3. k = l
    BY <2>1, ListFacts
  <2> QED
    BY <2>2, <2>3
<1> QED
  BY <1>1, <1>5, <1>6, <1>7, ListsWhen DEF t

LEMMA ListExcept ==
  ASSUME NEW E, NEW S, NEW s, Lists(s, S, E), NEW at \in 1 .. Len(s), NEW x \in E, x \in S => x = s[at]
  PROVE  Lists([s EXCEPT ![at] = x], (S \ {s[at]}) \cup {x}, E)
<1> DEFINE t == [s EXCEPT ![at] = x]
<1>1. /\ t \in Seq(E) /\ Len(t) = Len(s)
      /\ \A i \in 1 .. Len(s) : t[i] = IF i = at THEN x ELSE s[i]
  BY ListFacts, ExceptSeq
<1> HIDE DEF t
<1>2. \A i \in 1 .. Len(t) : t[i] \in (S \ {s[at]}) \cup {x}
  BY <1>1, ListFacts
<1>3. \A y \in (S \ {s[at]}) \cup {x} : \E i \in 1 .. Len(t) : t[i] = y
  <2> TAKE y \in (S \ {s[at]}) \cup {x}
  <2>1. CASE y = x
    BY <1>1, <2>1
  <2>2. CASE y # x
    <3>1. PICK i \in 1 .. Len(s) : s[i] = y
      BY <2>2, ListFacts
    <3>2. i # at
      BY <2>2, <3>1
    <3> QED
      BY <1>1, <3>1, <3>2
  <2> QED
    BY <2>1, <2>2
<1>4. \A i, j \in 1 .. Len(t) : t[i] = t[j] => i = j
  BY <1>1, ListFacts
<1> QED
  BY <1>1, <1>2, <1>3, <1>4, ListsWhen DEF t

LEMMA ListTail ==
  ASSUME NEW E, NEW S, NEW s, Lists(s, S, E), s # <<>>
  PROVE  /\ Lists(Tail(s), S \ {s[1]}, E) /\ Head(s) = s[1] /\ s[1] \in S
         /\ SubSeq(s, 2, Len(s)) = Tail(s)
<1>1. s \in Seq(E) /\ Len(s) \in Nat /\ Len(s) >= 1
  BY ListFacts, EmptySeq
<1>2. Head(s) = s[1] /\ s[1] \in S
  BY <1>1, ListFacts
<1>3. SubSeq(s, 2, Len(s)) = Tail(s)
  BY <1>1, TailIsSubSeq
<1> DEFINE t == Tail(s)
<1>4. t \in Seq(E) /\ Len(t) = Len(s) - 1 /\ \A i \in 1 .. Len(t) : t[i] = s[i + 1]
  BY <1>1, HeadTailProperties
<1> HIDE DEF t
<1>5. \A i \in 1 .. Len(t) : i + 1 \in 1 .. Len(s) /\ i + 1 # 1
  BY <1>1, <1>4
<1>6. \A i \in 1 .. Len(t) : t[i] \in S \ {s[1]}
  BY <1>1, <1>4, <1>5, ListFacts
<1>7. \A x \in S \ {s[1]} : \E i \in 1 .. Len(t) : t[i] = x
  <2> TAKE x \in S \ {s[1]}
  <2>1. PICK j \in 1 .. Len(s) : s[j] = x
    BY ListFacts
  <2>2. j - 1 \in 1 .. Len(t) /\ (j - 1) + 1 = j
    BY <1>1, <1>4, <2>1
  <2> QED
    BY <1>4, <2>1, <2>2
<1>8. \A i, j \in 1 .. Len(t) : t[i] = t[j] => i = j
  <2> TAKE i, j \in 1 .. Len(t)
  <2> HAVE t[i] = t[j]
  <2>1. i + 1 = j + 1
    BY <1>4, <1>5, ListFacts
  <2> QED
    BY <1>4, <2>1
<1>9. Lists(t, S \ {s[1]}, E)
  BY <1>4, <1>6, <1>7, <1>8, ListsWhen
<1> QED
  BY <1>2, <1>3, <1>9 DEF t

\* A new element behind the first.
LEMMA ListSecond ==
  ASSUME NEW E, NEW S, NEW s, Lists(s, S, E), s # <<>>, NEW x \in E \ S
  PROVE  Lists(<<Head(s), x>> \o Tail(s), S \cup {x}, E)
<1> DEFINE two == <<Head(s), x>>
<1>1. Head(s) = s[1] /\ s[1] \in S /\ Lists(Tail(s), S \ {s[1]}, E)
  BY ListTail
<1>2. s[1] \in E
  BY <1>1, ListFacts
<1>3. two \in Seq(E) /\ Len(two) = 2 /\ two[1] = s[1] /\ two[2] = x
  BY <1>1, <1>2
<1> HIDE DEF two
<1>4. Lists(two, {s[1], x}, E)
  <2>1. \A i \in 1 .. Len(two) : i = 1 \/ i = 2
    BY <1>3
  <2>2. 1 \in 1 .. Len(two) /\ 2 \in 1 .. Len(two)
    BY <1>3
  <2> QED
    BY <1>1, <1>3, <2>1, <2>2, ListsWhen
<1>5. {s[1], x} \cap (S \ {s[1]}) = {} /\ {s[1], x} \cup (S \ {s[1]}) = S \cup {x}
  BY <1>1
<1>6. Lists(two \o Tail(s), S \cup {x}, E)
  BY <1>1, <1>4, <1>5, ListConcat
<1> QED
  BY <1>6 DEF two

\* Its length is the number of elements.
LEMMA ListLength ==
  ASSUME NEW E, NEW S, NEW s, Lists(s, S, E)
  PROVE  IsFiniteSet(S) /\ Cardinality(S) = Len(s)
<1>1. s \in [1 .. Len(s) -> S]
  <2>1. s \in [1 .. Len(s) -> E]
    BY ListFacts, LenProperties
  <2> QED
    BY <2>1, ListFacts
<1>2. /\ \A i, j \in 1 .. Len(s) : s[i] = s[j] => i = j
      /\ \A x \in S : \E i \in 1 .. Len(s) : s[i] = x
  BY ListFacts
<1>3. ExistsBijection(1 .. Len(s), S)
  <2>1. s \in Bijection(1 .. Len(s), S)
    BY <1>1, <1>2 DEF Bijection, Injection, Surjection, IsInjective
  <2> QED
    BY <2>1 DEF ExistsBijection
<1> QED
  BY <1>3, ListFacts, FS_CountingElements, FS_NatBijection

\* Lists of sets that have nothing in common.
LEMMA ListFlat ==
  ASSUME NEW E, NEW ss \in Seq(Seq(E)), NEW P, \A i \in 1 .. Len(ss) : Lists(ss[i], P[i], E),
         \A i, j \in 1 .. Len(ss) : i # j => P[i] \cap P[j] = {}
  PROVE  Lists(FlattenSeq(ss), UNION {P[i] : i \in 1 .. Len(ss)}, E)
<1> DEFINE Upto(i) == UNION {P[j] : j \in 1 .. i}
<1>0. Len(ss) \in Nat
  BY LenProperties
<1>1. PICK f \in [0 .. Len(ss) -> Seq(E)] : Flattening(f, ss)
  BY FlattenedSteps
<1> DEFINE S == {i \in Nat : Lists(f[i], Upto(i), E)}
<1>2. 0 \in S
  <2>1. Upto(0) = {}
    OBVIOUS
  <2> HIDE DEF Upto
  <2> QED
    BY <1>1, <2>1, ListEmpty DEF Flattening
<1>3. ASSUME NEW i \in 1 .. Len(ss), i - 1 \in S PROVE i \in S
  <2>1. Lists(f[i - 1], Upto(i - 1), E) /\ Lists(ss[i], P[i], E)
    BY <1>3
  <2>2. Upto(i - 1) \cap P[i] = {}
    <3>1. \A j \in 1 .. i - 1 : j \in 1 .. Len(ss) /\ j # i
      BY <1>0
    <3> QED
      BY <3>1
  <2>3. Upto(i) = Upto(i - 1) \cup P[i]
    <3>1. 1 .. i = (1 .. (i - 1)) \cup {i}
      BY <1>0
    <3> QED
      BY <3>1
  <2>4. f[i] = f[i - 1] \o ss[i]
    BY <1>1 DEF Flattening
  <2> HIDE DEF Upto
  <2>5. Lists(f[i - 1] \o ss[i], Upto(i - 1) \cup P[i], E)
    BY <2>1, <2>2, ListConcat
  <2>6. i \in Nat
    BY <1>0
  <2> QED
    BY <2>3, <2>4, <2>5, <2>6
<1> HIDE DEF S
<1>4. \A i \in 0 .. Len(ss) : i \in S
  BY <1>0, <1>2, <1>3, InductionUpto
<1>5. Len(ss) \in S
  BY <1>0, <1>4
<1> QED
  BY <1>1, <1>5 DEF S, Flattening
-----------------------------------------------------------------------------
(* Parts of a sequence.                                                    *)

LEMMA Segment ==
  ASSUME NEW E, NEW s \in Seq(E), NEW a \in Nat \ {0}, NEW b \in Int, a - 1 <= b, b <= Len(s)
  PROVE  /\ SubSeq(s, a, b) \in Seq(E) /\ Len(SubSeq(s, a, b)) = b - a + 1
         /\ \A i \in 1 .. b - a + 1 : SubSeq(s, a, b)[i] = s[a + i - 1]
<1>1. Len(s) \in Nat /\ a \in 1 .. Len(s) + 1 /\ b \in a - 1 .. Len(s)
  BY LenProperties
<1> QED
  BY <1>1, SubSeqProperties

\* The sequence t is s with x at a place more.
HasMore(t, s, at, x) ==
  /\ Len(t) = Len(s) + 1
  /\ \A i \in 1 .. Len(s) + 1 : t[i] = IF i < at THEN s[i] ELSE IF i = at THEN x ELSE s[i - 1]

LEMMA InsertedSeq ==
  ASSUME NEW E, NEW s \in Seq(E), NEW at \in 1 .. Len(s), NEW x \in E
  PROVE  InsertAt(s, at, x) \in Seq(E) /\ HasMore(InsertAt(s, at, x), s, at, x)
<1> DEFINE u == SubSeq(s, 1, at - 1)
           v == SubSeq(s, at, Len(s))
           w == u \o <<x>>
<1>1. Len(s) \in Nat /\ at \in Nat /\ 1 <= at /\ at <= Len(s)
  BY LenProperties
<1>2. u \in Seq(E) /\ Len(u) = at - 1 /\ \A i \in 1 .. at - 1 : u[i] = s[i]
  <2> DEFINE b == at - 1
  <2>1. b \in Int /\ 1 - 1 <= b /\ b <= Len(s) /\ b - 1 + 1 = at - 1
    BY <1>1
  <2> HIDE DEF b
  <2>2. /\ SubSeq(s, 1, b) \in Seq(E) /\ Len(SubSeq(s, 1, b)) = b - 1 + 1
        /\ \A i \in 1 .. b - 1 + 1 : SubSeq(s, 1, b)[i] = s[1 + i - 1]
    BY <2>1, Segment
  <2>3. \A i \in 1 .. at - 1 : 1 + i - 1 = i
    OBVIOUS
  <2> QED
    BY <2>1, <2>2, <2>3 DEF b
<1>3. v \in Seq(E) /\ Len(v) = Len(s) - at + 1 /\ \A i \in 1 .. Len(s) - at + 1 : v[i] = s[at + i - 1]
  BY <1>1, Segment
<1> HIDE DEF u, v
<1>4. <<x>> \in Seq(E) /\ Len(<<x>>) = 1 /\ <<x>>[1] = x
  OBVIOUS
<1>5. w \in Seq(E) /\ Len(w) = at /\ w[at] = x /\ \A i \in 1 .. at - 1 : w[i] = s[i]
  <2> DEFINE o == <<x>>
  <2>1. o \in Seq(E) /\ Len(o) = 1 /\ o[1] = x
    BY <1>4
  <2> HIDE DEF o
  <2>2. /\ u \o o \in Seq(E) /\ Len(u \o o) = Len(u) + Len(o)
        /\ \A i \in 1 .. Len(u) + Len(o) : (u \o o)[i] = IF i <= Len(u) THEN u[i] ELSE o[i - Len(u)]
    BY <1>2, <2>1, ConcatProperties
  <2>3. at \in 1 .. Len(u) + Len(o) /\ ~(at <= Len(u)) /\ at - Len(u) = 1
    BY <1>1, <1>2, <2>1
  <2>4. \A i \in 1 .. at - 1 : i \in 1 .. Len(u) + Len(o) /\ i <= Len(u)
    BY <1>1, <1>2, <2>1
  <2>5. Len(u) + Len(o) = at
    BY <1>1, <1>2, <2>1
  <2>6. u \o o = w
    BY DEF o
  <2> HIDE DEF w
  <2> QED
    BY <1>2, <2>1, <2>2, <2>3, <2>4, <2>5, <2>6
<1> HIDE DEF w
<1>6. /\ w \o v \in Seq(E) /\ Len(w \o v) = Len(w) + Len(v)
      /\ \A i \in 1 .. Len(w) + Len(v) : (w \o v)[i] = IF i <= Len(w) THEN w[i] ELSE v[i - Len(w)]
  BY <1>3, <1>5, ConcatProperties
<1>7. InsertAt(s, at, x) = w \o v
  BY DEF InsertAt, u, v, w
<1>8. Len(w) + Len(v) = Len(s) + 1
  BY <1>1, <1>3, <1>5
<1>9. ASSUME NEW i \in 1 .. Len(s) + 1 PROVE (w \o v)[i] = IF i < at THEN s[i] ELSE IF i = at THEN x ELSE s[i - 1]
  <2>1. CASE i <= at
    <3>1. (w \o v)[i] = w[i]
      BY <1>5, <1>6, <1>8, <2>1
    <3>2. i < at => i \in 1 .. at - 1
      BY <1>1
    <3>3. ~(i < at) => i = at
      BY <1>1, <2>1
    <3> QED
      BY <1>5, <3>1, <3>2, <3>3
  <2>2. CASE ~(i <= at)
    <3>1. (w \o v)[i] = v[i - at]
      BY <1>5, <1>6, <1>8, <2>2
    <3>2. i - at \in 1 .. Len(s) - at + 1 /\ at + (i - at) - 1 = i - 1 /\ ~(i < at) /\ i # at
      BY <1>1, <2>2
    <3>3. v[i - at] = s[at + (i - at) - 1]
      BY <1>3, <3>2
    <3> QED
      BY <3>1, <3>2, <3>3
  <2> QED
    BY <2>1, <2>2
<1> QED
  BY <1>6, <1>7, <1>8, <1>9 DEF HasMore

LEMMA ListInserted ==
  ASSUME NEW E, NEW S, NEW s, Lists(s, S, E), NEW at \in 1 .. Len(s), NEW x \in E \ S
  PROVE  Lists(InsertAt(s, at, x), S \cup {x}, E)
<1> DEFINE t == InsertAt(s, at, x)
<1>0. s \in Seq(E)
  BY ListFacts
<1>1. /\ t \in Seq(E) /\ Len(t) = Len(s) + 1
      /\ \A i \in 1 .. Len(s) + 1 : t[i] = IF i < at THEN s[i] ELSE IF i = at THEN x ELSE s[i - 1]
  <2>1. t \in Seq(E) /\ HasMore(t, s, at, x)
    BY <1>0, InsertedSeq
  <2> QED
    BY <2>1 DEF HasMore
<1> HIDE DEF t
<1>2. Len(s) \in Nat /\ at \in Nat
  BY ListFacts
<1>3. \A i \in 1 .. Len(t) : IF i = at THEN t[i] = x
                             ELSE LET j == IF i < at THEN i ELSE i - 1
                                  IN j \in 1 .. Len(s) /\ t[i] = s[j] /\ t[i] \in S
  <2> TAKE i \in 1 .. Len(t)
  <2>1. CASE i = at
    BY <1>1, <2>1
  <2>2. CASE i # at
    <3> DEFINE j == IF i < at THEN i ELSE i - 1
    <3>1. j \in 1 .. Len(s) /\ t[i] = s[j]
      BY <1>1, <1>2, <2>2
    <3> HIDE DEF j
    <3>2. s[j] \in S
      BY <3>1, ListFacts
    <3> QED
      BY <2>2, <3>1, <3>2 DEF j
  <2> QED
    BY <2>1, <2>2
<1>4. \A j \in 1 .. Len(s) : \E i \in 1 .. Len(t) : t[i] = s[j]
  <2> TAKE j \in 1 .. Len(s)
  <2> DEFINE i == IF j < at THEN j ELSE j + 1
  <2>1. i \in 1 .. Len(t) /\ i # at /\ (IF i < at THEN i ELSE i - 1) = j
    BY <1>1, <1>2
  <2> HIDE DEF i
  <2> QED
    BY <1>3, <2>1
<1>5. \A i \in 1 .. Len(t) : t[i] \in S \cup {x}
  BY <1>3
<1>6. \A y \in S \cup {x} : \E i \in 1 .. Len(t) : t[i] = y
  <2>0. at \in 1 .. Len(t)
    BY <1>1, <1>2
  <2>1. at \in 1 .. Len(t) /\ t[at] = x
    BY <1>3, <2>0
  <2>2. \A y \in S : \E j \in 1 .. Len(s) : s[j] = y
    BY ListFacts
  <2>3. \A y \in S : \E i \in 1 .. Len(t) : t[i] = y
    BY <1>4, <2>2
  <2> QED
    BY <2>1, <2>3
<1>7. \A i, j \in 1 .. Len(t) : t[i] = t[j] => i = j
  <2> TAKE i, j \in 1 .. Len(t)
  <2> HAVE t[i] = t[j]
  <2>1. CASE i # at /\ j # at
    <3> DEFINE i1 == IF i < at THEN i ELSE i - 1
               j1 == IF j < at THEN j ELSE j - 1
    <3>1. i1 \in 1 .. Len(s) /\ j1 \in 1 .. Len(s) /\ s[i1] = s[j1]
      BY <1>3, <2>1
    <3>2. i1 = j1 => i = j
      BY <1>1, <1>2, <2>1
    <3> HIDE DEF i1, j1
    <3>3. i1 = j1
      BY <3>1, ListFacts
    <3> QED
      BY <3>2, <3>3
  <2>2. CASE i = at /\ j # at
    <3>1. t[i] = x /\ t[j] \in S
      BY <1>3, <2>2
    <3> QED
      BY <3>1
  <2>3. CASE i # at /\ j = at
    <3>1. t[j] = x /\ t[i] \in S
      BY <1>3, <2>3
    <3> QED
      BY <3>1
  <2> QED
    BY <2>1, <2>2, <2>3
<1> QED
  BY <1>1, <1>5, <1>6, <1>7, ListsWhen DEF t

-----------------------------------------------------------------------------
(* Induction on sequences; members of sequences put together.              *)

\* Induction on sequences, said of a set.
LEMMA SeqInduction ==
  ASSUME NEW E, NEW S, <<>> \in S,
         \A s \in Seq(E) : \A x \in E : s \in S => Append(s, x) \in S
  PROVE  \A s \in Seq(E) : s \in S
<1> DEFINE T == {n \in Nat : \A s \in Seq(E) : Len(s) = n => s \in S}
<1>1. T \in SUBSET Nat
  OBVIOUS
<1>2. 0 \in T
  BY EmptySeq
<1>3. ASSUME NEW n \in Nat, n \in T PROVE n + 1 \in T
  <2> SUFFICES ASSUME NEW s \in Seq(E), Len(s) = n + 1 PROVE s \in S
    OBVIOUS
  <2>1. s # <<>>
    BY EmptySeq
  <2>2. PICK r \in Seq(E), x \in E : s = Append(r, x)
    BY <2>1, SequenceEmptyOrAppend
  <2>3. Len(r) = n
    <3>1. Len(r) \in Nat /\ Len(s) = Len(r) + 1
      BY <2>2, LenProperties, AppendProperties
    <3> QED
      BY <3>1
  <2> QED
    BY <1>3, <2>2, <2>3
<1> HIDE DEF T
<1>4. \A n \in Nat : n \in T
  BY <1>1, <1>2, <1>3, SetInduction
<1> TAKE s \in Seq(E)
<1>5. Len(s) \in Nat
  BY LenProperties
<1> QED
  BY <1>4, <1>5 DEF T

\* The empty sequence has no members.
LEMMA SetOfEmpty == ToSet(<<>>) = {} /\ IsInjective(<<>>)
<1>1. <<>> \in Seq({}) /\ Len(<<>>) = 0
  BY EmptySeq
<1>2. DOMAIN <<>> = {}
  BY <1>1, LenProperties
<1> QED
  BY <1>2 DEF ToSet, IsInjective

\* A sequence with one more member.
LEMMA SetOfAppend ==
  ASSUME NEW E, NEW s \in Seq(E), NEW x \in E
  PROVE  /\ ToSet(Append(s, x)) = ToSet(s) \cup {x}
         /\ IsInjective(Append(s, x)) <=> IsInjective(s) /\ x \notin ToSet(s)
<1> DEFINE t == Append(s, x)
           n == Len(s)
<1>1. /\ t \in Seq(E) /\ Len(t) = n + 1 /\ (\A i \in 1 .. n : t[i] = s[i]) /\ t[n + 1] = x
      /\ n \in Nat /\ DOMAIN s = 1 .. n /\ DOMAIN t = 1 .. n + 1
  BY AppendProperties, LenProperties
<1> HIDE DEF t, n
<1>2. 1 .. n + 1 = 1 .. n \cup {n + 1} /\ n + 1 \notin 1 .. n
  BY <1>1
<1>3. ToSet(t) = ToSet(s) \cup {x}
  BY <1>1, <1>2 DEF ToSet
<1>4. IsInjective(t) <=> IsInjective(s) /\ x \notin ToSet(s)
  BY <1>1, <1>2 DEF ToSet, IsInjective
<1> QED
  BY <1>3, <1>4 DEF t

\* A sequence of one member.
LEMMA SetOfOne ==
  ASSUME NEW x
  PROVE  ToSet(<<x>>) = {x} /\ IsInjective(<<x>>) /\ <<x>> \in Seq({x}) /\ Append(<<>>, x) = <<x>>
<1>1. <<>> \in Seq({x}) /\ <<x>> \in Seq({x}) /\ Append(<<>>, x) = <<x>>
  BY EmptySeq
<1>2. ToSet(<<>>) = {} /\ IsInjective(<<>>)
  BY SetOfEmpty
<1> DEFINE e == <<>>
<1>3. e \in Seq({x}) /\ ToSet(e) = {} /\ IsInjective(e) /\ Append(e, x) = <<x>>
  BY <1>1, <1>2
<1> HIDE DEF e
<1>4. ToSet(Append(e, x)) = ToSet(e) \cup {x} /\ (IsInjective(Append(e, x)) <=> IsInjective(e) /\ x \notin ToSet(e))
  BY <1>3, SetOfAppend
<1>5. ToSet(<<x>>) = {x} /\ IsInjective(<<x>>)
  BY <1>3, <1>4
<1> QED
  BY <1>1, <1>5

\* The members of two sequences put together.
LEMMA SetOfConcat ==
  ASSUME NEW E, NEW s \in Seq(E), NEW t \in Seq(E)
  PROVE  /\ ToSet(s \o t) = ToSet(s) \cup ToSet(t)
         /\ IsInjective(s \o t) <=> IsInjective(s) /\ IsInjective(t) /\ ToSet(s) \cap ToSet(t) = {}
<1> DEFINE u == s \o t
           n == Len(s)
           m == Len(t)
<1>1. /\ u \in Seq(E) /\ Len(u) = n + m
      /\ \A i \in 1 .. n + m : u[i] = IF i <= n THEN s[i] ELSE t[i - n]
      /\ n \in Nat /\ m \in Nat /\ DOMAIN s = 1 .. n /\ DOMAIN t = 1 .. m /\ DOMAIN u = 1 .. n + m
  BY ConcatProperties, LenProperties
<1> HIDE DEF u, n, m
<1>2. \A i \in 1 .. n : i \in 1 .. n + m /\ u[i] = s[i]
  BY <1>1
<1>3. \A j \in 1 .. m : n + j \in 1 .. n + m /\ u[n + j] = t[j]
  <2> TAKE j \in 1 .. m
  <2>1. n + j \in 1 .. n + m /\ ~(n + j <= n) /\ (n + j) - n = j
    BY <1>1
  <2> QED
    BY <1>1, <2>1
<1>4. \A i \in 1 .. n + m : i \in 1 .. n \/ \E j \in 1 .. m : i = n + j
  <2> TAKE i \in 1 .. n + m
  <2>1. i \notin 1 .. n => i - n \in 1 .. m /\ i = n + (i - n)
    BY <1>1
  <2> QED
    BY <2>1
<1>5. ToSet(u) = ToSet(s) \cup ToSet(t)
  <2>1. /\ ToSet(u) = {u[i] : i \in 1 .. n + m}
        /\ ToSet(s) = {s[i] : i \in 1 .. n} /\ ToSet(t) = {t[j] : j \in 1 .. m}
    BY <1>1 DEF ToSet
  <2>2. ToSet(u) \subseteq ToSet(s) \cup ToSet(t)
    BY <1>2, <1>3, <1>4, <2>1
  <2>3. ToSet(s) \subseteq ToSet(u)
    BY <1>2, <2>1
  <2>4. ToSet(t) \subseteq ToSet(u)
    BY <1>3, <2>1
  <2> QED
    BY <2>2, <2>3, <2>4
<1>6. ASSUME IsInjective(u) PROVE IsInjective(s) /\ IsInjective(t) /\ ToSet(s) \cap ToSet(t) = {}
  <2>1. IsInjective(s)
    BY <1>1, <1>2, <1>6 DEF IsInjective
  <2>2. IsInjective(t)
    <3> SUFFICES ASSUME NEW i \in 1 .. m, NEW j \in 1 .. m, t[i] = t[j] PROVE i = j
      BY <1>1 DEF IsInjective
    <3>1. n + i = n + j
      BY <1>1, <1>3, <1>6 DEF IsInjective
    <3> QED
      BY <1>1, <3>1
  <2>3. ASSUME NEW i \in 1 .. n, NEW j \in 1 .. m, s[i] = t[j] PROVE FALSE
    <3>1. i = n + j
      BY <1>1, <1>2, <1>3, <1>6, <2>3 DEF IsInjective
    <3> QED
      BY <1>1, <3>1
  <2>4. ToSet(s) \cap ToSet(t) = {}
    BY <1>1, <2>3 DEF ToSet
  <2> QED
    BY <2>1, <2>2, <2>4
<1>7. ASSUME IsInjective(s), IsInjective(t), ToSet(s) \cap ToSet(t) = {} PROVE IsInjective(u)
  <2>1. \A i \in 1 .. n, j \in 1 .. m : s[i] # t[j]
    BY <1>1, <1>7 DEF ToSet
  <2> SUFFICES ASSUME NEW i \in 1 .. n + m, NEW j \in 1 .. n + m, u[i] = u[j] PROVE i = j
    BY <1>1 DEF IsInjective
  <2>2. CASE i \in 1 .. n
    <3>1. j \in 1 .. n
      BY <1>2, <1>3, <1>4, <2>1, <2>2
    <3> QED
      BY <1>1, <1>2, <1>7, <2>2, <3>1 DEF IsInjective
  <2>3. CASE \E k \in 1 .. m : i = n + k
    <3>1. PICK k \in 1 .. m : i = n + k
      BY <2>3
    <3>2. PICK l \in 1 .. m : j = n + l
      BY <1>2, <1>3, <1>4, <2>1, <3>1
    <3>3. t[k] = t[l]
      BY <1>3, <3>1, <3>2
    <3> QED
      BY <1>1, <1>7, <3>1, <3>2, <3>3 DEF IsInjective
  <2> QED
    BY <1>4, <2>2, <2>3
<1> QED
  BY <1>5, <1>6, <1>7 DEF u

\* Appending to the second of two sequences.
LEMMA AppendToConcat ==
  ASSUME NEW E, NEW s \in Seq(E), NEW t \in Seq(E), NEW x \in E
  PROVE  s \o Append(t, x) = Append(s \o t, x)
<1>1. <<x>> \in Seq(E) /\ s \o t \in Seq(E)
  BY ConcatProperties
<1>2. Append(t, x) = t \o <<x>> /\ Append(s \o t, x) = (s \o t) \o <<x>>
  BY <1>1, AppendIsConcat
<1>3. (s \o t) \o <<x>> = s \o (t \o <<x>>)
  BY <1>1, ConcatAssociative
<1> QED
  BY <1>2, <1>3

\* A member of a sequence has what is before it and what is behind it.
LEMMA SplitAt ==
  ASSUME NEW E, NEW s \in Seq(E), NEW x \in ToSet(s)
  PROVE  \E u, v \in Seq(E) : s = u \o <<x>> \o v
<1> DEFINE n == Len(s)
<1>1. n \in Nat /\ DOMAIN s = 1 .. n /\ \A j \in 1 .. n : s[j] \in E
  BY LenProperties, ElementOfSeq
<1> HIDE DEF n
<1>2. PICK i \in 1 .. n : s[i] = x
  BY <1>1 DEF ToSet
<1> DEFINE u == SubSeq(s, 1, i - 1)
           v == SubSeq(s, i + 1, n)
           r == SubSeq(s, i, n)
<1>3. u \in Seq(E) /\ v \in Seq(E)
  BY <1>1, Segment DEF n
<1>4. u \o r = s
  <2>1. 1 \in 1 .. n + 1 /\ i - 1 \in 1 - 1 .. n /\ n \in i - 1 .. n /\ (i - 1) + 1 = i
    BY <1>1
  <2>2. SubSeq(s, 1, i - 1) \o SubSeq(s, (i - 1) + 1, n) = SubSeq(s, 1, n)
    BY <2>1, ConcatAdjacentSubSeq DEF n
  <2>3. SubSeq(s, 1, n) = s
    BY SubSeqFull DEF n
  <2> QED
    BY <2>1, <2>2, <2>3
<1>5. r = <<x>> \o v
  <2>1. i \in 1 .. n /\ n \in i .. n
    BY <1>1
  <2> QED
    BY <1>2, <2>1, SubSeqRecursiveFirst DEF n
<1>6. <<x>> \in Seq(E)
  BY <1>1, <1>2
<1> HIDE DEF u, v, r
<1>7. u \o <<x>> \o v = u \o (<<x>> \o v)
  BY <1>3, <1>6, ConcatAssociative
<1> QED
  BY <1>3, <1>4, <1>5, <1>7
=============================================================================
