----------------------------- MODULE TableProofs -----------------------------
(***************************************************************************)
(* HashTable, for any names, payloads, sizes and any hash function: a table*)
(* answers as a map from names to payloads, and a scan gives every entry   *)
(* to its callback once.  Good(t, E) says that table t holds the entries   *)
(* E: each in the chain its name belongs to, once, and no two of one name. *)
(* A lemma for each operation says how E changes and which step of NameMap *)
(* that is.                                                                *)
(*                                                                         *)
(* Dictionary, for any strings, limits and sizes: every string stays what  *)
(* it is and where it is.  DictHolds(d, E) says that dictionary d holds    *)
(* the entries E; Addresses(E) is what growing leaves alone and a new      *)
(* string adds to.                                                         *)
(***************************************************************************)
EXTENDS HashTable, Dictionary, DataProofs
-----------------------------------------------------------------------------
(* Numbers.                                                                *)

LEMMA Euclid ==
  ASSUME NEW v \in Nat, NEW z \in Nat \ {0}
  PROVE  v = z * (v \div z) + (v % z) /\ v % z \in 0 .. z - 1 /\ v \div z \in Nat
  OBVIOUS

LEMMA EuclidUnique ==
  ASSUME NEW z \in Nat \ {0}, NEW q \in Int, NEW r \in 0 .. z - 1, NEW p \in Int, NEW s \in 0 .. z - 1,
         z * q + r = z * p + s
  PROVE  r = s
<1>1. z * (q - p) = s - r
  OBVIOUS
<1>2. q - p < 1
  <2> SUFFICES ASSUME q - p >= 1 PROVE FALSE
    OBVIOUS
  <2>1. z * (q - p) >= z * 1
    OBVIOUS
  <2> QED
    BY <1>1, <2>1
<1>3. q - p > -1
  <2> SUFFICES ASSUME p - q >= 1 PROVE FALSE
    OBVIOUS
  <2>1. z * (p - q) >= z * 1
    OBVIOUS
  <2>2. z * (p - q) = r - s
    OBVIOUS
  <2> QED
    BY <2>1, <2>2
<1>4. q = p
  BY <1>2, <1>3
<1> QED
  BY <1>4

\* A place in a table of a multiple of the size tells the place in the table.
LEMMA PlaceOfMultiple ==
  ASSUME NEW v \in Nat, NEW w \in Nat, NEW z \in Nat \ {0}, NEW m \in Nat \ {0},
         v % (m * z) = w % (m * z)
  PROVE  v % z = w % z
<1> DEFINE y == m * z
           a == v \div y
           b == w \div y
           r == v % y
<1>1. y \in Nat \ {0}
  OBVIOUS
<1>2. v = y * a + r /\ w = y * b + r /\ r \in Nat /\ a \in Nat /\ b \in Nat
  <2>1. w % y = r
    OBVIOUS
  <2> HIDE DEF y
  <2>2. v = y * (v \div y) + (v % y) /\ v % y \in 0 .. y - 1 /\ v \div y \in Nat
    BY <1>1, Euclid
  <2>3. w = y * (w \div y) + (w % y) /\ w \div y \in Nat
    BY <1>1, Euclid
  <2> QED
    BY <1>1, <2>1, <2>2, <2>3
<1>3. v = z * (v \div z) + (v % z) /\ w = z * (w \div z) + (w % z) /\ r = z * (r \div z) + (r % z)
      /\ v % z \in 0 .. z - 1 /\ w % z \in 0 .. z - 1 /\ r % z \in 0 .. z - 1
      /\ v \div z \in Nat /\ w \div z \in Nat /\ r \div z \in Nat
  BY <1>2, Euclid
<1> HIDE DEF a, b, r
<1>4. v = z * (m * a + r \div z) + (r % z) /\ w = z * (m * b + r \div z) + (r % z)
  <2>1. y * a = z * (m * a) /\ y * b = z * (m * b)
    BY <1>2
  <2> DEFINE ma == m * a
             mb == m * b
             d == r \div z
  <2>2. ma \in Nat /\ mb \in Nat /\ d \in Nat
    BY <1>2, <1>3
  <2>3. y * a = z * ma /\ y * b = z * mb
    BY <2>1
  <2> HIDE DEF ma, mb, d
  <2>4. z * (ma + d) = z * ma + z * d /\ z * (mb + d) = z * mb + z * d
    BY <2>2
  <2>5. r = z * d + (r % z)
    BY <1>3 DEF d
  <2>6. z * ma \in Nat /\ z * mb \in Nat /\ z * d \in Nat
    BY <2>2
  <2>7. v = z * (ma + d) + (r % z) /\ w = z * (mb + d) + (r % z)
    <3> DEFINE zma == z * ma
               zmb == z * mb
               zd == z * d
    <3>1. v = zma + r /\ w = zmb + r /\ r = zd + (r % z)
      BY <1>2, <2>3, <2>5
    <3>2. z * (ma + d) = zma + zd /\ z * (mb + d) = zmb + zd
      BY <2>4
    <3>3. zma \in Nat /\ zmb \in Nat /\ zd \in Nat /\ r % z \in Nat
      BY <1>3, <2>6
    <3> HIDE DEF zma, zmb, zd
    <3> QED
      BY <3>1, <3>2, <3>3
  <2> QED
    BY <2>7 DEF ma, mb, d
<1> DEFINE qa == m * a + r \div z
           qb == m * b + r \div z
<1>5. qa \in Int /\ qb \in Int
  <2>1. m * a \in Nat /\ m * b \in Nat
    BY <1>2
  <2> QED
    BY <1>3, <2>1
<1>6. /\ z * qa + (r % z) = z * (v \div z) + (v % z)
      /\ z * qb + (r % z) = z * (w \div z) + (w % z)
  BY <1>3, <1>4
<1> HIDE DEF qa, qb
<1>7. v \div z \in Int /\ w \div z \in Int
  BY <1>3
<1>8. v % z \in 0 .. z - 1 /\ w % z \in 0 .. z - 1 /\ r % z \in 0 .. z - 1
  BY <1>3
<1>9. r % z = v % z
  BY <1>5, <1>6, <1>7, <1>8, EuclidUnique, Zenon
<1>10. r % z = w % z
  BY <1>5, <1>6, <1>7, <1>8, EuclidUnique, Zenon
<1> QED
  BY <1>9, <1>10
-----------------------------------------------------------------------------
(* The keys.                                                               *)

LEMMA WordFacts ==
  /\ Word \in Nat /\ Word >= 1 /\ Word - 1 \in Nat
  /\ \A v, w \in 0 .. Word - 1 : BitXor(v, w) \in 0 .. Word - 1
  BY HashAssumption

LEMMA Remainder ==
  ASSUME NEW x \in Nat
  PROVE  x % Word \in 0 .. Word - 1
  BY WordFacts

LEMMA MixType ==
  ASSUME NEW v \in 0 .. Word - 1, NEW c \in Nat
  PROVE  Mix(v, c) \in 0 .. Word - 1
<1>1. v \in Nat
  BY WordFacts
<1>2. 32 * v + v \div 8 + c \in Nat
  BY <1>1
<1> DEFINE w == (32 * v + v \div 8 + c) % Word
<1>3. w \in 0 .. Word - 1
  BY <1>2, Remainder
<1> HIDE DEF w
<1>4. BitXor(v, w) \in 0 .. Word - 1
  BY <1>3, WordFacts
<1> QED
  BY <1>4 DEF Mix, w

\* What the characters of s make of v one after the other.
Mixing(f, v, s) ==
  /\ f[0] = v /\ f[Len(s)] = Mixed(v, s)
  /\ \A i \in 1 .. Len(s) : f[i] = Mix(f[i - 1], s[i])

LEMMA MixedSteps ==
  ASSUME NEW v \in 0 .. Word - 1, NEW s \in Seq(Nat)
  PROVE  \E f \in [0 .. Len(s) -> (0 .. Word - 1)] : Mixing(f, v, s)
<1> DEFINE Op(x, y) == Mix(x, y)
           step == [p \in (0 .. Word - 1) \X Nat |-> Op(p[1], p[2])]
           Is(g) == g = [x \in SUBSET (1 .. Len(s)) |->
                           IF x = {} THEN v ELSE Op(g[x \ {Max(x)}], s[Max(x)])]
           iter == CHOOSE g : Is(g)
<1>1. \A x \in (0 .. Word - 1), y \in Nat : Op(x, y) \in (0 .. Word - 1)
  BY MixType
<1>2. Mixed(v, s) = iter[1 .. Len(s)]
  <2>1. DOMAIN s = 1 .. Len(s)
    BY LenProperties
  <2> QED
    BY <2>1 DEF Mixed, FoldLeft, MapThenFoldSet
<1> HIDE DEF Op
<1>3. step \in [(0 .. Word - 1) \X Nat -> (0 .. Word - 1)]
      /\ \A x \in (0 .. Word - 1), y \in Nat : step[<<x, y>>] = Op(x, y)
  BY <1>1
<1>4. \A x \in SUBSET (1 .. Len(s)) : x # {} => Max(x) \in 1 .. Len(s) /\ s[Max(x)] \in Nat
  <2>1. Len(s) \in Nat
    BY LenProperties
  <2> QED
    BY <2>1, MaxUpto, ElementOfSeq
<1> HIDE DEF step
<1>5. PICK g \in [SUBSET (1 .. Len(s)) -> (0 .. Word - 1)] : IsIter(g, step, v, s)
  BY <1>3, IterExists
<1>6. Is(g)
  BY <1>3, <1>4, <1>5 DEF IsIter
<1>7. Is(iter)
  BY <1>6
<1> HIDE DEF iter
<1>8. IsFoldOf(iter, step, v, s, (0 .. Word - 1))
  BY <1>3, <1>4, <1>7 DEF IsFoldOf
<1>9. PICK f \in [0 .. Len(s) -> (0 .. Word - 1)] : TakenFrom(f, iter, step, v, s)
  BY <1>3, <1>8, FoldSteps
<1>10. \A i \in 1 .. Len(s) : f[i] = Op(f[i - 1], s[i])
  <2> TAKE i \in 1 .. Len(s)
  <2>1. i - 1 \in 0 .. Len(s) /\ s[i] \in Nat
    BY LenProperties, ElementOfSeq
  <2> QED
    BY <1>3, <1>9, <2>1 DEF TakenFrom
<1> QED
  BY <1>2, <1>9, <1>10 DEF Op, TakenFrom, Mixing

LEMMA MixedType ==
  ASSUME NEW v \in 0 .. Word - 1, NEW s \in Seq(Nat)
  PROVE  Mixed(v, s) \in 0 .. Word - 1
<1>1. PICK f \in [0 .. Len(s) -> 0 .. Word - 1] : Mixing(f, v, s)
  BY MixedSteps
<1>2. Len(s) \in 0 .. Len(s)
  BY LenProperties
<1> QED
  BY <1>1, <1>2 DEF Mixing

\* The characters of two strings one after the other.
LEMMA MixedConcat ==
  ASSUME NEW v \in 0 .. Word - 1, NEW s \in Seq(Nat), NEW t \in Seq(Nat)
  PROVE  Mixed(v, s \o t) = Mixed(Mixed(v, s), t)
<1> DEFINE u == s \o t
           w == Mixed(v, s)
<1>1. /\ u \in Seq(Nat) /\ Len(u) = Len(s) + Len(t) /\ Len(s) \in Nat /\ Len(t) \in Nat
      /\ \A i \in 1 .. Len(s) : u[i] = s[i]
      /\ \A i \in 1 .. Len(t) : u[Len(s) + i] = t[i]
  BY ConcatProperties, LenProperties
<1>2. w \in 0 .. Word - 1
  BY MixedType
<1> HIDE DEF u, w
<1>3. PICK f \in [0 .. Len(u) -> 0 .. Word - 1] : Mixing(f, v, u)
  BY <1>1, MixedSteps
<1>4. PICK g \in [0 .. Len(s) -> 0 .. Word - 1] : Mixing(g, v, s)
  BY MixedSteps
<1>5. PICK h \in [0 .. Len(t) -> 0 .. Word - 1] : Mixing(h, w, t)
  BY <1>2, MixedSteps
<1> DEFINE S == {i \in Nat : i <= Len(s) => f[i] = g[i]}
           T == {i \in Nat : i <= Len(t) => f[Len(s) + i] = h[i]}
<1>6. f[Len(s)] = g[Len(s)]
  <2>1. 0 \in S
    BY <1>3, <1>4 DEF Mixing
  <2>2. ASSUME NEW i \in 1 .. Len(s), i - 1 \in S PROVE i \in S
    <3>1. i \in 1 .. Len(u) /\ i - 1 <= Len(s) /\ u[i] = s[i] /\ i \in Nat
      BY <1>1
    <3>2. f[i] = Mix(f[i - 1], u[i]) /\ g[i] = Mix(g[i - 1], s[i])
      BY <1>3, <1>4, <3>1 DEF Mixing
    <3> QED
      BY <2>2, <3>1, <3>2
  <2> HIDE DEF S
  <2>3. \A i \in 0 .. Len(s) : i \in S
    BY <1>1, <2>1, <2>2, InductionUpto
  <2> QED
    BY <1>1, <2>3 DEF S
<1>7. f[Len(s) + Len(t)] = h[Len(t)]
  <2>1. 0 \in T
    BY <1>1, <1>4, <1>5, <1>6 DEF Mixing, w
  <2>2. ASSUME NEW i \in 1 .. Len(t), i - 1 \in T PROVE i \in T
    <3>1. Len(s) + i \in 1 .. Len(u) /\ i - 1 <= Len(t) /\ u[Len(s) + i] = t[i] /\ i \in Nat
      BY <1>1
    <3>2. (Len(s) + i) - 1 = Len(s) + (i - 1)
      BY <1>1
    <3>3. f[Len(s) + i] = Mix(f[(Len(s) + i) - 1], u[Len(s) + i]) /\ h[i] = Mix(h[i - 1], t[i])
      BY <1>3, <1>5, <3>1 DEF Mixing
    <3> QED
      BY <2>2, <3>1, <3>2, <3>3
  <2> HIDE DEF T
  <2>3. \A i \in 0 .. Len(t) : i \in T
    BY <1>1, <2>1, <2>2, InductionUpto
  <2> QED
    BY <1>1, <2>3 DEF T
<1> QED
  BY <1>1, <1>3, <1>5, <1>7 DEF Mixing, u, w

LEMMA MixedOne ==
  ASSUME NEW v \in 0 .. Word - 1, NEW c \in Nat
  PROVE  Mixed(v, <<c>>) = Mix(v, c)
<1>1. <<c>> \in Seq(Nat) /\ Len(<<c>>) = 1 /\ <<c>>[1] = c
  OBVIOUS
<1> DEFINE s == <<c>>
<1> HIDE DEF s
<1>2. PICK f \in [0 .. Len(s) -> 0 .. Word - 1] : Mixing(f, v, s)
  BY <1>1, MixedSteps DEF s
<1>3. f[1] = Mix(f[1 - 1], c)
  BY <1>1, <1>2 DEF Mixing, s
<1> QED
  BY <1>1, <1>2, <1>3 DEF Mixing, s

\* A set of places has a first one.
LEMMA LeastPlace ==
  ASSUME NEW I \in SUBSET Nat, I # {}
  PROVE  Min(I) \in I
<1>1. PICK least \in I : \A k \in I : least <= k
  BY LeastNatural
<1> QED
  BY <1>1 DEF Min

\* The place a search finds, or 0.
LEMMA Searched ==
  ASSUME NEW E, NEW s \in Seq(E), NEW n
  PROVE  /\ SelectInSeq(s, LAMBDA m : m = n) \in 0 .. Len(s)
         /\ SelectInSeq(s, LAMBDA m : m = n) = 0 => n \notin ToSet(s)
         /\ SelectInSeq(s, LAMBDA m : m = n) # 0 => s[SelectInSeq(s, LAMBDA m : m = n)] = n
<1> DEFINE at == SelectInSeq(s, LAMBDA m : m = n)
<1>0. Len(s) \in Nat /\ DOMAIN s = 1 .. Len(s)
  BY LenProperties
<1>1. CASE n \in ToSet(s)
  <2>1. at \in 1 .. Len(s) /\ s[at] = n
    BY <1>1, FoundInSeq
  <2> HIDE DEF at
  <2>2. at \in 0 .. Len(s) /\ at # 0 /\ s[at] = n
    BY <1>0, <2>1
  <2> QED
    BY <2>2 DEF at
<1>2. CASE n \notin ToSet(s)
  <2>1. {i \in 1 .. Len(s) : s[i] = n} = {}
    BY <1>0, <1>2 DEF ToSet
  <2>2. at = 0
    BY <2>1 DEF SelectInSeq
  <2> HIDE DEF at
  <2>3. at \in 0 .. Len(s) /\ at = 0
    BY <1>0, <2>2
  <2> QED
    BY <1>2, <2>3 DEF at
<1> QED
  BY <1>1, <1>2

\* A string is its prefix, a colon and the rest, or has no prefix.
Parts(s, q) ==
  /\ q.prefix \in Seq(Nat) /\ q.name \in Seq(Nat)
  /\ \/ q.prefix = <<>> /\ q.name = s
     \/ q.prefix # <<>> /\ s = (q.prefix \o <<Colon>>) \o q.name /\ Head(q.prefix) = Head(s)

LEMMA Splits ==
  ASSUME NEW s \in Seq(Nat), s # <<>> => Head(s) # Colon
  PROVE  Parts(s, QSplit(s))
<1> DEFINE colon == SelectInSeq(s, LAMBDA c : c = Colon)
           p == SubSeq(s, 1, IF colon = 0 THEN 0 ELSE colon - 1)
           r == SubSeq(s, colon + 1, Len(s))
           mid == <<Colon>>
<1>1. QSplit(s).prefix = p /\ QSplit(s).name = r
  BY DEF QSplit
<1>2. colon \in 0 .. Len(s) /\ (colon # 0 => s[colon] = Colon)
  <2> DEFINE I == {i \in 1 .. Len(s) : s[i] = Colon}
  <2>1. colon = IF I # {} THEN Min(I) ELSE 0
    BY DEF SelectInSeq
  <2>2. I \in SUBSET Nat
    BY LenProperties
  <2>3. I # {} => Min(I) \in I
    <3> HIDE DEF I
    <3> QED
      BY <2>2, LeastPlace
  <2> QED
    BY <2>1, <2>3, LenProperties
<1>3. Len(s) \in Nat /\ \A i \in 1 .. Len(s) : s[i] \in Nat
  BY LenProperties, ElementOfSeq
<1> HIDE DEF colon
<1>4. CASE colon = 0
  <2>1. p = SubSeq(s, 1, 0) /\ r = SubSeq(s, 1, Len(s))
    BY <1>4
  <2> HIDE DEF p, r
  <2>2. p = <<>>
    BY <2>1, SubSeqEmpty
  <2>3. <<>> \in Seq(Nat)
    BY EmptySeq
  <2>4. r = s
    BY <1>3, <2>1, SubSeqFull
  <2> QED
    BY <1>1, <2>2, <2>3, <2>4 DEF Parts
<1>5. CASE colon # 0
  <2>1. colon \in 2 .. Len(s) /\ p = SubSeq(s, 1, colon - 1)
    <3>1. s # <<>> /\ Head(s) = s[1]
      BY <1>2, <1>3, <1>5
    <3> QED
      BY <1>2, <1>3, <1>5, <3>1
  <2>2. p \in Seq(Nat) /\ Len(p) = colon - 1 /\ p[1] = s[1]
    <3>1. /\ SubSeq(s, 1, colon - 1) \in Seq(Nat)
          /\ Len(SubSeq(s, 1, colon - 1)) = (IF 1 <= colon - 1 THEN colon - 1 - 1 + 1 ELSE 0)
          /\ \A i \in 1 .. colon - 1 - 1 + 1 : SubSeq(s, 1, colon - 1)[i] = s[1 + i - 1]
      BY <1>3, <2>1, SubSeqProperties
    <3> HIDE DEF p
    <3> QED
      BY <1>2, <1>3, <2>1, <3>1
  <2>3. r \in Seq(Nat)
    BY <1>2, <1>3, SubSeqProperties
  <2>4. SubSeq(s, colon, colon) = mid
    <3>1. SubSeq(s, colon, colon) = <<s[colon]>> \o SubSeq(s, colon + 1, colon)
      BY <2>1, SubSeqRecursiveFirst
    <3>2. SubSeq(s, colon + 1, colon) = <<>>
      BY <2>1, SubSeqEmpty
    <3>3. <<s[colon]>> \in Seq(Nat)
      BY <1>2, <1>3, <2>1
    <3> QED
      BY <1>2, <1>5, <3>1, <3>2, <3>3, ConcatEmptySeq
  <2>5. SubSeq(s, 1, colon - 1) \o SubSeq(s, colon, colon) = SubSeq(s, 1, colon)
    <3>1. 1 \in 1 .. Len(s) + 1 /\ colon - 1 \in 1 - 1 .. Len(s) /\ colon \in colon - 1 .. Len(s)
          /\ (colon - 1) + 1 = colon
      BY <1>3, <2>1
    <3> QED
      BY <3>1, ConcatAdjacentSubSeq
  <2>6. SubSeq(s, 1, colon) \o SubSeq(s, colon + 1, Len(s)) = SubSeq(s, 1, Len(s))
    <3>1. 1 \in 1 .. Len(s) + 1 /\ colon \in 1 - 1 .. Len(s) /\ Len(s) \in colon .. Len(s)
      BY <1>3, <2>1
    <3> QED
      BY <3>1, ConcatAdjacentSubSeq
  <2>7. SubSeq(s, 1, Len(s)) = s
    BY SubSeqFull
  <2>8. (p \o mid) \o r = s
    BY <2>1, <2>4, <2>5, <2>6, <2>7
  <2> HIDE DEF p, r
  <2>9. p # <<>> /\ Head(p) = Head(s)
    <3>1. Len(p) >= 1 /\ Len(s) >= 1 /\ p[1] = s[1]
      BY <1>3, <2>1, <2>2
    <3> QED
      BY <2>2, <3>1
  <2> QED
    BY <1>1, <2>2, <2>3, <2>8, <2>9 DEF Parts
<1> QED
  BY <1>4, <1>5

LEMMA SplitTellsApart ==
  ASSUME NEW s, NEW t, NEW q, Parts(s, q), Parts(t, q)
  PROVE  s = t
  BY DEF Parts

\* A QName is mixed in like the whole.
LEMMA MixedParts ==
  ASSUME NEW v \in 0 .. Word - 1, NEW s \in Seq(Nat), NEW q, Parts(s, q)
  PROVE  QMixed(v, q) = Mixed(v, s)
<1>1. CASE q.prefix = <<>> /\ q.name = s
  BY <1>1 DEF QMixed
<1>2. CASE q.prefix # <<>> /\ s = (q.prefix \o <<Colon>>) \o q.name
  <2> DEFINE mid == <<Colon>>
  <2>1. mid \in Seq(Nat) /\ Colon \in Nat
    BY DEF Colon
  <2>2. Mixed(v, q.prefix) \in 0 .. Word - 1
    BY MixedType DEF Parts
  <2>3. Mixed(v, q.prefix \o mid) = Mix(Mixed(v, q.prefix), Colon)
    <3>1. Mixed(v, q.prefix \o mid) = Mixed(Mixed(v, q.prefix), mid)
      BY <2>1, MixedConcat DEF Parts
    <3>2. Mixed(Mixed(v, q.prefix), mid) = Mix(Mixed(v, q.prefix), Colon)
      BY <2>1, <2>2, MixedOne
    <3> QED
      BY <3>1, <3>2
  <2>4. q.prefix \o mid \in Seq(Nat)
    BY <2>1, ConcatProperties DEF Parts
  <2>5. Mixed(v, (q.prefix \o mid) \o q.name) = Mixed(Mixed(v, q.prefix \o mid), q.name)
    BY <2>4, MixedConcat DEF Parts
  <2> QED
    BY <1>2, <2>3, <2>5 DEF QMixed
<1> QED
  BY <1>1, <1>2 DEF Parts
-----------------------------------------------------------------------------
LEMMA NameFacts ==
  ASSUME NEW n \in HashName
  PROVE  /\ n[1] \in Seq(Nat) /\ n[2] \in Seq(Nat) /\ n[3] \in Seq(Nat) /\ n = <<n[1], n[2], n[3]>>
         /\ n[1] # <<>> /\ Head(n[1]) \in Nat
         /\ \A i \in 1 .. 3 : Parts(n[i], QSplit3(n)[i])
<1>1. /\ n[1] \in Seq(Nat) /\ n[2] \in Seq(Nat) /\ n[3] \in Seq(Nat) /\ n = <<n[1], n[2], n[3]>>
      /\ n[1] # <<>>
  BY HashAssumption
<1>2. Head(n[1]) \in Nat
  BY <1>1, HeadTailProperties
<1>3. ASSUME NEW i \in 1 .. 3 PROVE Parts(n[i], QSplit3(n)[i])
  <2>1. n[i] \in Seq(Nat) /\ (n[i] # <<>> => Head(n[i]) # Colon)
    <3>1. n[i] # <<>> => Head(n[i]) # Colon
      BY HashAssumption
    <3>2. i = 1 \/ i = 2 \/ i = 3
      OBVIOUS
    <3> QED
      BY <1>1, <3>1, <3>2
  <2>2. Parts(n[i], QSplit(n[i]))
    BY <2>1, Splits
  <2>3. QSplit3(n)[i] = QSplit(n[i])
    BY DEF QSplit3
  <2> QED
    BY <2>2, <2>3
<1> QED
  BY <1>1, <1>2, <1>3

\* The value of a name is a word ...
LEMMA ValueOfName ==
  ASSUME NEW n \in HashName
  PROVE  HashValue[n] \in 0 .. Word - 1
<1> DEFINE v0 == (30 * Head(n[1])) % Word
           v1 == Mixed(v0, n[1])
           v2 == Mixed(Mix(v1, 0), n[2])
<1>1. v0 \in 0 .. Word - 1
  <2>1. 30 * Head(n[1]) \in Nat
    BY NameFacts
  <2> QED
    BY <2>1, Remainder
<1>2. HashValue[n] = Mixed(Mix(v2, 0), n[3])
  BY DEF HashValue
<1> HIDE DEF v0
<1>3. v1 \in 0 .. Word - 1
  BY <1>1, NameFacts, MixedType
<1> HIDE DEF v1
<1>4. v2 \in 0 .. Word - 1
  BY <1>3, NameFacts, MixType, MixedType
<1> HIDE DEF v2
<1>5. Mix(v2, 0) \in 0 .. Word - 1
  BY <1>4, MixType
<1>6. n[3] \in Seq(Nat)
  BY NameFacts
<1> QED
  BY <1>2, <1>5, <1>6, MixedType

\* ... and the same when its parts are given apart (xmlHashComputeQKey).
LEMMA ValueOfParts ==
  ASSUME NEW n \in HashName
  PROVE  HashQValue[QSplit3(n)] = HashValue[n]
<1> DEFINE q == QSplit3(n)
           v0 == (30 * Head(n[1])) % Word
           v1 == Mixed(v0, n[1])
           v2 == Mixed(Mix(v1, 0), n[2])
           w1 == QMixed((30 * Head(IF q[1].prefix = <<>> THEN q[1].name ELSE q[1].prefix)) % Word, q[1])
           w2 == QMixed(Mix(w1, 0), q[2])
<1>1. HashQValue[q] = QMixed(Mix(w2, 0), q[3])
  BY DEF HashQValue
<1>2. HashValue[n] = Mixed(Mix(v2, 0), n[3])
  BY DEF HashValue
<1>3. Parts(n[1], q[1]) /\ Parts(n[2], q[2]) /\ Parts(n[3], q[3])
  BY NameFacts
<1>4. Head(IF q[1].prefix = <<>> THEN q[1].name ELSE q[1].prefix) = Head(n[1])
  BY <1>3 DEF Parts
<1>5. v0 \in 0 .. Word - 1
  <2>1. 30 * Head(n[1]) \in Nat
    BY NameFacts
  <2> QED
    BY <2>1, Remainder
<1>6. w1 = v1
  <2>1. w1 = QMixed(v0, q[1])
    BY <1>4
  <2> HIDE DEF v0, w1, q
  <2> QED
    BY <1>3, <1>5, <2>1, NameFacts, MixedParts
<1> HIDE DEF q, v0, w1
<1>7. v1 \in 0 .. Word - 1
  BY <1>5, NameFacts, MixedType
<1> HIDE DEF v1
<1>8. w2 = v2
  BY <1>3, <1>6, <1>7, NameFacts, MixType, MixedParts
<1>9. v2 \in 0 .. Word - 1
  BY <1>7, NameFacts, MixType, MixedType
<1> HIDE DEF v2, w2
<1>10. HashQValue[q] = HashValue[n]
  BY <1>1, <1>2, <1>3, <1>8, <1>9, NameFacts, MixType, MixedParts
<1> QED
  BY <1>10 DEF q

\* Names are told apart by their parts.
LEMMA PartsTellApart ==
  ASSUME NEW m \in HashName, NEW n \in HashName
  PROVE  QSplit3(m) = QSplit3(n) <=> m = n
<1>1. ASSUME QSplit3(m) = QSplit3(n) PROVE m = n
  <2>1. \A i \in 1 .. 3 : m[i] = n[i]
    BY <1>1, NameFacts, SplitTellsApart
  <2> QED
    BY <2>1, NameFacts
<1> QED
  BY <1>1
-----------------------------------------------------------------------------
(* The chains.                                                             *)

Entry == [name : HashName, payload : UNION {PayloadOf[n] : n \in HashName}]

\* The entries of E that belong into a place of a table of size z.
Placed(E, z, k) == {e \in E : HashKey(z, e.name) = k}

\* Chains that hold the entries of E, each in its place and once.
Holding(c, z, E) ==
  /\ E \in SUBSET Entry /\ c \in [0 .. z - 1 -> Seq(Entry)]
  /\ \A k \in 0 .. z - 1 : Lists(c[k], Placed(E, z, k), Entry)

LEMMA KeyOfName ==
  ASSUME NEW z \in Nat \ {0}, NEW n \in HashName
  PROVE  HashKey(z, n) \in 0 .. z - 1
<1>1. HashValue[n] \in Nat
  BY WordFacts, ValueOfName
<1> QED
  BY <1>1, Euclid DEF HashKey

LEMMA NameOfEntry ==
  ASSUME NEW e \in Entry
  PROVE  e.name \in HashName /\ e = [name |-> e.name, payload |-> e.payload]
  BY DEF Entry

\* One chain is replaced.
LEMMA HoldingWith ==
  ASSUME NEW z \in Nat \ {0}, NEW c, NEW E, Holding(c, z, E), NEW F \in SUBSET Entry,
         NEW k \in 0 .. z - 1, NEW s, Lists(s, Placed(F, z, k), Entry),
         \A j \in 0 .. z - 1 : j # k => Placed(F, z, j) = Placed(E, z, j)
  PROVE  Holding([c EXCEPT ![k] = s], z, F)
  BY DEF Holding, Lists

LEMMA HoldingNothing ==
  ASSUME NEW z \in Nat \ {0}
  PROVE  Holding([k \in 0 .. z - 1 |-> <<>>], z, {})
<1>1. Lists(<<>>, {}, Entry)
  BY ListEmpty
<1>2. \A k \in 0 .. z - 1 : Placed({}, z, k) = {}
  BY DEF Placed
<1>3. <<>> \in Seq(Entry)
  BY EmptySeq
<1> QED
  BY <1>1, <1>2, <1>3 DEF Holding

LEMMA HoldingAppended ==
  ASSUME NEW z \in Nat \ {0}, NEW c, NEW E, Holding(c, z, E), NEW e \in Entry \ E
  PROVE  Holding([c EXCEPT ![HashKey(z, e.name)] = Append(@, e)], z, E \cup {e})
<1> DEFINE k == HashKey(z, e.name)
<1>1. k \in 0 .. z - 1
  BY KeyOfName, NameOfEntry
<1>2. e \notin Placed(E, z, k) /\ Placed(E \cup {e}, z, k) = Placed(E, z, k) \cup {e}
  BY DEF Placed
<1>3. \A j \in 0 .. z - 1 : j # k => Placed(E \cup {e}, z, j) = Placed(E, z, j)
  BY DEF Placed
<1>4. c \in [0 .. z - 1 -> Seq(Entry)] /\ E \cup {e} \in SUBSET Entry
  BY DEF Holding
<1> HIDE DEF k
<1>5. Lists(Append(c[k], e), Placed(E \cup {e}, z, k), Entry)
  <2>1. Lists(c[k], Placed(E, z, k), Entry) /\ e \in Entry \ Placed(E, z, k)
    BY <1>1, <1>2 DEF Holding
  <2>2. Lists(Append(c[k], e), Placed(E, z, k) \cup {e}, Entry)
    BY <2>1, ListAppend
  <2> QED
    BY <1>2, <2>2
<1>6. Holding([c EXCEPT ![k] = Append(c[k], e)], z, E \cup {e})
  BY <1>1, <1>3, <1>4, <1>5, HoldingWith
<1> QED
  BY <1>1, <1>4, <1>6 DEF k

\* All chains one after the other.
LEMMA HoldingFlat ==
  ASSUME NEW z \in Nat \ {0}, NEW c, NEW E, Holding(c, z, E)
  PROVE  Lists(Flat(c, z), E, Entry)
<1> DEFINE ss == [k \in 1 .. z |-> c[k - 1]]
           P == [k \in 1 .. z |-> Placed(E, z, k - 1)]
<1>1. \A k \in 1 .. z : k - 1 \in 0 .. z - 1
  OBVIOUS
<1>2. ss \in Seq(Seq(Entry)) /\ Len(ss) = z
  BY <1>1 DEF Holding
<1>3. \A k \in 1 .. z : Lists(ss[k], P[k], Entry)
  BY <1>1 DEF Holding
<1>4. \A i, j \in 1 .. z : i # j => P[i] \cap P[j] = {}
  <2> TAKE i, j \in 1 .. z
  <2> HAVE i # j
  <2>1. i - 1 # j - 1
    OBVIOUS
  <2> QED
    BY <2>1 DEF Placed
<1>5. UNION {P[k] : k \in 1 .. z} = E
  <2>1. ASSUME NEW e \in E PROVE \E k \in 1 .. z : e \in P[k]
    <3> DEFINE k == HashKey(z, e.name)
    <3>1. k \in 0 .. z - 1
      BY KeyOfName, NameOfEntry DEF Holding
    <3>2. k + 1 \in 1 .. z /\ (k + 1) - 1 = k
      BY <3>1
    <3>3. e \in Placed(E, z, k)
      BY DEF Placed
    <3> HIDE DEF k
    <3>4. e \in P[k + 1]
      BY <3>2, <3>3
    <3> QED
      BY <3>2, <3>4
  <2>2. \A k \in 1 .. z : P[k] \in SUBSET E
    BY DEF Placed
  <2> QED
    BY <2>1, <2>2
<1>6. Flat(c, z) = FlattenSeq(ss)
  BY DEF Flat
<1> HIDE DEF ss, P
<1>7. \A k \in 1 .. Len(ss) : Lists(ss[k], P[k], Entry)
  BY <1>2, <1>3
<1>8. \A i, j \in 1 .. Len(ss) : i # j => P[i] \cap P[j] = {}
  BY <1>2, <1>4
<1>9. Lists(FlattenSeq(ss), UNION {P[k] : k \in 1 .. Len(ss)}, Entry)
  BY <1>2, <1>7, <1>8, ListFlat
<1> QED
  BY <1>2, <1>5, <1>6, <1>9
-----------------------------------------------------------------------------
(* Growing.                                                                *)

\* The entries that lie in the table itself.
Heads(c) == {c[k][1] : k \in {j \in DOMAIN c : c[j] # <<>>}}

LEMMA HeadOfChain ==
  ASSUME NEW z \in Nat \ {0}, NEW c, NEW E, Holding(c, z, E), NEW e \in Heads(c)
  PROVE  e \in E /\ HashKey(z, e.name) \in 0 .. z - 1 /\ c[HashKey(z, e.name)] # <<>> /\ e = c[HashKey(z, e.name)][1]
<1>1. PICK k \in 0 .. z - 1 : c[k] # <<>> /\ e = c[k][1]
  BY DEF Heads, Holding
<1>2. e \in Placed(E, z, k)
  BY <1>1, ListTail DEF Holding
<1> QED
  BY <1>1, <1>2 DEF Placed

LEMMA HeadsHeld ==
  ASSUME NEW t, t.size \in Nat \ {0}, NEW E, Holding(t.chain, t.size, E), NEW m \in Nat \ {0}
  PROVE  Holding(HeadsPlaced(t, m * t.size), m * t.size, Heads(t.chain))
<1> DEFINE y == m * t.size
           H == Heads(t.chain)
           Here(k) == {e \in H : HashKey(y, e.name) = k}
           c == [k \in 0 .. y - 1 |-> IF Here(k) = {} THEN <<>> ELSE <<CHOOSE e \in Here(k) : TRUE>>]
<1>1. HeadsPlaced(t, y) = c
  BY DEF HeadsPlaced, Heads
<1>2. H \in SUBSET Entry
  BY HeadOfChain DEF Holding
<1>3. ASSUME NEW e \in H, NEW f \in H, HashKey(y, e.name) = HashKey(y, f.name) PROVE e = f
  <2>1. HashValue[e.name] \in Nat /\ HashValue[f.name] \in Nat
    BY <1>2, NameOfEntry, ValueOfName, WordFacts
  <2>2. HashValue[e.name] % (m * t.size) = HashValue[f.name] % (m * t.size)
    BY <1>3 DEF HashKey
  <2>3. HashValue[e.name] % t.size = HashValue[f.name] % t.size
    BY <2>1, <2>2, PlaceOfMultiple
  <2>4. HashKey(t.size, e.name) = HashKey(t.size, f.name)
    BY <2>3 DEF HashKey
  <2> QED
    BY <2>4, HeadOfChain
<1>4. \A k : Here(k) = Placed(H, y, k)
  BY DEF Placed
<1> HIDE DEF H, y
<1>5. ASSUME NEW k \in 0 .. y - 1 PROVE Lists(c[k], Placed(H, y, k), Entry)
  <2>1. CASE Here(k) = {}
    <3>1. c[k] = <<>>
      BY <2>1
    <3> HIDE DEF c
    <3> QED
      BY <1>4, <2>1, <3>1, ListEmpty
  <2>2. CASE Here(k) # {}
    <3> DEFINE x == CHOOSE e \in Here(k) : TRUE
    <3>1. x \in Here(k) /\ c[k] = <<x>>
      BY <2>2
    <3>2. Here(k) = {x}
      BY <1>3, <3>1
    <3>3. x \in Entry
      BY <1>2, <3>1
    <3> HIDE DEF c, x
    <3>4. Lists(<<x>>, {x}, Entry)
      BY <3>3, ListOne
    <3> QED
      BY <1>4, <3>1, <3>2, <3>4
  <2> QED
    BY <2>1, <2>2
<1>6. c \in [0 .. y - 1 -> Seq(Entry)]
  <2> HIDE DEF Here
  <2>1. \A k \in 0 .. y - 1 : c[k] \in Seq(Entry)
    BY <1>5 DEF Lists
  <2> QED
    BY <2>1
<1> HIDE DEF c
<1>7. Holding(c, y, H)
  BY <1>2, <1>5, <1>6 DEF Holding
<1> QED
  BY <1>1, <1>7 DEF y, H

\* The others, in the order they are moved in.
Rest(t) == Flat([k \in DOMAIN t.chain |-> SubSeq(t.chain[k], 2, Len(t.chain[k]))], t.size)

LEMMA RestListed ==
  ASSUME NEW t, t.size \in Nat \ {0}, NEW E, Holding(t.chain, t.size, E)
  PROVE  Lists(Rest(t), E \ Heads(t.chain), Entry)
<1> DEFINE c == t.chain
           z == t.size
           d == [k \in 0 .. z - 1 |-> SubSeq(c[k], 2, Len(c[k]))]
           F == E \ Heads(c)
<1>1. DOMAIN c = 0 .. z - 1 /\ E \in SUBSET Entry
  BY DEF Holding
<1>2. Rest(t) = Flat(d, z)
  BY <1>1 DEF Rest
<1>3. ASSUME NEW k \in 0 .. z - 1 PROVE Lists(d[k], Placed(F, z, k), Entry)
  <2>1. Lists(c[k], Placed(E, z, k), Entry)
    BY DEF Holding
  <2>2. CASE c[k] = <<>>
    <3>1. Placed(E, z, k) = {}
      BY <2>1, <2>2, ListIsEmpty
    <3>2. Placed(F, z, k) = {}
      BY <3>1 DEF Placed
    <3>3. d[k] = <<>>
      <4>1. d[k] = SubSeq(<<>>, 2, Len(<<>>)) /\ Len(<<>>) = 0
        BY <2>2, EmptySeq
      <4>2. d[k] = SubSeq(<<>>, 2, 0)
        BY <4>1
      <4> QED
        BY <4>2, SubSeqEmpty
    <3> HIDE DEF d
    <3> QED
      BY <3>2, <3>3, ListEmpty
  <2>3. CASE c[k] # <<>>
    <3>1. /\ Lists(Tail(c[k]), Placed(E, z, k) \ {c[k][1]}, Entry)
          /\ d[k] = Tail(c[k]) /\ c[k][1] \in Placed(E, z, k)
      BY <2>1, <2>3, ListTail
    <3>2. c[k][1] \in Heads(c)
      BY <1>1, <2>3 DEF Heads
    <3>3. \A e \in Heads(c) : e \in Placed(E, z, k) => e = c[k][1]
      BY HeadOfChain DEF Placed
    <3>4. Placed(F, z, k) = Placed(E, z, k) \ {c[k][1]}
      BY <3>2, <3>3 DEF Placed
    <3> QED
      BY <3>1, <3>4
  <2> QED
    BY <2>2, <2>3
<1>4. Holding(d, z, F)
  <2>1. d \in [0 .. z - 1 -> Seq(Entry)]
    <3>1. \A k \in 0 .. z - 1 : d[k] \in Seq(Entry)
      BY <1>3 DEF Lists
    <3> QED
      BY <3>1
  <2> HIDE DEF d, F, z
  <2>2. F \in SUBSET Entry
    BY <1>1 DEF F
  <2> QED
    BY <1>3, <2>1, <2>2 DEF Holding
<1> HIDE DEF d
<1> QED
  BY <1>2, <1>4, HoldingFlat

LEMMA RestPlacedType ==
  ASSUME NEW z \in Nat \ {0}, NEW c \in [0 .. z - 1 -> Seq(Entry)], NEW e \in Entry
  PROVE  /\ RestPlaced(c, e) \in [0 .. z - 1 -> Seq(Entry)]
         /\ RestPlaced(c, e) = [c EXCEPT ![HashKey(z, e.name)] =
              IF c[HashKey(z, e.name)] = <<>> THEN <<e>>
              ELSE <<Head(c[HashKey(z, e.name)]), e>> \o Tail(c[HashKey(z, e.name)])]
<1> DEFINE k == HashKey(z, e.name)
           s == IF c[k] = <<>> THEN <<e>> ELSE <<Head(c[k]), e>> \o Tail(c[k])
<1>1. k \in 0 .. z - 1 /\ c[k] \in Seq(Entry)
  BY KeyOfName, NameOfEntry
<1>2. Cardinality(DOMAIN c) = z
  <2>1. DOMAIN c = 0 .. z - 1 /\ 0 \in Int /\ z - 1 \in Int
    OBVIOUS
  <2> QED
    BY <2>1, FS_Interval
<1>3. RestPlaced(c, e) = [c EXCEPT ![k] = s]
  BY <1>2 DEF RestPlaced
<1> HIDE DEF k
<1>4. s \in Seq(Entry)
  <2>1. CASE c[k] = <<>>
    BY <2>1
  <2>2. CASE c[k] # <<>>
    <3>1. Head(c[k]) \in Entry /\ Tail(c[k]) \in Seq(Entry)
      BY <1>1, <2>2, HeadTailProperties
    <3>2. <<Head(c[k]), e>> \in Seq(Entry)
      BY <3>1
    <3>3. <<Head(c[k]), e>> \o Tail(c[k]) \in Seq(Entry)
      BY <3>1, <3>2, ConcatProperties
    <3> QED
      BY <2>2, <3>3
  <2> QED
    BY <2>1, <2>2
<1> HIDE DEF s
<1>5. [c EXCEPT ![k] = s] \in [0 .. z - 1 -> Seq(Entry)]
  BY <1>1, <1>4
<1> QED
  BY <1>3, <1>5 DEF k, s

\* Where the entries of s are put one after the other.
PlacingRest(f, c, s) ==
  /\ f[0] = c /\ f[Len(s)] = FoldLeft(RestPlaced, c, s)
  /\ \A i \in 1 .. Len(s) : f[i] = RestPlaced(f[i - 1], s[i])

LEMMA RestPlacedSteps ==
  ASSUME NEW z \in Nat \ {0}, NEW c \in [0 .. z - 1 -> Seq(Entry)], NEW s \in Seq(Entry)
  PROVE  \E f \in [0 .. Len(s) -> [0 .. z - 1 -> Seq(Entry)]] : PlacingRest(f, c, s)
<1> DEFINE Op(x, y) == RestPlaced(x, y)
           step == [p \in [0 .. z - 1 -> Seq(Entry)] \X Entry |-> Op(p[1], p[2])]
           Is(g) == g = [x \in SUBSET (1 .. Len(s)) |->
                           IF x = {} THEN c ELSE Op(g[x \ {Max(x)}], s[Max(x)])]
           iter == CHOOSE g : Is(g)
<1>1. \A x \in [0 .. z - 1 -> Seq(Entry)], y \in Entry : Op(x, y) \in [0 .. z - 1 -> Seq(Entry)]
  BY RestPlacedType
<1>2. FoldLeft(RestPlaced, c, s) = iter[1 .. Len(s)]
  <2>1. DOMAIN s = 1 .. Len(s)
    BY LenProperties
  <2> QED
    BY <2>1 DEF FoldLeft, MapThenFoldSet
<1> HIDE DEF Op
<1>3. step \in [[0 .. z - 1 -> Seq(Entry)] \X Entry -> [0 .. z - 1 -> Seq(Entry)]]
      /\ \A x \in [0 .. z - 1 -> Seq(Entry)], y \in Entry : step[<<x, y>>] = Op(x, y)
  BY <1>1
<1>4. \A x \in SUBSET (1 .. Len(s)) : x # {} => Max(x) \in 1 .. Len(s) /\ s[Max(x)] \in Entry
  <2>1. Len(s) \in Nat
    BY LenProperties
  <2> QED
    BY <2>1, MaxUpto, ElementOfSeq
<1> HIDE DEF step
<1>5. PICK g \in [SUBSET (1 .. Len(s)) -> [0 .. z - 1 -> Seq(Entry)]] : IsIter(g, step, c, s)
  BY <1>3, IterExists
<1>6. Is(g)
  BY <1>3, <1>4, <1>5 DEF IsIter
<1>7. Is(iter)
  BY <1>6
<1> HIDE DEF iter
<1>8. IsFoldOf(iter, step, c, s, [0 .. z - 1 -> Seq(Entry)])
  BY <1>3, <1>4, <1>7 DEF IsFoldOf
<1>9. PICK f \in [0 .. Len(s) -> [0 .. z - 1 -> Seq(Entry)]] : TakenFrom(f, iter, step, c, s)
  BY <1>3, <1>8, FoldSteps
<1>10. \A i \in 1 .. Len(s) : f[i] = Op(f[i - 1], s[i])
  <2> TAKE i \in 1 .. Len(s)
  <2>1. i - 1 \in 0 .. Len(s) /\ s[i] \in Entry
    BY LenProperties, ElementOfSeq
  <2> QED
    BY <1>3, <1>9, <2>1 DEF TakenFrom
<1> QED
  BY <1>2, <1>9, <1>10 DEF Op, TakenFrom, PlacingRest

LEMMA HoldingRestPlaced ==
  ASSUME NEW z \in Nat \ {0}, NEW c, NEW E, Holding(c, z, E), NEW e \in Entry \ E
  PROVE  Holding(RestPlaced(c, e), z, E \cup {e})
<1> DEFINE k == HashKey(z, e.name)
           s == IF c[k] = <<>> THEN <<e>> ELSE <<Head(c[k]), e>> \o Tail(c[k])
<1>1. k \in 0 .. z - 1
  BY KeyOfName, NameOfEntry
<1>2. e \notin Placed(E, z, k) /\ Placed(E \cup {e}, z, k) = Placed(E, z, k) \cup {e}
  BY DEF Placed
<1>3. \A j \in 0 .. z - 1 : j # k => Placed(E \cup {e}, z, j) = Placed(E, z, j)
  BY DEF Placed
<1>4. c \in [0 .. z - 1 -> Seq(Entry)] /\ E \cup {e} \in SUBSET Entry
  BY DEF Holding
<1>5. RestPlaced(c, e) = [c EXCEPT ![k] = s]
  BY <1>4, RestPlacedType
<1> HIDE DEF k
<1>6. Lists(c[k], Placed(E, z, k), Entry) /\ e \in Entry \ Placed(E, z, k)
  BY <1>1, <1>2 DEF Holding
<1>7. Lists(s, Placed(E, z, k) \cup {e}, Entry)
  <2>1. CASE c[k] = <<>>
    <3>1. Placed(E, z, k) = {}
      BY <1>6, <2>1, ListIsEmpty
    <3> QED
      BY <2>1, <3>1, ListOne
  <2>2. CASE c[k] # <<>>
    <3>1. Lists(<<Head(c[k]), e>> \o Tail(c[k]), Placed(E, z, k) \cup {e}, Entry)
      BY <1>6, <2>2, ListSecond
    <3> QED
      BY <2>2, <3>1
  <2> QED
    BY <2>1, <2>2
<1> HIDE DEF s
<1>8. Holding([c EXCEPT ![k] = s], z, E \cup {e})
  BY <1>1, <1>2, <1>3, <1>4, <1>7, HoldingWith
<1> QED
  BY <1>5, <1>8

LEMMA AllRestPlaced ==
  ASSUME NEW z \in Nat \ {0}, NEW c, NEW E, Holding(c, z, E), NEW F, NEW s, Lists(s, F, Entry), E \cap F = {}
  PROVE  Holding(FoldLeft(RestPlaced, c, s), z, E \cup F)
<1> DEFINE Upto(i) == {s[j] : j \in 1 .. i}
<1>1. s \in Seq(Entry) /\ Len(s) \in Nat
  BY ListFacts
<1>2. c \in [0 .. z - 1 -> Seq(Entry)]
  BY DEF Holding
<1>3. PICK f \in [0 .. Len(s) -> [0 .. z - 1 -> Seq(Entry)]] : PlacingRest(f, c, s)
  BY <1>1, <1>2, RestPlacedSteps
<1> DEFINE S == {i \in Nat : Holding(f[i], z, E \cup Upto(i))}
<1>4. 0 \in S
  <2>1. E \cup Upto(0) = E
    OBVIOUS
  <2> HIDE DEF Upto
  <2> QED
    BY <1>3, <2>1 DEF PlacingRest
<1>5. ASSUME NEW i \in 1 .. Len(s), i - 1 \in S PROVE i \in S
  <2>1. Upto(i) = Upto(i - 1) \cup {s[i]}
    <3>1. 1 .. i = (1 .. (i - 1)) \cup {i}
      BY <1>1
    <3> QED
      BY <3>1
  <2>2. s[i] \in Entry /\ s[i] \in F
    BY ListFacts
  <2>3. s[i] \notin E \cup Upto(i - 1)
    <3>1. \A j \in 1 .. i - 1 : j \in 1 .. Len(s) /\ j # i
      BY <1>1
    <3>2. \A j \in 1 .. i - 1 : s[j] # s[i]
      BY <3>1, ListFacts
    <3> QED
      BY <2>2, <3>2
  <2>4. f[i] = RestPlaced(f[i - 1], s[i])
    BY <1>3 DEF PlacingRest
  <2>5. Holding(f[i - 1], z, E \cup Upto(i - 1))
    BY <1>5
  <2> HIDE DEF Upto
  <2>6. Holding(f[i], z, (E \cup Upto(i - 1)) \cup {s[i]})
    BY <2>2, <2>3, <2>4, <2>5, HoldingRestPlaced
  <2>7. (E \cup Upto(i - 1)) \cup {s[i]} = E \cup Upto(i)
    BY <2>1
  <2>8. i \in Nat
    BY <1>1
  <2> QED
    BY <2>6, <2>7, <2>8
<1> HIDE DEF S
<1>6. \A i \in 0 .. Len(s) : i \in S
  BY <1>1, <1>4, <1>5, InductionUpto
<1>7. Len(s) \in S
  BY <1>1, <1>6
<1>8. Upto(Len(s)) = F
  BY ListFacts
<1> HIDE DEF Upto
<1> QED
  BY <1>3, <1>7, <1>8 DEF S, PlacingRest

IsTable(t) == t = [size |-> t.size, count |-> t.count, chain |-> t.chain]

\* A table of which one or two fields are changed.
LEMMA TableWith ==
  ASSUME NEW t, IsTable(t), NEW z, NEW n, NEW c
  PROVE  /\ [t EXCEPT !.size = z] = [size |-> z, count |-> t.count, chain |-> t.chain]
         /\ [t EXCEPT !.count = n] = [size |-> t.size, count |-> n, chain |-> t.chain]
         /\ [t EXCEPT !.chain = c] = [size |-> t.size, count |-> t.count, chain |-> c]
<1> DEFINE a == t.size
           b == t.count
           d == t.chain
           r == [size |-> a, count |-> b, chain |-> d]
<1>1. t = r
  BY DEF IsTable
<1> HIDE DEF a, b, d
<1>2. /\ [r EXCEPT !.size = z] = [size |-> z, count |-> b, chain |-> d]
      /\ [r EXCEPT !.count = n] = [size |-> a, count |-> n, chain |-> d]
      /\ [r EXCEPT !.chain = c] = [size |-> a, count |-> b, chain |-> c]
  OBVIOUS
<1> HIDE DEF r
<1> QED
  BY <1>1, <1>2, Zenon DEF a, b, d

LEMMA TableResized ==
  ASSUME NEW t, IsTable(t), NEW z, NEW c
  PROVE  [t EXCEPT !.size = z, !.chain = c] = [size |-> z, count |-> t.count, chain |-> c]
<1> DEFINE w == [t EXCEPT !.size = z]
<1>1. /\ IsTable(w)
      /\ w.size = z /\ w.count = t.count
  <2>1. w = [size |-> z, count |-> t.count, chain |-> t.chain]
    BY TableWith
  <2> HIDE DEF w
  <2> QED
    BY <2>1 DEF IsTable
<1>2. [t EXCEPT !.size = z, !.chain = c] = [w EXCEPT !.chain = c]
  BY Zenon
<1> HIDE DEF w
<1>3. [w EXCEPT !.chain = c] = [size |-> w.size, count |-> w.count, chain |-> c]
  BY <1>1, TableWith
<1> QED
  BY <1>1, <1>2, <1>3, Zenon

LEMMA TableRecounted ==
  ASSUME NEW t, IsTable(t), NEW n, NEW c
  PROVE  [t EXCEPT !.count = n, !.chain = c] = [size |-> t.size, count |-> n, chain |-> c]
<1> DEFINE w == [t EXCEPT !.count = n]
<1>1. /\ IsTable(w)
      /\ w.size = t.size /\ w.count = n
  <2>1. w = [size |-> t.size, count |-> n, chain |-> t.chain]
    BY TableWith
  <2> HIDE DEF w
  <2> QED
    BY <2>1 DEF IsTable
<1>2. [t EXCEPT !.count = n, !.chain = c] = [w EXCEPT !.chain = c]
  BY Zenon
<1> HIDE DEF w
<1>3. [w EXCEPT !.chain = c] = [size |-> w.size, count |-> w.count, chain |-> c]
  BY <1>1, TableWith
<1> QED
  BY <1>1, <1>2, <1>3, Zenon

LEMMA TableAppended ==
  ASSUME NEW t, IsTable(t), NEW k, NEW e
  PROVE  [t EXCEPT !.count = @ + 1, !.chain[k] = Append(@, e)] =
           [size |-> t.size, count |-> t.count + 1, chain |-> [t.chain EXCEPT ![k] = Append(@, e)]]
<1> DEFINE w == [t EXCEPT !.count = t.count + 1]
           c == [t.chain EXCEPT ![k] = Append(t.chain[k], e)]
<1>1. w.chain = t.chain
  <2>2. w = [size |-> t.size, count |-> t.count + 1, chain |-> t.chain]
    BY TableWith
  <2> HIDE DEF w
  <2> QED
    BY <2>2
<1>2. [t EXCEPT !.count = @ + 1, !.chain[k] = Append(@, e)] = [t EXCEPT !.count = t.count + 1, !.chain = c]
  BY <1>1, Zenon
<1> DEFINE n == t.count + 1
<1>3. [t EXCEPT !.count = n, !.chain = c] = [size |-> t.size, count |-> n, chain |-> c]
  <2> HIDE DEF c, n, w
  <2> QED
    BY TableRecounted, Zenon
<1> QED
  BY <1>2, <1>3, Zenon

\* A table that holds E, no name twice.
Holds(t, E) ==
  /\ IsTable(t)
  /\ t.size \in Nat \ {0} /\ Holding(t.chain, t.size, E) /\ t.count = Cardinality(E)
  /\ \A d, e \in E : d.name = e.name => d = e

LEMMA EntriesAre ==
  ASSUME NEW t, NEW E, Holds(t, E)
  PROVE  Entries(t) = E /\ Lists(Flat(t.chain, t.size), E, Entry) /\ IsFiniteSet(E)
<1>1. Lists(Flat(t.chain, t.size), E, Entry)
  BY HoldingFlat DEF Holds
<1>2. Entries(t) = E
  BY <1>1 DEF Entries, Lists
<1>3. IsFiniteSet(E)
  BY <1>1, ListLength
<1> QED
  BY <1>1, <1>2, <1>3

LEMMA GrownHolds ==
  ASSUME NEW t, NEW E, Holds(t, E), NEW m \in Nat \ {0}
  PROVE  Holds(Grown(t, m * t.size), E)
<1> DEFINE y == m * t.size
           chain == FoldLeft(RestPlaced, HeadsPlaced(t, y), Rest(t))
           u == [t EXCEPT !.size = y, !.chain = chain]
<1>1. y \in Nat \ {0}
  BY DEF Holds
<1>2. Holding(HeadsPlaced(t, y), y, Heads(t.chain))
  BY HeadsHeld DEF Holds
<1>3. Lists(Rest(t), E \ Heads(t.chain), Entry)
  BY RestListed DEF Holds
<1>4. Heads(t.chain) \cap (E \ Heads(t.chain)) = {} /\ Heads(t.chain) \cup (E \ Heads(t.chain)) = E
  <2>1. Heads(t.chain) \in SUBSET E
    BY HeadOfChain DEF Holds
  <2> QED
    BY <2>1
<1>5. Grown(t, y) = t \/ Grown(t, y) = u
  BY DEF Grown, Rest
<1> HIDE DEF y
<1>6. Holding(chain, y, Heads(t.chain) \cup (E \ Heads(t.chain)))
  BY <1>1, <1>2, <1>3, <1>4, AllRestPlaced
<1> HIDE DEF chain
<1>7. u = [size |-> y, count |-> t.count, chain |-> chain]
  BY TableResized, Zenon DEF Holds
<1>8. Holds(u, E)
  <2>1. u.size = y /\ u.count = t.count /\ u.chain = chain
    BY <1>7
  <2> HIDE DEF u
  <2> QED
    BY <1>1, <1>4, <1>6, <1>7, <2>1 DEF Holds, IsTable
<1> QED
  BY <1>5, <1>8 DEF y
-----------------------------------------------------------------------------
(* One entry more, one less, one changed.                                  *)

Names(E) == {e.name : e \in E}

LEMMA PositionFound ==
  ASSUME NEW P, NEW s, Lists(s, P, Entry), NEW n
  PROVE  /\ Position(s, n) \in 0 .. Len(s)
         /\ Position(s, n) = 0 => n \notin Names(P)
         /\ Position(s, n) # 0 => s[Position(s, n)].name = n /\ s[Position(s, n)] \in P
<1> DEFINE at == Position(s, n)
           I == {i \in 1 .. Len(s) : s[i].name = n}
<1>1. Len(s) \in Nat
  BY ListFacts
<1>2. at = IF I # {} THEN Min(I) ELSE 0
  BY DEF Position, SelectInSeq
<1>3. I # {} => Min(I) \in I
  <2>1. I \in SUBSET Nat
    BY <1>1
  <2> HIDE DEF I
  <2> QED
    BY <2>1, LeastPlace
<1> HIDE DEF at
<1>4. CASE I = {}
  <2>1. at = 0
    BY <1>2, <1>4
  <2>2. \A e \in P : e.name # n
    BY <1>4, ListFacts
  <2> QED
    BY <1>1, <2>1, <2>2 DEF at, Names
<1>5. CASE I # {}
  <2>1. at \in I
    BY <1>2, <1>3, <1>5
  <2>2. at \in 1 .. Len(s) /\ s[at].name = n
    BY <2>1
  <2>3. s[at] \in P
    BY <2>2, ListFacts
  <2> QED
    BY <1>1, <2>2, <2>3 DEF at
<1> QED
  BY <1>4, <1>5

\* The chain a name belongs into and its place there.
LEMMA Finding ==
  ASSUME NEW t, NEW E, Holds(t, E), NEW n \in HashName, NEW k, k = HashKey(t.size, n),
         NEW at, at = Position(t.chain[k], n)
  PROVE  /\ k \in 0 .. t.size - 1 /\ Lists(t.chain[k], Placed(E, t.size, k), Entry)
         /\ at \in 0 .. Len(t.chain[k]) /\ (at = 0 <=> n \notin Names(E))
         /\ at # 0 => t.chain[k][at] \in E /\ t.chain[k][at].name = n /\ at \in 1 .. Len(t.chain[k])
<1> DEFINE s == t.chain[k]
<1>1. k \in 0 .. t.size - 1
  BY KeyOfName DEF Holds
<1>2. Lists(s, Placed(E, t.size, k), Entry)
  BY <1>1 DEF Holds, Holding
<1> HIDE DEF s
<1>3. Len(s) \in Nat
  BY <1>2, ListFacts
<1>4. at = Position(s, n)
  BY DEF s
<1>5. at \in 0 .. Len(s)
  BY <1>2, <1>4, PositionFound
<1>6. CASE at = 0
  <2>1. n \notin Names(Placed(E, t.size, k))
    BY <1>2, <1>4, <1>6, PositionFound
  <2>2. n \notin Names(E)
    BY <2>1 DEF Names, Placed
  <2> QED
    BY <1>1, <1>2, <1>5, <1>6, <2>2 DEF s
<1>7. CASE at # 0
  <2>1. s[at].name = n /\ s[at] \in Placed(E, t.size, k)
    BY <1>2, <1>4, <1>7, PositionFound
  <2>2. s[at] \in E
    BY <2>1 DEF Placed
  <2>3. n \in Names(E)
    BY <2>1, <2>2 DEF Names
  <2>4. at \in 1 .. Len(s)
    BY <1>3, <1>5, <1>7
  <2> QED
    BY <1>1, <1>2, <1>5, <1>7, <2>1, <2>2, <2>3, <2>4 DEF s
<1> QED
  BY <1>6, <1>7

\* A table is a record whose fields are these.
LEMMA HoldsWhen ==
  ASSUME NEW t, NEW E, NEW z \in Nat \ {0}, NEW c, NEW n,
         t = [size |-> z, count |-> n, chain |-> c], Holding(c, z, E), n = Cardinality(E),
         \A d, e \in E : d.name = e.name => d = e
  PROVE  Holds(t, E)
<1>1. t.size = z /\ t.count = n /\ t.chain = c
  OBVIOUS
<1> QED
  BY <1>1 DEF Holds, IsTable

LEMMA EntryAdded ==
  ASSUME NEW t, NEW E, Holds(t, E), NEW e \in Entry, e.name \notin Names(E)
  PROVE  Holds([t EXCEPT !.count = @ + 1, !.chain[HashKey(t.size, e.name)] = Append(@, e)], E \cup {e})
<1> DEFINE k == HashKey(t.size, e.name)
           c == [t.chain EXCEPT ![k] = Append(@, e)]
           u == [t EXCEPT !.count = @ + 1, !.chain[k] = Append(@, e)]
<1>1. e \notin E /\ \A d \in E : d.name # e.name
  BY DEF Names
<1>2. Holding(c, t.size, E \cup {e})
  BY <1>1, HoldingAppended DEF Holds
<1>3. t.count + 1 = Cardinality(E \cup {e})
  BY <1>1, EntriesAre, FS_AddElement DEF Holds
<1>4. u = [size |-> t.size, count |-> t.count + 1, chain |-> c]
  <2>1. IsTable(t)
    BY DEF Holds
  <2>2. u = [t EXCEPT !.count = @ + 1, !.chain[k] = Append(@, e)]
    OBVIOUS
  <2> HIDE DEF k, u
  <2> QED
    BY <2>1, <2>2, TableAppended, Zenon
<1>5. \A d, f \in E \cup {e} : d.name = f.name => d = f
  BY <1>1 DEF Holds
<1>6. t.size \in Nat \ {0}
  BY DEF Holds
<1> HIDE DEF c, u
<1>7. Holds(u, E \cup {e})
  BY <1>2, <1>3, <1>4, <1>5, <1>6, HoldsWhen
<1> QED
  BY <1>7 DEF u, k

LEMMA AddedHolds ==
  ASSUME NEW t, NEW E, Holds(t, E), NEW e \in Entry
  PROVE  /\ e.name \in Names(E) => Added(t, e) = t
         /\ e.name \notin Names(E) => Holds(Added(t, e), E \cup {e})
<1> DEFINE k == HashKey(t.size, e.name)
           more == [t EXCEPT !.count = @ + 1, !.chain[k] = Append(@, e)]
<1>1. e.name \in HashName
  BY NameOfEntry
<1>2. Position(t.chain[k], e.name) = 0 <=> e.name \notin Names(E)
  BY <1>1, Finding
<1>3. CASE e.name \in Names(E)
  BY <1>2, <1>3 DEF Added, ChainOf
<1>4. CASE e.name \notin Names(E)
  <2>1. Holds(more, E \cup {e})
    BY <1>4, EntryAdded
  <2>2. more.size = t.size
    <3>1. more = [size |-> t.size, count |-> t.count + 1, chain |-> [t.chain EXCEPT ![k] = Append(@, e)]]
      <4>1. IsTable(t)
        BY DEF Holds
      <4>2. more = [t EXCEPT !.count = @ + 1, !.chain[k] = Append(@, e)]
        OBVIOUS
      <4> HIDE DEF k, more
      <4> QED
        BY <4>1, <4>2, TableAppended, Zenon
    <3> HIDE DEF more
    <3> QED
      BY <3>1
  <2>3. Added(t, e) \in {more, Grown(more, MAX_HASH_LEN * t.size)}
    BY <1>2, <1>4 DEF Added, ChainOf
  <2> HIDE DEF more
  <2>4. MAX_HASH_LEN \in Nat \ {0}
    BY HashAssumption
  <2>5. Holds(Grown(more, MAX_HASH_LEN * more.size), E \cup {e})
    BY <2>1, <2>4, GrownHolds
  <2> QED
    BY <1>4, <2>1, <2>2, <2>3, <2>5
<1> QED
  BY <1>3, <1>4

\* In place k the entry is gone, nothing else.
GoneFrom(t, k, x, u) ==
  /\ u.size = t.size
  /\ u.chain[k] = RemoveAt(t.chain[k], Position(t.chain[k], x.name))
  /\ Position(t.chain[k], x.name) \in 1 .. Len(t.chain[k])
  /\ t.chain[k][Position(t.chain[k], x.name)] = x

LEMMA RemovedHolds ==
  ASSUME NEW t, NEW E, Holds(t, E), NEW x \in E, NEW k, k = HashKey(t.size, x.name)
  PROVE  Holds(Removed(t, x.name), E \ {x}) /\ GoneFrom(t, k, x, Removed(t, x.name))
<1> DEFINE s == t.chain[k]
           at == Position(s, x.name)
           r == RemoveAt(s, at)
           c == [t.chain EXCEPT ![k] = r]
           u == Removed(t, x.name)
<1>1. x.name \in HashName /\ x.name \in Names(E) /\ t.size \in Nat \ {0}
  BY NameOfEntry DEF Holds, Holding, Names
<1>2. /\ k \in 0 .. t.size - 1 /\ Lists(s, Placed(E, t.size, k), Entry)
      /\ at \in 1 .. Len(s) /\ s[at] \in E /\ s[at].name = x.name
  BY <1>1, Finding
<1>3. s[at] = x
  BY <1>2 DEF Holds
<1>4. u = [size |-> t.size, count |-> t.count - 1, chain |-> c]
  <2> DEFINE n == t.count - 1
  <2>1. u = [t EXCEPT !.count = n, !.chain = c]
    <3>1. u = [t EXCEPT !.count = @ - 1, !.chain[k] = RemoveAt(@, Position(@, x.name))]
      BY DEF Removed
    <3> DEFINE w == [t EXCEPT !.count = n]
    <3>2. w.chain = t.chain
      <4>1. w = [size |-> t.size, count |-> n, chain |-> t.chain]
        BY TableWith DEF Holds
      <4> HIDE DEF w
      <4> QED
        BY <4>1
    <3> HIDE DEF u
    <3> QED
      BY <3>1, <3>2, Zenon
  <2> HIDE DEF u, c, n
  <2>2. [t EXCEPT !.count = n, !.chain = c] = [size |-> t.size, count |-> n, chain |-> c]
    BY TableRecounted, Zenon DEF Holds
  <2> QED
    BY <2>1, <2>2, Zenon DEF n
<1>5. Holding(c, t.size, E \ {x})
  <2>1. Placed(E \ {x}, t.size, k) = Placed(E, t.size, k) \ {x}
    BY DEF Placed
  <2>2. \A j \in 0 .. t.size - 1 : j # k => Placed(E \ {x}, t.size, j) = Placed(E, t.size, j)
    BY DEF Placed
  <2>3. Holding(t.chain, t.size, E) /\ E \ {x} \in SUBSET Entry
    BY DEF Holds, Holding
  <2> HIDE DEF s, at
  <2>4. Lists(r, Placed(E, t.size, k) \ {x}, Entry)
    BY <1>2, <1>3, ListRemoved
  <2> HIDE DEF r
  <2> QED
    BY <1>1, <1>2, <2>1, <2>2, <2>3, <2>4, HoldingWith
<1>6. t.count - 1 = Cardinality(E \ {x})
  BY EntriesAre, FS_RemoveElement DEF Holds
<1>7. \A d, e \in E \ {x} : d.name = e.name => d = e
  BY DEF Holds
<1>8. c[k] = r
  BY <1>1, <1>2 DEF Holds, Holding
<1> HIDE DEF u, c
<1>9. Holds(u, E \ {x})
  BY <1>1, <1>4, <1>5, <1>6, <1>7, HoldsWhen
<1>10. u.size = t.size /\ u.chain = c
  BY <1>4
<1> QED
  BY <1>2, <1>3, <1>8, <1>9, <1>10 DEF u, GoneFrom

LEMMA UpdatedHolds ==
  ASSUME NEW t, NEW E, Holds(t, E), NEW x \in E, NEW k, k = HashKey(t.size, x.name),
         NEW at, at = Position(t.chain[k], x.name), NEW p, [name |-> x.name, payload |-> p] \in Entry
  PROVE  Holds([t EXCEPT !.chain[k][at].payload = p], (E \ {x}) \cup {[name |-> x.name, payload |-> p]})
<1> DEFINE s == t.chain[k]
           y == [name |-> x.name, payload |-> p]
           r == [s EXCEPT ![at] = y]
           c == [t.chain EXCEPT ![k] = r]
           u == [t EXCEPT !.chain[k][at].payload = p]
           F == (E \ {x}) \cup {y}
<1>1. x.name \in HashName /\ x.name \in Names(E) /\ t.size \in Nat \ {0} /\ E \in SUBSET Entry
  BY NameOfEntry DEF Holds, Holding, Names
<1>2. /\ k \in 0 .. t.size - 1 /\ Lists(s, Placed(E, t.size, k), Entry)
      /\ at \in 1 .. Len(s) /\ s[at] \in E /\ s[at].name = x.name
  BY <1>1, Finding
<1>3. s[at] = x
  BY <1>2 DEF Holds
<1>4. u = [size |-> t.size, count |-> t.count, chain |-> c]
  <2> DEFINE d == [t.chain EXCEPT ![k] = [t.chain[k] EXCEPT ![at] = [t.chain[k][at] EXCEPT !.payload = p]]]
  <2>1. u = [t EXCEPT !.chain = d]
    BY Zenon
  <2>2. [x EXCEPT !.payload = p] = y
    <3> DEFINE q == x.payload
               n == x.name
    <3>1. x = [name |-> n, payload |-> q]
      BY <1>1, NameOfEntry
    <3> HIDE DEF q, n
    <3>2. [[name |-> n, payload |-> q] EXCEPT !.payload = p] = [name |-> n, payload |-> p]
      OBVIOUS
    <3> QED
      BY <3>1, <3>2, Zenon DEF n
  <2> HIDE DEF u
  <2>3. d = c
    BY <1>3, <2>2, Zenon
  <2>4. IsTable(t)
    BY DEF Holds
  <2> HIDE DEF c, d
  <2> QED
    BY <2>1, <2>3, <2>4, TableWith, Zenon
<1>5. y.name = x.name /\ \A d \in E : d.name = x.name => d = x
  BY DEF Holds
<1> HIDE DEF y
<1>6. y \in Entry /\ (y \in E => y = x) /\ HashKey(t.size, y.name) = k
  BY <1>5 DEF y
<1>7. Holding(c, t.size, F)
  <2>1. Placed(F, t.size, k) = (Placed(E, t.size, k) \ {x}) \cup {y}
    BY <1>6 DEF Placed
  <2>2. \A j \in 0 .. t.size - 1 : j # k => Placed(F, t.size, j) = Placed(E, t.size, j)
    BY <1>6 DEF Placed
  <2>3. Holding(t.chain, t.size, E) /\ F \in SUBSET Entry
    BY <1>1, <1>6 DEF Holds
  <2>4. y \in Placed(E, t.size, k) => y = s[at]
    BY <1>3, <1>6 DEF Placed
  <2> HIDE DEF s
  <2>5. Lists(r, (Placed(E, t.size, k) \ {s[at]}) \cup {y}, Entry)
    BY <1>2, <1>6, <2>4, ListExcept
  <2> HIDE DEF r, F
  <2> QED
    BY <1>1, <1>2, <1>3, <2>1, <2>2, <2>3, <2>5, HoldingWith
<1>8. t.count = Cardinality(F)
  <2>1. y \notin E \ {x}
    BY <1>6
  <2>2. IsFiniteSet(E \ {x}) /\ Cardinality(E \ {x}) = Cardinality(E) - 1
    BY EntriesAre, FS_RemoveElement
  <2>3. Cardinality(F) = (Cardinality(E) - 1) + 1
    BY <2>1, <2>2, FS_AddElement
  <2>4. Cardinality(E) \in Nat
    BY EntriesAre, FS_CardinalityType
  <2> QED
    BY <2>3, <2>4 DEF Holds
<1>9. \A d, e \in F : d.name = e.name => d = e
  BY <1>5 DEF Holds
<1> HIDE DEF u, c, F
<1>10. Holds(u, F)
  BY <1>1, <1>4, <1>7, <1>8, <1>9, HoldsWhen
<1> QED
  BY <1>10 DEF u, F, y
-----------------------------------------------------------------------------
(* Copying and freeing.                                                    *)

TableRecord == [size : Nat \ {0}, count : Nat, chain : UNION {[0 .. z - 1 -> Seq(Entry)] : z \in Nat \ {0}}]

\* The tables that hold some entries.
Tables == {t \in TableRecord : \E E : Holds(t, E)}

LEMMA HoldsType ==
  ASSUME NEW t, NEW E, Holds(t, E)
  PROVE  t \in Tables
<1> DEFINE z == t.size
           n == t.count
           c == t.chain
<1>1. t = [size |-> z, count |-> n, chain |-> c]
  BY DEF Holds, IsTable
<1>2. z \in Nat \ {0} /\ c \in [0 .. z - 1 -> Seq(Entry)]
  BY DEF Holds, Holding
<1>3. n \in Nat
  BY EntriesAre, FS_CardinalityType DEF Holds
<1> HIDE DEF z, n, c
<1>4. t \in TableRecord
  BY <1>1, <1>2, <1>3 DEF TableRecord
<1> QED
  BY <1>4 DEF Tables

LEMMA AddedType ==
  ASSUME NEW t \in Tables, NEW e \in Entry
  PROVE  Added(t, e) \in Tables
<1>1. PICK E : Holds(t, E)
  BY DEF Tables
<1>2. Added(t, e) = t \/ Holds(Added(t, e), E \cup {e})
  BY <1>1, AddedHolds
<1> QED
  BY <1>2, HoldsType

\* The tables that adding the entries of s gives.
Copying(f, t, s) ==
  /\ f[0] = t /\ f[Len(s)] = FoldLeft(Added, t, s)
  /\ \A i \in 1 .. Len(s) : f[i] = Added(f[i - 1], s[i])

LEMMA CopiedSteps ==
  ASSUME NEW t \in Tables, NEW s \in Seq(Entry)
  PROVE  \E f \in [0 .. Len(s) -> Tables] : Copying(f, t, s)
<1> DEFINE Op(x, y) == Added(x, y)
           step == [p \in Tables \X Entry |-> Op(p[1], p[2])]
           Is(g) == g = [x \in SUBSET (1 .. Len(s)) |->
                           IF x = {} THEN t ELSE Op(g[x \ {Max(x)}], s[Max(x)])]
           iter == CHOOSE g : Is(g)
<1>1. \A x \in Tables, y \in Entry : Op(x, y) \in Tables
  BY AddedType
<1>2. FoldLeft(Added, t, s) = iter[1 .. Len(s)]
  <2>1. DOMAIN s = 1 .. Len(s)
    BY LenProperties
  <2> QED
    BY <2>1 DEF FoldLeft, MapThenFoldSet
<1> HIDE DEF Op
<1>3. step \in [Tables \X Entry -> Tables]
      /\ \A x \in Tables, y \in Entry : step[<<x, y>>] = Op(x, y)
  BY <1>1
<1>4. \A x \in SUBSET (1 .. Len(s)) : x # {} => Max(x) \in 1 .. Len(s) /\ s[Max(x)] \in Entry
  <2>1. Len(s) \in Nat
    BY LenProperties
  <2> QED
    BY <2>1, MaxUpto, ElementOfSeq
<1> HIDE DEF step
<1>5. PICK g \in [SUBSET (1 .. Len(s)) -> Tables] : IsIter(g, step, t, s)
  BY <1>3, IterExists
<1>6. Is(g)
  BY <1>3, <1>4, <1>5 DEF IsIter
<1>7. Is(iter)
  BY <1>6
<1> HIDE DEF iter
<1>8. IsFoldOf(iter, step, t, s, Tables)
  BY <1>3, <1>4, <1>7 DEF IsFoldOf
<1>9. PICK f \in [0 .. Len(s) -> Tables] : TakenFrom(f, iter, step, t, s)
  BY <1>3, <1>8, FoldSteps
<1>10. \A i \in 1 .. Len(s) : f[i] = Op(f[i - 1], s[i])
  <2> TAKE i \in 1 .. Len(s)
  <2>1. i - 1 \in 0 .. Len(s) /\ s[i] \in Entry
    BY LenProperties, ElementOfSeq
  <2> QED
    BY <1>3, <1>9, <2>1 DEF TakenFrom
<1> QED
  BY <1>2, <1>9, <1>10 DEF Op, TakenFrom, Copying

LEMMA EmptyHolds ==
  ASSUME NEW z \in Nat \ {0}
  PROVE  Holds(EmptyTable(z), {})
<1>1. Holding([k \in 0 .. z - 1 |-> <<>>], z, {})
  BY HoldingNothing
<1> DEFINE c == [k \in 0 .. z - 1 |-> <<>>]
<1>2. EmptyTable(z) = [size |-> z, count |-> 0, chain |-> c]
  BY DEF EmptyTable
<1>3. 0 = Cardinality({})
  BY FS_EmptySet
<1> HIDE DEF c
<1>4. Holding(c, z, {})
  BY <1>1 DEF c
<1> QED
  BY <1>2, <1>3, <1>4, HoldsWhen

\* A copy holds what the table does (nl_xmlHashCopy).
LEMMA CopyHolds ==
  ASSUME NEW t, NEW E, Holds(t, E)
  PROVE  Holds([FoldLeft(Added, EmptyTable(t.size), Flat(t.chain, t.size)) EXCEPT !.count = t.count], E)
<1> DEFINE s == Flat(t.chain, t.size)
           b == EmptyTable(t.size)
           r == FoldLeft(Added, b, s)
           Upto(i) == {s[j] : j \in 1 .. i}
<1>1. Lists(s, E, Entry) /\ s \in Seq(Entry) /\ Len(s) \in Nat
  BY EntriesAre, ListFacts
<1>2. Holds(b, {}) /\ b \in Tables
  BY EmptyHolds, HoldsType DEF Holds
<1> HIDE DEF s, b
<1>3. PICK f \in [0 .. Len(s) -> Tables] : Copying(f, b, s)
  BY <1>1, <1>2, CopiedSteps
<1> DEFINE S == {i \in Nat : Holds(f[i], Upto(i))}
<1>4. 0 \in S
  <2>1. Upto(0) = {}
    OBVIOUS
  <2> HIDE DEF Upto
  <2> QED
    BY <1>2, <1>3, <2>1 DEF Copying
<1>5. ASSUME NEW i \in 1 .. Len(s), i - 1 \in S PROVE i \in S
  <2>1. Upto(i) = Upto(i - 1) \cup {s[i]}
    <3>1. 1 .. i = (1 .. (i - 1)) \cup {i}
      BY <1>1
    <3> QED
      BY <3>1
  <2>2. s[i] \in Entry /\ s[i] \in E
    BY <1>1, ListFacts
  <2>3. s[i].name \notin Names(Upto(i - 1))
    <3>1. \A j \in 1 .. i - 1 : j \in 1 .. Len(s) /\ j # i
      BY <1>1
    <3>2. \A j \in 1 .. i - 1 : s[j] # s[i] /\ s[j] \in E
      BY <1>1, <3>1, ListFacts
    <3>3. \A j \in 1 .. i - 1 : s[j].name # s[i].name
      BY <2>2, <3>2 DEF Holds
    <3> QED
      BY <3>3 DEF Names
  <2>4. f[i] = Added(f[i - 1], s[i])
    BY <1>3 DEF Copying
  <2>5. Holds(f[i - 1], Upto(i - 1))
    BY <1>5
  <2> HIDE DEF Upto
  <2>6. Holds(f[i], Upto(i - 1) \cup {s[i]})
    BY <2>2, <2>3, <2>4, <2>5, AddedHolds
  <2>7. i \in Nat
    BY <1>1
  <2> QED
    BY <2>1, <2>6, <2>7
<1> HIDE DEF S
<1>6. \A i \in 0 .. Len(s) : i \in S
  BY <1>1, <1>4, <1>5, InductionUpto
<1>7. Len(s) \in S
  BY <1>1, <1>6
<1>8. Upto(Len(s)) = E
  BY <1>1, ListFacts
<1> HIDE DEF Upto
<1>9. Holds(r, E)
  BY <1>3, <1>7, <1>8 DEF S, Copying
<1> HIDE DEF r
<1> DEFINE u == [r EXCEPT !.count = t.count]
<1>10. u = [size |-> r.size, count |-> t.count, chain |-> r.chain]
  BY <1>9, TableWith, Zenon DEF Holds
<1> HIDE DEF u
<1>11. Holding(r.chain, r.size, E) /\ t.count = Cardinality(E) /\ r.size \in Nat \ {0}
       /\ \A d, e \in E : d.name = e.name => d = e
  BY <1>9 DEF Holds
<1>12. Holds(u, E)
  BY <1>10, <1>11, HoldsWhen
<1> QED
  BY <1>12 DEF u, r, b, s


\* What nl_xmlHashFree keeps while it goes through the chains.
Payloads == UNION {PayloadOf[n] : n \in HashName}
FreeRecord == [left : Int, freed : Seq(Payloads)]
PayloadsOf(s) == [i \in DOMAIN s |-> s[i].payload]

LEMMA PayloadsType ==
  ASSUME NEW s \in Seq(Entry)
  PROVE  PayloadsOf(s) \in Seq(Payloads) /\ Len(PayloadsOf(s)) = Len(s)
<1>1. Len(s) \in Nat /\ DOMAIN s = 1 .. Len(s)
  BY LenProperties
<1>2. \A i \in 1 .. Len(s) : s[i].payload \in Payloads
  <2> TAKE i \in 1 .. Len(s)
  <2>1. s[i] \in Entry
    BY ElementOfSeq
  <2> QED
    BY <2>1 DEF Entry, Payloads
<1> QED
  BY <1>1, <1>2 DEF PayloadsOf

LEMMA FreeingType ==
  ASSUME NEW f \in FreeRecord, NEW s \in Seq(Entry)
  PROVE  Freeing(f, s) \in FreeRecord
<1>1. f.left \in Int /\ f.freed \in Seq(Payloads)
  BY DEF FreeRecord
<1>2. f.freed \o PayloadsOf(s) \in Seq(Payloads)
  BY <1>1, PayloadsType, ConcatProperties
<1>3. f.left - Len(s) \in Int
  BY <1>1, LenProperties
<1>4. Freeing(f, s) = f \/ Freeing(f, s) = [left |-> f.left - Len(s), freed |-> f.freed \o PayloadsOf(s)]
  BY DEF Freeing, PayloadsOf
<1> DEFINE l == f.left - Len(s)
           q == f.freed \o PayloadsOf(s)
<1> HIDE DEF l, q
<1>5. [left |-> l, freed |-> q] \in FreeRecord
  BY <1>2, <1>3 DEF FreeRecord, l, q
<1> QED
  BY <1>4, <1>5 DEF l, q

\* What has been freed after each chain.
FreeingAll(f, b, ss) ==
  /\ f[0] = b /\ f[Len(ss)] = FoldLeft(Freeing, b, ss)
  /\ \A i \in 1 .. Len(ss) : f[i] = Freeing(f[i - 1], ss[i])

LEMMA FreedSteps ==
  ASSUME NEW b \in FreeRecord, NEW ss \in Seq(Seq(Entry))
  PROVE  \E f \in [0 .. Len(ss) -> FreeRecord] : FreeingAll(f, b, ss)
<1> DEFINE Op(x, y) == Freeing(x, y)
           step == [p \in FreeRecord \X Seq(Entry) |-> Op(p[1], p[2])]
           Is(g) == g = [x \in SUBSET (1 .. Len(ss)) |->
                           IF x = {} THEN b ELSE Op(g[x \ {Max(x)}], ss[Max(x)])]
           iter == CHOOSE g : Is(g)
<1>1. \A x \in FreeRecord, y \in Seq(Entry) : Op(x, y) \in FreeRecord
  BY FreeingType
<1>2. FoldLeft(Freeing, b, ss) = iter[1 .. Len(ss)]
  <2>1. DOMAIN ss = 1 .. Len(ss)
    BY LenProperties
  <2> QED
    BY <2>1 DEF FoldLeft, MapThenFoldSet
<1> HIDE DEF Op
<1>3. step \in [FreeRecord \X Seq(Entry) -> FreeRecord]
      /\ \A x \in FreeRecord, y \in Seq(Entry) : step[<<x, y>>] = Op(x, y)
  BY <1>1
<1>4. \A x \in SUBSET (1 .. Len(ss)) : x # {} => Max(x) \in 1 .. Len(ss) /\ ss[Max(x)] \in Seq(Entry)
  <2>1. Len(ss) \in Nat
    BY LenProperties
  <2> QED
    BY <2>1, MaxUpto, ElementOfSeq
<1> HIDE DEF step
<1>5. PICK g \in [SUBSET (1 .. Len(ss)) -> FreeRecord] : IsIter(g, step, b, ss)
  BY <1>3, IterExists
<1>6. Is(g)
  BY <1>3, <1>4, <1>5 DEF IsIter
<1>7. Is(iter)
  BY <1>6
<1> HIDE DEF iter
<1>8. IsFoldOf(iter, step, b, ss, FreeRecord)
  BY <1>3, <1>4, <1>7 DEF IsFoldOf
<1>9. PICK f \in [0 .. Len(ss) -> FreeRecord] : TakenFrom(f, iter, step, b, ss)
  BY <1>3, <1>8, FoldSteps
<1>10. \A i \in 1 .. Len(ss) : f[i] = Op(f[i - 1], ss[i])
  <2> TAKE i \in 1 .. Len(ss)
  <2>1. i - 1 \in 0 .. Len(ss) /\ ss[i] \in Seq(Entry)
    BY LenProperties, ElementOfSeq
  <2> QED
    BY <1>3, <1>9, <2>1 DEF TakenFrom
<1> QED
  BY <1>2, <1>9, <1>10 DEF Op, TakenFrom, FreeingAll

\* No payload twice.
PaidOnce(E) == \A d, e \in E : d.payload = e.payload => d = e

LEMMA PayloadsListed ==
  ASSUME NEW s, NEW P, Lists(s, P, Entry), PaidOnce(P)
  PROVE  Lists(PayloadsOf(s), {e.payload : e \in P}, Payloads)
<1> DEFINE q == PayloadsOf(s)
<1>1. q \in Seq(Payloads) /\ Len(q) = Len(s) /\ s \in Seq(Entry)
  BY ListFacts, PayloadsType
<1>2. \A i \in 1 .. Len(s) : q[i] = s[i].payload
  BY ListFacts DEF PayloadsOf
<1> HIDE DEF q
<1>3. \A i \in 1 .. Len(q) : q[i] \in {e.payload : e \in P}
  BY <1>1, <1>2, ListFacts
<1>4. \A x \in {e.payload : e \in P} : \E i \in 1 .. Len(q) : q[i] = x
  <2> TAKE x \in {e.payload : e \in P}
  <2>1. PICK e \in P : x = e.payload
    OBVIOUS
  <2>2. PICK i \in 1 .. Len(s) : s[i] = e
    BY ListFacts
  <2> QED
    BY <1>1, <1>2, <2>1, <2>2
<1>5. \A i, j \in 1 .. Len(q) : q[i] = q[j] => i = j
  <2> TAKE i, j \in 1 .. Len(q)
  <2> HAVE q[i] = q[j]
  <2>1. i \in 1 .. Len(s) /\ j \in 1 .. Len(s) /\ s[i].payload = s[j].payload
    BY <1>1, <1>2
  <2>2. s[i] \in P
    BY <2>1, ListFacts
  <2>3. s[j] \in P
    BY <2>1, ListFacts
  <2>4. s[i] = s[j]
    BY <2>1, <2>2, <2>3 DEF PaidOnce
  <2> QED
    BY <2>1, <2>4, ListFacts
<1>6. Lists(q, {e.payload : e \in P}, Payloads)
  BY <1>1, <1>3, <1>4, <1>5, ListsWhen
<1> QED
  BY <1>6 DEF q

\* The entries of the first chains.
Before(E, z, i) == {e \in E : HashKey(z, e.name) < i}

\* f tells what has been freed of E and how many entries are left.
FreedUpto(f, E, z, i) ==
  /\ f \in FreeRecord
  /\ Lists(f.freed, {e.payload : e \in Before(E, z, i)}, Payloads)
  /\ f.left = Cardinality(E) - Cardinality(Before(E, z, i))

LEMMA FreeingStep ==
  ASSUME NEW z \in Nat \ {0}, NEW E, E \in SUBSET Entry, IsFiniteSet(E), PaidOnce(E), NEW i \in 1 .. z,
         NEW s, Lists(s, Placed(E, z, i - 1), Entry), NEW f, FreedUpto(f, E, z, i - 1)
  PROVE  FreedUpto(Freeing(f, s), E, z, i)
<1> DEFINE B == Before(E, z, i - 1)
           C == Before(E, z, i)
           P == Placed(E, z, i - 1)
<1>0. \A e \in E : HashKey(z, e.name) \in Nat
  BY KeyOfName, NameOfEntry
<1>1. C = B \cup P /\ B \cap P = {} /\ B \in SUBSET E /\ P \in SUBSET E /\ C \in SUBSET E
  BY <1>0 DEF Before, Placed
<1>2. /\ IsFiniteSet(B) /\ IsFiniteSet(P) /\ Cardinality(B) \in Nat /\ Cardinality(P) \in Nat
      /\ Cardinality(B) <= Cardinality(E) /\ (Cardinality(E) = Cardinality(B) => E = B)
      /\ Cardinality(E) \in Nat
  BY <1>1, FS_Subset, FS_CardinalityType
<1>3. Cardinality(C) = Cardinality(B) + Cardinality(P)
  <2>1. Cardinality(B \cap P) = 0
    BY <1>1, FS_EmptySet
  <2>2. Cardinality(B \cup P) = Cardinality(B) + Cardinality(P) - Cardinality(B \cap P)
    BY <1>2, FS_Union
  <2> QED
    BY <1>1, <1>2, <2>1, <2>2
<1>4. Cardinality(P) = Len(s) /\ s \in Seq(Entry)
  BY ListLength, ListFacts
<1>5. /\ f \in FreeRecord /\ f.left = Cardinality(E) - Cardinality(B)
      /\ Lists(f.freed, {e.payload : e \in B}, Payloads)
  BY DEF FreedUpto
<1> HIDE DEF B, C, P
<1>6. CASE f.left <= 0
  <2>1. Freeing(f, s) = f
    BY <1>6 DEF Freeing
  <2>2. E = B
    BY <1>2, <1>5, <1>6
  <2>3. C = B
    BY <1>1, <2>2
  <2>4. FreedUpto(f, E, z, i)
    BY <1>5, <2>3 DEF FreedUpto, C
  <2> QED
    BY <2>1, <2>4
<1>7. CASE ~(f.left <= 0)
  <2> DEFINE g == Freeing(f, s)
  <2>1. g = [left |-> f.left - Len(s), freed |-> f.freed \o PayloadsOf(s)]
    BY <1>7 DEF Freeing, PayloadsOf
  <2>2. g \in FreeRecord
    BY <1>4, <1>5, FreeingType
  <2> HIDE DEF g
  <2>3. g.left = Cardinality(E) - Cardinality(C)
    BY <1>2, <1>3, <1>4, <1>5, <2>1
  <2>4. Lists(PayloadsOf(s), {e.payload : e \in P}, Payloads)
    <3>1. PaidOnce(P)
      BY <1>1 DEF PaidOnce
    <3> QED
      BY <3>1, PayloadsListed DEF P
  <2>5. {e.payload : e \in B} \cap {e.payload : e \in P} = {}
    BY <1>1 DEF PaidOnce
  <2>6. {e.payload : e \in B} \cup {e.payload : e \in P} = {e.payload : e \in C}
    BY <1>1
  <2>7. Lists(f.freed \o PayloadsOf(s), {e.payload : e \in C}, Payloads)
    BY <1>5, <2>4, <2>5, <2>6, ListConcat
  <2>8. g.freed = f.freed \o PayloadsOf(s)
    BY <2>1
  <2>9. FreedUpto(g, E, z, i)
    BY <2>2, <2>3, <2>7, <2>8 DEF FreedUpto, C
  <2> QED
    BY <2>9 DEF g
<1> QED
  BY <1>6, <1>7

\* Every payload is handed to the deallocator once (nl_xmlHashFree).
LEMMA AllFreed ==
  ASSUME NEW t, NEW E, Holds(t, E), PaidOnce(E)
  PROVE  Lists(FoldLeft(Freeing, [left |-> t.count, freed |-> <<>>], [k \in 1 .. t.size |-> t.chain[k - 1]]).freed,
               {e.payload : e \in E}, Payloads)
<1> DEFINE z == t.size
           ss == [k \in 1 .. z |-> t.chain[k - 1]]
           b == [left |-> t.count, freed |-> <<>>]
           r == FoldLeft(Freeing, b, ss)
<1>1. /\ z \in Nat \ {0} /\ E \in SUBSET Entry /\ IsFiniteSet(E) /\ t.count = Cardinality(E)
      /\ t.count \in Nat
  BY EntriesAre, FS_CardinalityType DEF Holds, Holding
<1>2. \A k \in 1 .. z : k - 1 \in 0 .. z - 1
  BY <1>1
<1>3. ss \in Seq(Seq(Entry)) /\ Len(ss) = z
  <2>1. \A k \in 1 .. z : t.chain[k - 1] \in Seq(Entry)
    BY <1>2 DEF Holds, Holding
  <2>2. z \in Nat
    BY <1>1
  <2> HIDE DEF z
  <2>3. ss \in [1 .. z -> Seq(Entry)]
    BY <2>1
  <2> HIDE DEF ss
  <2> QED
    BY <2>2, <2>3
<1>4. \A k \in 1 .. z : Lists(ss[k], Placed(E, z, k - 1), Entry)
  BY <1>2 DEF Holds, Holding
<1>5. Lists(<<>>, {}, Payloads) /\ <<>> \in Seq(Payloads)
  BY ListEmpty, EmptySeq
<1>6. Before(E, z, 0) = {} /\ Before(E, z, z) = E
  <2>1. \A e \in E : HashKey(z, e.name) \in 0 .. z - 1
    BY <1>1, KeyOfName, NameOfEntry
  <2> HIDE DEF z
  <2> QED
    BY <1>1, <2>1 DEF Before
<1>7. FreedUpto(b, E, z, 0)
  <2>1. b \in FreeRecord /\ b.left = t.count /\ b.freed = <<>>
    BY <1>1, <1>5 DEF FreeRecord
  <2>2. Cardinality(Before(E, z, 0)) = 0
    BY <1>6, FS_EmptySet
  <2>3. {e.payload : e \in Before(E, z, 0)} = {}
    BY <1>6
  <2> HIDE DEF b, z
  <2>4. b.left = Cardinality(E) - Cardinality(Before(E, z, 0))
    BY <1>1, <2>1, <2>2
  <2> QED
    BY <1>5, <2>1, <2>3, <2>4 DEF FreedUpto
<1> HIDE DEF z, ss, b
<1>8. PICK f \in [0 .. Len(ss) -> FreeRecord] : FreeingAll(f, b, ss)
  BY <1>3, <1>7, FreedSteps DEF FreedUpto
<1> DEFINE S == {i \in Nat : FreedUpto(f[i], E, z, i)}
<1>9. 0 \in S
  BY <1>7, <1>8 DEF FreeingAll
<1>10. ASSUME NEW i \in 1 .. Len(ss), i - 1 \in S PROVE i \in S
  <2>1. i \in 1 .. z /\ i \in Nat
    BY <1>1, <1>3
  <2>2. f[i] = Freeing(f[i - 1], ss[i])
    BY <1>8 DEF FreeingAll
  <2>3. FreedUpto(f[i - 1], E, z, i - 1)
    BY <1>10
  <2>4. Lists(ss[i], Placed(E, z, i - 1), Entry)
    BY <1>4, <2>1
  <2>5. FreedUpto(Freeing(f[i - 1], ss[i]), E, z, i)
    BY <1>1, <2>1, <2>3, <2>4, FreeingStep
  <2> QED
    BY <2>1, <2>2, <2>5
<1> HIDE DEF S
<1>11. \A i \in 0 .. Len(ss) : i \in S
  BY <1>1, <1>3, <1>9, <1>10, InductionUpto
<1>12. Len(ss) \in S
  BY <1>1, <1>3, <1>11
<1>13. FreedUpto(r, E, z, z)
  BY <1>3, <1>8, <1>12 DEF S, FreeingAll
<1> HIDE DEF r
<1>14. Lists(r.freed, {e.payload : e \in E}, Payloads)
  BY <1>6, <1>13 DEF FreedUpto
<1> QED
  BY <1>14 DEF r, b, ss, z
-----------------------------------------------------------------------------
(* The map.                                                                *)

\* The payloads of the entries by name.
MapOf(E) == [n \in Names(E) |-> (CHOOSE e \in E : e.name = n).payload]

NamedOnce(E) == \A d, e \in E : d.name = e.name => d = e

LEMMA MapOfEntry ==
  ASSUME NEW E, NamedOnce(E), NEW e \in E
  PROVE  e.name \in Names(E) /\ MapOf(E)[e.name] = e.payload
<1> DEFINE d == CHOOSE f \in E : f.name = e.name
<1>1. d \in E /\ d.name = e.name
  OBVIOUS
<1>2. d = e
  BY <1>1 DEF NamedOnce
<1>3. e.name \in Names(E)
  BY DEF Names
<1>4. MapOf(E)[e.name] = d.payload
  BY <1>3 DEF MapOf
<1> QED
  BY <1>2, <1>3, <1>4

LEMMA MapInTable ==
  ASSUME NEW t, NEW E, Holds(t, E)
  PROVE  MapIn(t) = MapOf(E) /\ DOMAIN MapOf(E) = Names(E) /\ NamedOnce(E)
<1>1. NamedOnce(E)
  BY DEF Holds, NamedOnce
<1>2. DOMAIN MapOf(E) = Names(E)
  BY DEF MapOf
<1>3. Entries(t) = E /\ {e.name : e \in Entries(t)} = Names(E)
  BY EntriesAre DEF Names
<1>4. ASSUME NEW n \in Names(E) PROVE ChainOf(t, n)[Position(ChainOf(t, n), n)].payload = MapOf(E)[n]
  <2> DEFINE x == ChainOf(t, n)[Position(ChainOf(t, n), n)]
  <2>1. n \in HashName
    BY NameOfEntry DEF Names, Holds, Holding
  <2>2. x \in E /\ x.name = n
    BY <2>1, Finding DEF ChainOf
  <2> HIDE DEF x
  <2>3. MapOf(E)[n] = x.payload
    BY <1>1, <2>2, MapOfEntry
  <2> QED
    BY <2>3 DEF x
<1>5. MapIn(t) = [n \in Names(E) |-> ChainOf(t, n)[Position(ChainOf(t, n), n)].payload]
  BY <1>3 DEF MapIn
<1>6. MapIn(t) = [n \in Names(E) |-> MapOf(E)[n]]
  BY <1>4, <1>5
<1>7. MapOf(E) = [n \in Names(E) |-> MapOf(E)[n]]
  BY DEF MapOf
<1> QED
  BY <1>1, <1>2, <1>6, <1>7

\* An entry is put in, or in the place of the one of its name.
LEMMA MapPut ==
  ASSUME NEW E, NamedOnce(E), NEW F, NamedOnce(F), NEW e \in F,
         \A d : d.name # e.name => (d \in E <=> d \in F)
  PROVE  MapOf(F) = [k \in Names(E) \cup {e.name} |-> IF k = e.name THEN e.payload ELSE MapOf(E)[k]]
<1> DEFINE n == e.name
<1>2. Names(F) = {n} \cup Names(E)
  <2>1. ASSUME NEW k \in Names(F) PROVE k = n \/ k \in Names(E)
    BY DEF Names
  <2>2. ASSUME NEW k \in Names(E) PROVE k = n \/ k \in Names(F)
    BY DEF Names
  <2>3. n \in Names(F)
    BY DEF Names
  <2> QED
    BY <2>1, <2>2, <2>3
<1>3. MapOf(F)[n] = e.payload
  BY MapOfEntry
<1>4. ASSUME NEW k \in Names(E), k # n PROVE MapOf(F)[k] = MapOf(E)[k]
  <2>1. PICK d \in E : d.name = k
    BY DEF Names
  <2>2. d \in F
    BY <1>4, <2>1
  <2> QED
    BY <2>1, <2>2, MapOfEntry
<1>5. MapOf(F) = [k \in Names(F) |-> MapOf(F)[k]]
  BY DEF MapOf
<1> HIDE DEF n
<1>6. MapOf(F) = [k \in Names(E) \cup {n} |-> IF k = n THEN e.payload ELSE MapOf(E)[k]]
  BY <1>2, <1>3, <1>4, <1>5
<1> QED
  BY <1>6 DEF n

LEMMA MapRemoved ==
  ASSUME NEW E, NamedOnce(E), NEW x \in E
  PROVE  MapOf(E \ {x}) = [k \in Names(E) \ {x.name} |-> MapOf(E)[k]]
<1> DEFINE F == E \ {x}
<1>1. NamedOnce(F)
  BY DEF NamedOnce
<1>2. Names(F) = Names(E) \ {x.name}
  BY DEF Names, NamedOnce
<1>3. ASSUME NEW k \in Names(F) PROVE MapOf(F)[k] = MapOf(E)[k]
  <2>1. PICK d \in F : d.name = k
    BY DEF Names
  <2> QED
    BY <1>1, <2>1, MapOfEntry
<1>4. MapOf(F) = [k \in Names(F) |-> MapOf(F)[k]]
  BY DEF MapOf
<1> HIDE DEF F
<1> QED
  BY <1>2, <1>3, <1>4 DEF F
-----------------------------------------------------------------------------
(* Every operation is one of the map.                                      *)

\* A table that holds E, no name and no payload twice.
Good(t, E) == Holds(t, E) /\ PaidOnce(E)

LEMMA FreedListed ==
  ASSUME NEW P, NEW S, NEW s, Lists(s, S, P)
  PROVE  FreedOnce(s) = S
  BY DEF FreedOnce, Lists

LEMMA FreedFew ==
  ASSUME NEW p
  PROVE  FreedOnce(<<>>) = {} /\ FreedOnce(<<p>>) = {p}
<1>1. Lists(<<>>, {}, {p}) /\ Lists(<<p>>, {p}, {p})
  BY ListEmpty, ListOne
<1> QED
  BY <1>1, FreedListed

LEMMA GoodTable ==
  ASSUME NEW t, NEW E, Good(t, E)
  PROVE  /\ Holds(t, E) /\ PaidOnce(E) /\ NamedOnce(E) /\ Entries(t) = E /\ E \in SUBSET Entry
         /\ MapIn(t) = MapOf(E) /\ DOMAIN MapIn(t) = Names(E) /\ Names(E) \in SUBSET HashName
<1>1. Holds(t, E) /\ PaidOnce(E) /\ E \in SUBSET Entry
  BY DEF Good, Holds, Holding
<1>2. Names(E) \in SUBSET HashName
  BY <1>1, NameOfEntry DEF Names
<1> QED
  BY <1>1, <1>2, EntriesAre, MapInTable

LEMMA NewEntry ==
  ASSUME NEW E, Good(table, E), NEW n \in HashName, NEW p \in PayloadOf[n] \ {e.payload : e \in Entries(table)}
  PROVE  /\ [name |-> n, payload |-> p] \in Entry /\ p \in UNION {PayloadOf[m] : m \in HashName}
         /\ \A e \in E : e.payload # p
<1>1. p \in UNION {PayloadOf[m] : m \in HashName}
  OBVIOUS
<1>2. \A e \in E : e.payload # p
  BY GoodTable
<1> QED
  BY <1>1, <1>2 DEF Entry

\* The table with an entry put in.
LEMMA PutHolds ==
  ASSUME NEW t, NEW E, Good(t, E), NEW e \in Entry, \A d \in E : d.payload # e.payload,
         NEW u, NEW F, Holds(u, F), e \in F, F \in SUBSET (E \cup {e}),
         \A d : d.name # e.name => (d \in E <=> d \in F)
  PROVE  /\ Good(u, F)
         /\ MapIn(u) = [k \in DOMAIN MapIn(t) \cup {e.name} |-> IF k = e.name THEN e.payload ELSE MapIn(t)[k]]
<1>1. PaidOnce(F)
  BY GoodTable DEF PaidOnce
<1>2. Good(u, F)
  BY <1>1 DEF Good
<1>3. NamedOnce(E) /\ NamedOnce(F) /\ MapIn(t) = MapOf(E) /\ MapIn(u) = MapOf(F) /\ DOMAIN MapIn(t) = Names(E)
  BY <1>2, GoodTable
<1>4. MapOf(F) = [k \in Names(E) \cup {e.name} |-> IF k = e.name THEN e.payload ELSE MapOf(E)[k]]
  BY <1>3, MapPut
<1> QED
  BY <1>2, <1>3, <1>4

LEMMA AddMaps ==
  ASSUME NEW E, Good(table, E), NEW n \in HashName, NEW p \in PayloadOf[n] \ {e.payload : e \in Entries(table)},
         AddEntry(n, p)
  PROVE  Map!Add /\ \E F : Good(table', F)
<1> DEFINE e == [name |-> n, payload |-> p]
           at == Position(ChainOf(table, n), n)
<1>1. e \in Entry /\ e.name = n /\ e.payload = p /\ p \in UNION {PayloadOf[m] : m \in HashName} /\ \A d \in E : d.payload # p
  BY NewEntry
<1>2. table' = Added(table, e) /\ hAnswer' = (IF at # 0 THEN <<"refused">> ELSE <<"done">>) /\ hFreed' = <<>>
  BY DEF AddEntry, Answer
<1>3. at = 0 <=> n \notin Names(E)
  BY GoodTable, Finding DEF ChainOf
<1>4. FreedOnce(hFreed)' = {}
  BY <1>2, FreedFew
<1>5. DOMAIN MapIn(table) = Names(E) /\ Holds(table, E)
  BY GoodTable
<1> HIDE DEF e, at
<1>6. CASE n \in Names(E)
  <2>1. table' = table
    BY <1>1, <1>2, <1>5, <1>6, AddedHolds
  <2>2. MapIn(table)' = MapIn(table) /\ hAnswer' = <<"refused">>
    BY <1>2, <1>3, <1>6, <2>1
  <2>3. Map!Add
    BY <1>1, <1>4, <1>5, <1>6, <2>2 DEF Map!Add
  <2> QED
    BY <2>1, <2>3
<1>7. CASE n \notin Names(E)
  <2>1. Holds(table', E \cup {e})
    BY <1>1, <1>2, <1>5, <1>7, AddedHolds
  <2>2. /\ Good(table', E \cup {e})
        /\ MapIn(table') = [k \in DOMAIN MapIn(table) \cup {n} |-> IF k = n THEN p ELSE MapIn(table)[k]]
    BY <1>1, <1>7, <2>1, PutHolds
  <2>3. hAnswer' = <<"done">>
    BY <1>2, <1>3, <1>7
  <2>4. Map!Add
    BY <1>1, <1>4, <1>5, <1>7, <2>2, <2>3 DEF Map!Add, Map!With
  <2> QED
    BY <2>2, <2>4
<1> QED
  BY <1>6, <1>7

LEMMA UpdateMaps ==
  ASSUME NEW E, Good(table, E), NEW n \in HashName, NEW p \in PayloadOf[n] \ {e.payload : e \in Entries(table)},
         UpdateEntry(n, p)
  PROVE  Map!Update /\ \E F : Good(table', F)
<1> DEFINE e == [name |-> n, payload |-> p]
           k == HashKey(table.size, n)
           at == Position(table.chain[k], n)
           x == table.chain[k][at]
<1>1. e \in Entry /\ e.name = n /\ e.payload = p /\ p \in UNION {PayloadOf[m] : m \in HashName} /\ \A d \in E : d.payload # p
  BY NewEntry
<1>2. /\ hAnswer' = <<"done">>
      /\ at # 0 => table' = [table EXCEPT !.chain[k][at].payload = p] /\ hFreed' = <<x.payload>>
      /\ at = 0 => /\ table' = [table EXCEPT !.count = @ + 1, !.chain[k] = Append(@, e)]
                   /\ hFreed' = <<>>
  BY DEF UpdateEntry, Answer
<1>3. Holds(table, E) /\ NamedOnce(E) /\ DOMAIN MapIn(table) = Names(E) /\ MapIn(table) = MapOf(E)
  BY GoodTable
<1>4. (at = 0 <=> n \notin Names(E)) /\ (at # 0 => x \in E /\ x.name = n)
  BY <1>3, Finding
<1>5. CASE at # 0
  <2> DEFINE F == (E \ {x}) \cup {e}
  <2>1. x \in E /\ x.name = n /\ n \in Names(E)
    BY <1>4, <1>5
  <2>2. Holds(table', F)
    <3> DEFINE u == [table EXCEPT !.chain[k][at].payload = p]
    <3>1. table' = u
      BY <1>2, <1>5
    <3>2. k = HashKey(table.size, x.name) /\ at = Position(table.chain[k], x.name)
          /\ e = [name |-> x.name, payload |-> p]
      BY <2>1
    <3> HIDE DEF k, at, x, e
    <3>3. Holds(u, (E \ {x}) \cup {[name |-> x.name, payload |-> p]})
      BY <1>1, <1>3, <2>1, <3>2, UpdatedHolds
    <3> HIDE DEF u
    <3> QED
      BY <3>1, <3>2, <3>3
  <2>3. FreedOnce(hFreed)' = {MapIn(table)[n]}
    <3>1. MapIn(table)[n] = x.payload
      BY <1>3, <2>1, MapOfEntry
    <3> HIDE DEF x
    <3> QED
      BY <1>2, <1>5, <3>1, FreedFew
  <2> HIDE DEF k, at, x, e
  <2>4. F \in SUBSET (E \cup {e}) /\ e \in F /\ \A d : d.name # e.name => (d \in E <=> d \in F)
    BY <1>1, <2>1
  <2> HIDE DEF F
  <2>5. /\ Good(table', F)
        /\ MapIn(table') = [m \in DOMAIN MapIn(table) \cup {n} |-> IF m = n THEN p ELSE MapIn(table)[m]]
    <3>1. \A d \in E : d.payload # e.payload
      BY <1>1
    <3>2. e \in Entry
      BY <1>1
    <3>3. /\ Good(table', F)
          /\ MapIn(table') = [m \in DOMAIN MapIn(table) \cup {e.name} |->
                                 IF m = e.name THEN e.payload ELSE MapIn(table)[m]]
      BY <2>2, <2>4, <3>1, <3>2, PutHolds
    <3> QED
      BY <1>1, <3>3
  <2>6. Map!Update
    BY <1>1, <1>2, <1>3, <2>1, <2>3, <2>5 DEF Map!Update, Map!With
  <2> QED
    BY <2>5, <2>6
<1>6. CASE at = 0
  <2>1. n \notin Names(E)
    BY <1>4, <1>6
  <2>2. Holds(table', E \cup {e})
    <3> DEFINE u == [table EXCEPT !.count = @ + 1, !.chain[HashKey(table.size, e.name)] = Append(@, e)]
    <3>1. table' = u
      BY <1>1, <1>2, <1>6
    <3> HIDE DEF e
    <3>2. Holds(u, E \cup {e})
      BY <1>1, <1>3, <2>1, EntryAdded
    <3> HIDE DEF u
    <3> QED
      BY <3>1, <3>2
  <2>3. FreedOnce(hFreed)' = {}
    BY <1>2, <1>6, FreedFew
  <2> HIDE DEF k, at, x, e
  <2>4. /\ Good(table', E \cup {e})
        /\ MapIn(table') = [m \in DOMAIN MapIn(table) \cup {n} |-> IF m = n THEN p ELSE MapIn(table)[m]]
    BY <1>1, <2>1, <2>2, PutHolds
  <2>5. Map!Update
    BY <1>1, <1>2, <1>3, <2>1, <2>3, <2>4 DEF Map!Update, Map!With
  <2> QED
    BY <2>4, <2>5
<1> QED
  BY <1>5, <1>6

\* What a place found in a chain answers.
LEMMA FoundMaps ==
  ASSUME NEW E, Good(table, E), NEW n \in HashName, NEW at, at = Position(ChainOf(table, n), n), table' = table,
         Answer(IF at = 0 THEN <<"none">> ELSE <<"payload", ChainOf(table, n)[at].payload>>, <<>>)
  PROVE  Map!Lookup /\ Good(table', E)
<1> DEFINE x == ChainOf(table, n)[at]
<1>1. /\ hAnswer' = IF at = 0 THEN <<"none">> ELSE <<"payload", x.payload>>
      /\ hFreed' = <<>>
  BY DEF Answer
<1>2. Holds(table, E) /\ NamedOnce(E) /\ DOMAIN MapIn(table) = Names(E) /\ MapIn(table) = MapOf(E)
  BY GoodTable
<1>3. (at = 0 <=> n \notin Names(E)) /\ (at # 0 => x \in E /\ x.name = n)
  BY <1>2, Finding DEF ChainOf
<1> HIDE DEF x
<1>4. at # 0 => MapIn(table)[n] = x.payload
  BY <1>2, <1>3, MapOfEntry
<1>5. FreedOnce(hFreed)' = {} /\ MapIn(table)' = MapIn(table)
  BY <1>1, FreedFew
<1>6. hAnswer' = IF n \in DOMAIN MapIn(table) THEN <<"payload", MapIn(table)[n]>> ELSE <<"none">>
  BY <1>1, <1>2, <1>3, <1>4
<1> QED
  BY <1>5, <1>6 DEF Map!Lookup

LEMMA LookupMaps ==
  ASSUME NEW E, Good(table, E), NEW n \in HashName, HashLookup(n) \/ HashQLookup(n)
  PROVE  Map!Lookup /\ \E F : Good(table', F)
<1> DEFINE at == Position(ChainOf(table, n), n)
<1>1. CASE HashLookup(n)
  <2>1. /\ table' = table
        /\ Answer(IF at = 0 THEN <<"none">> ELSE <<"payload", ChainOf(table, n)[at].payload>>, <<>>)
    BY <1>1 DEF HashLookup
  <2> HIDE DEF at
  <2> QED
    BY <2>1, FoundMaps DEF at
<1>2. CASE HashQLookup(n)
  <2> DEFINE q == QSplit3(n)
             chain == table.chain[HashQKey(table.size, q)]
             place == SelectInSeq(chain, LAMBDA e : QSplit3(e.name) = q)
  <2>1. /\ table' = table
        /\ Answer(IF place = 0 THEN <<"none">> ELSE <<"payload", chain[place].payload>>, <<>>)
    BY <1>2 DEF HashQLookup
  <2>2. chain = ChainOf(table, n)
    BY ValueOfParts DEF HashQKey, HashKey, ChainOf
  <2>3. Lists(chain, Placed(E, table.size, HashKey(table.size, n)), Entry) /\ E \in SUBSET Entry
    BY <2>2, GoodTable, Finding DEF ChainOf
  <2>4. place = at
    <3>1. \A i \in 1 .. Len(chain) : chain[i].name \in HashName
      BY <2>3, ListFacts, NameOfEntry
    <3>2. {i \in 1 .. Len(chain) : QSplit3(chain[i].name) = q} = {i \in 1 .. Len(chain) : chain[i].name = n}
      BY <3>1, PartsTellApart
    <3> HIDE DEF chain, q
    <3>3. at = SelectInSeq(chain, LAMBDA e : e.name = n)
      BY <2>2 DEF Position
    <3> HIDE DEF at
    <3> QED
      BY <3>2, <3>3 DEF SelectInSeq
  <2> HIDE DEF chain, place, q
  <2>5. Answer(IF at = 0 THEN <<"none">> ELSE <<"payload", ChainOf(table, n)[at].payload>>, <<>>)
    BY <2>1, <2>2, <2>4
  <2> HIDE DEF at
  <2> QED
    BY <2>1, <2>5, FoundMaps DEF at
<1> QED
  BY <1>1, <1>2

LEMMA CollectMaps ==
  ASSUME NEW E, Good(table, E), NEW n \in HashName, ScanFull3(n)
  PROVE  Map!Collect /\ \E F : Good(table', F)
<1>1. /\ table' = table /\ hFreed' = <<>>
      /\ hAnswer' = <<"payloads", {e.payload : e \in {f \in Entries(table) : f.name[1] = n[1]}}>>
  BY DEF ScanFull3, Answer
<1>2. NamedOnce(E) /\ DOMAIN MapIn(table) = Names(E) /\ MapIn(table) = MapOf(E) /\ Entries(table) = E
  BY GoodTable
<1> DEFINE A == {e.payload : e \in {f \in E : f.name[1] = n[1]}}
           B == {MapIn(table)[m] : m \in {k \in Names(E) : k[1] = n[1]}}
<1>3. A \subseteq B
  <2>1. ASSUME NEW e \in E, e.name[1] = n[1] PROVE e.payload \in B
    <3>1. e.name \in Names(E) /\ MapIn(table)[e.name] = e.payload
      BY <1>2, MapOfEntry
    <3> QED
      BY <2>1, <3>1
  <2> QED
    BY <2>1
<1>4. B \subseteq A
  <2>1. ASSUME NEW m \in Names(E), m[1] = n[1] PROVE MapIn(table)[m] \in A
    <3>1. PICK e \in E : e.name = m
      BY DEF Names
    <3>2. MapIn(table)[m] = e.payload
      BY <1>2, <3>1, MapOfEntry
    <3> QED
      BY <2>1, <3>1, <3>2
  <2> QED
    BY <2>1
<1>5. hAnswer' = <<"payloads", {MapIn(table)[m] : m \in {k \in DOMAIN MapIn(table) : k[1] = n[1]}}>>
  BY <1>1, <1>2, <1>3, <1>4
<1>6. FreedOnce(hFreed)' = {} /\ MapIn(table)' = MapIn(table)
  BY <1>1, FreedFew
<1>7. Map!Collect
  BY <1>5, <1>6 DEF Map!Collect
<1> QED
  BY <1>1, <1>7

LEMMA RemoveMaps ==
  ASSUME NEW E, Good(table, E), NEW x \in E, table' = Removed(table, x.name), hAnswer' = <<"done">>,
         hFreed' = <<x.payload>>
  PROVE  Map!Remove /\ Good(table', E \ {x})
<1>1. /\ Holds(table, E) /\ NamedOnce(E) /\ PaidOnce(E) /\ E \in SUBSET Entry
      /\ DOMAIN MapIn(table) = Names(E) /\ MapIn(table) = MapOf(E)
  BY GoodTable
<1>2. Holds(table', E \ {x})
  BY <1>1, RemovedHolds
<1>3. Good(table', E \ {x})
  BY <1>1, <1>2 DEF Good, PaidOnce
<1>4. MapIn(table)' = [k \in Names(E) \ {x.name} |-> MapIn(table)[k]]
  BY <1>1, <1>3, GoodTable, MapRemoved
<1>5. x.name \in Names(E) /\ x.name \in HashName /\ MapIn(table)[x.name] = x.payload
  BY <1>1, MapOfEntry, NameOfEntry
<1>6. FreedOnce(hFreed)' = {MapIn(table)[x.name]}
  BY <1>5, FreedFew
<1>7. Map!Remove
  BY <1>1, <1>4, <1>5, <1>6 DEF Map!Remove, Map!Without
<1> QED
  BY <1>3, <1>7

LEMMA RemoveEntryMaps ==
  ASSUME NEW E, Good(table, E), NEW n \in HashName, RemoveEntry(n)
  PROVE  Map!Remove /\ \E F : Good(table', F)
<1> DEFINE at == Position(ChainOf(table, n), n)
           x == ChainOf(table, n)[at]
<1>1. Holds(table, E) /\ DOMAIN MapIn(table) = Names(E)
  BY GoodTable
<1>2. (at = 0 <=> n \notin Names(E)) /\ (at # 0 => x \in E /\ x.name = n)
  BY <1>1, Finding DEF ChainOf
<1>3. CASE at = 0
  <2>1. table' = table /\ hAnswer' = <<"refused">> /\ hFreed' = <<>>
    BY <1>3 DEF RemoveEntry, Answer
  <2>2. FreedOnce(hFreed)' = {} /\ MapIn(table)' = MapIn(table)
    BY <2>1, FreedFew
  <2>3. Map!Remove
    BY <1>1, <1>2, <1>3, <2>1, <2>2 DEF Map!Remove
  <2> QED
    BY <2>1, <2>3
<1>4. CASE at # 0
  <2>1. table' = Removed(table, n) /\ hAnswer' = <<"done">> /\ hFreed' = <<x.payload>>
    BY <1>4 DEF RemoveEntry, Answer
  <2> HIDE DEF at, x
  <2> QED
    BY <1>2, <1>4, <2>1, RemoveMaps
<1> QED
  BY <1>3, <1>4

LEMMA SizeMaps ==
  ASSUME NEW E, Good(table, E), HashSize
  PROVE  Map!Count /\ \E F : Good(table', F)
<1>1. table' = table /\ hAnswer' = <<"count", table.count>> /\ hFreed' = <<>>
  BY DEF HashSize, Answer
<1>2. NamedOnce(E) /\ DOMAIN MapIn(table) = Names(E) /\ Holds(table, E)
  BY GoodTable
<1>3. IsFiniteSet(E) /\ table.count = Cardinality(E)
  BY <1>2, EntriesAre DEF Holds
<1>4. Cardinality(Names(E)) = Cardinality(E)
  <2> DEFINE f == [e \in E |-> e.name]
  <2>1. f \in [E -> Names(E)]
    BY DEF Names
  <2>2. \A d, e \in E : f[d] = f[e] => d = e
    BY <1>2 DEF NamedOnce
  <2>3. \A n \in Names(E) : \E e \in E : f[e] = n
    BY DEF Names
  <2> HIDE DEF f
  <2>4. f \in Bijection(E, Names(E))
    BY <2>1, <2>2, <2>3 DEF Bijection, Injection, Surjection, IsInjective
  <2>5. ExistsBijection(E, Names(E))
    BY <2>4 DEF ExistsBijection
  <2> QED
    BY <1>3, <2>5, FS_Bijection
<1>5. FreedOnce(hFreed)' = {} /\ MapIn(table)' = MapIn(table)
  BY <1>1, FreedFew
<1>6. Map!Cardinality(Names(E)) = Cardinality(Names(E))
  BY DEF Map!Cardinality, Cardinality
<1>7. Map!Count
  BY <1>1, <1>2, <1>3, <1>4, <1>5, <1>6 DEF Map!Count
<1> QED
  BY <1>1, <1>7

LEMMA CopyMaps ==
  ASSUME NEW E, Good(table, E), HashCopy
  PROVE  Map!Keep /\ \E F : Good(table', F)
<1>1. /\ table' = [FoldLeft(Added, EmptyTable(table.size), Flat(table.chain, table.size)) EXCEPT !.count = table.count]
      /\ hAnswer' = <<"done">> /\ hFreed' = <<>>
  BY DEF HashCopy, Answer
<1>2. Holds(table', E)
  BY <1>1, GoodTable, CopyHolds
<1>3. Good(table', E)
  BY <1>2, GoodTable DEF Good
<1>4. MapIn(table)' = MapIn(table) /\ FreedOnce(hFreed)' = {}
  BY <1>1, <1>3, GoodTable, FreedFew
<1>5. Map!Keep
  BY <1>1, <1>4 DEF Map!Keep
<1> QED
  BY <1>3, <1>5

LEMMA EmptyGood ==
  ASSUME NEW z \in Nat \ {0}
  PROVE  Good(EmptyTable(z), {}) /\ MapIn(EmptyTable(z)) = <<>>
<1>1. Good(EmptyTable(z), {})
  BY EmptyHolds DEF Good, PaidOnce
<1>2. MapIn(EmptyTable(z)) = MapOf({})
  BY <1>1, GoodTable
<1>3. MapOf({}) = [n \in {} |-> 0]
  BY DEF MapOf, Names
<1>4. <<>> = [n \in {} |-> 0]
  <2>1. <<>> = [i \in 1 .. 0 |-> 0]
    OBVIOUS
  <2>2. 1 .. 0 = {}
    OBVIOUS
  <2> QED
    BY <2>1, <2>2
<1> QED
  BY <1>1, <1>2, <1>3, <1>4

LEMMA FreeMaps ==
  ASSUME NEW E, Good(table, E), HashFree
  PROVE  Map!Clear /\ \E F : Good(table', F)
<1> DEFINE all == FoldLeft(Freeing, [left |-> table.count, freed |-> <<>>],
                           [k \in 1 .. table.size |-> table.chain[k - 1]])
<1>1. table' = EmptyTable(NewSize) /\ hAnswer' = <<"done">> /\ hFreed' = all.freed
  BY DEF HashFree, Answer
<1>2. NamedOnce(E) /\ PaidOnce(E) /\ DOMAIN MapIn(table) = Names(E) /\ MapIn(table) = MapOf(E) /\ Holds(table, E)
  BY GoodTable
<1>3. Lists(all.freed, {e.payload : e \in E}, Payloads)
  BY <1>2, AllFreed
<1> HIDE DEF all
<1>4. FreedOnce(hFreed)' = {e.payload : e \in E}
  BY <1>1, <1>3, FreedListed
<1>5. {e.payload : e \in E} = {MapIn(table)[n] : n \in Names(E)}
  <2>1. \A e \in E : e.name \in Names(E) /\ MapIn(table)[e.name] = e.payload
    BY <1>2, MapOfEntry
  <2>2. \A n \in Names(E) : \E e \in E : e.name = n
    BY DEF Names
  <2> QED
    BY <2>1, <2>2
<1>6. NewSize \in Nat \ {0}
  BY HashAssumption
<1>7. Good(table', {}) /\ MapIn(table)' = <<>>
  BY <1>1, <1>6, EmptyGood
<1>8. Map!Clear
  BY <1>1, <1>2, <1>4, <1>5, <1>7 DEF Map!Clear, Map!Range
<1> QED
  BY <1>7, <1>8
-----------------------------------------------------------------------------
(* The scan.                                                               *)

ScanRecord == [on : BOOLEAN, bucket : Nat, at : Nat, seen : Seq(Entry), all : SUBSET Entry]

\* The entries at and after a place.
Ahead(t, E, b, at) ==
  {e \in E : HashKey(t.size, e.name) > b}
    \cup (IF b < t.size THEN {t.chain[b][j] : j \in at .. Len(t.chain[b])} ELSE {})

\* A place of an entry, or the end.
IsPlace(t, b, at) ==
  /\ b \in 0 .. t.size /\ at \in Nat
  /\ b < t.size => at \in 1 .. Len(t.chain[b])

LEMMA BucketFacts ==
  ASSUME NEW t, NEW E, Holds(t, E)
  PROVE  /\ t.size \in Nat \ {0} /\ E \in SUBSET Entry
         /\ \A k \in 0 .. t.size - 1 : Lists(t.chain[k], Placed(E, t.size, k), Entry)
         /\ \A e \in E : HashKey(t.size, e.name) \in 0 .. t.size - 1
<1>1. /\ t.size \in Nat \ {0} /\ E \in SUBSET Entry
      /\ \A k \in 0 .. t.size - 1 : Lists(t.chain[k], Placed(E, t.size, k), Entry)
  BY DEF Holds, Holding
<1>2. \A e \in E : HashKey(t.size, e.name) \in 0 .. t.size - 1
  BY <1>1, KeyOfName, NameOfEntry
<1> QED
  BY <1>1, <1>2

LEMMA AheadIsHeld ==
  ASSUME NEW t, NEW E, Holds(t, E), NEW b \in 0 .. t.size, NEW at \in Nat \ {0}
  PROVE  Ahead(t, E, b, at) \in SUBSET E
<1>1. ASSUME b < t.size, NEW j \in at .. Len(t.chain[b]) PROVE t.chain[b][j] \in E
  <2>1. b \in 0 .. t.size - 1 /\ Lists(t.chain[b], Placed(E, t.size, b), Entry)
    BY <1>1, BucketFacts
  <2>2. j \in 1 .. Len(t.chain[b])
    BY <1>1, <2>1, ListFacts
  <2>3. t.chain[b][j] \in Placed(E, t.size, b)
    BY <2>1, <2>2, ListFacts
  <2> QED
    BY <2>3 DEF Placed
<1> QED
  BY <1>1 DEF Ahead

\* Going on to the next entry passes over none.
LEMMA ScanAtPlace ==
  ASSUME NEW t, NEW E, Holds(t, E), NEW b \in 0 .. t.size - 1, NEW at \in Nat \ {0},
         NEW r, r = ScanAt(t.chain, t.size, b, at)
  PROVE  IsPlace(t, r.bucket, r.at) /\ Ahead(t, E, r.bucket, r.at) = Ahead(t, E, b, at)
<1> DEFINE z == t.size
           c == t.chain
           later == {k \in b + 1 .. z - 1 : c[k] # <<>>}
<1>1. /\ z \in Nat \ {0} /\ \A k \in 0 .. z - 1 : Lists(c[k], Placed(E, z, k), Entry)
      /\ \A e \in E : HashKey(z, e.name) \in 0 .. z - 1
  BY BucketFacts
<1>2. Len(c[b]) \in Nat
  BY <1>1, ListFacts
<1>3. \A e \in E : HashKey(z, e.name) > b => HashKey(z, e.name) \in later
  <2> TAKE e \in E
  <2> HAVE HashKey(z, e.name) > b
  <2> DEFINE k == HashKey(z, e.name)
  <2>1. k \in b + 1 .. z - 1 /\ k \in 0 .. z - 1
    BY <1>1
  <2>2. e \in Placed(E, z, k)
    BY DEF Placed
  <2>3. c[k] # <<>>
    BY <1>1, <2>1, <2>2, ListIsEmpty
  <2> QED
    BY <2>1, <2>3
<1>4. CASE at \in 1 .. Len(c[b])
  <2>1. r = [bucket |-> b, at |-> at]
    BY <1>4 DEF ScanAt
  <2>2. r.bucket = b /\ r.at = at
    BY <2>1
  <2> QED
    BY <1>1, <1>4, <2>2 DEF IsPlace
<1>5. CASE at \notin 1 .. Len(c[b])
  <2>1. at .. Len(c[b]) = {}
    BY <1>2, <1>5
  <2>2. {c[b][j] : j \in at .. Len(c[b])} = {}
    BY <2>1
  <2>3. Ahead(t, E, b, at) = {e \in E : HashKey(z, e.name) > b}
    BY <2>2 DEF Ahead
  <2>4. CASE later = {}
    <3>1. r = [bucket |-> z, at |-> 0]
      BY <1>5, <2>4 DEF ScanAt
    <3>2. r.bucket = z /\ r.at = 0
      BY <3>1
    <3>3. Ahead(t, E, b, at) = {}
      BY <1>3, <2>3, <2>4
    <3>4. {e \in E : HashKey(z, e.name) > z} = {}
      <4>1. \A e \in E : ~(HashKey(z, e.name) > z)
        <5> HIDE DEF z
        <5> QED
          BY <1>1
      <4> QED
        BY <4>1
    <3>5. Ahead(t, E, z, 0) = {}
      <4>1. ~(z < z)
        <5> HIDE DEF z
        <5> QED
          BY <1>1
      <4> QED
        BY <3>4, <4>1 DEF Ahead
    <3> QED
      BY <1>1, <3>2, <3>3, <3>5 DEF IsPlace
  <2>5. CASE later # {}
    <3> DEFINE m == Min(later)
    <3>1. m \in later /\ \A k \in later : m <= k
      <4>1. later \in SUBSET Nat
        BY <1>1
      <4> HIDE DEF later
      <4>2. PICK least \in later : \A k \in later : least <= k
        BY <2>5, <4>1, LeastNatural
      <4> QED
        BY <4>2 DEF Min
    <3>2. r = [bucket |-> m, at |-> 1]
      BY <1>5, <2>5 DEF ScanAt
    <3> HIDE DEF m
    <3>3. r.bucket = m /\ r.at = 1
      BY <3>2
    <3>4. m \in b + 1 .. z - 1 /\ m \in 0 .. z - 1 /\ c[m] # <<>> /\ m < z
      BY <1>1, <3>1
    <3>5. Lists(c[m], Placed(E, z, m), Entry) /\ Len(c[m]) \in Nat /\ Len(c[m]) # 0
      BY <1>1, <3>4, ListFacts, EmptySeq
    <3>6. {c[m][j] : j \in 1 .. Len(c[m])} = Placed(E, z, m)
      BY <3>5, ListFacts
    <3>7. Ahead(t, E, m, 1) = {e \in E : HashKey(z, e.name) > m} \cup Placed(E, z, m)
      BY <3>4, <3>6 DEF Ahead
    <3>8. \A e \in E : HashKey(z, e.name) > b <=> (HashKey(z, e.name) > m \/ HashKey(z, e.name) = m)
      <4> TAKE e \in E
      <4> DEFINE k == HashKey(z, e.name)
      <4>1. k \in Nat /\ m \in Nat /\ m > b /\ b \in Nat
        BY <1>1, <3>4
      <4>2. k > b => m <= k
        BY <1>3, <3>1
      <4> HIDE DEF k
      <4>3. k > b <=> (k > m \/ k = m)
        BY <4>1, <4>2
      <4> QED
        BY <4>3 DEF k
    <3>9. Ahead(t, E, m, 1) = Ahead(t, E, b, at)
      BY <2>3, <3>7, <3>8 DEF Placed
    <3> QED
      BY <1>1, <3>3, <3>4, <3>5, <3>9 DEF IsPlace
  <2> QED
    BY <2>4, <2>5
<1> QED
  BY <1>4, <1>5

EntryAt(t, b, at) == t.chain[b][at]

\* The entry at a place is ahead of no later place.
LEMMA AheadOfNext ==
  ASSUME NEW t, NEW E, Holds(t, E), NEW b \in 0 .. t.size - 1, NEW at \in 1 .. Len(t.chain[b])
  PROVE  /\ EntryAt(t, b, at) \in Placed(E, t.size, b)
         /\ Ahead(t, E, b, at) = Ahead(t, E, b, at + 1) \cup {EntryAt(t, b, at)}
         /\ EntryAt(t, b, at) \notin Ahead(t, E, b, at + 1)
<1> DEFINE s == t.chain[b]
           e == EntryAt(t, b, at)
<1>0. e = s[at]
  BY DEF EntryAt
<1> HIDE DEF e
<1>1. Lists(s, Placed(E, t.size, b), Entry) /\ Len(s) \in Nat /\ t.size \in Nat \ {0}
  BY BucketFacts, ListFacts
<1>2. e \in Placed(E, t.size, b)
  BY <1>0, <1>1, ListFacts
<1>3. e \in E /\ HashKey(t.size, e.name) = b
  BY <1>2 DEF Placed
<1>4. b < t.size /\ at .. Len(s) = {at} \cup (at + 1 .. Len(s)) /\ ~(b > b)
  BY <1>1
<1>5. {s[j] : j \in at .. Len(s)} = {s[j] : j \in at + 1 .. Len(s)} \cup {e}
  BY <1>0, <1>4
<1>6. \A j \in at + 1 .. Len(s) : s[j] # e
  <2>1. \A j \in at + 1 .. Len(s) : j \in 1 .. Len(s) /\ j # at
    BY <1>1
  <2> QED
    BY <1>0, <1>1, <2>1, ListFacts
<1> HIDE DEF s
<1>7. Ahead(t, E, b, at) = Ahead(t, E, b, at + 1) \cup {e}
  BY <1>4, <1>5 DEF Ahead, s
<1>8. e \notin Ahead(t, E, b, at + 1)
  BY <1>3, <1>4, <1>6 DEF Ahead, s
<1> QED
  BY <1>2, <1>7, <1>8 DEF e

\* When it is removed, what was behind it is ahead of its place.
LEMMA AheadOfRemoved ==
  ASSUME NEW t, NEW E, Holds(t, E), NEW b \in 0 .. t.size - 1, NEW at \in 1 .. Len(t.chain[b])
  PROVE  Ahead(Removed(t, EntryAt(t, b, at).name), E \ {EntryAt(t, b, at)}, b, at) = Ahead(t, E, b, at + 1)
<1> DEFINE s == t.chain[b]
           e == EntryAt(t, b, at)
           u == Removed(t, e.name)
           r == RemoveAt(s, at)
<1>0. e = s[at]
  BY DEF EntryAt
<1>1. Lists(s, Placed(E, t.size, b), Entry) /\ Len(s) \in Nat /\ t.size \in Nat \ {0} /\ s \in Seq(Entry)
  BY BucketFacts, ListFacts
<1>2. e \in E /\ HashKey(t.size, e.name) = b
  <2>1. e \in Placed(E, t.size, b)
    BY AheadOfNext
  <2> QED
    BY <2>1 DEF Placed
<1> HIDE DEF e
<1>3. /\ u.size = t.size /\ u.chain[b] = RemoveAt(s, Position(s, e.name))
      /\ Position(s, e.name) \in 1 .. Len(s) /\ s[Position(s, e.name)] = e
  <2> HIDE DEF u, s
  <2>1. GoneFrom(t, b, e, Removed(t, e.name))
    BY <1>2, RemovedHolds
  <2> QED
    BY <2>1 DEF u, s, GoneFrom
<1>4. Position(s, e.name) = at
  BY <1>0, <1>1, <1>3, ListFacts
<1>5. u.chain[b] = r
  BY <1>3, <1>4
<1>6. Len(r) = Len(s) - 1 /\ \A j \in 1 .. Len(s) - 1 : r[j] = s[IF j < at THEN j ELSE j + 1]
  BY <1>1, RemovedSeq
<1> HIDE DEF u, r, s
<1>7. at \in Nat /\ 1 <= at
  BY <1>1 DEF s
<1>8. {r[j] : j \in at .. Len(r)} = {s[j] : j \in at + 1 .. Len(s)}
  <2>1. \A j \in at .. Len(r) : r[j] = s[j + 1] /\ j + 1 \in at + 1 .. Len(s)
    BY <1>1, <1>6, <1>7
  <2>2. \A j \in at + 1 .. Len(s) : r[j - 1] = s[j] /\ j - 1 \in at .. Len(r)
    <3> TAKE j \in at + 1 .. Len(s)
    <3>1. j - 1 \in at .. Len(r) /\ (j - 1) + 1 = j
      BY <1>1, <1>6, <1>7
    <3> QED
      BY <2>1, <3>1
  <2> DEFINE A == {r[j] : j \in at .. Len(r)}
             B == {s[j] : j \in at + 1 .. Len(s)}
  <2>3. A \subseteq B
    BY <2>1
  <2>4. B \subseteq A
    <3>1. ASSUME NEW j \in at + 1 .. Len(s) PROVE s[j] \in A
      <4>1. r[j - 1] = s[j] /\ j - 1 \in at .. Len(r)
        BY <2>2
      <4>2. r[j - 1] \in A
        BY <4>1
      <4> QED
        BY <4>1, <4>2
    <3> QED
      BY <3>1
  <2> QED
    BY <2>3, <2>4
<1>9. ~(b > b)
  OBVIOUS
<1>10. {f \in E \ {e} : HashKey(u.size, f.name) > b} = {f \in E : HashKey(t.size, f.name) > b}
  BY <1>2, <1>3, <1>9
<1> QED
  BY <1>3, <1>5, <1>8, <1>10 DEF Ahead, u, s, e

\* The scan goes on in a place.
Moved(r, s, b, at) == [r EXCEPT !.seen = s, !.bucket = b, !.at = at]

IsMoved(r, s, b, at, u) ==
  u \in ScanRecord /\ u.all = r.all /\ u.seen = s /\ u.bucket = b /\ u.at = at

LEMMA ScanMoved ==
  ASSUME NEW r \in ScanRecord, NEW s \in Seq(Entry), NEW b \in Nat, NEW at \in Nat
  PROVE  IsMoved(r, s, b, at, Moved(r, s, b, at))
<1> DEFINE u == Moved(r, s, b, at)
           v == [r EXCEPT !.seen = s]
           w == [v EXCEPT !.bucket = b]
<1>1. v \in ScanRecord /\ v.on = r.on /\ v.all = r.all /\ v.seen = s
  BY DEF ScanRecord
<1> HIDE DEF v
<1>2. w \in ScanRecord /\ w.on = v.on /\ w.all = v.all /\ w.seen = v.seen /\ w.bucket = b
  BY <1>1 DEF ScanRecord
<1>3. u = [w EXCEPT !.at = at]
  BY Zenon DEF v, Moved
<1> HIDE DEF u, w
<1>4. u \in ScanRecord /\ u.on = w.on /\ u.all = w.all /\ u.seen = w.seen /\ u.bucket = w.bucket /\ u.at = at
  BY <1>2, <1>3 DEF ScanRecord
<1> QED
  BY <1>1, <1>2, <1>4 DEF u, IsMoved

\* What the callback has been given, what is ahead, and how they were together
\* when the scan began.
Scanning(t, E, r) ==
  /\ r \in ScanRecord
  /\ r.on => /\ IsPlace(t, r.bucket, r.at)
             /\ Ahead(t, E, r.bucket, r.at) \subseteq r.all
             /\ Lists(r.seen, r.all \ Ahead(t, E, r.bucket, r.at), Entry)

HashInv == \E E : Good(table, E) /\ Scanning(table, E, scan)

LEMMA NothingScanned ==
  ASSUME NEW t, NEW E
  PROVE  Scanning(t, E, NotScanning)
<1>1. NotScanning \in ScanRecord /\ ~NotScanning.on
  BY EmptySeq DEF NotScanning, ScanRecord
<1> QED
  BY <1>1 DEF Scanning

LEMMA ScanBeginMaps ==
  ASSUME NEW E, Good(table, E), ScanBegin
  PROVE  Map!Keep /\ HashInv'
<1> DEFINE first == ScanAt(table.chain, table.size, 0, 1)
<1>1. /\ scan' = [on |-> TRUE, bucket |-> first.bucket, at |-> first.at, seen |-> <<>>, all |-> E]
      /\ hAnswer' = <<"done">> /\ hFreed' = <<>> /\ table' = table
  BY GoodTable DEF ScanBegin
<1>2. Holds(table, E) /\ E \in SUBSET Entry
  BY GoodTable
<1>3. /\ table.size \in Nat \ {0}
      /\ \A k \in 0 .. table.size - 1 : Lists(table.chain[k], Placed(E, table.size, k), Entry)
      /\ \A e \in E : HashKey(table.size, e.name) \in 0 .. table.size - 1
  BY <1>2, BucketFacts
<1>4. 0 \in 0 .. table.size - 1 /\ 1 \in Nat \ {0} /\ 0 < table.size
  BY <1>3
<1>5. IsPlace(table, first.bucket, first.at) /\ Ahead(table, E, first.bucket, first.at) = Ahead(table, E, 0, 1)
  <2> HIDE DEF first
  <2> QED
    BY <1>2, <1>4, ScanAtPlace DEF first
<1>6. Ahead(table, E, 0, 1) = E
  <2>1. {table.chain[0][j] : j \in 1 .. Len(table.chain[0])} = Placed(E, table.size, 0)
    BY <1>3, <1>4, ListFacts
  <2>2. \A e \in E : HashKey(table.size, e.name) > 0 \/ HashKey(table.size, e.name) = 0
    BY <1>3
  <2> QED
    BY <1>4, <2>1, <2>2 DEF Ahead, Placed
<1> HIDE DEF first
<1>7. Scanning(table, E, scan')
  <2>1. /\ scan'.on = TRUE /\ scan'.bucket = first.bucket /\ scan'.at = first.at /\ scan'.seen = <<>>
        /\ scan'.all = E
    BY <1>1
  <2>2. first.bucket \in Nat /\ first.at \in Nat
    BY <1>3, <1>5 DEF IsPlace
  <2>3. scan' \in ScanRecord
    BY <1>1, <1>2, <2>2, EmptySeq DEF ScanRecord
  <2>4. Lists(<<>>, E \ E, Entry)
    BY ListEmpty
  <2> QED
    BY <1>5, <1>6, <2>1, <2>3, <2>4 DEF Scanning
<1>8. HashInv'
  BY <1>1, <1>7 DEF HashInv
<1>9. FreedOnce(hFreed)' = {} /\ MapIn(table)' = MapIn(table)
  BY <1>1, FreedFew
<1> QED
  BY <1>1, <1>8, <1>9 DEF Map!Keep

\* One entry more has been given to the callback.
LEMMA ScanGoesOn ==
  ASSUME NEW r \in ScanRecord, r.on, NEW t, NEW E, Holds(t, E),
         NEW b \in 0 .. t.size - 1, NEW at \in Nat \ {0}, NEW e, NEW A,
         A \subseteq r.all, Lists(r.seen, r.all \ A, Entry),
         e \in A, Ahead(t, E, b, at) = A \ {e},
         NEW next, next = ScanAt(t.chain, t.size, b, at)
  PROVE  Scanning(t, E, Moved(r, Append(r.seen, e), next.bucket, next.at))
<1> DEFINE s == Append(r.seen, e)
           n == next.bucket
           m == next.at
           u == Moved(r, s, n, m)
<1>1. IsPlace(t, next.bucket, next.at) /\ Ahead(t, E, next.bucket, next.at) = A \ {e}
  BY ScanAtPlace
<1>2. next.bucket \in Nat /\ next.at \in Nat
  BY <1>1, BucketFacts DEF IsPlace
<1>3. r.all \in SUBSET Entry /\ e \in Entry \ (r.all \ A)
  BY DEF ScanRecord
<1>4. Lists(s, (r.all \ A) \cup {e}, Entry)
  BY <1>3, ListAppend
<1>5. (r.all \ A) \cup {e} = r.all \ (A \ {e})
  OBVIOUS
<1>7. s \in Seq(Entry)
  BY <1>4, ListFacts
<1> HIDE DEF s, n, m
<1>8. IsMoved(r, s, n, m, u)
  <2>1. n \in Nat /\ m \in Nat
    BY <1>2 DEF n, m
  <2> QED
    BY <1>7, <2>1, ScanMoved
<1> HIDE DEF u
<1>9. /\ IsPlace(t, u.bucket, u.at)
      /\ Ahead(t, E, u.bucket, u.at) \subseteq u.all
      /\ Lists(u.seen, u.all \ Ahead(t, E, u.bucket, u.at), Entry)
  BY <1>1, <1>4, <1>5, <1>8 DEF n, m, IsMoved
<1>10. Scanning(t, E, u)
  BY <1>8, <1>9 DEF Scanning, IsMoved
<1> QED
  BY <1>10 DEF u, s, n, m

LEMMA ScanVisitMaps ==
  ASSUME NEW E, Good(table, E), Scanning(table, E, scan), scan.on, NEW removes \in BOOLEAN, ScanVisit(removes)
  PROVE  /\ Map!Remove \/ UNCHANGED <<MapIn(table), hAnswer, FreedOnce(hFreed)>>
         /\ HashInv'
<1> DEFINE b == scan.bucket
           at == scan.at
           e == table.chain[b][at]
           A == Ahead(table, E, b, at)
           next == ScanAt(table'.chain, table.size, b, ScanNextAt(removes))
<1>1. /\ b < table.size
      /\ removes => table' = Removed(table, e.name) /\ hAnswer' = <<"done">> /\ hFreed' = <<e.payload>>
      /\ ~removes => table' = table /\ hAnswer' = hAnswer /\ hFreed' = hFreed
      /\ scan' = Moved(scan, Append(scan.seen, e), next.bucket, next.at)
  <2>1. scan' = [scan EXCEPT !.seen = Append(@, e), !.bucket = next.bucket, !.at = next.at]
    BY Zenon DEF ScanVisit
  <2>2. scan' = Moved(scan, Append(scan.seen, e), next.bucket, next.at)
    BY <2>1, Zenon DEF Moved
  <2> QED
    BY <2>2 DEF ScanVisit
<1>2. Holds(table, E) /\ scan \in ScanRecord
  BY GoodTable DEF Scanning
<1>3. IsPlace(table, b, at) /\ A \subseteq scan.all /\ Lists(scan.seen, scan.all \ A, Entry)
  BY DEF Scanning
<1>4. table.size \in Nat \ {0}
  BY <1>2, BucketFacts
<1>5. b \in 0 .. table.size - 1 /\ at \in 1 .. Len(table.chain[b])
  BY <1>1, <1>3, <1>4 DEF IsPlace
<1>6. at \in Nat \ {0} /\ at + 1 \in Nat \ {0}
  BY <1>5, <1>3 DEF IsPlace
<1> HIDE DEF A
<1>7. /\ e \in E /\ HashKey(table.size, e.name) = b /\ e \in A
      /\ Ahead(table, E, b, at + 1) = A \ {e}
  <2> DEFINE B == Ahead(table, E, b, at + 1)
  <2>1. /\ e \in E /\ HashKey(table.size, e.name) = b
        /\ A = B \cup {e} /\ e \notin B
    <3>1. /\ EntryAt(table, b, at) \in Placed(E, table.size, b)
          /\ A = B \cup {EntryAt(table, b, at)} /\ EntryAt(table, b, at) \notin B
      <4> HIDE DEF b, at, e
      <4> QED
        BY <1>2, <1>5, AheadOfNext DEF A
    <3> QED
      BY <3>1 DEF EntryAt, Placed
  <2> HIDE DEF B
  <2>2. B = A \ {e}
    BY <2>1
  <2> QED
    BY <2>1, <2>2 DEF B
<1>8. CASE removes
  <2>1. ScanNextAt(removes) = at
    BY <1>8 DEF ScanNextAt
  <2>2. Ahead(Removed(table, e.name), E \ {e}, b, at) = A \ {e}
    <3>1. e = EntryAt(table, b, at)
      BY DEF EntryAt
    <3> HIDE DEF b, at, e
    <3>2. Ahead(Removed(table, EntryAt(table, b, at).name), E \ {EntryAt(table, b, at)}, b, at)
            = Ahead(table, E, b, at + 1)
      BY <1>2, <1>5, AheadOfRemoved
    <3> QED
      BY <1>7, <3>1, <3>2
  <2> HIDE DEF e
  <2>3. Removed(table, e.name).size = table.size
    <3>1. GoneFrom(table, b, e, Removed(table, e.name))
      BY <1>2, <1>7, RemovedHolds
    <3> QED
      BY <3>1 DEF GoneFrom
  <2>4. table' = Removed(table, e.name) /\ table'.size = table.size
    BY <1>1, <1>8, <2>3
  <2>5. Map!Remove /\ Good(table', E \ {e})
    BY <1>1, <1>7, <1>8, RemoveMaps
  <2>6. next = ScanAt(table'.chain, table'.size, b, at)
    BY <2>1, <2>4
  <2> HIDE DEF next
  <2>7. Holds(table', E \ {e}) /\ b \in 0 .. table'.size - 1 /\ Ahead(table', E \ {e}, b, at) = A \ {e}
    BY <1>5, <2>2, <2>4, <2>5 DEF Good
  <2>8. Scanning(table', E \ {e}, scan')
    <3> HIDE DEF b, at
    <3> QED
      BY <1>1, <1>2, <1>3, <1>6, <1>7, <2>6, <2>7, ScanGoesOn
  <2>9. HashInv'
    BY <2>5, <2>8 DEF HashInv
  <2> QED
    BY <2>5, <2>9
<1>9. CASE ~removes
  <2>1. ScanNextAt(removes) = at + 1
    BY <1>9 DEF ScanNextAt
  <2>2. table' = table /\ hAnswer' = hAnswer /\ hFreed' = hFreed
    BY <1>1, <1>9
  <2>3. next = ScanAt(table.chain, table.size, b, at + 1)
    BY <2>1, <2>2
  <2> HIDE DEF e, next
  <2>4. Scanning(table, E, scan')
    <3> HIDE DEF b, at
    <3> QED
      BY <1>1, <1>2, <1>3, <1>5, <1>6, <1>7, <2>3, ScanGoesOn
  <2>5. HashInv'
    BY <2>2, <2>4 DEF HashInv
  <2> QED
    BY <2>2, <2>5
<1> QED
  BY <1>8, <1>9

LEMMA OperationMaps ==
  ASSUME HashInv, ~scan.on,
         \/ \E n \in HashName : \E p \in PayloadOf[n] \ {e.payload : e \in Entries(table)} :
              AddEntry(n, p) \/ UpdateEntry(n, p)
         \/ \E n \in HashName : HashLookup(n) \/ HashQLookup(n) \/ ScanFull3(n) \/ RemoveEntry(n)
         \/ HashSize \/ HashCopy \/ HashFree
  PROVE  Map!Next /\ HashInv'
<1>1. PICK E : Good(table, E) /\ Scanning(table, E, scan)
  BY DEF HashInv
<1>2. scan \in ScanRecord
  BY <1>1 DEF Scanning
<1> DEFINE Mapped == Map!Next /\ \E F : Good(table', F)
<1>3. ASSUME NEW n \in HashName, NEW p \in PayloadOf[n] \ {e.payload : e \in Entries(table)}, AddEntry(n, p)
      PROVE  Mapped /\ scan' = scan
  <2>1. Map!Add /\ \E F : Good(table', F)
    BY <1>1, <1>3, AddMaps
  <2> QED
    BY <1>3, <2>1 DEF Map!Next, AddEntry, Answer
<1>4. ASSUME NEW n \in HashName, NEW p \in PayloadOf[n] \ {e.payload : e \in Entries(table)}, UpdateEntry(n, p)
      PROVE  Mapped /\ scan' = scan
  <2>1. Map!Update /\ \E F : Good(table', F)
    BY <1>1, <1>4, UpdateMaps
  <2>2. scan' = scan
    BY <1>4 DEF UpdateEntry, Answer
  <2> QED
    BY <2>1, <2>2 DEF Map!Next
<1>5. ASSUME NEW n \in HashName, HashLookup(n) \/ HashQLookup(n) PROVE Mapped /\ scan' = scan
  <2>1. Map!Lookup /\ \E F : Good(table', F)
    BY <1>1, <1>5, LookupMaps
  <2> QED
    BY <1>5, <2>1 DEF Map!Next, HashLookup, HashQLookup, Answer
<1>6. ASSUME NEW n \in HashName, ScanFull3(n) PROVE Mapped /\ scan' = scan
  <2>1. Map!Collect /\ \E F : Good(table', F)
    BY <1>1, <1>6, CollectMaps
  <2> QED
    BY <1>6, <2>1 DEF Map!Next, ScanFull3, Answer
<1>7. ASSUME NEW n \in HashName, RemoveEntry(n) PROVE Mapped /\ scan' = scan
  <2>1. Map!Remove /\ \E F : Good(table', F)
    BY <1>1, <1>7, RemoveEntryMaps
  <2>2. scan' = scan
    BY <1>7 DEF RemoveEntry, Answer
  <2> QED
    BY <2>1, <2>2 DEF Map!Next
<1>8. ASSUME HashSize PROVE Mapped /\ scan' = scan
  <2>1. Map!Count /\ \E F : Good(table', F)
    BY <1>1, <1>8, SizeMaps
  <2> QED
    BY <1>8, <2>1 DEF Map!Next, HashSize, Answer
<1>9. ASSUME HashCopy PROVE Mapped /\ scan' = scan
  <2>1. Map!Keep /\ \E F : Good(table', F)
    BY <1>1, <1>9, CopyMaps
  <2> QED
    BY <1>9, <2>1 DEF Map!Next, HashCopy, Answer
<1>10. ASSUME HashFree PROVE Mapped /\ scan' = scan
  <2>1. Map!Clear /\ \E F : Good(table', F)
    BY <1>1, <1>10, FreeMaps
  <2> QED
    BY <1>10, <2>1 DEF Map!Next, HashFree, Answer
<1> HIDE DEF Mapped
<1>11. Mapped /\ scan' = scan
  BY <1>3, <1>4, <1>5, <1>6, <1>7, <1>8, <1>9, <1>10
<1>12. PICK F : Good(table', F)
  BY <1>11 DEF Mapped
<1>13. Scanning(table', F, scan')
  BY <1>2, <1>11 DEF Scanning
<1> QED
  BY <1>11, <1>12, <1>13 DEF Mapped, HashInv

LEMMA HashStarts ==
  ASSUME HInit
  PROVE  HashInv /\ Map!Init
<1>1. table = EmptyTable(NewSize) /\ hAnswer = <<"none">> /\ hFreed = <<>> /\ scan = NotScanning
  BY DEF HInit
<1>2. NewSize \in Nat \ {0}
  BY HashAssumption
<1>3. Good(table, {}) /\ MapIn(table) = <<>>
  BY <1>1, <1>2, EmptyGood
<1>4. Scanning(table, {}, scan)
  BY <1>1, NothingScanned
<1>5. FreedOnce(hFreed) = {}
  BY <1>1, FreedFew
<1> QED
  BY <1>1, <1>3, <1>4, <1>5 DEF HashInv, Map!Init

LEMMA HashSteps ==
  ASSUME HashInv, [HNext]_hashVars
  PROVE  HashInv' /\ [Map!Next]_<<MapIn(table), hAnswer, FreedOnce(hFreed)>>
<1>1. PICK E : Good(table, E) /\ Scanning(table, E, scan)
  BY DEF HashInv
<1>2. CASE UNCHANGED hashVars
  <2>1. table' = table /\ hAnswer' = hAnswer /\ hFreed' = hFreed /\ scan' = scan
    BY <1>2 DEF hashVars
  <2> QED
    BY <1>1, <2>1 DEF HashInv
<1>3. CASE ~scan.on /\ ScanBegin
  <2>1. Map!Keep /\ HashInv'
    BY <1>1, <1>3, ScanBeginMaps
  <2> QED
    BY <2>1 DEF Map!Next
<1>4. CASE scan.on /\ ScanEnd
  <2>1. table' = table /\ hAnswer' = hAnswer /\ hFreed' = hFreed /\ scan' = NotScanning
    BY <1>4 DEF ScanEnd
  <2>2. HashInv'
    BY <1>1, <2>1, NothingScanned DEF HashInv
  <2> QED
    BY <2>1, <2>2
<1>5. ASSUME scan.on, NEW removes \in BOOLEAN, ScanVisit(removes)
      PROVE  HashInv' /\ [Map!Next]_<<MapIn(table), hAnswer, FreedOnce(hFreed)>>
  <2>1. /\ Map!Remove \/ UNCHANGED <<MapIn(table), hAnswer, FreedOnce(hFreed)>>
        /\ HashInv'
    BY <1>1, <1>5, ScanVisitMaps
  <2> QED
    BY <2>1 DEF Map!Next
<1>6. CASE /\ ~scan.on
           /\ \/ \E n \in HashName : \E p \in PayloadOf[n] \ {e.payload : e \in Entries(table)} :
                   AddEntry(n, p) \/ UpdateEntry(n, p)
              \/ \E n \in HashName : HashLookup(n) \/ HashQLookup(n) \/ ScanFull3(n) \/ RemoveEntry(n)
              \/ HashSize \/ HashCopy \/ HashFree
  <2>1. Map!Next /\ HashInv'
    BY <1>6, OperationMaps
  <2> QED
    BY <2>1
<1> QED
  BY <1>2, <1>3, <1>4, <1>5, <1>6 DEF HNext

LEMMA ScanSound ==
  ASSUME HashInv
  PROVE  ScanVisitsOnce
<1>1. PICK E : Good(table, E) /\ Scanning(table, E, scan)
  BY DEF HashInv
<1>2. SUFFICES ASSUME scan.on
               PROVE  IsInjective(scan.seen) /\ (scan.bucket = table.size => ToSet(scan.seen) = scan.all)
  BY DEF ScanVisitsOnce
<1> DEFINE A == Ahead(table, E, scan.bucket, scan.at)
<1>3. Lists(scan.seen, scan.all \ A, Entry)
  BY <1>1, <1>2 DEF Scanning
<1>4. ASSUME scan.bucket = table.size PROVE A = {}
  <2>1. table.size \in Nat \ {0} /\ \A e \in E : HashKey(table.size, e.name) \in 0 .. table.size - 1
    BY <1>1, GoodTable, BucketFacts
  <2>2. ~(table.size < table.size) /\ \A e \in E : ~(HashKey(table.size, e.name) > table.size)
    BY <2>1
  <2> QED
    BY <1>4, <2>2 DEF Ahead
<1> HIDE DEF A
<1> QED
  BY <1>3, <1>4 DEF Lists

\* The table answers as a map from names to payloads, whatever the chains have
\* come to: every step of it is a step of the map or changes none of what the map
\* shows (nl_xmlHashAddEntry3 to nl_xmlHashRemoveEntry3).
THEOREM HashActsAsMap == HSpec => ActsAsMap
<1>1. HInit => HashInv /\ Map!Init
  BY HashStarts
<1>2. HashInv /\ [HNext]_hashVars => HashInv' /\ [Map!Next]_<<MapIn(table), hAnswer, FreedOnce(hFreed)>>
  BY HashSteps
<1> QED
  BY <1>1, <1>2, PTL DEF HSpec, ActsAsMap, Map!Spec

\* A scan hands every entry to the callback once, although the callback removes
\* entries on the way (xml_hash.c:893-903).
THEOREM ScansVisitOnce == HSpec => []ScanVisitsOnce
<1>1. HInit => HashInv
  BY HashStarts
<1>2. HashInv /\ [HNext]_hashVars => HashInv'
  BY HashSteps
<1>3. HashInv => ScanVisitsOnce
  BY ScanSound
<1> QED
  BY <1>1, <1>2, <1>3, PTL DEF HSpec

-----------------------------------------------------------------------------
(* Dictionaries: the keys.                                                 *)

LEMMA SeedType ==
  Seed \in 0 .. Word32 - 1 /\ Seed \in Nat
<1>1. Word32 \in Nat
  BY DictAssumption
<1>2. Seed \in 0 .. Word32 - 1
  BY DictAssumption
<1> QED
  BY <1>1, <1>2

LEMMA WordFacts32 ==
  /\ Word32 \in Nat /\ Word32 >= 1 /\ Word32 - 1 \in Nat
  /\ \A v, w \in 0 .. Word32 - 1 : BitXor32(v, w) \in 0 .. Word32 - 1
<1>1. Word32 \in Nat \ {0}
  BY DictAssumption
<1>2. \A v, w \in 0 .. Word32 - 1 : BitXor32(v, w) \in 0 .. Word32 - 1
  BY DictAssumption
<1>3. Word32 >= 1 /\ Word32 - 1 \in Nat
  BY <1>1
<1> QED
  BY <1>1, <1>2, <1>3

LEMMA Remainder32 ==
  ASSUME NEW x \in Nat
  PROVE  x % Word32 \in 0 .. Word32 - 1
  BY WordFacts32

\* The sum of numbers is a number.
LEMMA SumType ==
  ASSUME NEW s \in Seq(Nat)
  PROVE  Sum(s) \in Nat
<1> DEFINE Op(x, y) == x + y
           step == [p \in Nat \X Nat |-> Op(p[1], p[2])]
           Is(g) == g = [x \in SUBSET (1 .. Len(s)) |->
                           IF x = {} THEN 0 ELSE Op(g[x \ {Max(x)}], s[Max(x)])]
           iter == CHOOSE g : Is(g)
<1>0. DOMAIN s = 1 .. Len(s) /\ Len(s) \in Nat
  BY LenProperties
<1>1. 0 \in Nat /\ \A x \in Nat, y \in Nat : Op(x, y) \in Nat
  OBVIOUS
<1>2. Sum(s) = iter[1 .. Len(s)]
  BY <1>0 DEF Sum, FoldLeft, MapThenFoldSet
<1> HIDE DEF Op
<1>3. step \in [Nat \X Nat -> Nat]
      /\ \A x \in Nat, y \in Nat : step[<<x, y>>] = Op(x, y)
  BY <1>1
<1>4. \A x \in SUBSET (1 .. Len(s)) : x # {} => Max(x) \in 1 .. Len(s) /\ s[Max(x)] \in Nat
  BY <1>0, MaxUpto, ElementOfSeq
<1> HIDE DEF step
<1>5. PICK g \in [SUBSET (1 .. Len(s)) -> Nat] : IsIter(g, step, 0, s)
  BY <1>1, <1>3, IterExists
<1>6. Is(iter)
  <2>1. Is(g)
    BY <1>3, <1>4, <1>5 DEF IsIter
  <2> QED
    BY <2>1
<1> HIDE DEF iter
<1>7. IsFoldOf(iter, step, 0, s, Nat)
  BY <1>3, <1>4, <1>6 DEF IsFoldOf
<1>8. PICK f \in [0 .. Len(s) -> Nat] : TakenFrom(f, iter, step, 0, s)
  BY <1>1, <1>3, <1>7, FoldSteps
<1> QED
  BY <1>0, <1>2, <1>8 DEF TakenFrom

LEMMA ShiftedDown ==
  ASSUME NEW v \in Nat
  PROVE  /\ v \div 64 \in Nat /\ v \div 64 <= v
         /\ v \div 2048 \in Nat /\ v \div 2048 <= v
  OBVIOUS

LEMMA StirType ==
  ASSUME NEW h \in 0 .. Word32 - 1, NEW c \in Nat
  PROVE  Stir(h, c) \in 0 .. Word32 - 1
<1> DEFINE h1 == (h + c) % Word32
           h2 == (h1 + h1 * 1024) % Word32
<1>1. h \in Nat /\ h + c \in Nat
  BY WordFacts32
<1>2. h1 \in 0 .. Word32 - 1
  BY <1>1, Remainder32
<1>3. h1 + h1 * 1024 \in Nat
  <2> HIDE DEF h1
  <2> QED
    BY <1>2, WordFacts32
<1>4. h2 \in 0 .. Word32 - 1
  <2> HIDE DEF h1
  <2> QED
    BY <1>3, Remainder32
<1> HIDE DEF h2
<1> DEFINE q == h2 \div 64
<1>5. q \in 0 .. Word32 - 1
  <2>1. h2 \in Nat /\ h2 <= Word32 - 1
    BY <1>4, WordFacts32
  <2>2. q \in Nat /\ q <= h2
    BY <2>1, ShiftedDown
  <2> HIDE DEF q
  <2> QED
    BY <2>1, <2>2, WordFacts32
<1> HIDE DEF q
<1>6. BitXor32(h2, q) \in 0 .. Word32 - 1
  BY <1>4, <1>5, WordFacts32
<1> QED
  BY <1>6 DEF Stir, h2, q

\* Characters that are stirred in one after the other.
LEMMA StirredType ==
  ASSUME NEW h \in 0 .. Word32 - 1, NEW s \in Seq(Nat)
  PROVE  FoldLeft(Stir, h, s) \in 0 .. Word32 - 1
<1> DEFINE Op(x, y) == Stir(x, y)
           step == [p \in (0 .. Word32 - 1) \X Nat |-> Op(p[1], p[2])]
           Is(g) == g = [x \in SUBSET (1 .. Len(s)) |->
                           IF x = {} THEN h ELSE Op(g[x \ {Max(x)}], s[Max(x)])]
           iter == CHOOSE g : Is(g)
<1>0. DOMAIN s = 1 .. Len(s) /\ Len(s) \in Nat
  BY LenProperties
<1>1. h \in 0 .. Word32 - 1 /\ \A x \in 0 .. Word32 - 1, y \in Nat : Op(x, y) \in 0 .. Word32 - 1
  BY StirType
<1>2. FoldLeft(Stir, h, s) = iter[1 .. Len(s)]
  BY <1>0 DEF FoldLeft, MapThenFoldSet
<1> HIDE DEF Op
<1>3. step \in [(0 .. Word32 - 1) \X Nat -> (0 .. Word32 - 1)]
      /\ \A x \in 0 .. Word32 - 1, y \in Nat : step[<<x, y>>] = Op(x, y)
  BY <1>1
<1>4. \A x \in SUBSET (1 .. Len(s)) : x # {} => Max(x) \in 1 .. Len(s) /\ s[Max(x)] \in Nat
  BY <1>0, MaxUpto, ElementOfSeq
<1> HIDE DEF step
<1>5. PICK g \in [SUBSET (1 .. Len(s)) -> 0 .. Word32 - 1] : IsIter(g, step, h, s)
  BY <1>1, <1>3, IterExists
<1>6. Is(iter)
  <2>1. Is(g)
    BY <1>3, <1>4, <1>5 DEF IsIter
  <2> QED
    BY <2>1
<1> HIDE DEF iter
<1>7. IsFoldOf(iter, step, h, s, 0 .. Word32 - 1)
  BY <1>3, <1>4, <1>6 DEF IsFoldOf
<1>8. PICK f \in [0 .. Len(s) -> 0 .. Word32 - 1] : TakenFrom(f, iter, step, h, s)
  BY <1>1, <1>3, <1>7, FoldSteps
<1> QED
  BY <1>0, <1>2, <1>8 DEF TakenFrom

LEMMA BigKeyType ==
  ASSUME NEW s \in Seq(Nat)
  PROVE  BigKey(Seed, s) \in Nat
<1> DEFINE h0 == FoldLeft(Stir, Seed, s)
           h1 == (h0 + h0 * 8) % Word32
           h2 == BitXor32(h1, h1 \div 2048)
<1>1. h0 \in 0 .. Word32 - 1
  BY StirredType, WordFacts32, SeedType
<1>2. h1 \in 0 .. Word32 - 1
  <2> HIDE DEF h0
  <2>1. h0 + h0 * 8 \in Nat
    BY <1>1, WordFacts32
  <2> QED
    BY <2>1, Remainder32
<1>3. h2 \in 0 .. Word32 - 1
  <2> HIDE DEF h1
  <2> DEFINE q == h1 \div 2048
  <2>1. h1 \in Nat /\ h1 <= Word32 - 1
    BY <1>2, WordFacts32
  <2>2. q \in Nat /\ q <= h1
    BY <2>1, ShiftedDown
  <2> HIDE DEF q
  <2>3. q \in 0 .. Word32 - 1
    BY <2>1, <2>2, WordFacts32
  <2>4. BitXor32(h1, q) \in 0 .. Word32 - 1
    BY <1>2, <2>3, WordFacts32
  <2> QED
    BY <2>4 DEF q
<1>4. (h2 + h2 * 32768) % Word32 \in Nat
  <2> HIDE DEF h2
  <2>1. h2 + h2 * 32768 \in Nat
    BY <1>3, WordFacts32
  <2>2. (h2 + h2 * 32768) % Word32 \in 0 .. Word32 - 1
    BY <2>1, Remainder32
  <2> QED
    BY <2>2, WordFacts32
<1>5. BigKey(Seed, s) = IF s = <<>> THEN 0 ELSE (h2 + h2 * 32768) % Word32
  BY DEF BigKey
<1> HIDE DEF h2
<1> QED
  BY <1>4, <1>5

LEMMA PieceType ==
  ASSUME NEW s \in Seq(Nat), NEW m \in Nat \ {0}, NEW n \in Nat
  PROVE  Piece(s, m, n) \in Seq(Nat) /\ Sum(Piece(s, m, n)) \in Nat /\ Len(Piece(s, m, n)) \in Nat
<1> DEFINE k == IF Len(s) < n THEN Len(s) ELSE n
<1>1. k \in Nat /\ k <= Len(s)
  BY LenProperties
<1>2. SubSeq(s, m, k) \in Seq(Nat)
  <2> HIDE DEF k
  <2>1. \A i \in m .. k : s[i] \in Nat
    <3>1. \A i \in m .. k : i \in 1 .. Len(s)
      BY <1>1
    <3> QED
      BY <3>1, ElementOfSeq
  <2> QED
    BY <1>1, <2>1, SubSeqProperties
<1>3. Piece(s, m, n) \in Seq(Nat)
  BY <1>2 DEF Piece
<1> QED
  BY <1>3, SumType, LenProperties

LEMMA FastKeyType ==
  ASSUME NEW s \in Seq(Nat)
  PROVE  FastKey(Seed, s) \in Nat
<1>1. Sum(Piece(s, 1, 1)) \in Nat /\ Sum(Piece(s, 2, 10)) \in Nat
  <2>1. 1 \in Nat \ {0} /\ 2 \in Nat \ {0} /\ 1 \in Nat /\ 10 \in Nat
    OBVIOUS
  <2> QED
    BY <2>1, PieceType
<1>2. (IF Len(s) > 10 THEN Last(s) ELSE 0) \in Nat
  <2>1. Len(s) > 10 => Len(s) \in 1 .. Len(s)
    BY LenProperties
  <2>2. Len(s) > 10 => s[Len(s)] \in Nat
    BY <2>1, ElementOfSeq
  <2> QED
    BY <2>2 DEF Last
<1> QED
  BY <1>1, <1>2, SeedType DEF FastKey

LEMMA FastQKeyType ==
  ASSUME NEW prefix \in Seq(Nat) \ {<<>>}, NEW name \in Seq(Nat)
  PROVE  FastQKey(Seed, prefix, name) \in Nat
<1> DEFINE long == Len(name) > 10
           offset == Len(name) - (Len(prefix) + 2)
           left == (IF long THEN 10 ELSE Len(name)) - (IF long THEN Len(Piece(prefix, 1, 10)) ELSE Len(prefix))
           a == IF long THEN name[1 + (IF offset < 0 THEN Len(name) - 11 ELSE offset)] ELSE 0
           b == IF long \/ Len(prefix) <= 10 THEN Sum(Piece(prefix, 1, 10)) ELSE 0
           c == IF left > 0 THEN Separator + Sum(SubSeq(name, 1, left - 1)) ELSE 0
<1>0. Len(name) \in Nat /\ Len(prefix) \in Nat /\ Len(Piece(prefix, 1, 10)) \in Nat /\ Sum(Piece(prefix, 1, 10)) \in Nat
  <2>1. 1 \in Nat \ {0} /\ 10 \in Nat
    OBVIOUS
  <2> QED
    BY <2>1, LenProperties, PieceType
<1>1. a \in Nat
  <2> DEFINE i == 1 + (IF offset < 0 THEN Len(name) - 11 ELSE offset)
  <2>1. long => i \in 1 .. Len(name)
    BY <1>0
  <2> HIDE DEF i
  <2>2. long => name[i] \in Nat
    BY <2>1, ElementOfSeq
  <2> QED
    BY <2>2 DEF i
<1>2. b \in Nat
  BY <1>0
<1>3. c \in Nat
  <2>1. left \in Int /\ left <= Len(name)
    BY <1>0
  <2> HIDE DEF left, long
  <2>2. left > 0 => SubSeq(name, 1, left - 1) \in Seq(Nat)
    <3> HAVE left > 0
    <3>1. left - 1 \in Nat /\ \A i \in 1 .. left - 1 : i \in 1 .. Len(name)
      BY <1>0, <2>1
    <3>2. \A i \in 1 .. left - 1 : name[i] \in Nat
      BY <3>1, ElementOfSeq
    <3> QED
      BY <3>1, <3>2, SubSeqProperties
  <2>3. left > 0 => Sum(SubSeq(name, 1, left - 1)) \in Nat
    BY <2>2, SumType
  <2> QED
    BY <2>3 DEF Separator
<1>4. prefix[1] \in Nat
  <2>1. 1 \in 1 .. Len(prefix)
    BY <1>0, EmptySeq
  <2> QED
    BY <2>1, ElementOfSeq
<1>5. FastQKey(Seed, prefix, name) = Seed + 30 * prefix[1] + a + b + c
  BY DEF FastQKey
<1>6. Seed + 30 * prefix[1] \in Nat
  <2> DEFINE p == prefix[1]
  <2>1. p \in Nat
    BY <1>4
  <2> HIDE DEF p
  <2>2. Seed + 30 * p \in Nat
    BY <2>1, SeedType
  <2> QED
    BY <2>2 DEF p
<1> HIDE DEF a, b, c
<1> DEFINE q == Seed + 30 * prefix[1]
<1>7. q \in Nat /\ FastQKey(Seed, prefix, name) = q + a + b + c
  BY <1>5, <1>6
<1> HIDE DEF q
<1> QED
  BY <1>1, <1>2, <1>3, <1>7

LEMMA AskedFacts ==
  ASSUME NEW n \in Asked
  PROVE  /\ n.prefix \in Seq(Nat) /\ n.name \in Seq(Nat) /\ Whole(n) \in Seq(Nat)
         /\ SmallKeys[n] \in Nat /\ LargeKeys[n] = BigKey(Seed, Whole(n)) /\ LargeKeys[n] \in Nat
<1>1. n.prefix \in Seq(Nat) /\ n.name \in Seq(Nat)
  <2>1. CASE n \in QName
    BY <2>1, DictAssumption
  <2>2. CASE n \in {[prefix |-> <<>>, name |-> s] : s \in PlainName}
    <3>1. PICK s \in PlainName : n = [prefix |-> <<>>, name |-> s]
      BY <2>2
    <3>2. <<>> \in Seq(Nat)
      BY EmptySeq
    <3> QED
      BY <3>1, <3>2, DictAssumption
  <2> QED
    BY <2>1, <2>2 DEF Asked
<1>2. Whole(n) \in Seq(Nat)
  <2>1. <<Separator>> \in Seq(Nat)
    BY DEF Separator
  <2>2. n.prefix \o <<Separator>> \in Seq(Nat)
    BY <1>1, <2>1, ConcatProperties
  <2>3. n.prefix \o <<Separator>> \o n.name \in Seq(Nat)
    BY <1>1, <2>2, ConcatProperties
  <2> QED
    BY <1>1, <2>3 DEF Whole
<1>3. SmallKeys[n] \in Nat
  BY <1>1, FastKeyType, FastQKeyType DEF SmallKeys
<1>4. LargeKeys[n] = BigKey(Seed, Whole(n))
  BY DEF LargeKeys, BigQKey, Whole
<1> QED
  BY <1>1, <1>2, <1>3, <1>4, BigKeyType

LEMMA DictKeyType ==
  ASSUME NEW n \in Asked, NEW z
  PROVE  DictKey(z, n) \in Nat
  BY AskedFacts DEF DictKey
-----------------------------------------------------------------------------
(* The pools.                                                              *)

Pool == [size : Nat, text : Seq(Nat)]

Pools(pools) ==
  pools \in Seq(Pool) /\ \A i \in 1 .. Len(pools) : Len(pools[i].text) <= pools[i].size

\* The string s lies in pool p from place a on, with the zero behind it.
LiesAt(pools, p, a, s) ==
  /\ p \in 1 .. Len(pools) /\ a \in Nat \ {0} /\ a + Len(s) <= Len(pools[p].text)
  /\ pools[p].text[a + Len(s)] = 0
  /\ \A i \in 1 .. Len(s) : pools[p].text[a + i - 1] = s[i]

Largest(pools) == FoldLeft(LAMBDA m, p : IF p.size > m THEN p.size ELSE m, 0, pools)

LEMMA PoolFacts ==
  ASSUME NEW pools \in Seq(Pool), NEW i \in 1 .. Len(pools)
  PROVE  /\ pools[i] \in Pool /\ pools[i].size \in Nat /\ pools[i].text \in Seq(Nat)
         /\ Len(pools[i].text) \in Nat
         /\ pools[i] = [size |-> pools[i].size, text |-> pools[i].text]
<1>1. pools[i] \in Pool
  BY ElementOfSeq
<1>2. \A p \in Pool : p.size \in Nat /\ p.text \in Seq(Nat) /\ p = [size |-> p.size, text |-> p.text]
  BY DEF Pool
<1> QED
  BY <1>1, <1>2, LenProperties

\* The size of the largest pool.
LEMMA LargestType ==
  ASSUME NEW pools \in Seq(Pool)
  PROVE  Largest(pools) \in Nat
<1> DEFINE Op(x, y) == IF y.size > x THEN y.size ELSE x
           step == [p \in Nat \X Pool |-> Op(p[1], p[2])]
           Is(g) == g = [x \in SUBSET (1 .. Len(pools)) |->
                           IF x = {} THEN 0 ELSE Op(g[x \ {Max(x)}], pools[Max(x)])]
           iter == CHOOSE g : Is(g)
<1>0. DOMAIN pools = 1 .. Len(pools) /\ Len(pools) \in Nat
  BY LenProperties
<1>1. 0 \in Nat /\ \A x \in Nat, y \in Pool : Op(x, y) \in Nat
  BY DEF Pool
<1>2. Largest(pools) = iter[1 .. Len(pools)]
  BY <1>0 DEF Largest, FoldLeft, MapThenFoldSet
<1> HIDE DEF Op
<1>3. step \in [Nat \X Pool -> Nat]
      /\ \A x \in Nat, y \in Pool : step[<<x, y>>] = Op(x, y)
  BY <1>1
<1>4. \A x \in SUBSET (1 .. Len(pools)) : x # {} => Max(x) \in 1 .. Len(pools) /\ pools[Max(x)] \in Pool
  BY <1>0, MaxUpto, ElementOfSeq
<1> HIDE DEF step
<1>5. PICK g \in [SUBSET (1 .. Len(pools)) -> Nat] : IsIter(g, step, 0, pools)
  BY <1>1, <1>3, IterExists
<1>6. Is(iter)
  <2>1. Is(g)
    BY <1>3, <1>4, <1>5 DEF IsIter
  <2> QED
    BY <2>1
<1> HIDE DEF iter
<1>7. IsFoldOf(iter, step, 0, pools, Nat)
  BY <1>3, <1>4, <1>6 DEF IsFoldOf
<1>8. PICK f \in [0 .. Len(pools) -> Nat] : TakenFrom(f, iter, step, 0, pools)
  BY <1>1, <1>3, <1>7, FoldSteps
<1> QED
  BY <1>0, <1>2, <1>8 DEF TakenFrom

\* A new pool has room for the string and its zero.
LEMMA PoolSizeRoom ==
  ASSUME NEW pools \in Seq(Pool), NEW need \in Nat
  PROVE  PoolSize(pools, need) \in Nat /\ need + 1 <= PoolSize(pools, need)
<1> DEFINE largest == Largest(pools)
           size == IF largest = 0 THEN FirstPool ELSE 4 * largest
<1>1. largest \in Nat
  BY LargestType
<1>2. size \in Nat \ {0}
  <2> HIDE DEF largest
  <2> QED
    BY <1>1, DictAssumption
<1>3. PoolSize(pools, need) = IF size < 4 * need THEN 4 * need ELSE size
  BY DEF PoolSize, Largest
<1> HIDE DEF size
<1> QED
  BY <1>2, <1>3

LEMMA PoolChosen ==
  ASSUME NEW d, Pools(d.pools), NEW need \in Nat, NEW i, i = PoolFor(d, need)
  PROVE  /\ i \in 0 .. Len(d.pools) + 1
         /\ i \in 1 .. Len(d.pools) => Len(d.pools[i].text) + need + 1 <= d.pools[i].size
<1> DEFINE I == {j \in 1 .. Len(d.pools) : HasRoom(d.pools[j], need)}
           old == SelectLastInSeq(d.pools, LAMBDA p : HasRoom(p, need))
<1>1. Len(d.pools) \in Nat
  BY LenProperties DEF Pools
<1>2. old = IF I # {} THEN Max(I) ELSE 0
  BY DEF SelectLastInSeq
<1>3. I # {} => Max(I) \in I
  <2>1. I \in SUBSET (1 .. Len(d.pools))
    OBVIOUS
  <2> HIDE DEF I
  <2> QED
    BY <1>1, <2>1, MaxUpto
<1>4. old # 0 => old \in I
  BY <1>2, <1>3
<1>5. PoolFor(d, need) \in {old, 0, Len(d.pools) + 1} /\ (old # 0 => PoolFor(d, need) = old)
  BY DEF PoolFor
<1>6. old \in 0 .. Len(d.pools)
  BY <1>1, <1>4
<1> HIDE DEF old
<1>7. PoolFor(d, need) \in 0 .. Len(d.pools) + 1
  BY <1>1, <1>5, <1>6
<1>8. ASSUME i \in 1 .. Len(d.pools)
      PROVE  Len(d.pools[i].text) + need + 1 <= d.pools[i].size
  <2>1. i \in I
    BY <1>1, <1>4, <1>5, <1>8
  <2>2. d.pools[i].size \in Nat /\ Len(d.pools[i].text) \in Nat
    BY <1>8, PoolFacts DEF Pools
  <2> QED
    BY <2>1, <2>2 DEF HasRoom
<1> QED
  BY <1>7, <1>8

\* The pools with one that has room among them.
LeavesRoom(old, pools, i, need) ==
  /\ Pools(pools) /\ i \in 1 .. Len(pools) /\ Len(old) <= Len(pools)
  /\ \A j \in 1 .. Len(old) : pools[j] = old[j]
  /\ Len(pools[i].text) + need + 1 <= pools[i].size

LEMMA NewPool ==
  ASSUME NEW d, Pools(d.pools), NEW need \in Nat, NEW i, i = PoolFor(d, need), i # 0
  PROVE  LeavesRoom(d.pools, IF i \in 0 .. Len(d.pools) THEN d.pools
                        ELSE Append(d.pools, [size |-> PoolSize(d.pools, need), text |-> <<>>]), i, need)
<1>0. Len(d.pools) \in Nat /\ d.pools \in Seq(Pool)
  BY LenProperties DEF Pools
<1>1. CASE i \in 0 .. Len(d.pools)
  <2>1. i \in 1 .. Len(d.pools)
    BY <1>0, <1>1
  <2>2. LeavesRoom(d.pools, d.pools, i, need)
    <3>1. Len(d.pools[i].text) + need + 1 <= d.pools[i].size
      BY <2>1, PoolChosen
    <3> QED
      BY <1>0, <2>1, <3>1 DEF LeavesRoom
  <2> QED
    BY <1>1, <2>2
<1>2. CASE i \notin 0 .. Len(d.pools)
  <2> DEFINE new == [size |-> PoolSize(d.pools, need), text |-> <<>>]
             pools == Append(d.pools, new)
  <2>1. i = Len(d.pools) + 1
    BY <1>0, <1>2, PoolChosen
  <2>2. new \in Pool /\ new.size = PoolSize(d.pools, need) /\ new.size \in Nat /\ Len(new.text) = 0
    <3>1. <<>> \in Seq(Nat) /\ Len(<<>>) = 0
      BY EmptySeq
    <3> QED
      BY <1>0, <3>1, PoolSizeRoom DEF Pool
  <2> HIDE DEF new
  <2>3. /\ pools \in Seq(Pool) /\ Len(pools) = Len(d.pools) + 1
        /\ \A j \in 1 .. Len(d.pools) : pools[j] = d.pools[j]
        /\ pools[Len(d.pools) + 1] = new
    BY <1>0, <2>2, AppendProperties
  <2> HIDE DEF pools
  <2>4. need + 1 <= new.size
    BY <1>0, <2>2, PoolSizeRoom
  <2>5. Pools(pools)
    <3>1. \A j \in 1 .. Len(pools) : j \in 1 .. Len(d.pools) \/ j = Len(d.pools) + 1
      BY <1>0, <2>3
    <3>2. Len(new.text) <= new.size
      BY <2>2, <2>4
    <3> QED
      BY <2>3, <3>1, <3>2 DEF Pools
  <2>6. i \in 1 .. Len(pools) /\ Len(d.pools) <= Len(pools)
    BY <1>0, <2>1, <2>3
  <2>7. Len(pools[i].text) + need + 1 <= pools[i].size
    BY <2>1, <2>2, <2>3, <2>4
  <2>8. LeavesRoom(d.pools, pools, i, need)
    BY <2>3, <2>5, <2>6, <2>7 DEF LeavesRoom
  <2> QED
    BY <1>2, <2>8 DEF pools, new
<1> QED
  BY <1>1, <1>2

IsWritten(u, pools, i, s) == u = [pools EXCEPT ![i].text = @ \o s \o <<0>>]

\* A string written behind what is in a pool.
LEMMA TextWritten ==
  ASSUME NEW old, Pools(old), NEW pools, NEW i, NEW s \in Seq(Nat), LeavesRoom(old, pools, i, Len(s)),
         NEW u, IsWritten(u, pools, i, s),
         NEW at, at = Len(pools[i].text) + 1
  PROVE  /\ Pools(u) /\ LiesAt(u, i, at, s)
         /\ \A p, a, t : t \in Seq(Nat) /\ LiesAt(old, p, a, t) => LiesAt(u, p, a, t) /\ <<p, a>> # <<i, at>>
<1> DEFINE text == pools[i].text
           new == text \o s \o <<0>>
           w == [pools[i] EXCEPT !.text = new]
<1>0. /\ pools \in Seq(Pool) /\ i \in 1 .. Len(pools) /\ Len(pools) \in Nat /\ Len(s) \in Nat
      /\ \A j \in 1 .. Len(old) : pools[j] = old[j] /\ j \in 1 .. Len(pools)
  <2>1. Len(old) \in Nat
    BY LenProperties DEF Pools
  <2> QED
    BY <2>1, LenProperties DEF LeavesRoom, Pools
<1>1. text \in Seq(Nat) /\ Len(text) \in Nat /\ pools[i].size \in Nat /\ pools[i] = [size |-> pools[i].size, text |-> text]
  BY <1>0, PoolFacts
<1>2. /\ new \in Seq(Nat) /\ Len(new) = Len(text) + Len(s) + 1
      /\ \A j \in 1 .. Len(text) : new[j] = text[j]
      /\ \A j \in 1 .. Len(s) : new[Len(text) + j] = s[j]
      /\ new[Len(text) + Len(s) + 1] = 0
  <2> DEFINE both == text \o s
             zero == <<0>>
  <2>1. /\ both \in Seq(Nat) /\ Len(both) = Len(text) + Len(s)
        /\ \A j \in 1 .. Len(text) + Len(s) : both[j] = IF j <= Len(text) THEN text[j] ELSE s[j - Len(text)]
    BY <1>1, ConcatProperties
  <2>2. zero \in Seq(Nat) /\ Len(zero) = 1 /\ zero[1] = 0
    OBVIOUS
  <2> HIDE DEF both, zero, text
  <2>3. /\ both \o zero \in Seq(Nat) /\ Len(both \o zero) = Len(both) + 1
        /\ \A j \in 1 .. Len(both) + 1 : (both \o zero)[j] = IF j <= Len(both) THEN both[j] ELSE zero[j - Len(both)]
    <3>1. both \in Seq(Nat) /\ zero \in Seq(Nat)
      BY <2>1, <2>2
    <3>2. /\ both \o zero \in Seq(Nat) /\ Len(both \o zero) = Len(both) + Len(zero)
          /\ \A j \in 1 .. Len(both) + Len(zero) : (both \o zero)[j] = IF j <= Len(both) THEN both[j] ELSE zero[j - Len(both)]
      BY <3>1, ConcatProperties
    <3> QED
      BY <2>2, <3>2
  <2>4. new = both \o zero
    BY DEF both, zero
  <2> HIDE DEF new
  <2>5. Len(new) = Len(text) + Len(s) + 1 /\ new \in Seq(Nat)
    BY <2>1, <2>3, <2>4
  <2>6. \A j \in 1 .. Len(text) + Len(s) : new[j] = both[j]
    BY <1>0, <1>1, <2>1, <2>3, <2>4
  <2>7. \A j \in 1 .. Len(text) : new[j] = text[j]
    <3> TAKE j \in 1 .. Len(text)
    <3>1. j \in 1 .. Len(text) + Len(s) /\ j <= Len(text)
      BY <1>0, <1>1
    <3> QED
      BY <2>1, <2>6, <3>1
  <2>8. \A j \in 1 .. Len(s) : new[Len(text) + j] = s[j]
    <3> TAKE j \in 1 .. Len(s)
    <3>1. Len(text) + j \in 1 .. Len(text) + Len(s) /\ ~(Len(text) + j <= Len(text)) /\ (Len(text) + j) - Len(text) = j
      BY <1>0, <1>1
    <3> QED
      BY <2>1, <2>6, <3>1
  <2>9. new[Len(text) + Len(s) + 1] = 0
    <3>1. Len(both) + 1 \in 1 .. Len(both) + 1 /\ ~(Len(both) + 1 <= Len(both)) /\ (Len(both) + 1) - Len(both) = 1
      BY <1>0, <1>1, <2>1
    <3>2. (both \o zero)[Len(both) + 1] = zero[1]
      BY <2>3, <3>1
    <3> QED
      BY <2>1, <2>2, <2>4, <3>2
  <2> QED
    BY <2>5, <2>7, <2>8, <2>9
<1> HIDE DEF new
<1>3. w = [size |-> pools[i].size, text |-> new]
  <2> DEFINE z == pools[i].size
             r == [size |-> z, text |-> text]
  <2>1. pools[i] = r
    BY <1>1
  <2> HIDE DEF z, text
  <2>2. [r EXCEPT !.text = new] = [size |-> z, text |-> new]
    OBVIOUS
  <2> HIDE DEF r
  <2> QED
    BY <2>1, <2>2, Zenon DEF z
<1>4. u = [pools EXCEPT ![i] = w]
  BY Zenon DEF new, IsWritten
<1> HIDE DEF w, text
<1>5. /\ w \in Pool /\ w.text = new /\ w.size = pools[i].size
  BY <1>1, <1>2, <1>3 DEF Pool
<1>6. /\ u \in Seq(Pool) /\ Len(u) = Len(pools)
      /\ \A j \in 1 .. Len(pools) : u[j] = IF j = i THEN w ELSE pools[j]
  <2> DEFINE v == [pools EXCEPT ![i] = w]
  <2>1. pools \in Seq(Pool) /\ i \in 1 .. Len(pools) /\ w \in Pool
    BY <1>0, <1>5
  <2>2. v \in Seq(Pool) /\ Len(v) = Len(pools) /\ \A j \in 1 .. Len(pools) : v[j] = IF j = i THEN w ELSE pools[j]
    BY <2>1, ExceptSeq
  <2>3. u = v
    BY <1>4
  <2> HIDE DEF v
  <2> QED
    BY <2>2, <2>3
<1>7. Len(text) + Len(s) + 1 <= pools[i].size
  BY DEF LeavesRoom, text
<1>8. Pools(u)
  <2>1. \A j \in 1 .. Len(u) : Len(u[j].text) <= u[j].size
    <3> TAKE j \in 1 .. Len(u)
    <3>1. CASE j = i
      BY <1>2, <1>5, <1>6, <1>7, <3>1
    <3>2. CASE j # i
      BY <1>6, <3>2 DEF LeavesRoom, Pools
    <3> QED
      BY <3>1, <3>2
  <2> QED
    BY <1>6, <2>1 DEF Pools
<1>9. u[i] = w /\ i \in 1 .. Len(u)
  BY <1>0, <1>6
<1>10. LiesAt(u, i, at, s)
  <2>1. at \in Nat \ {0} /\ at + Len(s) = Len(text) + Len(s) + 1 /\ at = Len(text) + 1
    BY <1>0, <1>1 DEF text
  <2>2. \A j \in 1 .. Len(s) : at + j - 1 = Len(text) + j
    <3> DEFINE m == Len(text)
    <3>1. m \in Nat /\ at = m + 1
      BY <1>1, <2>1
    <3>2. Len(s) \in Nat
      BY <1>0
    <3> HIDE DEF m
    <3>3. \A j \in 1 .. Len(s) : at + j - 1 = m + j
      BY <3>1, <3>2
    <3> QED
      BY <3>3 DEF m
  <2> QED
    <3>1. at + Len(s) <= Len(new) /\ new[at + Len(s)] = 0
      BY <1>2, <2>1
    <3>2. \A j \in 1 .. Len(s) : new[at + j - 1] = s[j]
      BY <1>2, <2>2
    <3>3. u[i].text = new
      BY <1>5, <1>9
    <3> QED
      BY <1>9, <2>1, <3>1, <3>2, <3>3 DEF LiesAt
<1>11. ASSUME NEW p, NEW a, NEW t \in Seq(Nat), LiesAt(old, p, a, t)
       PROVE  LiesAt(u, p, a, t) /\ <<p, a>> # <<i, at>>
  <2>0. /\ p \in 1 .. Len(pools) /\ pools[p] = old[p] /\ a \in Nat \ {0} /\ Len(t) \in Nat
        /\ a + Len(t) <= Len(pools[p].text) /\ pools[p].text[a + Len(t)] = 0
        /\ \A j \in 1 .. Len(t) : pools[p].text[a + j - 1] = t[j]
    BY <1>0, <1>11, LenProperties DEF LiesAt
  <2>1. CASE p # i
    BY <1>6, <2>0, <2>1 DEF LiesAt
  <2>2. CASE p = i
    <3>1. a + Len(t) <= Len(text) /\ text[a + Len(t)] = 0 /\ \A j \in 1 .. Len(t) : text[a + j - 1] = t[j]
      BY <2>0, <2>2 DEF text
    <3> DEFINE m == Len(text)
               k == Len(t)
    <3>n. m \in Nat /\ k \in Nat /\ a \in Nat \ {0} /\ a + k <= m
      BY <1>1, <2>0, <3>1
    <3> HIDE DEF m, k
    <3>2. a + Len(t) \in 1 .. Len(text) /\ \A j \in 1 .. Len(t) : a + j - 1 \in 1 .. Len(text)
      <4>1. a + k \in 1 .. m /\ \A j \in 1 .. k : a + j - 1 \in 1 .. m
        BY <3>n
      <4> QED
        BY <4>1 DEF m, k
    <3>3. a + Len(t) <= Len(new) /\ a # at
      <4>1. Len(new) = m + Len(s) + 1 /\ at = m + 1
        BY <1>2 DEF m, text
      <4>2. a + k <= Len(new) /\ a # at
        BY <1>0, <3>n, <4>1
      <4> QED
        BY <4>2 DEF k
    <3>4. new[a + Len(t)] = 0 /\ \A j \in 1 .. Len(t) : new[a + j - 1] = t[j]
      BY <1>2, <3>1, <3>2
    <3> QED
      BY <1>5, <1>9, <2>0, <2>2, <3>3, <3>4 DEF LiesAt
  <2> QED
    BY <2>1, <2>2
<1> QED
  BY <1>8, <1>10, <1>11

LEMMA StringAdded ==
  ASSUME NEW d, Pools(d.pools), NEW s \in Seq(Nat), NEW added, added = AddString(d, s), added.ok
  PROVE  /\ Pools(added.pools) /\ LiesAt(added.pools, added.pool, added.at, s)
         /\ \A p, a, t : t \in Seq(Nat) /\ LiesAt(d.pools, p, a, t)
              => LiesAt(added.pools, p, a, t) /\ <<p, a>> # <<added.pool, added.at>>
<1> DEFINE i == PoolFor(d, Len(s))
           pools == IF i \in 0 .. Len(d.pools) THEN d.pools
                    ELSE Append(d.pools, [size |-> PoolSize(d.pools, Len(s)), text |-> <<>>])
           u == [pools EXCEPT ![i].text = @ \o s \o <<0>>]
           at == Len(pools[i].text) + 1
<1>1. added = IF i = 0 THEN [ok |-> FALSE, pools |-> pools]
              ELSE [ok |-> TRUE, pool |-> i, at |-> at, pools |-> u]
  BY DEF AddString
<1> DEFINE j == i
<1>2. Len(s) \in Nat
  BY LenProperties
<1>3. i # 0 => LeavesRoom(d.pools, pools, i, Len(s))
  <2> HIDE DEF i
  <2>1. i = PoolFor(d, Len(s))
    BY DEF i
  <2> QED
    BY <1>2, <2>1, NewPool
<1> HIDE DEF i, pools
<1>4. i # 0 /\ added.pool = i /\ added.at = at /\ added.pools = u
  <2> HIDE DEF u, at
  <2> QED
    BY <1>1
<1> HIDE DEF u, at
<1>5. LeavesRoom(d.pools, pools, i, Len(s)) /\ IsWritten(u, pools, i, s) /\ at = Len(pools[i].text) + 1
  BY <1>3, <1>4, Zenon DEF u, at, IsWritten
<1>6. /\ Pools(u) /\ LiesAt(u, i, at, s)
      /\ \A p, a, t : t \in Seq(Nat) /\ LiesAt(d.pools, p, a, t) => LiesAt(u, p, a, t) /\ <<p, a>> # <<i, at>>
  BY <1>5, TextWritten
<1> QED
  BY <1>4, <1>6
-----------------------------------------------------------------------------
(* The chains of a dictionary: as those of a table.                        *)

DEntry == [of : Asked, okey : Nat, len : Nat, pool : Nat, at : Nat]

DPlace(E, z, k) == {e \in E : e.okey % z = k}

DHolding(c, z, E) ==
  /\ E \in SUBSET DEntry /\ c \in [0 .. z - 1 -> Seq(DEntry)]
  /\ \A k \in 0 .. z - 1 : Lists(c[k], DPlace(E, z, k), DEntry)

LEMMA PlaceOfKey ==
  ASSUME NEW z \in Nat \ {0}, NEW e \in DEntry
  PROVE  e.okey % z \in 0 .. z - 1
<1>1. e.okey \in Nat
  BY DEF DEntry
<1> QED
  BY <1>1, Euclid

LEMMA DHoldingWith ==
  ASSUME NEW z \in Nat \ {0}, NEW c, NEW E, DHolding(c, z, E), NEW F \in SUBSET DEntry,
         NEW k \in 0 .. z - 1, NEW s, Lists(s, DPlace(F, z, k), DEntry),
         \A j \in 0 .. z - 1 : j # k => DPlace(F, z, j) = DPlace(E, z, j)
  PROVE  DHolding([c EXCEPT ![k] = s], z, F)
  BY DEF DHolding, Lists

LEMMA DHoldingNothing ==
  ASSUME NEW z \in Nat \ {0}
  PROVE  DHolding([k \in 0 .. z - 1 |-> <<>>], z, {})
<1>1. Lists(<<>>, {}, DEntry)
  BY ListEmpty
<1>2. \A k \in 0 .. z - 1 : DPlace({}, z, k) = {}
  BY DEF DPlace
<1>3. <<>> \in Seq(DEntry)
  BY EmptySeq
<1> QED
  BY <1>1, <1>2, <1>3 DEF DHolding

LEMMA DHoldingAppended ==
  ASSUME NEW z \in Nat \ {0}, NEW c, NEW E, DHolding(c, z, E), NEW e \in DEntry \ E
  PROVE  DHolding([c EXCEPT ![e.okey % z] = Append(@, e)], z, E \cup {e})
<1> DEFINE k == e.okey % z
<1>1. k \in 0 .. z - 1
  BY PlaceOfKey
<1>2. e \notin DPlace(E, z, k) /\ DPlace(E \cup {e}, z, k) = DPlace(E, z, k) \cup {e}
  BY DEF DPlace
<1>3. \A j \in 0 .. z - 1 : j # k => DPlace(E \cup {e}, z, j) = DPlace(E, z, j)
  BY DEF DPlace
<1>4. c \in [0 .. z - 1 -> Seq(DEntry)] /\ E \cup {e} \in SUBSET DEntry
  BY DEF DHolding
<1> HIDE DEF k
<1>5. Lists(Append(c[k], e), DPlace(E \cup {e}, z, k), DEntry)
  <2>1. Lists(c[k], DPlace(E, z, k), DEntry) /\ e \in DEntry \ DPlace(E, z, k)
    BY <1>1, <1>2 DEF DHolding
  <2>2. Lists(Append(c[k], e), DPlace(E, z, k) \cup {e}, DEntry)
    BY <2>1, ListAppend
  <2> QED
    BY <1>2, <2>2
<1>6. DHolding([c EXCEPT ![k] = Append(c[k], e)], z, E \cup {e})
  BY <1>1, <1>3, <1>4, <1>5, DHoldingWith
<1> QED
  BY <1>1, <1>4, <1>6 DEF k

LEMMA DPlacedType ==
  ASSUME NEW z \in Nat \ {0}, NEW c \in [0 .. z - 1 -> Seq(DEntry)], NEW e \in DEntry
  PROVE  /\ DPlaced(c, e) \in [0 .. z - 1 -> Seq(DEntry)]
         /\ DPlaced(c, e) = [c EXCEPT ![e.okey % z] =
              IF c[e.okey % z] = <<>> THEN <<e>>
              ELSE <<Head(c[e.okey % z]), e>> \o Tail(c[e.okey % z])]
<1> DEFINE k == e.okey % z
           s == IF c[k] = <<>> THEN <<e>> ELSE <<Head(c[k]), e>> \o Tail(c[k])
<1>1. k \in 0 .. z - 1 /\ c[k] \in Seq(DEntry)
  BY PlaceOfKey
<1>2. Cardinality(DOMAIN c) = z
  <2>1. DOMAIN c = 0 .. z - 1 /\ 0 \in Int /\ z - 1 \in Int
    OBVIOUS
  <2> QED
    BY <2>1, FS_Interval
<1>3. DPlaced(c, e) = [c EXCEPT ![k] = s]
  BY <1>2 DEF DPlaced
<1> HIDE DEF k
<1>4. s \in Seq(DEntry)
  <2>1. CASE c[k] = <<>>
    BY <2>1
  <2>2. CASE c[k] # <<>>
    <3>1. Head(c[k]) \in DEntry /\ Tail(c[k]) \in Seq(DEntry)
      BY <1>1, <2>2, HeadTailProperties
    <3>2. <<Head(c[k]), e>> \in Seq(DEntry)
      BY <3>1
    <3>3. <<Head(c[k]), e>> \o Tail(c[k]) \in Seq(DEntry)
      BY <3>1, <3>2, ConcatProperties
    <3> QED
      BY <2>2, <3>3
  <2> QED
    BY <2>1, <2>2
<1> HIDE DEF s
<1>5. [c EXCEPT ![k] = s] \in [0 .. z - 1 -> Seq(DEntry)]
  BY <1>1, <1>4
<1> QED
  BY <1>3, <1>5 DEF k, s

\* Where the entries of s are put one after the other.
DPlacing(f, c, s) ==
  /\ f[0] = c /\ f[Len(s)] = FoldLeft(DPlaced, c, s)
  /\ \A i \in 1 .. Len(s) : f[i] = DPlaced(f[i - 1], s[i])

LEMMA DPlacedSteps ==
  ASSUME NEW z \in Nat \ {0}, NEW c \in [0 .. z - 1 -> Seq(DEntry)], NEW s \in Seq(DEntry)
  PROVE  \E f \in [0 .. Len(s) -> [0 .. z - 1 -> Seq(DEntry)]] : DPlacing(f, c, s)
<1> DEFINE Op(x, y) == DPlaced(x, y)
           step == [p \in [0 .. z - 1 -> Seq(DEntry)] \X DEntry |-> Op(p[1], p[2])]
           Is(g) == g = [x \in SUBSET (1 .. Len(s)) |->
                           IF x = {} THEN c ELSE Op(g[x \ {Max(x)}], s[Max(x)])]
           iter == CHOOSE g : Is(g)
<1>1. \A x \in [0 .. z - 1 -> Seq(DEntry)], y \in DEntry : Op(x, y) \in [0 .. z - 1 -> Seq(DEntry)]
  BY DPlacedType
<1>2. FoldLeft(DPlaced, c, s) = iter[1 .. Len(s)]
  <2>1. DOMAIN s = 1 .. Len(s)
    BY LenProperties
  <2> QED
    BY <2>1 DEF FoldLeft, MapThenFoldSet
<1> HIDE DEF Op
<1>3. step \in [[0 .. z - 1 -> Seq(DEntry)] \X DEntry -> [0 .. z - 1 -> Seq(DEntry)]]
      /\ \A x \in [0 .. z - 1 -> Seq(DEntry)], y \in DEntry : step[<<x, y>>] = Op(x, y)
  BY <1>1
<1>4. \A x \in SUBSET (1 .. Len(s)) : x # {} => Max(x) \in 1 .. Len(s) /\ s[Max(x)] \in DEntry
  <2>1. Len(s) \in Nat
    BY LenProperties
  <2> QED
    BY <2>1, MaxUpto, ElementOfSeq
<1> HIDE DEF step
<1>5. PICK g \in [SUBSET (1 .. Len(s)) -> [0 .. z - 1 -> Seq(DEntry)]] : IsIter(g, step, c, s)
  BY <1>3, IterExists
<1>6. Is(g)
  BY <1>3, <1>4, <1>5 DEF IsIter
<1>7. Is(iter)
  BY <1>6
<1> HIDE DEF iter
<1>8. IsFoldOf(iter, step, c, s, [0 .. z - 1 -> Seq(DEntry)])
  BY <1>3, <1>4, <1>7 DEF IsFoldOf
<1>9. PICK f \in [0 .. Len(s) -> [0 .. z - 1 -> Seq(DEntry)]] : TakenFrom(f, iter, step, c, s)
  BY <1>3, <1>8, FoldSteps
<1>10. \A i \in 1 .. Len(s) : f[i] = Op(f[i - 1], s[i])
  <2> TAKE i \in 1 .. Len(s)
  <2>1. i - 1 \in 0 .. Len(s) /\ s[i] \in DEntry
    BY LenProperties, ElementOfSeq
  <2> QED
    BY <1>3, <1>9, <2>1 DEF TakenFrom
<1> QED
  BY <1>2, <1>9, <1>10 DEF Op, TakenFrom, DPlacing

LEMMA DHoldingPlaced ==
  ASSUME NEW z \in Nat \ {0}, NEW c, NEW E, DHolding(c, z, E), NEW e \in DEntry \ E
  PROVE  DHolding(DPlaced(c, e), z, E \cup {e})
<1> DEFINE k == e.okey % z
           s == IF c[k] = <<>> THEN <<e>> ELSE <<Head(c[k]), e>> \o Tail(c[k])
<1>1. k \in 0 .. z - 1
  BY PlaceOfKey
<1>2. e \notin DPlace(E, z, k) /\ DPlace(E \cup {e}, z, k) = DPlace(E, z, k) \cup {e}
  BY DEF DPlace
<1>3. \A j \in 0 .. z - 1 : j # k => DPlace(E \cup {e}, z, j) = DPlace(E, z, j)
  BY DEF DPlace
<1>4. c \in [0 .. z - 1 -> Seq(DEntry)] /\ E \cup {e} \in SUBSET DEntry
  BY DEF DHolding
<1>5. DPlaced(c, e) = [c EXCEPT ![k] = s]
  BY <1>4, DPlacedType
<1> HIDE DEF k
<1>6. Lists(c[k], DPlace(E, z, k), DEntry) /\ e \in DEntry \ DPlace(E, z, k)
  BY <1>1, <1>2 DEF DHolding
<1>7. Lists(s, DPlace(E, z, k) \cup {e}, DEntry)
  <2>1. CASE c[k] = <<>>
    <3>1. DPlace(E, z, k) = {}
      BY <1>6, <2>1, ListIsEmpty
    <3> QED
      BY <2>1, <3>1, ListOne
  <2>2. CASE c[k] # <<>>
    <3>1. Lists(<<Head(c[k]), e>> \o Tail(c[k]), DPlace(E, z, k) \cup {e}, DEntry)
      BY <1>6, <2>2, ListSecond
    <3> QED
      BY <2>2, <3>1
  <2> QED
    BY <2>1, <2>2
<1> HIDE DEF s
<1>8. DHolding([c EXCEPT ![k] = s], z, E \cup {e})
  BY <1>1, <1>2, <1>3, <1>4, <1>7, DHoldingWith
<1> QED
  BY <1>5, <1>8

LEMMA DAllPlaced ==
  ASSUME NEW z \in Nat \ {0}, NEW c, NEW E, DHolding(c, z, E), NEW F, NEW s, Lists(s, F, DEntry), E \cap F = {}
  PROVE  DHolding(FoldLeft(DPlaced, c, s), z, E \cup F)
<1> DEFINE Upto(i) == {s[j] : j \in 1 .. i}
<1>1. s \in Seq(DEntry) /\ Len(s) \in Nat
  BY ListFacts
<1>2. c \in [0 .. z - 1 -> Seq(DEntry)]
  BY DEF DHolding
<1>3. PICK f \in [0 .. Len(s) -> [0 .. z - 1 -> Seq(DEntry)]] : DPlacing(f, c, s)
  BY <1>1, <1>2, DPlacedSteps
<1> DEFINE S == {i \in Nat : DHolding(f[i], z, E \cup Upto(i))}
<1>4. 0 \in S
  <2>1. E \cup Upto(0) = E
    OBVIOUS
  <2> HIDE DEF Upto
  <2> QED
    BY <1>3, <2>1 DEF DPlacing
<1>5. ASSUME NEW i \in 1 .. Len(s), i - 1 \in S PROVE i \in S
  <2>1. Upto(i) = Upto(i - 1) \cup {s[i]}
    <3>1. 1 .. i = (1 .. (i - 1)) \cup {i}
      BY <1>1
    <3> QED
      BY <3>1
  <2>2. s[i] \in DEntry /\ s[i] \in F
    BY ListFacts
  <2>3. s[i] \notin E \cup Upto(i - 1)
    <3>1. \A j \in 1 .. i - 1 : j \in 1 .. Len(s) /\ j # i
      BY <1>1
    <3>2. \A j \in 1 .. i - 1 : s[j] # s[i]
      BY <3>1, ListFacts
    <3> QED
      BY <2>2, <3>2
  <2>4. f[i] = DPlaced(f[i - 1], s[i])
    BY <1>3 DEF DPlacing
  <2>5. DHolding(f[i - 1], z, E \cup Upto(i - 1))
    BY <1>5
  <2> HIDE DEF Upto
  <2>6. DHolding(f[i], z, (E \cup Upto(i - 1)) \cup {s[i]})
    BY <2>2, <2>3, <2>4, <2>5, DHoldingPlaced
  <2>7. (E \cup Upto(i - 1)) \cup {s[i]} = E \cup Upto(i)
    BY <2>1
  <2>8. i \in Nat
    BY <1>1
  <2> QED
    BY <2>6, <2>7, <2>8
<1> HIDE DEF S
<1>6. \A i \in 0 .. Len(s) : i \in S
  BY <1>1, <1>4, <1>5, InductionUpto
<1>7. Len(s) \in S
  BY <1>1, <1>6
<1>8. Upto(Len(s)) = F
  BY ListFacts
<1> HIDE DEF Upto
<1> QED
  BY <1>3, <1>7, <1>8 DEF S, DPlacing

-----------------------------------------------------------------------------
(* The order in which the entries are moved.                               *)

Foremost(s) == SubSeq(s, 1, IF s = <<>> THEN 0 ELSE 1)
FrontOf(s) == IF s = <<>> THEN {} ELSE {s[1]}

LEMMA ListFront ==
  ASSUME NEW E, NEW S, NEW s, Lists(s, S, E)
  PROVE  /\ FrontOf(s) \in SUBSET S
         /\ Lists(Foremost(s), FrontOf(s), E)
         /\ Lists(SubSeq(s, 2, Len(s)), S \ FrontOf(s), E)
<1>1. CASE s = <<>>
  <2>1. Foremost(s) = <<>> /\ FrontOf(s) = {} /\ S = {}
    <3>1. SubSeq(s, 1, 0) = <<>>
      BY SubSeqEmpty
    <3> QED
      BY <1>1, <3>1, ListIsEmpty DEF Foremost, FrontOf
  <2>2. SubSeq(s, 2, Len(s)) = <<>>
    <3>1. Len(s) = 0
      BY <1>1, EmptySeq
    <3>2. SubSeq(s, 2, 0) = <<>>
      BY SubSeqEmpty
    <3> QED
      BY <3>1, <3>2
  <2>3. Lists(<<>>, {}, E)
    BY ListEmpty
  <2>4. S \ FrontOf(s) = {}
    BY <2>1
  <2> QED
    BY <2>1, <2>2, <2>3, <2>4
<1>2. CASE s # <<>>
  <2>1. Lists(Tail(s), S \ {s[1]}, E) /\ s[1] \in S /\ SubSeq(s, 2, Len(s)) = Tail(s)
    BY <1>2, ListTail
  <2>2. s[1] \in E
    BY <2>1, ListFacts
  <2> DEFINE f == SubSeq(s, 1, 1)
             x == s[1]
  <2>3. f \in Seq(E) /\ Len(f) = 1 /\ f[1] = x
    <3>1. \A i \in 1 .. 1 : s[i] \in E
      BY <2>2
    <3>2. /\ SubSeq(s, 1, 1) \in Seq(E) /\ Len(SubSeq(s, 1, 1)) = IF 1 <= 1 THEN 1 - 1 + 1 ELSE 0
          /\ \A i \in 1 .. 1 - 1 + 1 : SubSeq(s, 1, 1)[i] = s[1 + i - 1]
      BY <3>1, SubSeqProperties
    <3> QED
      BY <3>2
  <2> HIDE DEF f
  <2>4. Lists(f, {x}, E)
    BY <2>3, ListsWhen
  <2>5. Foremost(s) = f /\ FrontOf(s) = {x}
    BY <1>2 DEF Foremost, FrontOf, f
  <2> QED
    BY <2>1, <2>4, <2>5
<1> QED
  BY <1>1, <1>2

\* Lists of what belongs into the places, one after the other.
LEMMA DChainsListed ==
  ASSUME NEW z \in Nat \ {0}, NEW ss \in [1 .. z -> Seq(DEntry)], NEW P, NEW E,
         \A k \in 1 .. z : Lists(ss[k], P[k], DEntry) /\ P[k] \in SUBSET DPlace(E, z, k - 1)
  PROVE  Lists(FlattenSeq(ss), UNION {P[k] : k \in 1 .. z}, DEntry)
<1>1. ss \in Seq(Seq(DEntry)) /\ Len(ss) = z
  OBVIOUS
<1>2. \A i, j \in 1 .. z : i # j => P[i] \cap P[j] = {}
  <2> TAKE i, j \in 1 .. z
  <2> HAVE i # j
  <2>1. i - 1 # j - 1
    OBVIOUS
  <2> QED
    BY <2>1 DEF DPlace
<1>3. \A k \in 1 .. Len(ss) : Lists(ss[k], P[k], DEntry)
  BY <1>1
<1>4. \A i, j \in 1 .. Len(ss) : i # j => P[i] \cap P[j] = {}
  BY <1>1, <1>2
<1>5. Lists(FlattenSeq(ss), UNION {P[k] : k \in 1 .. Len(ss)}, DEntry)
  BY <1>1, <1>3, <1>4, ListFlat
<1> QED
  BY <1>1, <1>5

\* The entries that lie in the table, then the others.
Fronts(c, z) == FlattenSeq([k \in 1 .. z |-> Foremost(c[k - 1])])
Backs(c, z) == FlattenSeq([k \in 1 .. z |-> SubSeq(c[k - 1], 2, Len(c[k - 1]))])

LEMMA FrontsThenBacks ==
  ASSUME NEW z \in Nat \ {0}, NEW c, NEW E, DHolding(c, z, E)
  PROVE  Lists(Fronts(c, z) \o Backs(c, z), E, DEntry)
<1> DEFINE fs == [k \in 1 .. z |-> Foremost(c[k - 1])]
           bs == [k \in 1 .. z |-> SubSeq(c[k - 1], 2, Len(c[k - 1]))]
           F == [k \in 1 .. z |-> FrontOf(c[k - 1])]
           B == [k \in 1 .. z |-> DPlace(E, z, k - 1) \ FrontOf(c[k - 1])]
<1>1. \A k \in 1 .. z : k - 1 \in 0 .. z - 1
  OBVIOUS
<1>2. \A k \in 1 .. z : /\ FrontOf(c[k - 1]) \in SUBSET DPlace(E, z, k - 1)
                        /\ Lists(Foremost(c[k - 1]), FrontOf(c[k - 1]), DEntry)
                        /\ Lists(SubSeq(c[k - 1], 2, Len(c[k - 1])), DPlace(E, z, k - 1) \ FrontOf(c[k - 1]), DEntry)
  <2> TAKE k \in 1 .. z
  <2>1. Lists(c[k - 1], DPlace(E, z, k - 1), DEntry)
    BY <1>1 DEF DHolding
  <2> QED
    BY <2>1, ListFront
<1>3. \A k \in 1 .. z : Lists(fs[k], F[k], DEntry) /\ F[k] \in SUBSET DPlace(E, z, k - 1)
  BY <1>2
<1>4. \A k \in 1 .. z : Lists(bs[k], B[k], DEntry) /\ B[k] \in SUBSET DPlace(E, z, k - 1)
  BY <1>2
<1>5. fs \in [1 .. z -> Seq(DEntry)] /\ bs \in [1 .. z -> Seq(DEntry)]
  BY <1>2 DEF Lists
<1> DEFINE U == UNION {F[k] : k \in 1 .. z}
           V == UNION {B[k] : k \in 1 .. z}
<1>6. U \cap V = {}
  <2> SUFFICES ASSUME NEW i \in 1 .. z, NEW j \in 1 .. z, NEW e, e \in F[i], e \in B[j] PROVE FALSE
    OBVIOUS
  <2>1. e \in DPlace(E, z, i - 1) /\ e \in DPlace(E, z, j - 1)
    BY <1>3, <1>4
  <2>2. i = j
    BY <2>1 DEF DPlace
  <2> QED
    BY <2>2
<1>7. U \cup V = E
  <2>1. ASSUME NEW e \in E PROVE e \in U \cup V
    <3> DEFINE k == e.okey % z
    <3>1. k \in 0 .. z - 1
      BY PlaceOfKey DEF DHolding
    <3>2. e \in DPlace(E, z, k)
      BY DEF DPlace
    <3> HIDE DEF k
    <3>3. k + 1 \in 1 .. z /\ (k + 1) - 1 = k
      BY <3>1
    <3>4. e \in F[k + 1] \/ e \in B[k + 1]
      BY <3>2, <3>3
    <3> QED
      BY <3>3, <3>4
  <2>2. \A k \in 1 .. z : F[k] \in SUBSET E /\ B[k] \in SUBSET E
    BY <1>3, <1>4 DEF DPlace
  <2> QED
    BY <2>1, <2>2
<1> HIDE DEF fs, bs, F, B
<1>8. Lists(FlattenSeq(fs), U, DEntry) /\ Lists(FlattenSeq(bs), V, DEntry)
  BY <1>3, <1>4, <1>5, DChainsListed
<1>9. Lists(FlattenSeq(fs) \o FlattenSeq(bs), U \cup V, DEntry)
  <2> HIDE DEF U, V
  <2> QED
    BY <1>6, <1>8, ListConcat
<1> QED
  BY <1>7, <1>9 DEF Fronts, Backs, fs, bs
-----------------------------------------------------------------------------
(* A dictionary that holds entries.                                        *)

IsDict(d) == d = [size |-> d.size, count |-> d.count, limit |-> d.limit, pools |-> d.pools, chain |-> d.chain]

\* What is in the pools: every entry's string, no two at one place.
Lying(pools, E) ==
  /\ Pools(pools)
  /\ \A e \in E : e.len = Len(Whole(e.of)) /\ LiesAt(pools, e.pool, e.at, Whole(e.of))
  /\ \A e, f \in E : <<e.pool, e.at>> = <<f.pool, f.at>> => e = f

DictHolds(d, E) ==
  /\ IsDict(d) /\ d.size \in Nat \ {0} /\ d.size >= MIN_DICT_SIZE
  /\ DHolding(d.chain, d.size, E) /\ d.count = Cardinality(E)
  /\ Lying(d.pools, E)
  /\ \A e \in E : e.okey = DictKey(d.size, e.of)

\* Where the strings lie.
Addresses(E) == {<<Whole(e.of), e.pool, e.at>> : e \in E}

\* A dictionary of which some fields are changed.
LEMMA DictWith ==
  ASSUME NEW d, IsDict(d), NEW x
  PROVE  /\ [d EXCEPT !.size = x] = [size |-> x, count |-> d.count, limit |-> d.limit, pools |-> d.pools, chain |-> d.chain]
         /\ [d EXCEPT !.count = x] = [size |-> d.size, count |-> x, limit |-> d.limit, pools |-> d.pools, chain |-> d.chain]
         /\ [d EXCEPT !.limit = x] = [size |-> d.size, count |-> d.count, limit |-> x, pools |-> d.pools, chain |-> d.chain]
         /\ [d EXCEPT !.pools = x] = [size |-> d.size, count |-> d.count, limit |-> d.limit, pools |-> x, chain |-> d.chain]
         /\ [d EXCEPT !.chain = x] = [size |-> d.size, count |-> d.count, limit |-> d.limit, pools |-> d.pools, chain |-> x]
<1> DEFINE z == d.size
           n == d.count
           l == d.limit
           p == d.pools
           c == d.chain
           r == [size |-> z, count |-> n, limit |-> l, pools |-> p, chain |-> c]
<1>1. d = r
  BY DEF IsDict
<1> HIDE DEF z, n, l, p, c
<1>2. /\ [r EXCEPT !.size = x] = [size |-> x, count |-> n, limit |-> l, pools |-> p, chain |-> c]
      /\ [r EXCEPT !.count = x] = [size |-> z, count |-> x, limit |-> l, pools |-> p, chain |-> c]
      /\ [r EXCEPT !.limit = x] = [size |-> z, count |-> n, limit |-> x, pools |-> p, chain |-> c]
      /\ [r EXCEPT !.pools = x] = [size |-> z, count |-> n, limit |-> l, pools |-> x, chain |-> c]
      /\ [r EXCEPT !.chain = x] = [size |-> z, count |-> n, limit |-> l, pools |-> p, chain |-> x]
  OBVIOUS
<1> HIDE DEF r
<1> QED
  BY <1>1, <1>2, Zenon DEF z, n, l, p, c

LEMMA DictResized ==
  ASSUME NEW d, IsDict(d), NEW z, NEW c
  PROVE  [d EXCEPT !.size = z, !.chain = c] =
           [size |-> z, count |-> d.count, limit |-> d.limit, pools |-> d.pools, chain |-> c]
<1> DEFINE w == [d EXCEPT !.size = z]
<1>1. IsDict(w) /\ w.size = z /\ w.count = d.count /\ w.limit = d.limit /\ w.pools = d.pools
  <2>1. w = [size |-> z, count |-> d.count, limit |-> d.limit, pools |-> d.pools, chain |-> d.chain]
    BY DictWith
  <2> HIDE DEF w
  <2> QED
    BY <2>1 DEF IsDict
<1>2. [d EXCEPT !.size = z, !.chain = c] = [w EXCEPT !.chain = c]
  BY Zenon
<1> HIDE DEF w
<1>3. [w EXCEPT !.chain = c] = [size |-> w.size, count |-> w.count, limit |-> w.limit, pools |-> w.pools, chain |-> c]
  BY <1>1, DictWith
<1> QED
  BY <1>1, <1>2, <1>3, Zenon

\* The parts of a dictionary.
DictIs(d, size, count, limit, pools, chain) ==
  /\ IsDict(d)
  /\ d.size = size /\ d.count = count /\ d.limit = limit /\ d.pools = pools /\ d.chain = chain

LEMMA EntryOfDict ==
  ASSUME NEW e \in DEntry
  PROVE  /\ e.of \in Asked /\ e.okey \in Nat /\ e.len \in Nat /\ e.pool \in Nat /\ e.at \in Nat
         /\ e = [of |-> e.of, okey |-> e.okey, len |-> e.len, pool |-> e.pool, at |-> e.at]
  BY DEF DEntry

\* The key an entry has in a dictionary that has grown.
Rekeyed(z, e) == [e EXCEPT !.okey = NewOkey(z, e)]

LEMMA RekeyedFacts ==
  ASSUME NEW z, NEW e \in DEntry, e.okey = DictKey(z, e.of), NEW f, f = Rekeyed(z, e)
  PROVE  /\ f \in DEntry /\ f.of = e.of /\ f.len = e.len /\ f.pool = e.pool /\ f.at = e.at
         /\ f.okey = LargeKeys[e.of]
<1> DEFINE k == NewOkey(z, e)
<1>1. k = LargeKeys[e.of]
  BY DEF NewOkey, DictKey
<1>2. e.of \in Asked /\ k \in Nat
  BY <1>1, EntryOfDict, AskedFacts
<1>3. f = [of |-> e.of, okey |-> k, len |-> e.len, pool |-> e.pool, at |-> e.at]
  <2> DEFINE o == e.of
             k1 == e.okey
             l == e.len
             p == e.pool
             a == e.at
             r == [of |-> o, okey |-> k1, len |-> l, pool |-> p, at |-> a]
  <2>1. e = r
    BY EntryOfDict
  <2>2. f = [e EXCEPT !.okey = k]
    BY DEF Rekeyed
  <2> HIDE DEF k, o, k1, l, p, a
  <2>3. [r EXCEPT !.okey = k] = [of |-> o, okey |-> k, len |-> l, pool |-> p, at |-> a]
    OBVIOUS
  <2> HIDE DEF r
  <2> QED
    BY <2>1, <2>2, <2>3, Zenon DEF o, l, p, a
<1> HIDE DEF k
<1> QED
  BY <1>1, <1>2, <1>3, EntryOfDict DEF DEntry

\* The entries are listed as before, each with its new key.
LEMMA RekeyedListed ==
  ASSUME NEW z, NEW E, NEW s, Lists(s, E, DEntry), NEW t, t = [i \in DOMAIN s |-> Rekeyed(z, s[i])],
         NEW F, F = {Rekeyed(z, e) : e \in E}, \A e \in E : e.okey = DictKey(z, e.of),
         \A e, f \in E : <<e.pool, e.at>> = <<f.pool, f.at>> => e = f
  PROVE  Lists(t, F, DEntry) /\ Len(t) = Len(s)
<1>1. Len(s) \in Nat /\ DOMAIN s = 1 .. Len(s) /\ \A i \in 1 .. Len(s) : s[i] \in E /\ s[i] \in DEntry
  BY ListFacts
<1>2. \A i \in 1 .. Len(s) : t[i] = Rekeyed(z, s[i]) /\ t[i] \in DEntry /\ t[i].pool = s[i].pool /\ t[i].at = s[i].at
  <2> TAKE i \in 1 .. Len(s)
  <2>1. t[i] = Rekeyed(z, s[i])
    BY <1>1
  <2>2. s[i] \in DEntry /\ s[i].okey = DictKey(z, s[i].of)
    BY <1>1
  <2> QED
    BY <2>1, <2>2, RekeyedFacts
<1>3. t \in Seq(DEntry) /\ Len(t) = Len(s)
  <2>1. t \in [1 .. Len(s) -> DEntry]
    <3>1. DOMAIN t = 1 .. Len(s) /\ t = [i \in 1 .. Len(s) |-> t[i]]
      BY <1>1
    <3> QED
      BY <1>2, <3>1
  <2> QED
    BY <1>1, <2>1
<1>4. \A i \in 1 .. Len(t) : t[i] \in F
  BY <1>1, <1>2, <1>3
<1>5. \A f \in F : \E i \in 1 .. Len(t) : t[i] = f
  <2> TAKE f \in F
  <2>1. PICK e \in E : f = Rekeyed(z, e)
    OBVIOUS
  <2>2. PICK i \in 1 .. Len(s) : s[i] = e
    BY ListFacts
  <2> QED
    BY <1>2, <1>3, <2>1, <2>2
<1>6. \A i, j \in 1 .. Len(t) : t[i] = t[j] => i = j
  <2> TAKE i, j \in 1 .. Len(t)
  <2> HAVE t[i] = t[j]
  <2>1. i \in 1 .. Len(s) /\ j \in 1 .. Len(s)
    BY <1>3
  <2>2. <<s[i].pool, s[i].at>> = <<s[j].pool, s[j].at>>
    <3>1. t[i].pool = s[i].pool /\ t[i].at = s[i].at /\ t[j].pool = s[j].pool /\ t[j].at = s[j].at
      BY <1>2, <2>1
    <3> QED
      BY <3>1, Zenon
  <2>3. s[i] = s[j]
    BY <1>1, <2>1, <2>2
  <2> QED
    BY <2>1, <2>3, ListFacts
<1> QED
  BY <1>3, <1>4, <1>5, <1>6, ListsWhen

LEMMA GrownDict ==
  ASSUME NEW d, NEW E, DictHolds(d, E), NEW y \in Nat, y > MIN_DICT_SIZE,
         NEW F, F = {Rekeyed(d.size, e) : e \in E}
  PROVE  DictHolds(DictGrow(d, y), F) /\ Addresses(F) = Addresses(E) /\ DictGrow(d, y).limit = d.limit
<1> DEFINE s == Fronts(d.chain, d.size) \o Backs(d.chain, d.size)
           moved == [i \in DOMAIN s |-> Rekeyed(d.size, s[i])]
           none == [k \in 0 .. y - 1 |-> <<>>]
           chain == FoldLeft(DPlaced, none, moved)
           g == [d EXCEPT !.size = y, !.chain = chain]
<1>0. y \in Nat \ {0} /\ y # MIN_DICT_SIZE /\ y >= MIN_DICT_SIZE
  BY DictAssumption
<1>1. DictGrow(d, y) = g
  BY DEF DictGrow, Fronts, Backs, Foremost, Rekeyed
<1>2. Lists(s, E, DEntry)
  BY FrontsThenBacks DEF DictHolds
<1> HIDE DEF s
<1>3. Lists(moved, F, DEntry) /\ Len(moved) = Len(s)
  <2>1. \A e \in E : e.okey = DictKey(d.size, e.of)
    BY DEF DictHolds
  <2>2. \A e, f \in E : <<e.pool, e.at>> = <<f.pool, f.at>> => e = f
    BY DEF DictHolds, Lying
  <2>3. moved = [i \in DOMAIN s |-> Rekeyed(d.size, s[i])]
    OBVIOUS
  <2> HIDE DEF moved
  <2> QED
    BY <1>2, <2>1, <2>2, <2>3, RekeyedListed
<1> HIDE DEF moved
<1>4. Cardinality(F) = Cardinality(E)
  BY <1>2, <1>3, ListLength
<1>5. DHolding(chain, y, F)
  <2>1. DHolding(none, y, {})
    BY <1>0, DHoldingNothing
  <2> HIDE DEF none
  <2>2. DHolding(FoldLeft(DPlaced, none, moved), y, {} \cup F)
    BY <1>0, <1>3, <2>1, DAllPlaced
  <2> QED
    BY <2>2
<1> HIDE DEF chain
<1>6. g = [size |-> y, count |-> d.count, limit |-> d.limit, pools |-> d.pools, chain |-> chain]
  <2>1. IsDict(d)
    BY DEF DictHolds
  <2> QED
    BY <2>1, DictResized, Zenon
<1> HIDE DEF g
<1>7. IsDict(g) /\ g.size = y /\ g.count = d.count /\ g.limit = d.limit /\ g.pools = d.pools /\ g.chain = chain
  BY <1>6 DEF IsDict
<1>8. \A e \in E : LET f == Rekeyed(d.size, e) IN
        f.of = e.of /\ f.len = e.len /\ f.pool = e.pool /\ f.at = e.at /\ f.okey = LargeKeys[e.of]
  <2> TAKE e \in E
  <2>1. e \in DEntry /\ e.okey = DictKey(d.size, e.of)
    BY DEF DictHolds, DHolding
  <2> QED
    BY <2>1, RekeyedFacts
<1>9. Lying(d.pools, F)
  BY <1>8 DEF DictHolds, Lying
<1>10. \A f \in F : f.okey = DictKey(y, f.of)
  BY <1>0, <1>8 DEF DictKey
<1>11. Addresses(F) = Addresses(E)
  BY <1>8 DEF Addresses
<1>12. d.count = Cardinality(E)
  BY DEF DictHolds
<1>13. DictHolds(g, F)
  BY <1>0, <1>4, <1>5, <1>7, <1>9, <1>10, <1>12 DEF DictHolds
<1> QED
  BY <1>1, <1>7, <1>11, <1>13
-----------------------------------------------------------------------------
(* One string more.                                                        *)

OneMore(d, p, k, e) == [d EXCEPT !.count = @ + 1, !.pools = p, !.chain[k] = Append(@, e)]

LEMMA DictAppended ==
  ASSUME NEW d, IsDict(d), NEW p, NEW k, NEW e, NEW g, g = OneMore(d, p, k, e)
  PROVE  DictIs(g, d.size, d.count + 1, d.limit, p, [d.chain EXCEPT ![k] = Append(@, e)])
<1> DEFINE n == d.count + 1
           v == [d EXCEPT !.count = n]
           w == [v EXCEPT !.pools = p]
           c == [d.chain EXCEPT ![k] = Append(d.chain[k], e)]
<1>1. DictIs(v, d.size, n, d.limit, d.pools, d.chain)
  <2>1. v = [size |-> d.size, count |-> n, limit |-> d.limit, pools |-> d.pools, chain |-> d.chain]
    BY DictWith
  <2> HIDE DEF v, n
  <2> QED
    BY <2>1 DEF IsDict, DictIs
<1>2. DictIs(w, d.size, n, d.limit, p, d.chain)
  <2> HIDE DEF v
  <2>0. IsDict(v)
    BY <1>1 DEF DictIs
  <2>1. w = [size |-> v.size, count |-> v.count, limit |-> v.limit, pools |-> p, chain |-> v.chain]
    BY <2>0, DictWith
  <2> HIDE DEF w, n
  <2> QED
    BY <1>1, <2>1 DEF IsDict, DictIs
<1>3. g = [w EXCEPT !.chain = c]
  <2>1. w.chain = d.chain
    BY <1>2 DEF DictIs
  <2> QED
    BY <2>1, Zenon DEF OneMore
<1> HIDE DEF c, n, v, w
<1>4. DictIs(g, d.size, n, d.limit, p, c)
  <2>0. IsDict(w)
    BY <1>2 DEF DictIs
  <2>1. [w EXCEPT !.chain = c] = [size |-> w.size, count |-> w.count, limit |-> w.limit, pools |-> w.pools, chain |-> c]
    BY <2>0, DictWith
  <2>2. g = [size |-> w.size, count |-> w.count, limit |-> w.limit, pools |-> w.pools, chain |-> c]
    BY <1>3, <2>1, Zenon
  <2>3. DictIs(g, w.size, w.count, w.limit, w.pools, c)
    BY <2>2 DEF IsDict, DictIs
  <2>4. w.size = d.size /\ w.count = n /\ w.limit = d.limit /\ w.pools = p
    BY <1>2 DEF DictIs
  <2> QED
    BY <2>3, <2>4
<1> QED
  BY <1>4 DEF c, n

\* The size a dictionary grows to.
LEMMA LargerSize ==
  ASSUME NEW z \in Nat \ {0}, z >= MIN_DICT_SIZE
  PROVE  MAX_CHAIN * 2 * z \in Nat /\ MAX_CHAIN * 2 * z > MIN_DICT_SIZE
<1>1. MAX_CHAIN \in Nat /\ MAX_CHAIN >= 1 /\ MIN_DICT_SIZE \in Nat
  BY DictAssumption
<1> DEFINE m == MAX_CHAIN * 2
<1>2. m \in Nat /\ m >= 2
  BY <1>1
<1> HIDE DEF m
<1>3. m * z \in Nat /\ m * z >= 2 * z
  BY <1>2
<1>4. m * z > MIN_DICT_SIZE
  <2> DEFINE x == m * z
  <2>1. x \in Nat /\ x >= 2 * z
    BY <1>3
  <2> HIDE DEF x
  <2>2. x > MIN_DICT_SIZE
    BY <1>1, <2>1
  <2> QED
    BY <2>2 DEF x
<1> QED
  BY <1>3, <1>4 DEF m

\* The dictionary d has come to g by a string w that was put at place a of pool p.
Got(E, F, w, p, a) == Addresses(F) = Addresses(E) \cup {<<w, p, a>>}

LEMMA AppendedDict ==
  ASSUME NEW d, NEW E, DictHolds(d, E), NEW n \in Asked, NEW okey, okey = DictKey(d.size, n),
         NEW added, added = AddString(d, Whole(n)), added.ok,
         NEW e, e = [of |-> n, okey |-> okey, len |-> Len(Whole(n)), pool |-> added.pool, at |-> added.at],
         NEW g, DictIs(g, d.size, d.count + 1, d.limit, added.pools,
                     [d.chain EXCEPT ![okey % d.size] = Append(@, e)])
  PROVE  DictHolds(g, E \cup {e}) /\ Got(E, E \cup {e}, Whole(n), added.pool, added.at)
<1> DEFINE w == Whole(n)
           z == d.size
<1>0. /\ w \in Seq(Nat) /\ Len(w) \in Nat /\ okey \in Nat
      /\ z \in Nat \ {0} /\ DHolding(d.chain, z, E) /\ E \in SUBSET DEntry
  BY AskedFacts, DictKeyType, LenProperties DEF DictHolds, DHolding
<1>1. /\ Pools(added.pools) /\ LiesAt(added.pools, added.pool, added.at, w)
      /\ \A p, a, t : t \in Seq(Nat) /\ LiesAt(d.pools, p, a, t)
           => LiesAt(added.pools, p, a, t) /\ <<p, a>> # <<added.pool, added.at>>
  BY <1>0, StringAdded DEF DictHolds, Lying
<1>2. added.pool \in Nat /\ added.at \in Nat
  BY <1>1, LenProperties DEF LiesAt
<1>3. /\ e \in DEntry /\ e.of = n /\ e.okey = okey /\ e.len = Len(w)
      /\ e.pool = added.pool /\ e.at = added.at
  BY <1>0, <1>2 DEF DEntry
<1>4. \A f \in E : /\ LiesAt(added.pools, f.pool, f.at, Whole(f.of)) /\ f.len = Len(Whole(f.of))
                   /\ <<f.pool, f.at>> # <<e.pool, e.at>>
  <2> TAKE f \in E
  <2>1. f.of \in Asked
    BY <1>0, EntryOfDict
  <2>2. Whole(f.of) \in Seq(Nat)
    BY <2>1, AskedFacts
  <2>3. LiesAt(d.pools, f.pool, f.at, Whole(f.of)) /\ f.len = Len(Whole(f.of))
    BY DEF DictHolds, Lying
  <2>4. LiesAt(added.pools, f.pool, f.at, Whole(f.of)) /\ <<f.pool, f.at>> # <<added.pool, added.at>>
    BY <1>1, <2>2, <2>3
  <2> QED
    BY <1>3, <2>3, <2>4
<1>5. e \in DEntry \ E
  BY <1>3, <1>4
<1> DEFINE G == E \cup {e}
<1>6. Cardinality(G) = d.count + 1
  <2>1. Lists(Fronts(d.chain, z) \o Backs(d.chain, z), E, DEntry)
    BY <1>0, FrontsThenBacks
  <2>2. IsFiniteSet(E)
    BY <2>1, ListLength
  <2>3. Cardinality(G) = Cardinality(E) + 1
    BY <1>5, <2>2, FS_AddElement
  <2> QED
    BY <2>3 DEF DictHolds
<1>7. DHolding([d.chain EXCEPT ![okey % z] = Append(@, e)], z, G)
  <2>1. DHolding([d.chain EXCEPT ![e.okey % z] = Append(@, e)], z, E \cup {e})
    BY <1>0, <1>5, DHoldingAppended
  <2> QED
    BY <1>3, <2>1
<1>8. Lying(added.pools, G)
  <2>1. \A f \in G : f.len = Len(Whole(f.of)) /\ LiesAt(added.pools, f.pool, f.at, Whole(f.of))
    BY <1>1, <1>3, <1>4
  <2>2. \A f, h \in G : <<f.pool, f.at>> = <<h.pool, h.at>> => f = h
    <3> TAKE f, h \in G
    <3>1. CASE f \in E /\ h \in E
      BY <3>1 DEF DictHolds, Lying
    <3>2. CASE f = e /\ h = e
      BY <3>2
    <3>3. CASE f \in E /\ h = e
      BY <1>4, <3>3
    <3>4. CASE f = e /\ h \in E
      <4>1. <<h.pool, h.at>> # <<f.pool, f.at>>
        BY <1>4, <3>4
      <4> QED
        BY <4>1
    <3> QED
      BY <3>1, <3>2, <3>3, <3>4
  <2> QED
    BY <1>1, <2>1, <2>2 DEF Lying
<1>9. \A f \in G : f.okey = DictKey(z, f.of)
  BY <1>3 DEF DictHolds
<1>10. z >= MIN_DICT_SIZE
  BY DEF DictHolds
<1>11. /\ IsDict(g) /\ g.size = z /\ g.count = d.count + 1 /\ g.pools = added.pools
       /\ g.chain = [d.chain EXCEPT ![okey % z] = Append(@, e)]
  BY DEF DictIs
<1>12. DictHolds(g, G)
  <2> DEFINE c == [d.chain EXCEPT ![okey % z] = Append(@, e)]
  <2>1. DHolding(c, z, G) /\ g.chain = c
    BY <1>7, <1>11
  <2> HIDE DEF c, G
  <2> QED
    BY <1>0, <1>6, <1>8, <1>9, <1>10, <1>11, <2>1 DEF DictHolds
<1>13. Got(E, G, w, added.pool, added.at)
  BY <1>3 DEF Got, Addresses
<1> QED
  BY <1>12, <1>13

LEMMA EnteredDict ==
  ASSUME NEW d, NEW E, DictHolds(d, E), NEW n \in Asked, NEW okey, okey = DictKey(d.size, n),
         NEW added, added = AddString(d, Whole(n)), added.ok, NEW passed,
         NEW u, u = Entered(d, n, okey, passed, added)
  PROVE  \E F : DictHolds(u, F) /\ Got(E, F, Whole(n), added.pool, added.at) /\ u.limit = d.limit
<1> DEFINE e == [of |-> n, okey |-> okey, len |-> Len(Whole(n)), pool |-> added.pool, at |-> added.at]
           k == okey % d.size
           more == OneMore(d, added.pools, k, e)
           y == MAX_CHAIN * 2 * d.size
<1>1. u = more \/ u = DictGrow(more, y)
  BY Zenon DEF Entered, OneMore
<1> HIDE DEF e, k
<1>2. DictIs(more, d.size, d.count + 1, d.limit, added.pools, [d.chain EXCEPT ![k] = Append(@, e)])
  <2>1. IsDict(d)
    BY DEF DictHolds
  <2> DEFINE p == added.pools
  <2> HIDE DEF p
  <2> QED
    BY <2>1, DictAppended DEF p
<1> HIDE DEF more
<1>3. DictHolds(more, E \cup {e}) /\ Got(E, E \cup {e}, Whole(n), added.pool, added.at)
  BY <1>2, AppendedDict DEF e, k
<1>4. more.limit = d.limit /\ more.size = d.size
  BY <1>2 DEF DictIs
<1> DEFINE G == E \cup {e}
<1>5. CASE u = more
  BY <1>3, <1>4, <1>5
<1>6. CASE u = DictGrow(more, y)
  <2> DEFINE F == {Rekeyed(more.size, f) : f \in G}
  <2>1. y \in Nat /\ y > MIN_DICT_SIZE
    BY LargerSize DEF DictHolds
  <2> HIDE DEF y
  <2>2. DictHolds(more, G)
    BY <1>3
  <2> HIDE DEF G
  <2>3. F = {Rekeyed(more.size, f) : f \in G}
    OBVIOUS
  <2> HIDE DEF F
  <2>4. DictHolds(DictGrow(more, y), F) /\ Addresses(F) = Addresses(G) /\ DictGrow(more, y).limit = more.limit
    BY <2>1, <2>2, <2>3, GrownDict
  <2>5. Got(E, F, Whole(n), added.pool, added.at)
    BY <1>3, <2>4 DEF Got, G
  <2> QED
    BY <1>4, <1>6, <2>4, <2>5
<1> QED
  BY <1>1, <1>5, <1>6
-----------------------------------------------------------------------------
(* Every string unharmed.                                                  *)

Intact(d) ==
  /\ \A p \in ToSet(d.pools) : Len(p.text) <= p.size
  /\ \A e \in Held(d) : /\ TextAt(d, e) = Whole(e.of)
                       /\ d.pools[e.pool].text[e.at + e.len] = 0
                       /\ OwnsIn(d, e)
  /\ d.count = Cardinality(Held(d))

\* What lies at a place is read there.
LEMMA StringRead ==
  ASSUME NEW pools, Pools(pools), NEW p, NEW a, NEW s \in Seq(Nat), LiesAt(pools, p, a, s)
  PROVE  /\ SubSeq(pools[p].text, a, a + Len(s) - 1) = s
         /\ a \in 1 .. Len(pools[p].text) + 1
<1> DEFINE t == pools[p].text
           n == Len(s)
           u == SubSeq(t, a, a + n - 1)
<1>1. p \in 1 .. Len(pools) /\ a \in Nat \ {0} /\ a + n <= Len(t) /\ \A i \in 1 .. n : t[a + i - 1] = s[i]
  BY DEF LiesAt
<1>2. t \in Seq(Nat) /\ Len(t) \in Nat /\ n \in Nat
  BY <1>1, PoolFacts, LenProperties DEF Pools
<1> HIDE DEF t, n
<1>3. a \in 1 .. Len(t) + 1 /\ a + n - 1 \in a - 1 .. Len(t)
  BY <1>1, <1>2
<1>4. u \in Seq(Nat) /\ Len(u) = n /\ \A i \in 1 .. n : u[i] = t[a + i - 1]
  <2> DEFINE b == a + n - 1
  <2>1. b - a + 1 = n
    BY <1>1, <1>2
  <2>2. b \in Int /\ a \in Nat \ {0} /\ a - 1 <= b /\ b <= Len(t)
    BY <1>1, <1>2, <1>3
  <2> HIDE DEF b
  <2>3. SubSeq(t, a, b) \in Seq(Nat) /\ Len(SubSeq(t, a, b)) = b - a + 1
        /\ \A i \in 1 .. b - a + 1 : SubSeq(t, a, b)[i] = t[a + i - 1]
    BY <1>2, <2>2, Segment
  <2> QED
    BY <2>1, <2>3 DEF b
<1> HIDE DEF u
<1>5. \A i \in 1 .. Len(u) : u[i] = s[i]
  BY <1>1, <1>4
<1>6. u = s
  BY <1>4, <1>5, SeqEqual DEF n
<1> QED
  BY <1>3, <1>6 DEF u, t, n

\* The entries of a dictionary.
LEMMA HeldIs ==
  ASSUME NEW d, NEW E, DictHolds(d, E)
  PROVE  Held(d) = E
<1> DEFINE z == d.size
           c == d.chain
<1>1. z \in Nat \ {0} /\ DHolding(c, z, E)
  BY DEF DictHolds
<1> HIDE DEF z, c
<1>2. DOMAIN c = 0 .. z - 1 /\ E \in SUBSET DEntry /\ \A k \in 0 .. z - 1 : ToSet(c[k]) = DPlace(E, z, k)
  BY <1>1 DEF DHolding, Lists
<1>3. \A e \in E : e \in DPlace(E, z, e.okey % z) /\ e.okey % z \in 0 .. z - 1
  BY <1>1, <1>2, PlaceOfKey DEF DPlace
<1>4. UNION {ToSet(c[k]) : k \in DOMAIN c} = E
  <2>1. \A k \in DOMAIN c : ToSet(c[k]) \in SUBSET E
    BY <1>2 DEF DPlace
  <2>2. \A e \in E : \E k \in DOMAIN c : e \in ToSet(c[k])
    BY <1>2, <1>3
  <2> QED
    BY <2>1, <2>2
<1> QED
  BY <1>4 DEF Held, c

LEMMA HeldIntact ==
  ASSUME NEW d, NEW E, DictHolds(d, E)
  PROVE  Intact(d)
<1>1. Held(d) = E
  BY HeldIs
<1>2. Pools(d.pools) /\ d.count = Cardinality(E) /\ E \in SUBSET DEntry
  BY DEF DictHolds, Lying, DHolding
<1>3. \A p \in ToSet(d.pools) : Len(p.text) <= p.size
  BY <1>2 DEF Pools, ToSet
<1>4. \A e \in E : /\ TextAt(d, e) = Whole(e.of)
                   /\ d.pools[e.pool].text[e.at + e.len] = 0
                   /\ OwnsIn(d, e)
  <2> TAKE e \in E
  <2>1. Whole(e.of) \in Seq(Nat)
    BY <1>2, EntryOfDict, AskedFacts
  <2>2. e.len = Len(Whole(e.of)) /\ LiesAt(d.pools, e.pool, e.at, Whole(e.of))
    BY DEF DictHolds, Lying
  <2>3. SubSeq(d.pools[e.pool].text, e.at, e.at + Len(Whole(e.of)) - 1) = Whole(e.of)
        /\ e.at \in 1 .. Len(d.pools[e.pool].text) + 1
    BY <1>2, <2>1, <2>2, StringRead
  <2>4. e.pool \in DOMAIN d.pools
    BY <1>2, <2>2 DEF LiesAt, Pools
  <2> QED
    BY <2>2, <2>3, <2>4 DEF TextAt, OwnsIn, LiesAt
<1> QED
  BY <1>1, <1>2, <1>3, <1>4 DEF Intact

LEMMA NewDictHolds ==
  ASSUME NEW l
  PROVE  DictHolds(NewDict(l), {}) /\ NewDict(l).limit = l
<1> DEFINE d == NewDict(l)
<1>1. MIN_DICT_SIZE \in Nat \ {0}
  BY DictAssumption
<1>2. DHolding([k \in 0 .. MIN_DICT_SIZE - 1 |-> <<>>], MIN_DICT_SIZE, {})
  BY <1>1, DHoldingNothing
<1>3. /\ IsDict(d) /\ d.size = MIN_DICT_SIZE /\ d.count = 0 /\ d.pools = <<>> /\ d.limit = l
      /\ d.chain = [k \in 0 .. MIN_DICT_SIZE - 1 |-> <<>>]
  BY DEF NewDict, IsDict
<1> HIDE DEF d
<1>4. Lying(<<>>, {})
  BY EmptySeq DEF Lying, Pools
<1>5. Cardinality({}) = 0
  BY FS_EmptySet
<1> QED
  BY <1>1, <1>2, <1>3, <1>4, <1>5 DEF DictHolds, d

LEMMA LimitSet ==
  ASSUME NEW d, NEW E, DictHolds(d, E), NEW l, NEW g, g = [d EXCEPT !.limit = l]
  PROVE  DictHolds(g, E) /\ g.limit = l
<1>1. IsDict(d)
  BY DEF DictHolds
<1>2. g = [size |-> d.size, count |-> d.count, limit |-> l, pools |-> d.pools, chain |-> d.chain]
  BY <1>1, DictWith
<1>3. DictIs(g, d.size, d.count, l, d.pools, d.chain)
  BY <1>2 DEF IsDict, DictIs
<1> QED
  BY <1>3 DEF DictHolds, DictIs

\* A dictionary without a limit has room for every string.
LEMMA AlwaysRoom ==
  ASSUME NEW d, Pools(d.pools), d.limit = 0, NEW s
  PROVE  AddString(d, s).ok
<1> DEFINE old == SelectLastInSeq(d.pools, LAMBDA p : HasRoom(p, Len(s)))
<1>1. PoolFor(d, Len(s)) = IF old # 0 THEN old ELSE Len(d.pools) + 1
  BY DEF PoolFor
<1> HIDE DEF old
<1>2. Len(d.pools) \in Nat
  BY LenProperties DEF Pools
<1>3. PoolFor(d, Len(s)) # 0
  BY <1>1, <1>2
<1> QED
  BY <1>3 DEF AddString
-----------------------------------------------------------------------------
(* What a lookup does to a dictionary.                                     *)

Coherent(d) == DictHolds(d, Held(d))

\* Where the strings of a dictionary lie.
Addr(d) == Addresses(Held(d))

DictInv == Coherent(dict) /\ Coherent(sub) /\ sub.limit = 0

\* The dictionary d has come to g, by the string w if it was not there.
Gains(d, g, w) == Addr(g) = Addr(d) \/ \E p, a : Addr(g) = Addr(d) \cup {<<w, p, a>>}

LEMMA SoundWhen ==
  ASSUME NEW d, NEW E, DictHolds(d, E)
  PROVE  Coherent(d) /\ Addr(d) = Addresses(E)
  BY HeldIs DEF Coherent, Addr

LEMMA EnteredSound ==
  ASSUME NEW d, Coherent(d), NEW n \in Asked, NEW okey, okey = DictKey(d.size, n),
         NEW added, added = AddString(d, Whole(n)), added.ok, NEW passed,
         NEW u, u = Entered(d, n, okey, passed, added)
  PROVE  Coherent(u) /\ Gains(d, u, Whole(n)) /\ u.limit = d.limit
<1> DEFINE E == Held(d)
<1>1. DictHolds(d, E)
  BY DEF Coherent
<1> HIDE DEF E
<1>2. PICK F : DictHolds(u, F) /\ Got(E, F, Whole(n), added.pool, added.at) /\ u.limit = d.limit
  BY <1>1, EnteredDict
<1>3. Coherent(u) /\ Addr(u) = Addresses(F) /\ Addr(d) = Addresses(E)
  BY <1>1, <1>2, SoundWhen
<1> QED
  BY <1>2, <1>3 DEF Gains, Got

LEMMA LookupStep ==
  ASSUME NEW n \in Asked, DictInv, DictLookup(n)
  PROVE  /\ DictInv' /\ sub' = sub
         /\ \/ Addr(dict') = Addr(dict)
            \/ Known(n) = Null /\ ~TooLong(n) /\ Gains(dict, dict', Whole(n))
<1> DEFINE okey == DictKey(dict.size, n)
           added == AddString(dict, Whole(n))
           passed == Passed(dict, okey) + Passed(sub, SubKey(n))
           new == Known(n) = Null /\ ~TooLong(n) /\ added.ok
<1>1. sub' = sub /\ dict' = IF new THEN Entered(dict, n, okey, passed, added) ELSE dict
  BY DEF DictLookup
<1>2. CASE ~new
  BY <1>1, <1>2 DEF DictInv
<1>3. CASE new
  <2>1. dict' = Entered(dict, n, okey, passed, added) /\ added.ok /\ Known(n) = Null /\ ~TooLong(n)
    BY <1>1, <1>3
  <2>2. okey = DictKey(dict.size, n) /\ added = AddString(dict, Whole(n)) /\ Coherent(dict)
    BY DEF DictInv
  <2> HIDE DEF okey, added, passed, new
  <2>3. Coherent(dict') /\ Gains(dict, dict', Whole(n))
    BY <2>1, <2>2, EnteredSound
  <2> QED
    BY <1>1, <2>1, <2>3 DEF DictInv
<1> QED
  BY <1>2, <1>3

LEMMA SubLookupStep ==
  ASSUME NEW n \in Asked, DictInv, SubLookup(n)
  PROVE  /\ DictInv' /\ dict' = dict
         /\ InChain(sub, n, DictKey(sub.size, n)) = Null
         /\ Gains(sub, sub', Whole(n))
<1> DEFINE okey == DictKey(sub.size, n)
           added == AddString(sub, Whole(n))
           passed == Passed(sub, okey)
<1>1. dict' = dict /\ sub' = Entered(sub, n, okey, passed, added) /\ InChain(sub, n, okey) = Null
  BY DEF SubLookup
<1>2. okey = DictKey(sub.size, n) /\ added = AddString(sub, Whole(n)) /\ Coherent(sub)
  BY DEF DictInv
<1>3. added.ok
  <2>1. Pools(sub.pools) /\ sub.limit = 0
    BY DEF DictInv, Coherent, DictHolds, Lying
  <2> QED
    BY <2>1, AlwaysRoom
<1> HIDE DEF okey, added, passed
<1>4. Coherent(sub') /\ Gains(sub, sub', Whole(n)) /\ sub'.limit = sub.limit
  BY <1>1, <1>2, <1>3, EnteredSound
<1> QED
  BY <1>1, <1>2, <1>4 DEF DictInv

LEMMA SetLimitStep ==
  ASSUME NEW l, DictInv, SetLimit(l)
  PROVE  DictInv' /\ sub' = sub /\ Addr(dict') = Addr(dict)
<1>1. dict' = [dict EXCEPT !.limit = l] /\ sub' = sub
  BY DEF SetLimit
<1>2. DictHolds(dict, Held(dict))
  BY DEF DictInv, Coherent
<1>3. DictHolds(dict', Held(dict))
  BY <1>1, <1>2, LimitSet
<1>4. Coherent(dict') /\ Addr(dict') = Addr(dict)
  BY <1>3, SoundWhen DEF Addr
<1> QED
  BY <1>1, <1>4 DEF DictInv

LEMMA DictInvInit ==
  DInit => DictInv /\ Addr(dict) = {} /\ Addr(sub) = {}
<1> SUFFICES ASSUME DInit PROVE DictInv /\ Addr(dict) = {} /\ Addr(sub) = {}
  OBVIOUS
<1>1. PICK l : dict = NewDict(l)
  BY DEF DInit
<1>2. sub = NewDict(0)
  BY DEF DInit
<1>3. DictHolds(dict, {}) /\ DictHolds(sub, {}) /\ sub.limit = 0
  BY <1>1, <1>2, NewDictHolds
<1>4. Coherent(dict) /\ Coherent(sub) /\ Addr(dict) = Addresses({}) /\ Addr(sub) = Addresses({})
  BY <1>3, SoundWhen
<1> QED
  BY <1>3, <1>4 DEF DictInv, Addresses

LEMMA DictInvNext ==
  DictInv /\ [DNext]_dictVars => DictInv'
<1> SUFFICES ASSUME DictInv, [DNext]_dictVars PROVE DictInv'
  OBVIOUS
<1>1. CASE UNCHANGED dictVars
  BY <1>1 DEF dictVars, DictInv
<1>2. ASSUME NEW n \in Asked, DictLookup(n) PROVE DictInv'
  BY <1>2, LookupStep
<1>3. ASSUME NEW n \in Asked, SubLookup(n) PROVE DictInv'
  BY <1>3, SubLookupStep
<1>4. ASSUME NEW n \in Asked, DictExists(n) PROVE DictInv'
  BY <1>1, <1>4 DEF DictExists
<1>5. ASSUME NEW l \in Limit, SetLimit(l) PROVE DictInv'
  BY <1>5, SetLimitStep
<1> QED
  BY <1>1, <1>2, <1>3, <1>4, <1>5 DEF DNext

LEMMA DictInvAlways == DSpec => []DictInv
<1>1. DInit => DictInv
  BY DictInvInit
<1> QED
  BY <1>1, DictInvNext, PTL DEF DSpec

\* Every string of the two dictionaries stays as it was put into its pool, with
\* the zero behind it, no pool is written past its end, and the entries are
\* counted: for any strings, limits, sizes and operator ^.
THEOREM TextsStayIntact == DSpec => []TextsIntact
<1>1. DictInv => TextsIntact
  <2> SUFFICES ASSUME DictInv PROVE TextsIntact
    OBVIOUS
  <2>1. Intact(dict) /\ Intact(sub)
    BY HeldIntact DEF DictInv, Coherent
  <2> QED
    BY <2>1 DEF TextsIntact, Intact
<1> QED
  BY <1>1, DictInvAlways, PTL
-----------------------------------------------------------------------------
(* Every string at its address.                                            *)

\* A dictionary keeps one copy of every string.
Unique(A) == \A w, p, a, q, b : <<w, p, a>> \in A /\ <<w, q, b>> \in A => p = q /\ a = b

\* What a search for the string w answers.
Answers(x, A, w) ==
  \/ x = Null /\ \A p, a : <<w, p, a>> \notin A
  \/ \E p, a : <<w, p, a>> \in A /\ x = <<[pool |-> p, at |-> a]>>

LEMMA AddressOf ==
  ASSUME NEW E, NEW w, NEW p, NEW a
  PROVE  <<w, p, a>> \in Addresses(E) <=> \E e \in E : Whole(e.of) = w /\ e.pool = p /\ e.at = a
  BY DEF Addresses

LEMMA OneKeyEach ==
  ASSUME OneKey, NEW m \in Asked, NEW n \in Asked, Whole(m) = Whole(n), NEW z
  PROVE  DictKey(z, m) = DictKey(z, n)
<1>1. SmallKeys[m] = SmallKeys[n]
  BY DEF OneKey
<1>2. LargeKeys[m] = BigKey(Seed, Whole(m)) /\ LargeKeys[n] = BigKey(Seed, Whole(n))
  BY AskedFacts
<1> QED
  BY <1>1, <1>2 DEF DictKey

\* A search finds a string that is there, and no other.
LEMMA ChainSearched ==
  ASSUME OneKey, NEW d, Coherent(d), NEW n \in Asked, NEW x, x = InChain(d, n, DictKey(d.size, n))
  PROVE  Answers(x, Addr(d), Whole(n))
<1> DEFINE E == Held(d)
           z == d.size
           okey == DictKey(z, n)
           k == okey % z
           s == d.chain[k]
           w == Whole(n)
           Is(e) == e.okey = okey /\ e.len = Len(w) /\ TextAt(d, e) = w
           I == {i \in 1 .. Len(s) : Is(s[i])}
           at == SelectInSeq(s, LAMBDA e : e.okey = okey /\ e.len = Len(Whole(n)) /\ TextAt(d, e) = Whole(n))
<1>1. at = IF I # {} THEN Min(I) ELSE 0
  BY DEF SelectInSeq
<1>2. x = IF at = 0 THEN Null ELSE <<[pool |-> s[at].pool, at |-> s[at].at]>>
  BY DEF InChain
<1> HIDE DEF at
<1>3. /\ z \in Nat \ {0} /\ okey \in Nat /\ DHolding(d.chain, z, E) /\ E \in SUBSET DEntry
      /\ \A e \in E : e.okey = DictKey(z, e.of) /\ e.len = Len(Whole(e.of)) /\ TextAt(d, e) = Whole(e.of)
  <2>1. z \in Nat \ {0} /\ DHolding(d.chain, z, E) /\ E \in SUBSET DEntry
    BY DEF Coherent, DictHolds, DHolding
  <2>2. \A e \in E : e.okey = DictKey(z, e.of) /\ e.len = Len(Whole(e.of))
    BY DEF Coherent, DictHolds, Lying
  <2>3. \A e \in E : TextAt(d, e) = Whole(e.of)
    BY HeldIntact DEF Coherent, Intact
  <2> QED
    BY <2>1, <2>2, <2>3, DictKeyType
<1>4. k \in 0 .. z - 1 /\ Lists(s, DPlace(E, z, k), DEntry)
  <2>1. k \in 0 .. z - 1
    BY <1>3
  <2> HIDE DEF k, z, E
  <2> QED
    BY <1>3, <2>1 DEF DHolding
<1>5. /\ Len(s) \in Nat /\ \A i \in 1 .. Len(s) : s[i] \in DPlace(E, z, k)
      /\ \A e \in DPlace(E, z, k) : \E i \in 1 .. Len(s) : s[i] = e
  BY <1>4, ListFacts
<1>6. CASE I = {}
  <2>1. x = Null
    BY <1>1, <1>2, <1>6
  <2>2. \A e \in E : Whole(e.of) # w
    <3> SUFFICES ASSUME NEW e \in E, Whole(e.of) = w PROVE FALSE
      OBVIOUS
    <3>1. e.of \in Asked
      BY <1>3, EntryOfDict
    <3>2. e.okey = okey
      <4>1. DictKey(z, e.of) = DictKey(z, n)
        BY <3>1, OneKeyEach
      <4> QED
        BY <1>3, <4>1
    <3>3. e \in DPlace(E, z, k)
      BY <3>2 DEF DPlace
    <3>4. PICK i \in 1 .. Len(s) : s[i] = e
      BY <1>5, <3>3
    <3>5. Is(e)
      BY <1>3, <3>2
    <3>6. i \in I
      BY <3>4, <3>5
    <3> QED
      BY <1>6, <3>6
  <2>3. \A p, a : <<w, p, a>> \notin Addresses(E)
    BY <2>2, AddressOf
  <2> QED
    BY <2>1, <2>3 DEF Answers, Addr
<1>7. CASE I # {}
  <2>1. at \in I
    <3>1. I \in SUBSET Nat
      BY <1>5
    <3> HIDE DEF I
    <3> QED
      BY <1>1, <1>7, <3>1, LeastPlace
  <2>2. at # 0 /\ at \in 1 .. Len(s) /\ Is(s[at])
    BY <1>5, <2>1
  <2> DEFINE e == s[at]
  <2>3. e \in E /\ TextAt(d, e) = w
    BY <1>5, <2>2 DEF DPlace
  <2>4. Whole(e.of) = w
    BY <1>3, <2>3
  <2>5. <<w, e.pool, e.at>> \in Addresses(E)
    BY <2>3, <2>4, AddressOf
  <2>6. x = <<[pool |-> e.pool, at |-> e.at]>>
    BY <1>2, <2>2
  <2> QED
    BY <2>5, <2>6 DEF Answers, Addr
<1> QED
  BY <1>6, <1>7

LEMMA AnswersNull ==
  ASSUME NEW A, NEW w
  PROVE  Answers(Null, A, w) => \A p, a : <<w, p, a>> \notin A
  BY DEF Answers, Null

\* A string that is there is found where it was before more were put in.
LEMMA AnswersAgain ==
  ASSUME NEW A, NEW B, A \subseteq B, Unique(B), NEW w, NEW x, x # Null, Answers(x, A, w),
         NEW y, Answers(y, B, w)
  PROVE  y = x
<1>1. PICK p, a : <<w, p, a>> \in A /\ x = <<[pool |-> p, at |-> a]>>
  BY DEF Answers
<1>2. PICK q, b : <<w, q, b>> \in B /\ y = <<[pool |-> q, at |-> b]>>
  BY <1>1 DEF Answers
<1>3. p = q /\ a = b
  BY <1>1, <1>2 DEF Unique
<1> QED
  BY <1>1, <1>2, <1>3

\* Known, for any two dictionaries.
Exceeds(d, n) == d.limit > 0 /\ Len(Whole(n)) >= d.limit /\ n.prefix = <<>>

Own(d, n) == InChain(d, n, DictKey(d.size, n))

KnownIn(d, s, n) ==
  IF Exceeds(d, n) THEN Null
  ELSE IF Own(d, n) # Null THEN <<"dict">> \o Own(d, n)
  ELSE IF Own(s, n) # Null THEN <<"sub">> \o Own(s, n)
  ELSE Null

LEMMA KnownIs ==
  ASSUME NEW n
  PROVE  /\ Known(n) = KnownIn(dict, sub, n) /\ TooLong(n) = Exceeds(dict, n)
         /\ Known(n)' = KnownIn(dict', sub', n) /\ TooLong(n)' = Exceeds(dict', n)
<1>1. SubKey(n) = DictKey(sub.size, n)
  BY DEF SubKey, DictKey
<1>2. SubKey(n)' = DictKey(sub'.size, n)
  BY DEF SubKey, DictKey
<1>3. Known(n) = KnownIn(dict, sub, n)
  BY <1>1 DEF Known, KnownIn, Exceeds, Own, TooLong
<1>4. Known(n)' = KnownIn(dict', sub', n)
  BY <1>2 DEF Known, KnownIn, Exceeds, Own, TooLong
<1> QED
  BY <1>3, <1>4 DEF TooLong, Exceeds

\* The address of a string stays: d has come to g, s to t, and the strings that d
\* has gained were in neither.
LEMMA KnownAgain ==
  ASSUME OneKey, NEW d, NEW s, NEW g, NEW t, Coherent(d), Coherent(s), Coherent(g), Coherent(t),
         Addr(d) \subseteq Addr(g), Addr(s) \subseteq Addr(t), Unique(Addr(g)), Unique(Addr(t)),
         NEW n \in Asked, KnownIn(d, s, n) # Null, ~Exceeds(g, n),
         \A p, a : <<Whole(n), p, a>> \in Addr(g) \ Addr(d)
           => \A q, b : <<Whole(n), q, b>> \notin Addr(s)
  PROVE  KnownIn(g, t, n) = KnownIn(d, s, n)
<1> DEFINE w == Whole(n)
<1>1. /\ Answers(Own(d, n), Addr(d), w) /\ Answers(Own(s, n), Addr(s), w)
      /\ Answers(Own(g, n), Addr(g), w) /\ Answers(Own(t, n), Addr(t), w)
  BY ChainSearched DEF Own
<1>2. ~Exceeds(d, n)
  BY DEF KnownIn
<1>3. CASE Own(d, n) # Null
  <2>1. Own(g, n) = Own(d, n)
    BY <1>1, <1>3, AnswersAgain
  <2> QED
    BY <1>2, <1>3, <2>1 DEF KnownIn
<1>4. CASE Own(d, n) = Null
  <2>1. Own(s, n) # Null
    BY <1>2, <1>4 DEF KnownIn
  <2>2. Own(t, n) = Own(s, n)
    BY <1>1, <2>1, AnswersAgain
  <2>3. \A p, a : <<w, p, a>> \notin Addr(d)
    BY <1>1, <1>4, AnswersNull
  <2>4. \E q, b : <<w, q, b>> \in Addr(s)
    BY <1>1, <2>1 DEF Answers
  <2>5. \A p, a : <<w, p, a>> \notin Addr(g)
    BY <2>3, <2>4
  <2>6. Own(g, n) = Null
    BY <1>1, <2>5 DEF Answers
  <2> QED
    BY <1>2, <1>4, <2>1, <2>2, <2>6 DEF KnownIn
<1> QED
  BY <1>3, <1>4

LEMMA UniqueWith ==
  ASSUME NEW A, Unique(A), NEW w, \A p, a : <<w, p, a>> \notin A, NEW p, NEW a,
         NEW B, B = A \cup {<<w, p, a>>}
  PROVE  Unique(B)
  BY DEF Unique

DictUnique == DictInv /\ Unique(Addr(dict)) /\ Unique(Addr(sub))

\* What a step adds: nothing that the dictionary had, and to the dictionary in use
\* nothing that the other one had.
LEMMA WhatIsAdded ==
  ASSUME OneKey, DictUnique, [DNext]_dictVars
  PROVE  /\ DictUnique'
         /\ Addr(dict) \subseteq Addr(dict') /\ Addr(sub) \subseteq Addr(sub')
         /\ \A w, p, a : <<w, p, a>> \in Addr(dict') \ Addr(dict)
              => \A q, b : <<w, q, b>> \notin Addr(sub)
<1>0. DictInv' /\ DictInv /\ Coherent(dict) /\ Coherent(sub) /\ Unique(Addr(dict)) /\ Unique(Addr(sub))
  BY DictInvNext DEF DictUnique, DictInv
<1> DEFINE Goal == /\ Unique(Addr(dict')) /\ Unique(Addr(sub'))
                   /\ Addr(dict) \subseteq Addr(dict') /\ Addr(sub) \subseteq Addr(sub')
                   /\ \A w, p, a : <<w, p, a>> \in Addr(dict') \ Addr(dict)
                        => \A q, b : <<w, q, b>> \notin Addr(sub)
<1>1. ASSUME Addr(dict') = Addr(dict), Addr(sub') = Addr(sub) PROVE Goal
  BY <1>0, <1>1
<1>2. ASSUME UNCHANGED dictVars PROVE Goal
  BY <1>1, <1>2 DEF dictVars
<1>3. ASSUME NEW n \in Asked, DictLookup(n) PROVE Goal
  <2>1. sub' = sub
    BY <1>0, <1>3, LookupStep
  <2>2. CASE Addr(dict') = Addr(dict)
    BY <1>1, <2>1, <2>2
  <2>3. CASE Addr(dict') # Addr(dict)
    <3>1. Known(n) = Null /\ ~TooLong(n) /\ Gains(dict, dict', Whole(n))
      BY <1>0, <1>3, <2>3, LookupStep
    <3>2. PICK p, a : Addr(dict') = Addr(dict) \cup {<<Whole(n), p, a>>}
      BY <2>3, <3>1 DEF Gains
    <3>3. Own(dict, n) = Null /\ Own(sub, n) = Null
      BY <3>1, KnownIs DEF KnownIn, Null
    <3>4. \A q, b : <<Whole(n), q, b>> \notin Addr(dict) /\ <<Whole(n), q, b>> \notin Addr(sub)
      <4>1. Answers(Null, Addr(dict), Whole(n)) /\ Answers(Null, Addr(sub), Whole(n))
        BY <1>0, <3>3, ChainSearched DEF Own
      <4> QED
        BY <4>1, AnswersNull
    <3>5. Unique(Addr(dict'))
      BY <1>0, <3>2, <3>4, UniqueWith
    <3> QED
      BY <1>0, <2>1, <3>2, <3>4, <3>5
  <2> QED
    BY <2>2, <2>3
<1>4. ASSUME NEW n \in Asked, SubLookup(n) PROVE Goal
  <2>1. dict' = dict /\ InChain(sub, n, DictKey(sub.size, n)) = Null /\ Gains(sub, sub', Whole(n))
    BY <1>0, <1>4, SubLookupStep
  <2>2. CASE Addr(sub') = Addr(sub)
    BY <1>1, <2>1, <2>2
  <2>3. CASE Addr(sub') # Addr(sub)
    <3>1. PICK p, a : Addr(sub') = Addr(sub) \cup {<<Whole(n), p, a>>}
      BY <2>1, <2>3 DEF Gains
    <3>2. \A q, b : <<Whole(n), q, b>> \notin Addr(sub)
      <4>1. Answers(Null, Addr(sub), Whole(n))
        BY <1>0, <2>1, ChainSearched
      <4> QED
        BY <4>1, AnswersNull
    <3>3. Unique(Addr(sub'))
      BY <1>0, <3>1, <3>2, UniqueWith
    <3> QED
      BY <1>0, <2>1, <3>1, <3>3
  <2> QED
    BY <2>2, <2>3
<1>5. ASSUME NEW n \in Asked, DictExists(n) PROVE Goal
  BY <1>2, <1>5 DEF DictExists
<1>6. ASSUME NEW l \in Limit, SetLimit(l) PROVE Goal
  <2>1. sub' = sub /\ Addr(dict') = Addr(dict)
    BY <1>0, <1>6, SetLimitStep
  <2> QED
    BY <1>1, <2>1
<1>7. Goal
  BY <1>2, <1>3, <1>4, <1>5, <1>6 DEF DNext
<1> QED
  BY <1>0, <1>7 DEF DictUnique

LEMMA DictUniqueInit ==
  DInit => DictUnique
  BY DictInvInit DEF DictUnique, Unique

\* Whoever looks a string up gets the address at which it was found before, however
\* the dictionary in use and the one it inherits from have grown in between; unless
\* a string is asked for whole and in two parts with different keys (OneKey).
THEOREM StringsKeepTheirAddress ==
  ASSUME OneKey
  PROVE  DSpec => Interned
<1>1. DictUnique /\ [DNext]_dictVars => DictUnique'
  BY WhatIsAdded
<1>2. DSpec => []DictUnique
  BY <1>1, DictUniqueInit, PTL DEF DSpec
<1> DEFINE Stays == \A n \in Asked : Known(n) # Null /\ ~TooLong(n)' => Known(n)' = Known(n)
<1>3. DictUnique /\ [DNext]_dictVars => [Stays]_dictVars
  <2> SUFFICES ASSUME DictUnique, [DNext]_dictVars,
                      NEW n \in Asked, Known(n) # Null, ~TooLong(n)'
               PROVE  Known(n)' = Known(n)
    OBVIOUS
  <2>1. /\ DictUnique'
        /\ Addr(dict) \subseteq Addr(dict') /\ Addr(sub) \subseteq Addr(sub')
        /\ \A w, p, a : <<w, p, a>> \in Addr(dict') \ Addr(dict)
             => \A q, b : <<w, q, b>> \notin Addr(sub)
    BY WhatIsAdded
  <2>2. /\ Coherent(dict) /\ Coherent(sub) /\ Coherent(dict') /\ Coherent(sub')
        /\ Unique(Addr(dict')) /\ Unique(Addr(sub'))
    BY <2>1 DEF DictUnique, DictInv
  <2>3. KnownIn(dict, sub, n) # Null /\ ~Exceeds(dict', n)
    BY KnownIs
  <2>4. KnownIn(dict', sub', n) = KnownIn(dict, sub, n)
    BY <2>1, <2>2, <2>3, KnownAgain
  <2> QED
    BY <2>4, KnownIs
<1> QED
  BY <1>2, <1>3, PTL DEF DSpec, Interned
=============================================================================
