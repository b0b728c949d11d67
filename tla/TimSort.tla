------------------------------ MODULE TimSort ------------------------------
(***************************************************************************)
(* timsort.h: the sort of search results by their marks (nl_node.c) and of *)
(* node sets by document order (xml_xpath.c).                              *)
(*                                                                         *)
(* An element is its key, which SORT_CMP compares, and the place it had    *)
(* first.  Places are counted from 1.                                      *)
(***************************************************************************)
EXTENDS Integers, SequencesExt

CONSTANTS
  SortInput,   \* the sequences of keys that are sorted
  SMALL,       \* 64: fewer elements are sorted by insertion
  RUN_BITS,    \* 6: how many bits of the size make the minimal run
  TIM_SORT_STACK_SIZE  \* 128: how many runs there is room for

ASSUME SortAssumption ==
  SortInput \subseteq Seq(Int) /\ SMALL \in Nat /\ RUN_BITS \in Nat

\* The least length of the k-th run from the top of a stack in which every run is
\* longer than the two above it together, and of the k topmost runs together.
Least[k \in 0 .. TIM_SORT_STACK_SIZE] ==
  IF k <= 1 THEN [run |-> k, all |-> k]
  ELSE LET run == Least[k - 1].run + Least[k - 2].run + 1
       IN [run |-> run, all |-> Least[k - 1].all + run]

\* With 128 runs this is more than 2 ^ 64, and size_t counts the elements.
ASSUME StackAssumption ==
  /\ TIM_SORT_STACK_SIZE \in Nat /\ TIM_SORT_STACK_SIZE >= 3
  /\ \A s \in SortInput : Len(s) <= Least[TIM_SORT_STACK_SIZE].all

VARIABLES
  dst,       \* the array
  runs,      \* run_stack: the runs found so far, [start, length]
  curr,      \* where the next run begins
  sorting    \* where TIM_SORT is

sortVars == <<dst, runs, curr, sorting>>

SInit == /\ \E s \in SortInput : dst = [i \in DOMAIN s |-> [key |-> s[i], was |-> i]]
         /\ runs = <<>> /\ curr = 1 /\ sorting = "start"

Cmp(x, y) == x.key - y.key

Size == Len(dst)

\* The array with the sequence s in it from a place on.
Written(a, from, s) ==
  [i \in DOMAIN a |-> IF i \in from .. from + Len(s) - 1 THEN s[i - from + 1] ELSE a[i]]

Part(r) == SubSeq(dst, r.start, r.start + r.length - 1)
-----------------------------------------------------------------------------
(* Insertion.                                                              *)

\* The place in the sorted s where x goes; l, c, r as in the loop of the code.
InsertionFind(s, x) ==
  LET search[p \in (1 .. Len(s)) \X (1 .. Len(s))] ==
        LET l == p[1]
            r == p[2]
            c == l + (r - l) \div 2
        IN IF Cmp(x, s[c]) < 0
           THEN IF c - l <= 1 THEN c ELSE search[<<l, c>>]
           ELSE IF r - c <= 1 THEN c + 1 ELSE search[<<c, r>>]
  IN IF Cmp(x, s[1]) < 0 THEN 1
     ELSE IF Cmp(x, Last(s)) > 0 THEN Len(s)
     ELSE search[<<1, Len(s)>>]

\* The elements after the first n, which are sorted, are put in their places.
InsertionSortStart(s, n) ==
  FoldLeft(LAMBDA sorted, x :
             IF Cmp(Last(sorted), x) <= 0 THEN Append(sorted, x)
             ELSE InsertAt(sorted, InsertionFind(sorted, x), x),
           SubSeq(s, 1, n), SubSeq(s, n + 1, Len(s)))

InsertionSort ==
  /\ sorting = "start" /\ (Size <= 1 \/ Size < SMALL)
  /\ dst' = IF Size <= 1 THEN dst ELSE InsertionSortStart(dst, 1)
  /\ sorting' = "done" /\ UNCHANGED <<runs, curr>>
-----------------------------------------------------------------------------
(* Runs.                                                                   *)

\* How many bits a number has.
TopBit(n) == Cardinality({b \in 0 .. n : 2 ^ b <= n})

ShiftedRight(n, bits) == FoldLeft(LAMBDA m, b : m \div 2, n, [b \in 1 .. bits |-> b])

MinRun(size) ==
  LET shift == IF TopBit(size) > RUN_BITS THEN TopBit(size) - RUN_BITS ELSE 0
      minrun == ShiftedRight(size, shift)
  IN IF minrun * 2 ^ shift # size THEN minrun + 1 ELSE minrun

\* Variant of Falls: equal elements make a falling run.
FallsOrStays(x, y) == Cmp(x, y) >= 0

Falls(x, y) == Cmp(x, y) > 0

\* How long the run that begins at a place is: it stops before the last element.
RunLength(start) ==
  LET falling == Falls(dst[start], dst[start + 1])
      stops == {i \in start + 2 .. Size :
                  i = Size \/ Falls(dst[i - 1], dst[i]) # falling}
  IN Min(stops) - start

\* The array with the run that begins at curr in rising order, and its length.
CountRun ==
  LET pair == SubSeq(dst, Size - 1, Size)
      n == RunLength(curr)
  IN IF curr = Size THEN [dst |-> dst, length |-> 1]
     ELSE IF curr >= Size - 1
     THEN [dst |-> IF Falls(pair[1], pair[2]) THEN Written(dst, Size - 1, Reverse(pair)) ELSE dst,
           length |-> 2]
     ELSE [dst |-> IF Falls(dst[curr], dst[curr + 1])
                   THEN Written(dst, curr, Reverse(SubSeq(dst, curr, curr + n - 1))) ELSE dst,
           length |-> n]

\* A run that is too short is made longer by insertion.
PushNext ==
  LET found == CountRun
      run == IF MinRun(Size) > Size - curr + 1 THEN Size - curr + 1 ELSE MinRun(Size)
      length == IF run > found.length THEN run ELSE found.length
      rest == SubSeq(found.dst, curr, curr + length - 1)
  IN /\ dst' = Written(found.dst, curr,
                       IF run > found.length THEN InsertionSortStart(rest, found.length) ELSE rest)
     /\ runs' = Append(runs, [start |-> curr, length |-> length])
     /\ curr' = curr + length
     \* Three runs are found before the stack is looked at.
     /\ sorting' = IF curr' > Size THEN "finish"
                   ELSE IF sorting = "begin" /\ Len(runs') < 3 THEN "begin" ELSE "check"

Start ==
  /\ sorting = "start" /\ Size > 1 /\ Size >= SMALL
  /\ sorting' = "begin" /\ UNCHANGED <<dst, runs, curr>>
-----------------------------------------------------------------------------
(* Merging.                                                                *)

\* The elements of two neighbouring runs; a is the left one.  The shorter one is
\* copied away: the left one from its beginning, the right one from its end.
\* i and j say how much of a and of b is taken, or is left to take.
LeftMerge(a, b) ==
  LET take(m, k) ==
        IF m.i < Len(a) /\ (m.j < Len(b) => Cmp(a[m.i + 1], b[m.j + 1]) <= 0)
        THEN [i |-> m.i + 1, j |-> m.j, out |-> Append(m.out, a[m.i + 1])]
        ELSE [i |-> m.i, j |-> m.j + 1, out |-> Append(m.out, b[m.j + 1])]
  IN FoldLeft(take, [i |-> 0, j |-> 0, out |-> <<>>], [k \in 1 .. Len(a) + Len(b) |-> k]).out

RightMerge(a, b) ==
  LET take(m, k) ==
        IF m.i > 0 /\ (m.j > 0 => Cmp(a[m.i], b[m.j]) > 0)
        THEN [i |-> m.i - 1, j |-> m.j, out |-> <<a[m.i]>> \o m.out]
        ELSE [i |-> m.i, j |-> m.j - 1, out |-> <<b[m.j]>> \o m.out]
  IN FoldLeft(take, [i |-> Len(a), j |-> Len(b), out |-> <<>>], [k \in 1 .. Len(a) + Len(b) |-> k]).out

\* Merges the run at place n of the stack with the one below it.
Merge(n) ==
  LET A == runs[n - 1]  B == runs[n]
      merged == IF A.length < B.length THEN LeftMerge(Part(A), Part(B)) ELSE RightMerge(Part(A), Part(B))
  IN /\ dst' = Written(dst, A.start, merged)
     /\ runs' = RemoveAt([runs EXCEPT ![n - 1].length = A.length + B.length], n)
     /\ UNCHANGED curr

Length(i) == runs[Len(runs) - i].length

\* CHECK_INVARIANT: the lengths fall faster than the Fibonacci numbers.
Balanced ==
  IF Len(runs) < 2 THEN TRUE
  ELSE IF Len(runs) = 2 THEN Length(1) > Length(0)
  ELSE Length(2) > Length(1) + Length(0) /\ Length(1) > Length(0)

\* One round of TIM_SORT_COLLAPSE; which runs are merged, 0 for none.
Collapsing ==
  LET n == Len(runs)
      low == n >= 3 /\ (\/ Length(2) <= Length(1) + Length(0)
                        \/ n >= 4 /\ Length(3) <= Length(2) + Length(1))
      top == Length(1) <= Length(0)
  IN IF n <= 1 THEN 0
     ELSE IF n = 2 THEN IF Length(1) + Length(0) = Size \/ top THEN 2 ELSE 0
     ELSE IF low /\ ~top THEN n - 1
     ELSE IF top THEN n
     ELSE 0

\* The loop of TIM_SORT: the stack is balanced, or it collapses as far as it can.
CheckInvariant ==
  /\ sorting = "check"
  /\ sorting' = IF Balanced THEN "push" ELSE "collapse"
  /\ UNCHANGED <<dst, runs, curr>>

Collapse ==
  /\ sorting = "collapse"
  /\ IF Collapsing = 0 THEN sorting' = "check" /\ UNCHANGED <<dst, runs, curr>>
     ELSE Merge(Collapsing) /\ sorting' = IF Len(runs) = 2 THEN "check" ELSE "collapse"

NextRun == sorting \in {"begin", "push"} /\ PushNext

\* When the array is at its end all runs are merged, from the top.
FinishUp ==
  /\ sorting = "finish"
  /\ IF Len(runs) > 1 THEN Merge(Len(runs)) /\ UNCHANGED sorting
     ELSE sorting' = "done" /\ UNCHANGED <<dst, runs, curr>>

SNext == InsertionSort \/ Start \/ NextRun \/ CheckInvariant \/ Collapse \/ FinishUp

SortSpec == SInit /\ [][SNext]_sortVars
-----------------------------------------------------------------------------
\* PUSH_NEXT has an entry of run_stack to write to.
StackHasRoom == sorting \in {"begin", "push"} => Len(runs) < TIM_SORT_STACK_SIZE

\* The result is in order, equal elements stay in the order they had
\* (timsort.h:196, "allow = for stability"), and nothing is lost on the way; the
\* runs on the stack lie one after the other, each in order.  A stack that
\* CHECK_INVARIANT rejects is one that TIM_SORT_COLLAPSE changes, or the loop
\* around the two would not end.  Where PUSH_NEXT writes to run_stack, which has
\* TIM_SORT_STACK_SIZE entries (timsort.h:55, 507), there is one left.
SortedStably ==
  LET InOrder(s) == \A i, j \in DOMAIN s : i < j =>
                      s[i].key < s[j].key \/ (s[i].key = s[j].key /\ s[i].was < s[j].was)
  IN /\ {dst[i].was : i \in 1 .. Size} = 1 .. Size
     /\ \A n \in DOMAIN runs :
          /\ InOrder(Part(runs[n]))
          /\ runs[n].start = IF n = 1 THEN 1 ELSE runs[n - 1].start + runs[n - 1].length
     /\ sorting = "check" => Balanced \/ Collapsing # 0
     /\ sorting = "done" => InOrder(dst)
     /\ StackHasRoom
=============================================================================
