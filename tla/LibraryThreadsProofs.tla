------------------------ MODULE LibraryThreadsProofs ------------------------
(* The recursive mutex has one owner at most, for any number of threads, and *)
(* implements the abstract lock of ReentrantLock; the threads of the library *)
(* use it as its specification RSpec says.                                   *)
(*                                                                         *)
(* The threads initialise the library once and find their own handlers,    *)
(* whatever calls they make: the invariant Placed(F, k) says where each    *)
(* thread is, from the calls it still has to make, and what it has then.   *)
(*                                                                         *)
(* No default is lost when threads replace it: a turn of a thread makes    *)
(* calls in the place of its first, and SwapInv says which of those that   *)
(* set a default can still be to come.                                     *)
(*                                                                         *)
(* No dictionary is freed that is still counted on: DictInv is a ledger of *)
(* the references of each thread before each of its calls, to which the    *)
(* counters add up.                                                        *)
EXTENDS LibraryThreads, ListProofs, FiniteSetTheorems, TLAPS

Abstract == INSTANCE ReentrantLock WITH owner <- tid, count <- held

\* The pthread mutex: its holder is the one thread that is inside.
LockInv == \A t \in Thread : pc[t] \in Inside <=> lock = t

\* A thread is in a call only when there are others.
CallInv == \A t \in Thread : /\ pc[t] # "idle" => threaded
                             /\ pc[t] \in {"unlock", "release"} => depth[t] > 0

\* While the process has one thread, the fields are untouched.
SingleInv == ~threaded => /\ held = 0 /\ tid = Nobody
                          /\ \A t \in Thread : t # First => depth[t] = 0

\* After that, they say who holds the lock and how often it was taken.
OwnerInv == threaded => /\ held = 0 <=> tid = Nobody
                        /\ \A t \in Thread : depth[t] = IF t = tid THEN held ELSE 0

\* waiters is the number of threads that wait, so that it is never taken below 0.
Waiting == {t \in Thread : pc[t] \in {"wait", "sleep"}}

WaitInv == waiters = Cardinality(Waiting)

\* The inductive invariant: MutualExclusion alone does not tell what held and
\* tid have to do with the threads that have returned with the lock.
IInv == RTypeOK /\ LockInv /\ CallInv /\ SingleInv /\ OwnerInv /\ WaitInv

USE ThreadAssumption, HeldAssumption

LEMMA Initially == RInit => IInv
<1> SUFFICES ASSUME RInit PROVE IInv
  OBVIOUS
<1>1. RTypeOK
  BY DEF RInit, RTypeOK, Pcs
<1>2. LockInv /\ CallInv /\ SingleInv /\ OwnerInv
  BY DEF RInit, LockInv, CallInv, SingleInv, OwnerInv, Inside
<1>3. Waiting = {}
  BY DEF RInit, Waiting
<1>4. WaitInv
  BY <1>3, FS_EmptySet DEF RInit, WaitInv
<1> QED
  BY <1>1, <1>2, <1>4 DEF IInv

\* A thread begins to wait, or stops: the others wait as before.
LEMMA OneMoreWaits ==
  ASSUME NEW t \in Thread, pc \in [Thread -> Pcs], pc[t] \notin {"wait", "sleep"},
         pc' = [pc EXCEPT ![t] = "wait"]
  PROVE  Cardinality(Waiting') = Cardinality(Waiting) + 1
<1>1. IsFiniteSet(Waiting) /\ t \notin Waiting
  BY FS_Subset DEF Waiting
<1>2. Waiting' = Waiting \cup {t}
  BY DEF Waiting
<1> QED
  BY <1>1, <1>2, FS_AddElement

LEMMA OneLessWaits ==
  ASSUME NEW t \in Thread, pc \in [Thread -> Pcs], pc[t] \in {"wait", "sleep"},
         pc' = [pc EXCEPT ![t] = "leave"]
  PROVE  /\ Cardinality(Waiting') = Cardinality(Waiting) - 1
         /\ Cardinality(Waiting') \in Nat
<1>1. IsFiniteSet(Waiting) /\ t \in Waiting
  BY FS_Subset DEF Waiting
<1>2. Waiting' = Waiting \ {t}
  BY DEF Waiting
<1> QED
  BY <1>1, <1>2, FS_RemoveElement, FS_CardinalityType

LEMMA SameWait ==
  ASSUME NEW t \in Thread, NEW w, pc \in [Thread -> Pcs],
         pc[t] \in {"wait", "sleep"} <=> w \in {"wait", "sleep"},
         pc' = [pc EXCEPT ![t] = w]
  PROVE  Waiting' = Waiting
  BY DEF Waiting

LEMMA WaitKept == ASSUME IInv, [RNext]_rvars PROVE WaitInv'
<1> USE DEF IInv, RTypeOK, Goto, WaitInv
<1>1. CASE UNCHANGED rvars
  BY <1>1 DEF rvars, mutexVars, Waiting
<1>2. CASE BecomeThreaded
  BY <1>2 DEF BecomeThreaded, mutexVars, Waiting
<1>3. ASSUME NEW t \in Thread, LockCall(t) PROVE WaitInv'
  BY <1>3, SameWait DEF LockCall, Waiting
<1>4. ASSUME NEW t \in Thread, UnlockCall(t) PROVE WaitInv'
  BY <1>4, SameWait DEF UnlockCall, Waiting
<1>5. ASSUME NEW t \in Thread, Enter(t) PROVE WaitInv'
  BY <1>5, SameWait DEF Enter
<1>6. ASSUME NEW t \in Thread, Reenter(t) PROVE WaitInv'
  BY <1>6, SameWait DEF Reenter
<1>7. ASSUME NEW t \in Thread, Queue(t) PROVE WaitInv'
  BY <1>7, OneMoreWaits DEF Queue
<1>8. ASSUME NEW t \in Thread, Sleep(t) PROVE WaitInv'
  BY <1>8, SameWait DEF Sleep
<1>9. ASSUME NEW t \in Thread, Wake(t) PROVE WaitInv'
  BY <1>9, SameWait DEF Wake
<1>10. ASSUME NEW t \in Thread, StopWaiting(t) PROVE WaitInv'
  BY <1>10, OneLessWaits DEF StopWaiting, Own
<1>11. ASSUME NEW t \in Thread, Take(t) PROVE WaitInv'
  BY <1>11, SameWait DEF Take, Own
<1>12. ASSUME NEW t \in Thread, Release(t) PROVE WaitInv'
  BY <1>12, SameWait DEF Release
<1>13. ASSUME NEW t \in Thread, Leave(t) PROVE WaitInv'
  BY <1>13, SameWait DEF Leave
<1>14. ASSUME NEW t \in Thread, SpuriousWakeup(t) PROVE WaitInv'
  BY <1>14 DEF SpuriousWakeup, Waiting
<1> QED
  BY <1>1, <1>2, <1>3, <1>4, <1>5, <1>6, <1>7, <1>8, <1>9, <1>10, <1>11, <1>12,
     <1>13, <1>14 DEF RNext, MutexStep

\* Every step keeps the whole invariant.
LEMMA Kept == ASSUME IInv, [RNext]_rvars PROVE IInv'
<1>w. WaitInv'
  BY WaitKept
<1> USE DEF IInv, RTypeOK, Pcs, Inside, LockInv, CallInv, SingleInv, OwnerInv, Goto
<1>1. CASE UNCHANGED rvars
  BY <1>1, <1>w DEF rvars, mutexVars
<1>2. CASE BecomeThreaded
  BY <1>2, <1>w DEF BecomeThreaded, mutexVars
<1>3. ASSUME NEW t \in Thread, LockCall(t) PROVE IInv'
  BY <1>3, <1>w DEF LockCall
<1>4. ASSUME NEW t \in Thread, UnlockCall(t) PROVE IInv'
  BY <1>4, <1>w DEF UnlockCall
<1>5. ASSUME NEW t \in Thread, Enter(t) PROVE IInv'
  BY <1>5, <1>w DEF Enter
<1>6. ASSUME NEW t \in Thread, Reenter(t) PROVE IInv'
  BY <1>6, <1>w DEF Reenter
<1>7. ASSUME NEW t \in Thread, Queue(t) PROVE IInv'
  BY <1>7, <1>w DEF Queue
<1>8. ASSUME NEW t \in Thread, Sleep(t) PROVE IInv'
  BY <1>8, <1>w DEF Sleep
<1>9. ASSUME NEW t \in Thread, Wake(t) PROVE IInv'
  BY <1>9, <1>w DEF Wake
<1>10. ASSUME NEW t \in Thread, StopWaiting(t) PROVE IInv'
  <2>1. Cardinality(Waiting') \in Nat
    BY <1>10, OneLessWaits DEF StopWaiting, Own
  <2>2. waiters' \in Nat
    BY <1>w, <2>1 DEF WaitInv
  <2> QED
    BY <1>10, <1>w, <2>2 DEF StopWaiting, Own
<1>11. ASSUME NEW t \in Thread, Take(t) PROVE IInv'
  BY <1>11, <1>w DEF Take, Own
<1>12. ASSUME NEW t \in Thread, Release(t) PROVE IInv'
  BY <1>12, <1>w DEF Release, Signal
<1>13. ASSUME NEW t \in Thread, Leave(t) PROVE IInv'
  BY <1>13, <1>w DEF Leave
<1>14. ASSUME NEW t \in Thread, SpuriousWakeup(t) PROVE IInv'
  BY <1>14, <1>w DEF SpuriousWakeup
<1> QED
  BY <1>1, <1>2, <1>3, <1>4, <1>5, <1>6, <1>7, <1>8, <1>9, <1>10, <1>11, <1>12,
     <1>13, <1>14 DEF RNext, MutexStep

\* Types, at every step.
THEOREM TypeCorrect == RSpec => []RTypeOK
<1>1. IInv /\ [RNext]_rvars => IInv'
  BY Kept
<1>2. IInv => RTypeOK
  BY DEF IInv
<1> QED
  BY Initially, <1>1, <1>2, PTL DEF RSpec

\* However many threads there are, however they are woken: no two of them hold
\* the lock (MutualExclusion, xml_threads.c:87).
THEOREM OneHolder == RSpec => []MutualExclusion
<1>1. IInv /\ [RNext]_rvars => IInv'
  BY Kept
<1>2. ASSUME IInv PROVE MutualExclusion
  <2> USE DEF IInv, OwnerInv, SingleInv, MutualExclusion
  <2>1. CASE threaded
    BY <1>2, <2>1
  <2>2. CASE ~threaded
    BY <1>2, <2>2 DEF RTypeOK
  <2> QED
    BY <2>1, <2>2, <1>2 DEF RTypeOK
<1> QED
  BY Initially, <1>1, <1>2, PTL DEF RSpec

\* A step of the mutex is a step of the abstract lock, or changes neither its
\* owner nor its count.
LEMMA StepRefines == ASSUME IInv, [RNext]_rvars PROVE [Abstract!Next]_<<held, tid>>
<1> USE DEF Abstract!Next, Abstract!Acquire, Abstract!Release
<1>1. CASE UNCHANGED rvars
  BY <1>1 DEF rvars, mutexVars
<1>2. CASE BecomeThreaded
  BY <1>2 DEF BecomeThreaded, mutexVars
<1>3. ASSUME NEW t \in Thread, Own(t), held = 0 PROVE Abstract!Next
  <2>1. tid = Nobody
    BY <1>3 DEF IInv, SingleInv, OwnerInv, RTypeOK
  <2> QED
    BY <1>3, <2>1 DEF Own
<1>4. ASSUME NEW t \in Thread, Reenter(t) PROVE Abstract!Next
  BY <1>4 DEF Reenter
<1>5. ASSUME NEW t \in Thread, Release(t) PROVE Abstract!Next
  <2>1. tid = t
    BY <1>5 DEF Release, IInv, CallInv, OwnerInv, RTypeOK
  <2> QED
    BY <1>5, <2>1 DEF Release
<1>6. ASSUME NEW t \in Thread,
             LockCall(t) \/ UnlockCall(t) \/ Enter(t) \/ Queue(t) \/ Sleep(t)
               \/ Wake(t) \/ Leave(t) \/ SpuriousWakeup(t)
      PROVE  UNCHANGED <<held, tid>>
  BY <1>6 DEF LockCall, UnlockCall, Enter, Queue, Sleep, Wake, Leave, SpuriousWakeup
<1> QED
  BY <1>1, <1>2, <1>3, <1>4, <1>5, <1>6 DEF RNext, MutexStep, Take, StopWaiting

\* The recursive mutex implements the lock with one owner, who takes it again
\* and gives it back as often (xml_threads.c:306-361).
THEOREM Refinement == RSpec => Abstract!Spec
<1>1. RInit => Abstract!Init
  BY DEF RInit, Abstract!Init
<1>2. IInv /\ [RNext]_rvars => IInv'
  BY Kept
<1>3. IInv /\ [RNext]_rvars => [Abstract!Next]_<<tid, held>>
  BY StepRefines
<1> QED
  BY Initially, <1>1, <1>2, <1>3, PTL DEF RSpec, Abstract!Spec

\* Whatever else the threads of the library do, they take and give back the
\* lock as RSpec says, and so no two of them hold it.
THEOREM LibraryHasOneHolder == LSpec => []MutualExclusion
<1>1. LInit => RInit
  BY DEF LInit
<1>2. [LNext]_vars => [RNext]_rvars
  <2>1. ASSUME NEW t \in Thread, LibraryStep(t) PROVE [RNext]_rvars
    BY <2>1 DEF LibraryStep, RNext, RecursiveStep, TakeRecursive, GiveRecursive, LockLibrary,
       MutexLock, MutexUnlock, Spawn, Exit, Join, InitParser, InitOnce, Initialise,
       SetInitialized, GetState, CopyHandler, CopyContext, SetDefaultFunc, DefaultContext,
       DefaultHandler, SwapDefault, ReadSetting, WriteSetting, SetFunc, Store, RaiseError,
       Deliver, DictCreate, NewDict, DictCreateSub, SetSub, DictReference, ReadRefs,
       WriteRefs, DictFree, IfLast, DictGone, FreeDict
  <2>2. ASSUME NEW t \in Thread, Spurious(t) PROVE [RNext]_rvars
    BY <2>2 DEF Spurious, RNext
  <2> QED
    BY <2>1, <2>2 DEF LNext, vars, rvars
<1>3. LSpec => RSpec
  BY <1>1, <1>2, PTL DEF LSpec, RSpec
<1> QED
  BY <1>3, OneHolder
-----------------------------------------------------------------------------
(* The calls of a thread.                                                  *)

\* A sequence of something.
IsList(c) == c \in Seq({c[i] : i \in DOMAIN c})

LEMMA Elements ==
  ASSUME NEW S, NEW c \in Seq(S)
  PROVE  IsList(c)
<1> DEFINE R == {c[i] : i \in DOMAIN c}
<1>1. Len(c) \in Nat /\ DOMAIN c = 1 .. Len(c) /\ c = [i \in 1 .. Len(c) |-> c[i]]
  OBVIOUS
<1>2. c \in [1 .. Len(c) -> R]
  BY <1>1
<1> HIDE DEF R
<1>3. c \in Seq(R)
  BY <1>1, <1>2
<1> QED
  BY <1>3 DEF IsList, R

LEMMA CallListFacts ==
  ASSUME NEW c, IsList(c)
  PROVE  /\ Len(c) \in Nat /\ DOMAIN c = 1 .. Len(c)
         /\ c # <<>> => Len(c) > 0
         /\ Len(c) = 0 => c = <<>>
         /\ Head(c) = c[1]
<1> DEFINE R == {c[i] : i \in DOMAIN c}
<1>1. c \in Seq(R)
  BY DEF IsList
<1> HIDE DEF R
<1> QED
  BY <1>1

\* d is c with b of length q in the place of its head.
Replaces(d, c, p, b, q) ==
  /\ p \in Nat \ {0} /\ q \in Nat
  /\ \A i \in 1 .. q : d[i] = b[i]
  /\ \A i \in q + 1 .. q + (p - 1) : d[i] = c[(i - q) + 1]

\* The head is replaced by the calls it makes.
LEMMA Replaced ==
  ASSUME NEW c, IsList(c), c # <<>>, NEW b, IsList(b)
  PROVE  /\ IsList(b \o Tail(c)) /\ Len(b \o Tail(c)) = Len(b) + (Len(c) - 1)
         /\ Replaces(b \o Tail(c), c, Len(c), b, Len(b))
<1> DEFINE d == b \o Tail(c)
<1> DEFINE S == {c[i] : i \in DOMAIN c} \cup {b[i] : i \in DOMAIN b}
<1>1. c \in Seq(S) /\ b \in Seq(S)
  <2> DEFINE R == {c[i] : i \in DOMAIN c}
             Q == {b[i] : i \in DOMAIN b}
  <2>1. c \in Seq(R) /\ b \in Seq(Q)
    BY DEF IsList
  <2>2. R \subseteq S /\ Q \subseteq S
    OBVIOUS
  <2> HIDE DEF R, Q, S
  <2> QED
    BY <2>1, <2>2
<1> HIDE DEF S
<1>2. Tail(c) \in Seq(S) /\ Len(Tail(c)) = Len(c) - 1 /\ Len(c) \in Nat \ {0}
  BY <1>1
<1>3. d \in Seq(S) /\ Len(d) = Len(b) + (Len(c) - 1)
  BY <1>1, <1>2
<1>4. \A i \in 1 .. Len(b) : d[i] = b[i]
  BY <1>1, <1>2
<1>5. \A i \in Len(b) + 1 .. Len(d) : d[i] = c[(i - Len(b)) + 1]
  BY <1>1, <1>2, <1>3
<1>6. IsList(d)
  BY <1>3, Elements
<1>7. Len(b) \in Nat
  BY <1>1
<1>8. Replaces(d, c, Len(c), b, Len(b))
  <2> HIDE DEF d
  <2> QED
    BY <1>2, <1>3, <1>4, <1>5, <1>7 DEF Replaces
<1> QED
  BY <1>3, <1>6, <1>8

LEMMA EmptyList == IsList(<<>>) /\ Len(<<>>) = 0
<1>1. <<>> \in Seq({}) /\ Len(<<>>) = 0
  OBVIOUS
<1> QED
  BY <1>1, Elements

LEMMA LockedList ==
  ASSUME NEW m, NEW b, IsList(b)
  PROVE  /\ IsList(Locked(m, b)) /\ Len(b) \in Nat /\ Len(Locked(m, b)) = Len(b) + 2
         /\ Locked(m, b)[1] = <<"MutexLock", m>>
         /\ \A i \in 1 .. Len(b) : Locked(m, b)[i + 1] = b[i]
         /\ Locked(m, b)[Len(b) + 2] = <<"MutexUnlock", m>>
<1> DEFINE d == Locked(m, b)
           x == <<"MutexLock", m>>
           y == <<"MutexUnlock", m>>
           S == {b[i] : i \in DOMAIN b} \cup {x, y}
<1>1. b \in Seq(S)
  <2> DEFINE R == {b[i] : i \in DOMAIN b}
  <2>1. b \in Seq(R)
    BY DEF IsList
  <2>2. R \subseteq S
    OBVIOUS
  <2> HIDE DEF R, S
  <2> QED
    BY <2>1, <2>2
<1>2. d = <<x>> \o b \o <<y>> /\ x \in S /\ y \in S
  BY DEF Locked
<1> HIDE DEF S, x, y
<1>3. d \in Seq(S) /\ Len(b) \in Nat /\ Len(d) = Len(b) + 2
  BY <1>1, <1>2
<1>4. d[1] = x /\ d[Len(b) + 2] = y
  BY <1>1, <1>2
<1>5. \A i \in 1 .. Len(b) : d[i + 1] = b[i]
  BY <1>1, <1>2
<1> QED
  BY <1>3, <1>4, <1>5, Elements DEF x, y

\* b is s between a lock of m and its unlock.
IsLocked(b, m, s) ==
  /\ IsList(b) /\ Len(b) = Len(s) + 2
  /\ b[1] = <<"MutexLock", m>>
  /\ \A i \in 1 .. Len(s) : b[i + 1] = s[i]
  /\ b[Len(s) + 2] = <<"MutexUnlock", m>>

LEMMA LockedIs ==
  ASSUME NEW m, NEW s, IsList(s)
  PROVE  IsLocked(Locked(m, s), m, s)
BY LockedList DEF IsLocked
-----------------------------------------------------------------------------
(* Where a thread is.                                                      *)

\* Calls that are only made between a lock and its unlock.
Inner == {"InitOnce", "Init", "SetInitialized", "CopyHandler", "CopyContext",
          "DefaultContext", "DefaultHandler", "ReadSetting", "WriteSetting"}

LockCalls == {"MutexLock", "MutexUnlock"}

Loose(x) == x[1] \notin Inner /\ ~(x[1] \in LockCalls /\ x[2] \in {"init", "defaults"})

Initialising == {"checkInit", "build", "closeInit"}

InDefaults == {"copyHandler", "copyContext", "setContext", "setHandler",
               "readSetting", "writeSetting", "close"}

AtDefaults == InDefaults \cup {"askCopy", "askSet", "askSwap"}

Labels == {"none", "askInit"} \cup Initialising \cup AtDefaults

Lock(m) == <<"MutexLock", m>>

Unlock(m) == <<"MutexUnlock", m>>

Rest(c, n) == n <= Len(c) /\ \A i \in n + 1 .. Len(c) : Loose(c[i])

\* A thread at l has c still to call, when it initialises the k-th subsystem next.
Follows(c, l, k) ==
  /\ l = "none" => Rest(c, 0)
  /\ l = "askInit" => /\ Rest(c, 3) /\ c[1] = Lock("init") /\ c[2] = <<"InitOnce">>
                      /\ c[3] = Unlock("init")
  /\ l = "checkInit" => Rest(c, 2) /\ c[1] = <<"InitOnce">> /\ c[2] = Unlock("init")
  /\ l = "build" => /\ Rest(c, 9 - k)
                    /\ \A i \in 1 .. 7 - k : c[i] = <<"Init", Subsystems[(k + i) - 1]>>
                    /\ c[8 - k] = <<"SetInitialized">> /\ c[9 - k] = Unlock("init")
  /\ l = "closeInit" => Rest(c, 1) /\ c[1] = Unlock("init")
  /\ l = "askCopy" => /\ Rest(c, 4) /\ c[1] = Lock("defaults") /\ c[2] = <<"CopyHandler">>
                      /\ c[3] = <<"CopyContext">> /\ c[4] = Unlock("defaults")
  /\ l = "copyHandler" => /\ Rest(c, 3) /\ c[1] = <<"CopyHandler">>
                          /\ c[2] = <<"CopyContext">> /\ c[3] = Unlock("defaults")
  /\ l = "copyContext" => Rest(c, 2) /\ c[1] = <<"CopyContext">> /\ c[2] = Unlock("defaults")
  /\ l = "askSet" => /\ Rest(c, 4) /\ c[1] = Lock("defaults") /\ c[2][1] = "DefaultContext"
                     /\ c[3] = <<"DefaultHandler", c[2][2]>> /\ c[4] = Unlock("defaults")
  /\ l = "setContext" => /\ Rest(c, 3) /\ c[1][1] = "DefaultContext"
                         /\ c[2] = <<"DefaultHandler", c[1][2]>> /\ c[3] = Unlock("defaults")
  /\ l = "setHandler" => /\ Rest(c, 2) /\ c[1][1] = "DefaultHandler"
                         /\ c[2] = Unlock("defaults")
  /\ l = "askSwap" => /\ Rest(c, 3) /\ c[1] = Lock("defaults") /\ c[2][1] = "ReadSetting"
                      /\ c[3] = Unlock("defaults")
  /\ l = "readSetting" => Rest(c, 2) /\ c[1][1] = "ReadSetting" /\ c[2] = Unlock("defaults")
  /\ l = "writeSetting" => Rest(c, 2) /\ c[1][1] = "WriteSetting" /\ c[2] = Unlock("defaults")
  /\ l = "close" => Rest(c, 1) /\ c[1] = Unlock("defaults")

\* What a thread calls next tells where it is.
LEMMA Whereabouts ==
  ASSUME NEW c, IsList(c), c # <<>>, NEW l \in Labels, NEW k \in 1 .. 7, Follows(c, l, k)
  PROVE  /\ c[1][1] \notin Inner \cup LockCalls => l = "none"
         /\ c[1][1] = "MutexLock" => \/ l = "none" /\ c[1][2] \notin {"init", "defaults"}
                                     \/ l = "askInit" /\ c[1][2] = "init"
                                     \/ l \in {"askCopy", "askSet", "askSwap"} /\ c[1][2] = "defaults"
         /\ c[1][1] = "MutexUnlock" => \/ l = "none" /\ c[1][2] \notin {"init", "defaults"}
                                       \/ l = "closeInit" /\ c[1][2] = "init"
                                       \/ l = "close" /\ c[1][2] = "defaults"
         /\ c[1][1] = "InitOnce" => l = "checkInit"
         /\ c[1][1] = "Init" => l = "build" /\ k < 7 /\ c[1][2] = Subsystems[k]
         /\ c[1][1] = "SetInitialized" => l = "build" /\ k = 7
         /\ c[1][1] = "CopyHandler" => l = "copyHandler"
         /\ c[1][1] = "CopyContext" => l = "copyContext"
         /\ c[1][1] = "DefaultContext" => l = "setContext"
         /\ c[1][1] = "DefaultHandler" => l = "setHandler"
         /\ c[1][1] = "ReadSetting" => l = "readSetting"
         /\ c[1][1] = "WriteSetting" => l = "writeSetting"
<1>1. Len(c) \in Nat /\ Len(c) > 0
  BY CallListFacts
<1> USE DEF Labels, Initialising, AtDefaults, InDefaults
<1>2. CASE l = "none"
  <2>1. Loose(c[1])
    BY <1>1, <1>2 DEF Follows, Rest
  <2> QED
    BY <1>2, <2>1 DEF Loose, Inner, LockCalls
<1>3. CASE l = "build"
  <2>1. CASE k = 7
    <3>1. c[1] = <<"SetInitialized">>
      BY <1>3, <2>1 DEF Follows
    <3> QED
      BY <1>3, <2>1, <3>1 DEF Inner, LockCalls
  <2>2. CASE k < 7
    <3>1. c[1] = <<"Init", Subsystems[(k + 1) - 1]>> /\ (k + 1) - 1 = k
      BY <1>3, <2>2 DEF Follows
    <3> QED
      BY <1>3, <2>2, <3>1 DEF Inner, LockCalls
  <2> QED
    BY <2>1, <2>2
<1>4. CASE l \in {"askInit", "checkInit", "closeInit", "askCopy", "copyHandler", "copyContext"}
  BY <1>4 DEF Follows, Lock, Unlock, Inner, LockCalls
<1>5. CASE l \in {"askSet", "setContext", "setHandler", "askSwap", "readSetting", "writeSetting", "close"}
  BY <1>5 DEF Follows, Lock, Unlock, Inner, LockCalls
<1> QED
  BY <1>2, <1>3, <1>4, <1>5

\* The state of the threads' code.
Shape(F, k) ==
  /\ F \in [Thread -> Labels] /\ k \in 1 .. 7
  /\ code = [t \in Thread |-> code[t]]
  /\ \A t \in Thread : IsList(code[t]) /\ Follows(code[t], F[t], k)

\* The next subsystem is the same, or no other thread looks at it.
OwnTurn(F, t, k, n) == n = k \/ \A u \in Thread \ {t} : F[u] # "build"

\* t goes from where it is to l.
Went(F, t, l) == [F EXCEPT ![t] = l]

\* t goes to l and its code follows, when it makes the calls b instead.
LEMMA Moved ==
  ASSUME NEW F, NEW k, Shape(F, k), NEW t \in Thread, code[t] # <<>>, NEW b, Calls(t, b),
         NEW l \in Labels, NEW n \in 1 .. 7, OwnTurn(F, t, k, n),
         IsList(b), Follows(b \o Tail(code[t]), l, n)
  PROVE  /\ Shape(Went(F, t, l), n)'
         /\ code'[t] = b \o Tail(code[t])
         /\ \A u \in Thread \ {t} : code'[u] = code[u]
<1> DEFINE d == b \o Tail(code[t])
           G == Went(F, t, l)
<1>1. code' = [code EXCEPT ![t] = d]
  BY DEF Calls
<1>2. IsList(d) /\ Follows(d, l, n)
  BY Replaced DEF Shape
<1> HIDE DEF d
<1>3. code' = [u \in Thread |-> IF u = t THEN d ELSE code[u]]
  BY <1>1 DEF Shape
<1>4. G \in [Thread -> Labels] /\ G[t] = l /\ \A u \in Thread \ {t} : G[u] = F[u]
  BY DEF Shape, Went
<1> HIDE DEF G
<1>5. ASSUME NEW u \in Thread PROVE IsList(code'[u]) /\ Follows(code'[u], G[u], n)
  <2>1. CASE u = t
    BY <2>1, <1>2, <1>3, <1>4
  <2>2. CASE u # t
    <3>1. code'[u] = code[u] /\ G[u] = F[u] /\ IsList(code[u]) /\ Follows(code[u], F[u], k)
      BY <2>2, <1>3, <1>4 DEF Shape
    <3>2. n = k \/ F[u] # "build"
      BY <2>2 DEF OwnTurn
    <3>3. Follows(code[u], F[u], n)
      BY <3>1, <3>2 DEF Follows
    <3> QED
      BY <3>1, <3>3
  <2> QED
    BY <2>1, <2>2
<1>6. code' = [u \in Thread |-> code'[u]]
  BY <1>3
<1>7. G' = G
  BY DEF G, Went
<1>8. Shape(G, n)'
  BY <1>4, <1>5, <1>6, <1>7 DEF Shape
<1>9. Shape(Went(F, t, l), n)'
  BY <1>8 DEF G
<1> QED
  BY <1>3, <1>9 DEF d

LEMMA Behind ==
  ASSUME NEW c, NEW p, NEW b, NEW q, NEW d, Replaces(d, c, p, b, q),
         NEW n \in Nat, n <= p, \A i \in n + 1 .. p : Loose(c[i])
  PROVE  /\ n > 0 => /\ (q + n) - 1 <= q + (p - 1)
                     /\ \A i \in ((q + n) - 1) + 1 .. q + (p - 1) : Loose(d[i])
         /\ n < 2 => q <= q + (p - 1) /\ \A i \in q + 1 .. q + (p - 1) : Loose(d[i])
<1> USE DEF Replaces
<1>1. ASSUME NEW i \in q + 1 .. q + (p - 1), (i - q) + 1 >= n + 1 PROVE Loose(d[i])
  <2>1. (i - q) + 1 \in n + 1 .. p
    BY <1>1
  <2> QED
    BY <2>1
<1>2. ASSUME n > 0, NEW i \in ((q + n) - 1) + 1 .. q + (p - 1) PROVE Loose(d[i])
  <2>1. i \in q + 1 .. q + (p - 1) /\ (i - q) + 1 >= n + 1
    BY <1>2
  <2> QED
    BY <2>1, <1>1
<1>3. ASSUME n < 2, NEW i \in q + 1 .. q + (p - 1) PROVE Loose(d[i])
  <2>1. (i - q) + 1 >= n + 1
    BY <1>3
  <2> QED
    BY <2>1, <1>1
<1> QED
  BY <1>2, <1>3

\* What is left of the calls after the first n.
LEMMA RestKept ==
  ASSUME NEW c, IsList(c), c # <<>>, NEW b, IsList(b), NEW n \in Nat, Rest(c, n)
  PROVE  /\ n > 0 => Rest(b \o Tail(c), (Len(b) + n) - 1)
         /\ n < 2 => Rest(b \o Tail(c), Len(b))
         /\ n < 2 /\ (\A i \in 1 .. Len(b) : Loose(b[i])) => Rest(b \o Tail(c), 0)
<1> DEFINE d == b \o Tail(c)
           p == Len(c)
           q == Len(b)
<1>0. Len(d) = q + (p - 1) /\ Replaces(d, c, p, b, q)
  BY Replaced
<1>1. /\ p \in Nat \ {0} /\ q \in Nat /\ Len(d) = q + (p - 1)
      /\ Replaces(d, c, p, b, q)
  BY <1>0 DEF Replaces
<1>2. n <= p /\ \A i \in n + 1 .. p : Loose(c[i])
  BY DEF Rest
<1> HIDE DEF d, p, q
<1>3. /\ n > 0 => /\ (q + n) - 1 <= q + (p - 1)
                     /\ \A i \in ((q + n) - 1) + 1 .. q + (p - 1) : Loose(d[i])
      /\ n < 2 => q <= q + (p - 1) /\ \A i \in q + 1 .. q + (p - 1) : Loose(d[i])
  BY <1>1, <1>2, Behind
<1>4. ASSUME n < 2, \A i \in 1 .. q : Loose(b[i]) PROVE Rest(d, 0)
  <2>1. ASSUME NEW i \in 0 + 1 .. Len(d) PROVE Loose(d[i])
    <3>1. i \in 1 .. q \/ i \in q + 1 .. q + (p - 1)
      BY <1>1
    <3>2. CASE i \in 1 .. q
      BY <3>2, <1>1, <1>4 DEF Replaces
    <3>3. CASE i \in q + 1 .. q + (p - 1)
      BY <3>3, <1>3, <1>4
    <3> QED
      BY <3>1, <3>2, <3>3
  <2> QED
    BY <2>1, <1>1 DEF Rest
<1>5. (n > 0 => Rest(d, (q + n) - 1)) /\ (n < 2 => Rest(d, q))
  BY <1>1, <1>3 DEF Rest
<1> QED
  BY <1>4, <1>5 DEF d, q

\* A call of N comes after one of P, unless what these see to is done.
After(c, p, N, P) ==
  \A i \in 1 .. p : c[i][1] \in N => \E j \in 1 .. i - 1 : c[j][1] \in P

Prepared(c, N, P, done) == done \/ After(c, Len(c), N, P)

LEMMA StillAfter ==
  ASSUME NEW c, NEW p, NEW b, NEW q, NEW d, NEW N, NEW P, Replaces(d, c, p, b, q),
         After(c, p, N, P), After(b, q, N, P), c[1][1] \in P => \E i \in 1 .. q : b[i][1] \in P
  PROVE  After(d, q + (p - 1), N, P)
<1> USE DEF Replaces, After
<1> SUFFICES ASSUME NEW i \in 1 .. q + (p - 1), d[i][1] \in N
             PROVE  \E j \in 1 .. i - 1 : d[j][1] \in P
  OBVIOUS
<1>1. CASE i \in 1 .. q
  <2>1. b[i][1] \in N
    BY <1>1
  <2>2. PICK j \in 1 .. i - 1 : b[j][1] \in P
    BY <1>1, <2>1
  <2>3. j \in 1 .. q
    BY <1>1
  <2> QED
    BY <2>2, <2>3
<1>2. CASE i \in q + 1 .. q + (p - 1)
  <2>1. (i - q) + 1 \in 1 .. p /\ c[(i - q) + 1][1] \in N
    BY <1>2
  <2>2. PICK g \in 1 .. ((i - q) + 1) - 1 : c[g][1] \in P
    BY <2>1
  <2>3. CASE g = 1
    <3>1. PICK j \in 1 .. q : b[j][1] \in P
      BY <2>2, <2>3
    <3>2. j \in 1 .. i - 1
      BY <1>2
    <3> QED
      BY <3>1, <3>2
  <2>4. CASE g > 1
    <3>1. /\ (q + g) - 1 \in q + 1 .. q + (p - 1) /\ (q + g) - 1 \in 1 .. i - 1
          /\ (((q + g) - 1) - q) + 1 = g
      BY <1>2, <2>2, <2>4
    <3>2. d[(q + g) - 1] = c[g]
      BY <3>1
    <3> QED
      BY <2>2, <3>1, <3>2
  <2> QED
    BY <2>2, <2>3, <2>4
<1> QED
  BY <1>1, <1>2

\* Calls stay prepared for when the first of them makes its own.
LEMMA PreparedKept ==
  ASSUME NEW c, IsList(c), c # <<>>, NEW b, IsList(b), NEW N, NEW P, NEW done, NEW then,
         Prepared(c, N, P, done), done => then, Prepared(b, N, P, then),
         c[1][1] \in P => then \/ \E i \in 1 .. Len(b) : b[i][1] \in P
  PROVE  Prepared(b \o Tail(c), N, P, then)
<1> DEFINE d == b \o Tail(c)
           p == Len(c)
           q == Len(b)
<1>1. /\ Len(d) = q + (p - 1)
      /\ Replaces(d, c, p, b, q)
  BY Replaced
<1> SUFFICES ASSUME ~then PROVE After(d, Len(d), N, P)
  BY DEF Prepared
<1>2. After(c, p, N, P) /\ After(b, q, N, P) /\ (c[1][1] \in P => \E i \in 1 .. q : b[i][1] \in P)
  BY DEF Prepared
<1> HIDE DEF d, p, q
<1> QED
  BY <1>1, <1>2, StillAfter

\* The first call returns.
\* Where a call leads that returns.
LEMMA Onward ==
  ASSUME NEW c, IsList(c), c # <<>>, NEW l \in Labels, NEW k \in 1 .. 7, Follows(c, l, k)
  PROVE  LET d == <<>> \o Tail(c)
         IN /\ IsList(d)
            /\ l = "none" => Follows(d, "none", k)
            /\ l = "askInit" => Follows(d, "checkInit", k)
            /\ l = "checkInit" => Follows(d, "closeInit", k)
            /\ l = "build" /\ k < 7 => Follows(d, "build", k + 1)
            /\ l = "build" /\ k = 7 => Follows(d, "closeInit", k)
            /\ l = "closeInit" => Follows(d, "none", k)
            /\ l = "askCopy" => Follows(d, "copyHandler", k)
            /\ l = "copyHandler" => Follows(d, "copyContext", k)
            /\ l = "copyContext" => Follows(d, "close", k)
            /\ l = "askSet" => Follows(d, "setContext", k)
            /\ l = "setContext" => Follows(d, "setHandler", k) /\ d[1] = <<"DefaultHandler", c[1][2]>>
            /\ l = "setHandler" => Follows(d, "close", k)
            /\ l = "askSwap" => Follows(d, "readSetting", k)
            /\ l = "writeSetting" => Follows(d, "close", k)
            /\ l = "close" => Follows(d, "none", k)
<1> DEFINE d == <<>> \o Tail(c)
           p == Len(c)
<1>1. /\ IsList(d) /\ p \in Nat \ {0} /\ Len(d) = p - 1
      /\ \A i \in 1 .. p - 1 : d[i] = c[i + 1]
  <2>1. Len(<<>>) = 0 /\ IsList(<<>>)
    BY EmptyList
  <2>2. IsList(d) /\ Len(d) = Len(<<>>) + (p - 1) /\ Replaces(d, c, p, <<>>, Len(<<>>))
    BY <2>1, Replaced
  <2>3. IsList(d) /\ Len(d) = 0 + (p - 1) /\ Replaces(d, c, p, <<>>, 0)
    BY <2>1, <2>2
  <2> HIDE DEF d, p
  <2>4. /\ p \in Nat \ {0} /\ Len(d) = 0 + (p - 1)
        /\ \A i \in 0 + 1 .. 0 + (p - 1) : d[i] = c[(i - 0) + 1]
    BY <2>3 DEF Replaces
  <2>5. Len(d) = p - 1 /\ \A i \in 1 .. p - 1 : d[i] = c[i + 1]
    BY <2>4
  <2> QED
    BY <2>3, <2>4, <2>5
<1> HIDE DEF d
<1>2. ASSUME NEW n \in Nat, Rest(c, n + 1) PROVE Rest(d, n)
  BY <1>1, <1>2 DEF Rest
<1>3. ASSUME Rest(c, 0) PROVE Rest(d, 0)
  BY <1>1, <1>3 DEF Rest
<1>4. l = "none" => Follows(d, "none", k)
  BY <1>3 DEF Follows
<1>5. ASSUME l \in {"closeInit", "close"} PROVE Follows(d, "none", k)
  <2>1. Rest(c, 0 + 1)
    BY <1>5 DEF Follows
  <2> QED
    BY <1>2, <2>1 DEF Follows
<1>6. ASSUME l = "build", k < 7 PROVE Follows(d, "build", k + 1)
  <2>1. Rest(c, (8 - k) + 1) /\ 8 - k \in Nat
    BY <1>6 DEF Follows
  <2>2. Rest(d, 9 - (k + 1))
    BY <1>2, <2>1
  <2>3. 9 - k <= p
    BY <1>6 DEF Follows, Rest
  <2>4. ASSUME NEW i \in 1 .. 7 - (k + 1) PROVE d[i] = <<"Init", Subsystems[((k + 1) + i) - 1]>>
    <3>1. i + 1 \in 1 .. 7 - k /\ i \in 1 .. p - 1 /\ (k + (i + 1)) - 1 = ((k + 1) + i) - 1
      BY <2>3, <1>1
    <3>2. c[i + 1] = <<"Init", Subsystems[(k + (i + 1)) - 1]>>
      BY <3>1, <1>6 DEF Follows
    <3> QED
      BY <3>1, <3>2, <1>1
  <2>5. d[8 - (k + 1)] = <<"SetInitialized">> /\ d[9 - (k + 1)] = Unlock("init")
    <3>1. c[8 - k] = <<"SetInitialized">> /\ c[9 - k] = Unlock("init")
      BY <1>6 DEF Follows
    <3>2. /\ 8 - (k + 1) \in 1 .. p - 1 /\ (8 - (k + 1)) + 1 = 8 - k
          /\ 9 - (k + 1) \in 1 .. p - 1 /\ (9 - (k + 1)) + 1 = 9 - k
      BY <1>6, <2>3, <1>1
    <3> QED
      BY <3>1, <3>2, <1>1
  <2> QED
    BY <2>2, <2>4, <2>5 DEF Follows
<1>7. ASSUME l = "build", k = 7 PROVE Follows(d, "closeInit", k)
  <2>1. Rest(c, 1 + 1) /\ c[2] = Unlock("init")
    BY <1>7 DEF Follows
  <2>2. p >= 2
    BY <2>1, <1>1 DEF Rest
  <2> QED
    BY <1>1, <1>2, <2>1, <2>2 DEF Follows
<1>8. ASSUME l \in {"checkInit", "copyContext", "setHandler", "writeSetting"}
      PROVE  /\ l = "checkInit" => Follows(d, "closeInit", k)
             /\ l # "checkInit" => Follows(d, "close", k)
  <2>1. Rest(c, 1 + 1) /\ c[2] = IF l = "checkInit" THEN Unlock("init") ELSE Unlock("defaults")
    BY <1>8 DEF Follows
  <2>2. p >= 2
    BY <2>1, <1>1 DEF Rest
  <2> QED
    BY <1>1, <1>2, <1>8, <2>1, <2>2 DEF Follows
<1>9. ASSUME l \in {"askInit", "copyHandler", "setContext", "askSwap"}
      PROVE  /\ l = "askInit" => Follows(d, "checkInit", k)
             /\ l = "copyHandler" => Follows(d, "copyContext", k)
             /\ l = "setContext" => Follows(d, "setHandler", k) /\ d[1] = <<"DefaultHandler", c[1][2]>>
             /\ l = "askSwap" => Follows(d, "readSetting", k)
  <2>1. Rest(c, 2 + 1)
    BY <1>9 DEF Follows
  <2>2. p >= 3 /\ d[1] = c[2] /\ d[2] = c[3] /\ Rest(d, 2)
    BY <2>1, <1>1, <1>2 DEF Rest
  <2>3. CASE l = "askInit"
    BY <2>2, <2>3 DEF Follows
  <2>4. CASE l = "copyHandler"
    BY <2>2, <2>4 DEF Follows
  <2>5. CASE l = "setContext"
    BY <2>2, <2>5 DEF Follows
  <2>6. CASE l = "askSwap"
    BY <2>2, <2>6 DEF Follows
  <2> QED
    BY <1>9, <2>3, <2>4, <2>5, <2>6
<1>10. ASSUME l \in {"askCopy", "askSet"}
       PROVE  /\ l = "askCopy" => Follows(d, "copyHandler", k)
              /\ l = "askSet" => Follows(d, "setContext", k)
  <2>1. Rest(c, 3 + 1)
    BY <1>10 DEF Follows
  <2>2. p >= 4 /\ d[1] = c[2] /\ d[2] = c[3] /\ d[3] = c[4] /\ Rest(d, 3)
    BY <2>1, <1>1, <1>2 DEF Rest
  <2>3. CASE l = "askCopy"
    BY <2>2, <2>3 DEF Follows
  <2>4. CASE l = "askSet"
    BY <2>2, <2>4 DEF Follows
  <2> QED
    BY <1>10, <2>3, <2>4
<1> QED
  BY <1>1, <1>4, <1>5, <1>6, <1>7, <1>8, <1>9, <1>10 DEF d

LEMMA HandlerNext ==
  ASSUME NEW c, IsList(c), c # <<>>, NEW k \in 1 .. 7, Follows(c, "setContext", k)
  PROVE  /\ Follows(<<>> \o Tail(c), "setHandler", k)
         /\ (<<>> \o Tail(c))[1][2] = c[1][2]
<1> DEFINE l == "setContext"
           d == <<>> \o Tail(c)
<1>1. l \in Labels /\ Follows(c, l, k)
  BY DEF Labels, AtDefaults, InDefaults
<1>2. l = "setContext" => Follows(d, "setHandler", k) /\ d[1] = <<"DefaultHandler", c[1][2]>>
  <2> HIDE DEF l
  <2> QED
    BY <1>1, Onward
<1> HIDE DEF d
<1>3. d[1][2] = c[1][2]
  BY <1>2
<1> QED
  BY <1>2, <1>3 DEF d

LEMMA Appended ==
  ASSUME NEW b, IsList(b), NEW c, IsList(c)
  PROVE  /\ IsList(b \o c) /\ Len(b) \in Nat /\ Len(c) \in Nat /\ Len(b \o c) = Len(b) + Len(c)
         /\ \A i \in 1 .. Len(b) : (b \o c)[i] = b[i]
         /\ \A i \in 1 .. Len(c) : (b \o c)[Len(b) + i] = c[i]
<1> DEFINE d == b \o c
           R == {c[i] : i \in DOMAIN c}
           Q == {b[i] : i \in DOMAIN b}
           S == R \cup Q
<1>1. c \in Seq(S) /\ b \in Seq(S)
  <2>1. c \in Seq(R) /\ b \in Seq(Q)
    BY DEF IsList
  <2>2. R \subseteq S /\ Q \subseteq S
    OBVIOUS
  <2> HIDE DEF R, Q, S
  <2> QED
    BY <2>1, <2>2
<1> HIDE DEF S
<1>2. d \in Seq(S) /\ Len(b) \in Nat /\ Len(c) \in Nat /\ Len(d) = Len(b) + Len(c)
  BY <1>1
<1>3. \A i \in 1 .. Len(b) : d[i] = b[i]
  BY <1>1
<1>4. \A i \in 1 .. Len(c) : d[Len(b) + i] = c[i]
  BY <1>1
<1> QED
  BY <1>2, <1>3, <1>4, Elements

LEMMA Tuples ==
  ASSUME NEW x, NEW y, NEW z
  PROVE  /\ IsList(<<x>>) /\ Len(<<x>>) = 1
         /\ IsList(<<x, y>>) /\ Len(<<x, y>>) = 2
         /\ IsList(<<x, y, z>>) /\ Len(<<x, y, z>>) = 3
<1> DEFINE S == {x, y, z}
<1>1. x \in S /\ y \in S /\ z \in S
  OBVIOUS
<1> HIDE DEF S
<1>2. <<x>> \in Seq(S) /\ <<x, y>> \in Seq(S) /\ <<x, y, z>> \in Seq(S)
  BY <1>1
<1>3. IsList(<<x>>) /\ IsList(<<x, y>>) /\ IsList(<<x, y, z>>)
  BY <1>2, Elements
<1> QED
  BY <1>3

LEMMA PutFirst ==
  ASSUME NEW c, IsList(c), c # <<>>, NEW b, IsList(b), Rest(c, 0)
  PROVE  Rest(b \o Tail(c), Len(b)) /\ Replaces(b \o Tail(c), c, Len(c), b, Len(b))
<1>1. Replaces(b \o Tail(c), c, Len(c), b, Len(b))
  BY Replaced
<1>2. 0 \in Nat /\ 0 < 2
  OBVIOUS
<1>3. Rest(b \o Tail(c), Len(b))
  BY <1>2, RestKept
<1> QED
  BY <1>1, <1>3

\* The first call is replaced, inside a lock.
LEMMA PutInside ==
  ASSUME NEW c, IsList(c), c # <<>>, NEW b, IsList(b), Rest(c, 2)
  PROVE  Rest(b \o Tail(c), Len(b) + 1) /\ Replaces(b \o Tail(c), c, Len(c), b, Len(b))
<1>1. Replaces(b \o Tail(c), c, Len(c), b, Len(b))
  BY Replaced
<1>2. 2 \in Nat /\ 2 > 0
  OBVIOUS
<1>3. Rest(b \o Tail(c), (Len(b) + 2) - 1)
  BY <1>2, RestKept
<1>4. Len(b) \in Nat
  BY CallListFacts
<1>5. (Len(b) + 2) - 1 = Len(b) + 1
  BY <1>4
<1>6. Rest(b \o Tail(c), Len(b) + 1)
  BY <1>3, <1>5
<1> QED
  BY <1>1, <1>6

\* The first call is replaced by calls in a lock.
LEMMA LocksInit ==
  ASSUME NEW c, IsList(c), c # <<>>, NEW k, Follows(c, "none", k)
  PROVE  LET b == Locked("init", <<<<"InitOnce">>>>)
         IN /\ Len(b) = 3 /\ b[1] = Lock("init") /\ b[2] = <<"InitOnce">> /\ b[3] = Unlock("init")
            /\ IsList(b) /\ Follows(b \o Tail(c), "askInit", k)
<1> DEFINE x == <<"InitOnce">>
           s == <<x>>
           b == Locked("init", s)
           d == b \o Tail(c)
<1>1. IsList(s) /\ Len(s) = 1 /\ s[1] = x
  BY Tuples
<1> HIDE DEF s
<1>2. /\ IsList(b) /\ Len(b) = 3 /\ b[1] = Lock("init") /\ b[2] = x
      /\ b[3] = Unlock("init")
  <2>1. /\ IsList(b) /\ Len(b) = Len(s) + 2
        /\ b[1] = <<"MutexLock", "init">>
        /\ \A i \in 1 .. Len(s) : b[i + 1] = s[i]
        /\ b[Len(s) + 2] = <<"MutexUnlock", "init">>
    <3>1. IsLocked(b, "init", s)
      BY <1>1, LockedIs
    <3> HIDE DEF b
    <3> QED
      BY <3>1 DEF IsLocked
  <2> HIDE DEF b
  <2> QED
    BY <1>1, <2>1 DEF Lock, Unlock
<1> HIDE DEF b
<1>3. Rest(d, 3) /\ Replaces(d, c, Len(c), b, 3)
  <2>1. Rest(c, 0)
    BY DEF Follows
  <2>2. Rest(d, Len(b)) /\ Replaces(d, c, Len(c), b, Len(b))
    BY <1>2, <2>1, PutFirst
  <2> HIDE DEF d
  <2> QED
    BY <1>2, <2>2
<1> HIDE DEF d
<1>4. d[1] = b[1] /\ d[2] = b[2] /\ d[3] = b[3]
  BY <1>3 DEF Replaces
<1>5. Follows(d, "askInit", k)
  BY <1>2, <1>3, <1>4 DEF Follows
<1> QED
  BY <1>2, <1>5 DEF d, b, s

LEMMA LocksToCopy ==
  ASSUME NEW c, IsList(c), c # <<>>, NEW k, Follows(c, "none", k)
  PROVE  LET b == Locked("defaults", <<<<"CopyHandler">>, <<"CopyContext">>>>)
         IN /\ Len(b) = 4 /\ b[3] = <<"CopyContext">>
            /\ \A i \in 1 .. 4 : b[i][1] \notin {"Store", "Deliver"}
            /\ IsList(b) /\ Follows(b \o Tail(c), "askCopy", k)
<1> DEFINE x == <<"CopyHandler">>
           y == <<"CopyContext">>
           s == <<x, y>>
           b == Locked("defaults", s)
           d == b \o Tail(c)
<1>1. IsList(s) /\ Len(s) = 2 /\ s[1] = x /\ s[2] = y
  BY Tuples
<1> HIDE DEF s
<1>2. /\ IsList(b) /\ Len(b) = 4 /\ b[1] = Lock("defaults") /\ b[2] = x /\ b[3] = y
      /\ b[4] = Unlock("defaults")
  <2>1. /\ IsList(b) /\ Len(b) = Len(s) + 2
        /\ b[1] = <<"MutexLock", "defaults">>
        /\ \A i \in 1 .. Len(s) : b[i + 1] = s[i]
        /\ b[Len(s) + 2] = <<"MutexUnlock", "defaults">>
    <3>1. IsLocked(b, "defaults", s)
      BY <1>1, LockedIs
    <3> HIDE DEF b
    <3> QED
      BY <3>1 DEF IsLocked
  <2> HIDE DEF b
  <2> QED
    BY <1>1, <2>1 DEF Lock, Unlock
<1> HIDE DEF b
<1>3. Rest(d, 4) /\ Replaces(d, c, Len(c), b, 4)
  <2>1. Rest(c, 0)
    BY DEF Follows
  <2>2. Rest(d, Len(b)) /\ Replaces(d, c, Len(c), b, Len(b))
    BY <1>2, <2>1, PutFirst
  <2> HIDE DEF d
  <2> QED
    BY <1>2, <2>2
<1> HIDE DEF d
<1>4. d[1] = b[1] /\ d[2] = b[2] /\ d[3] = b[3] /\ d[4] = b[4]
  BY <1>3 DEF Replaces
<1>5. Follows(d, "askCopy", k)
  BY <1>2, <1>3, <1>4 DEF Follows
<1>6. \A i \in 1 .. 4 : b[i][1] \notin {"Store", "Deliver"}
  <2>1. \A i \in 1 .. 4 : i = 1 \/ i = 2 \/ i = 3 \/ i = 4
    OBVIOUS
  <2> QED
    BY <1>2, <2>1 DEF Lock, Unlock
<1> QED
  BY <1>2, <1>5, <1>6 DEF d, b, s

LEMMA LocksToSet ==
  ASSUME NEW c, IsList(c), c # <<>>, NEW k, Follows(c, "none", k), NEW h
  PROVE  LET b == Locked("defaults", <<<<"DefaultContext", h>>, <<"DefaultHandler", h>>>>)
         IN /\ \A i \in 1 .. Len(b) : b[i][1] \notin {"Store", "Deliver"}
            /\ IsList(b) /\ Follows(b \o Tail(c), "askSet", k)
<1> DEFINE x == <<"DefaultContext", h>>
           y == <<"DefaultHandler", h>>
           s == <<x, y>>
           b == Locked("defaults", s)
           d == b \o Tail(c)
<1>1. IsList(s) /\ Len(s) = 2 /\ s[1] = x /\ s[2] = y
  BY Tuples
<1> HIDE DEF s
<1>2. /\ IsList(b) /\ Len(b) = 4 /\ b[1] = Lock("defaults") /\ b[2] = x /\ b[3] = y
      /\ b[4] = Unlock("defaults")
  <2>1. /\ IsList(b) /\ Len(b) = Len(s) + 2
        /\ b[1] = <<"MutexLock", "defaults">>
        /\ \A i \in 1 .. Len(s) : b[i + 1] = s[i]
        /\ b[Len(s) + 2] = <<"MutexUnlock", "defaults">>
    <3>1. IsLocked(b, "defaults", s)
      BY <1>1, LockedIs
    <3> HIDE DEF b
    <3> QED
      BY <3>1 DEF IsLocked
  <2> HIDE DEF b
  <2> QED
    BY <1>1, <2>1 DEF Lock, Unlock
<1> HIDE DEF b
<1>3. Rest(d, 4) /\ Replaces(d, c, Len(c), b, 4)
  <2>1. Rest(c, 0)
    BY DEF Follows
  <2>2. Rest(d, Len(b)) /\ Replaces(d, c, Len(c), b, Len(b))
    BY <1>2, <2>1, PutFirst
  <2> HIDE DEF d
  <2> QED
    BY <1>2, <2>2
<1> HIDE DEF d
<1>4. d[1] = b[1] /\ d[2] = b[2] /\ d[3] = b[3] /\ d[4] = b[4]
  BY <1>3 DEF Replaces
<1>5. Follows(d, "askSet", k)
  BY <1>2, <1>3, <1>4 DEF Follows
<1>6. \A i \in 1 .. Len(b) : b[i][1] \notin {"Store", "Deliver"}
  <2>1. \A i \in 1 .. 4 : i = 1 \/ i = 2 \/ i = 3 \/ i = 4
    OBVIOUS
  <2> QED
    BY <1>2, <2>1 DEF Lock, Unlock
<1> QED
  BY <1>2, <1>5, <1>6 DEF d, b, s

LEMMA LocksToSwap ==
  ASSUME NEW c, IsList(c), c # <<>>, NEW k, Follows(c, "none", k), NEW h
  PROVE  LET b == Locked("defaults", <<<<"ReadSetting", h>>>>)
         IN /\ \A i \in 1 .. Len(b) : b[i][1] \notin {"Store", "Deliver"}
            /\ IsList(b) /\ Follows(b \o Tail(c), "askSwap", k)
<1> DEFINE x == <<"ReadSetting", h>>
           s == <<x>>
           b == Locked("defaults", s)
           d == b \o Tail(c)
<1>1. IsList(s) /\ Len(s) = 1 /\ s[1] = x
  BY Tuples
<1> HIDE DEF s
<1>2. /\ IsList(b) /\ Len(b) = 3 /\ b[1] = Lock("defaults") /\ b[2] = x
      /\ b[3] = Unlock("defaults")
  <2>1. /\ IsList(b) /\ Len(b) = Len(s) + 2
        /\ b[1] = <<"MutexLock", "defaults">>
        /\ \A i \in 1 .. Len(s) : b[i + 1] = s[i]
        /\ b[Len(s) + 2] = <<"MutexUnlock", "defaults">>
    <3>1. IsLocked(b, "defaults", s)
      BY <1>1, LockedIs
    <3> HIDE DEF b
    <3> QED
      BY <3>1 DEF IsLocked
  <2> HIDE DEF b
  <2> QED
    BY <1>1, <2>1 DEF Lock, Unlock
<1> HIDE DEF b
<1>3. Rest(d, 3) /\ Replaces(d, c, Len(c), b, 3)
  <2>1. Rest(c, 0)
    BY DEF Follows
  <2>2. Rest(d, Len(b)) /\ Replaces(d, c, Len(c), b, Len(b))
    BY <1>2, <2>1, PutFirst
  <2> HIDE DEF d
  <2> QED
    BY <1>2, <2>2
<1> HIDE DEF d
<1>4. d[1] = b[1] /\ d[2] = b[2] /\ d[3] = b[3]
  BY <1>3 DEF Replaces
<1>5. Follows(d, "askSwap", k)
  BY <1>2, <1>3, <1>4 DEF Follows
<1>6. \A i \in 1 .. Len(b) : b[i][1] \notin {"Store", "Deliver"}
  <2>1. \A i \in 1 .. 3 : i = 1 \/ i = 2 \/ i = 3
    OBVIOUS
  <2> QED
    BY <1>2, <2>1 DEF Lock, Unlock
<1> QED
  BY <1>2, <1>5, <1>6 DEF d, b, s

LEMMA ReadsThenWrites ==
  ASSUME NEW c, IsList(c), c # <<>>, NEW k, Follows(c, "readSetting", k), NEW h
  PROVE  LET b == <<<<"WriteSetting", h>>>>
         IN IsList(b) /\ Follows(b \o Tail(c), "writeSetting", k)
<1> DEFINE x == <<"WriteSetting", h>>
           b == <<x>>
           d == b \o Tail(c)
<1>1. IsList(b) /\ Len(b) = 1 /\ b[1] = x
  BY Tuples
<1> HIDE DEF b
<1>2. Rest(c, 2) /\ c[2] = Unlock("defaults") /\ Len(c) \in Nat /\ Len(c) >= 2
  BY CallListFacts DEF Follows, Rest
<1>3. Rest(d, Len(b) + 1) /\ Replaces(d, c, Len(c), b, Len(b))
  BY <1>1, <1>2, PutInside
<1> HIDE DEF d
<1>4. Rest(d, 2) /\ Replaces(d, c, Len(c), b, 1)
  BY <1>1, <1>3
<1>5. d[1] = x /\ d[2] = c[2]
  <2>1. d[2] = c[(2 - 1) + 1]
    BY <1>2, <1>4 DEF Replaces
  <2> QED
    BY <1>1, <1>4, <2>1 DEF Replaces
<1>6. Follows(d, "writeSetting", k)
  BY <1>2, <1>4, <1>5 DEF Follows
<1> QED
  BY <1>1, <1>6 DEF d, b

\* The subsystems are initialised one after the other.
LEMMA SubsystemNames ==
  /\ DOMAIN Subsystems = 1 .. 6
  /\ \A i, j \in 1 .. 6 : Subsystems[i] = Subsystems[j] => i = j
  /\ Subsystems[1] = "threads"
  /\ \A i \in 1 .. 6 : Subsystems[i] = "threads" => i = 1
<1>1. \A i \in 1 .. 6 : i = 1 \/ i = 2 \/ i = 3 \/ i = 4 \/ i = 5 \/ i = 6
  OBVIOUS
<1>2. /\ Subsystems[1] = "threads" /\ Subsystems[2] = "globals" /\ Subsystems[3] = "memory"
      /\ Subsystems[4] = "dict" /\ Subsystems[5] = "encoding" /\ Subsystems[6] = "xpath"
  BY DEF Subsystems
<1>3. DOMAIN Subsystems = 1 .. 6
  BY DEF Subsystems
<1> QED
  BY <1>1, <1>2, <1>3

LEMMA Joined ==
  ASSUME NEW S, NEW e \in Seq(S), NEW f \in Seq(S)
  PROVE  /\ e \o f \in Seq(S) /\ Len(e \o f) = Len(e) + Len(f)
         /\ \A i \in 1 .. Len(e) : (e \o f)[i] = e[i]
         /\ Len(f) = 1 => (e \o f)[Len(e) + 1] = f[1]
  OBVIOUS

LEMMA StartsToBuild ==
  ASSUME NEW c, IsList(c), c # <<>>, NEW k, Follows(c, "checkInit", k)
  PROVE  LET b == [i \in DOMAIN Subsystems |-> <<"Init", Subsystems[i]>>] \o <<<<"SetInitialized">>>>
         IN /\ Len(b) = 7 /\ b[7] = <<"SetInitialized">>
            /\ \A i \in 1 .. 6 : b[i][1] = "Init"
            /\ IsList(b) /\ Follows(b \o Tail(c), "build", 1)
<1> DEFINE e == [i \in DOMAIN Subsystems |-> <<"Init", Subsystems[i]>>]
           x == <<"SetInitialized">>
           f == <<x>>
           b == e \o f
           d == b \o Tail(c)
           S == {e[i] : i \in 1 .. 6} \cup {x}
<1>1. e \in Seq(S) /\ Len(e) = 6 /\ \A i \in 1 .. 6 : e[i] = <<"Init", Subsystems[i]>>
  <2>1. e = [i \in 1 .. 6 |-> <<"Init", Subsystems[i]>>]
    BY SubsystemNames
  <2>2. \A i \in 1 .. 6 : e[i] \in S
    OBVIOUS
  <2> HIDE DEF S
  <2>3. e \in [1 .. 6 -> S]
    BY <2>1, <2>2
  <2> QED
    BY <2>1, <2>3
<1>2. f \in Seq(S) /\ Len(f) = 1 /\ f[1] = x
  <2>1. x \in S
    OBVIOUS
  <2> HIDE DEF S, x
  <2> QED
    BY <2>1
<1> HIDE DEF e, f, S
<1>3. b \in Seq(S) /\ Len(b) = 7 /\ (\A i \in 1 .. 6 : b[i] = e[i]) /\ b[7] = x
  <2> HIDE DEF x
  <2>1. /\ b \in Seq(S) /\ Len(b) = Len(e) + Len(f)
        /\ \A i \in 1 .. Len(e) : b[i] = e[i]
        /\ Len(f) = 1 => b[Len(e) + 1] = f[1]
    BY <1>1, <1>2, Joined
  <2> HIDE DEF b
  <2> QED
    BY <1>1, <1>2, <2>1
<1>4. IsList(b) /\ Len(b) = 7
  BY <1>3, Elements
<1> HIDE DEF b
<1>5. Rest(c, 2) /\ c[2] = Unlock("init") /\ Len(c) \in Nat /\ Len(c) >= 2
  BY CallListFacts DEF Follows, Rest
<1>6. Rest(d, Len(b) + 1) /\ Replaces(d, c, Len(c), b, Len(b))
  BY <1>4, <1>5, PutInside
<1> HIDE DEF d
<1>7. Rest(d, 8) /\ Replaces(d, c, Len(c), b, 7)
  BY <1>4, <1>6
<1>8. (\A i \in 1 .. 7 : d[i] = b[i]) /\ d[8] = c[2]
  <2>1. d[8] = c[(8 - 7) + 1]
    BY <1>5, <1>7 DEF Replaces
  <2> QED
    BY <1>7, <2>1 DEF Replaces
<1>9. ASSUME NEW i \in 1 .. 7 - 1 PROVE d[i] = <<"Init", Subsystems[(1 + i) - 1]>>
  <2>1. i \in 1 .. 6 /\ i \in 1 .. 7 /\ (1 + i) - 1 = i
    OBVIOUS
  <2> QED
    BY <2>1, <1>1, <1>3, <1>8
<1>10. d[8 - 1] = x /\ d[9 - 1] = Unlock("init") /\ Rest(d, 9 - 1)
  BY <1>3, <1>5, <1>7, <1>8
<1>11. Follows(d, "build", 1)
  BY <1>9, <1>10 DEF Follows
<1>12. b[7] = x /\ \A i \in 1 .. 6 : b[i][1] = "Init"
  BY <1>1, <1>3
<1> QED
  BY <1>4, <1>11, <1>12 DEF d, b, e, f
-----------------------------------------------------------------------------
(* What holds when every thread is at F and k is the next subsystem.       *)

Names == {Subsystems[j] : j \in DOMAIN Subsystems}

\* Calls that an initialised library is needed for, and those that see to it.
Needs == {"GetState", "Store", "Deliver", "NewDict", "SetSub", "ReadRefs", "WriteRefs",
          "IfLast", "DictGone", "FreeDict"}

Gives == {"InitParser", "InitOnce", "SetInitialized", "DictCreate"}

\* The same for the state of the thread.
NeedState == {"Store", "Deliver"}

GiveState == {"GetState", "CopyContext"}

\* t has its state.
Served(t) == lib.initialized /\ (lib.main = id[t] \/ tls[t].there)

Ids(k) ==
  /\ threaded \in BOOLEAN
  /\ id = [t \in Thread |-> id[t]] /\ id[First] # 0
  /\ \A t, u \in Thread : id[t] = id[u] /\ id[t] # 0 => t = u
  /\ ~threaded => \A t \in Thread \ {First} : id[t] = 0
  /\ k > 1 => lib.main # 0 /\ (~threaded => lib.main = id[First])

Built(F, k) ==
  /\ lib = [initialized |-> lib.initialized, main |-> lib.main, made |-> lib.made]
  /\ lib.initialized \in BOOLEAN
  /\ lib.made = [s \in Names |-> lib.made[s]]
  /\ \A j \in 1 .. 6 : lib.made[Subsystems[j]] = IF j < k THEN 1 ELSE 0
  /\ lib.initialized => k = 7
  /\ ~lib.initialized /\ k > 1 => \E t \in Thread : F[t] = "build"
  /\ \A t \in Thread : /\ F[t] = "build" => ~lib.initialized
                       /\ F[t] \in {"closeInit"} \cup AtDefaults => lib.initialized

Closed(F) ==
  /\ mutex = [m \in Mutexes |-> mutex[m]]
  /\ \A t \in Thread : /\ F[t] # "none" => id[t] # 0
                       /\ threaded /\ F[t] \in Initialising => mutex["init"] = t
                       /\ threaded /\ F[t] \in InDefaults => mutex["defaults"] = t

Ordered ==
  \A t \in Thread : /\ Prepared(code[t], Needs, Gives, lib.initialized)
                    /\ Prepared(code[t], NeedState, GiveState, Served(t))

Fresh ==
  lib.initialized \/ /\ \A t \in Thread : ~tls[t].there /\ told[t].set = NoHandler
                     /\ \A d \in Dict : dicts[d].refs = 0

Formed ==
  /\ defaults = [handler |-> defaults.handler, context |-> defaults.context,
                 setting |-> defaults.setting]
  /\ tls = [t \in Thread |-> tls[t]]
  /\ \A t \in Thread :
       /\ tls[t] = [there |-> tls[t].there, pair |-> tls[t].pair]
       /\ tls[t].pair = [handler |-> tls[t].pair.handler, context |-> tls[t].pair.context]
  /\ told = [t \in Thread |-> told[t]]
  /\ \A t \in Thread :
       told[t] = [set |-> told[t].set, reached |-> told[t].reached, own |-> told[t].own,
                  new |-> told[t].new, old |-> told[t].old]

\* A handler stands with its own context.
Paired(F) ==
  /\ globals.handler = globals.context
  /\ \A t \in Thread : tls[t].there => tls[t].pair.handler = tls[t].pair.context
  /\ (\A t \in Thread : F[t] # "setHandler") => defaults.handler = defaults.context
  /\ \A t \in Thread : /\ F[t] = "setHandler" => code[t][1][2] = defaults.context
                       /\ F[t] = "copyContext" => tls[t].pair.handler = defaults.handler

Copying(F) ==
  \A t \in Thread : F[t] \in {"askCopy", "copyHandler", "copyContext"}
                    => ~tls[t].there /\ lib.main # id[t]

\* The handler that t has set is where its errors go.
HasSet(t) ==
  /\ id[t] # 0
  /\ lib.main = id[t] => globals.handler = told[t].set
  /\ lib.main # id[t] => tls[t].there /\ tls[t].pair.handler = told[t].set

Heard ==
  \A t \in Thread : /\ told[t].own /\ told[t].reached.handler = told[t].reached.context
                    /\ told[t].set = NoHandler \/ code[t] = <<>> \/ HasSet(t)

Placed(F, k) ==
  /\ Shape(F, k) /\ Ids(k) /\ Built(F, k) /\ Closed(F) /\ Ordered /\ Fresh
  /\ Formed /\ Paired(F) /\ Copying(F) /\ Heard
-----------------------------------------------------------------------------
(* What a step leaves as it is.                                            *)

LEMMA IdsKept ==
  ASSUME NEW k, Ids(k), UNCHANGED <<threaded, id, lib>>
  PROVE  Ids(k)'
BY DEF Ids

\* At most one thread is inside each of the two mutexes.
LEMMA Alone ==
  ASSUME NEW F, NEW k, Ids(k), Closed(F), NEW t \in Thread, NEW u \in Thread
  PROVE  /\ F[t] \in Initialising /\ F[u] \in Initialising => t = u
         /\ F[t] \in InDefaults /\ F[u] \in InDefaults => t = u
<1>1. ASSUME F[t] # "none", F[u] # "none", ~threaded PROVE t = u
  <2>1. id[t] # 0 /\ id[u] # 0
    BY <1>1 DEF Closed
  <2>2. t = First /\ u = First
    BY <1>1, <2>1 DEF Ids
  <2> QED
    BY <2>2
<1>2. "none" \notin Initialising /\ "none" \notin InDefaults
  BY DEF Initialising, InDefaults
<1>3. CASE threaded
  BY <1>3 DEF Closed
<1>4. CASE ~threaded
  BY <1>1, <1>2, <1>4
<1> QED
  BY <1>3, <1>4

LEMMA WentThere ==
  ASSUME NEW F \in [Thread -> Labels], NEW t \in Thread, NEW l \in Labels
  PROVE  /\ Went(F, t, l) \in [Thread -> Labels] /\ Went(F, t, l)[t] = l
         /\ \A u \in Thread \ {t} : Went(F, t, l)[u] = F[u]
BY DEF Went

LEMMA BuiltKept ==
  ASSUME NEW F \in [Thread -> Labels], NEW k, Built(F, k), NEW t \in Thread, NEW l \in Labels,
         UNCHANGED lib, F[t] = "build" => l = "build",
         l = "build" => ~lib.initialized,
         l \in {"closeInit"} \cup AtDefaults => lib.initialized
  PROVE  Built(Went(F, t, l), k)'
<1> DEFINE G == Went(F, t, l)
<1>1. G[t] = l /\ \A u \in Thread \ {t} : G[u] = F[u]
  BY WentThere
<1> HIDE DEF G
<1>2. \A u \in Thread : /\ G[u] = "build" => ~lib.initialized
                        /\ G[u] \in {"closeInit"} \cup AtDefaults => lib.initialized
  BY <1>1 DEF Built
<1>3. ~lib.initialized /\ k > 1 => \E u \in Thread : G[u] = "build"
  BY <1>1 DEF Built
<1>4. Built(G, k)
  BY <1>2, <1>3 DEF Built
<1>5. Built(G, k)'
  BY <1>4 DEF Built, G
<1> QED
  BY <1>5 DEF G

LEMMA ClosedKept ==
  ASSUME NEW F \in [Thread -> Labels], Closed(F), NEW t \in Thread, NEW l \in Labels,
         id[t] # 0, UNCHANGED <<threaded, id, mutex>>,
         l \in Initialising => F[t] \in Initialising,
         l \in InDefaults => F[t] \in InDefaults
  PROVE  Closed(Went(F, t, l))'
<1> DEFINE G == Went(F, t, l)
<1>1. G[t] = l /\ \A u \in Thread \ {t} : G[u] = F[u]
  BY WentThere
<1> HIDE DEF G
<1>2. ASSUME NEW u \in Thread
      PROVE  /\ G[u] # "none" => id[u] # 0
             /\ threaded /\ G[u] \in Initialising => mutex["init"] = u
             /\ threaded /\ G[u] \in InDefaults => mutex["defaults"] = u
  BY <1>1 DEF Closed
<1>3. Closed(G)
  BY <1>2 DEF Closed
<1>4. Closed(G)'
  BY <1>3 DEF Closed, G
<1> QED
  BY <1>4 DEF G

LEMMA FreshKept ==
  ASSUME Fresh, lib'.initialized \/ UNCHANGED <<tls, told, dicts>>, lib.initialized => lib'.initialized
  PROVE  Fresh'
BY DEF Fresh

LEMMA FormedKept ==
  ASSUME Formed, UNCHANGED <<defaults, tls, told>>
  PROVE  Formed'
BY DEF Formed

\* The calls of t are prepared for.
LEMMA OrderedKept ==
  ASSUME NEW F, NEW k, Shape(F, k), Ordered, NEW t \in Thread, code[t] # <<>>,
         NEW b, IsList(b), code'[t] = b \o Tail(code[t]),
         \A u \in Thread \ {t} : code'[u] = code[u] /\ (Served(u) => Served(u)'),
         lib.initialized => lib'.initialized, Served(t) => Served(t)',
         Prepared(b, Needs, Gives, lib'.initialized),
         code[t][1][1] \in Gives => lib'.initialized \/ \E i \in 1 .. Len(b) : b[i][1] \in Gives,
         Prepared(b, NeedState, GiveState, Served(t)'),
         code[t][1][1] \in GiveState => Served(t)' \/ \E i \in 1 .. Len(b) : b[i][1] \in GiveState
  PROVE  Ordered'
<1> DEFINE c == code[t]
           d == b \o Tail(c)
<1>1. IsList(c) /\ c # <<>>
  BY DEF Shape
<1>2. Prepared(c, Needs, Gives, lib.initialized) /\ Prepared(c, NeedState, GiveState, Served(t))
  BY DEF Ordered
<1>3. Prepared(d, Needs, Gives, lib'.initialized)
  <2> HIDE DEF c
  <2>1. c[1][1] \in Gives => lib'.initialized \/ \E i \in 1 .. Len(b) : b[i][1] \in Gives
    BY DEF c
  <2> QED
    BY <1>1, <1>2, <2>1, PreparedKept
<1>4. Prepared(d, NeedState, GiveState, Served(t)')
  <2> HIDE DEF c
  <2>1. c[1][1] \in GiveState => Served(t)' \/ \E i \in 1 .. Len(b) : b[i][1] \in GiveState
    BY DEF c
  <2> QED
    BY <1>1, <1>2, <2>1, PreparedKept
<1>5. code'[t] = d
  OBVIOUS
<1> HIDE DEF d
<1>6. ASSUME NEW u \in Thread
      PROVE  /\ Prepared(code'[u], Needs, Gives, lib'.initialized)
             /\ Prepared(code'[u], NeedState, GiveState, Served(u)')
  <2>1. CASE u = t
    BY <2>1, <1>3, <1>4, <1>5
  <2>2. CASE u # t
    <3>1. /\ Prepared(code[u], Needs, Gives, lib.initialized)
          /\ Prepared(code[u], NeedState, GiveState, Served(u))
      BY DEF Ordered
    <3>2. code'[u] = code[u] /\ (Served(u) => Served(u)')
      BY <2>2
    <3> QED
      BY <3>1, <3>2 DEF Prepared
  <2> QED
    BY <2>1, <2>2
<1> QED
  BY <1>6 DEF Ordered

LEMMA PairedKept ==
  ASSUME NEW F \in [Thread -> Labels], Paired(F), NEW t \in Thread, NEW l \in Labels,
         UNCHANGED <<globals, tls>>, defaults'.handler = defaults.handler,
         defaults'.context = defaults.context,
         \A u \in Thread \ {t} : code'[u] = code[u],
         l \notin {"setHandler", "copyContext"}, F[t] # "setHandler"
  PROVE  Paired(Went(F, t, l))'
<1> DEFINE G == Went(F, t, l)
<1>1. G[t] = l /\ (\A u \in Thread \ {t} : G[u] = F[u]) /\ G' = G
  BY WentThere DEF Went
<1> HIDE DEF G
<1>2. \A u \in Thread : /\ G[u] = "setHandler" => code'[u][1][2] = defaults.context
                        /\ G[u] = "copyContext" => tls[u].pair.handler = defaults.handler
  BY <1>1 DEF Paired
<1>3. (\A u \in Thread : G[u] # "setHandler") => \A u \in Thread : F[u] # "setHandler"
  BY <1>1
<1>4. Paired(G)'
  BY <1>1, <1>2, <1>3 DEF Paired
<1> QED
  BY <1>4 DEF G

LEMMA CopyingKept ==
  ASSUME NEW F \in [Thread -> Labels], Copying(F), NEW t \in Thread, NEW l \in Labels,
         UNCHANGED <<id, lib>>,
         \A u \in Thread : tls'[u].there = tls[u].there,
         l \in {"askCopy", "copyHandler", "copyContext"}
           => F[t] \in {"askCopy", "copyHandler", "copyContext"} \/ (~tls[t].there /\ lib.main # id[t])
  PROVE  Copying(Went(F, t, l))'
<1> DEFINE G == Went(F, t, l)
<1>1. G[t] = l /\ (\A u \in Thread \ {t} : G[u] = F[u]) /\ G' = G
  BY WentThere DEF Went
<1> HIDE DEF G
<1>2. ASSUME NEW u \in Thread, G[u] \in {"askCopy", "copyHandler", "copyContext"}
      PROVE  ~tls[u].there /\ lib.main # id[u]
  BY <1>1, <1>2 DEF Copying
<1>3. Copying(G)'
  BY <1>1, <1>2 DEF Copying
<1> QED
  BY <1>3 DEF G

LEMMA HeardKept ==
  ASSUME Heard, NEW t \in Thread, code[t] # <<>>,
         UNCHANGED <<id, globals, tls>>, Fresh, lib.initialized => UNCHANGED lib,
         \A u \in Thread : /\ told'[u].set = told[u].set /\ told'[u].own = told[u].own
                           /\ told'[u].reached = told[u].reached,
         \A u \in Thread \ {t} : code'[u] = code[u]
  PROVE  Heard'
<1>1. CASE lib.initialized
  <2>1. UNCHANGED lib
    BY <1>1
  <2>2. ASSUME NEW u \in Thread
        PROVE  told[u].set = NoHandler \/ code'[u] = <<>> \/ HasSet(u)
    BY DEF Heard
  <2>3. \A u \in Thread : HasSet(u)' <=> HasSet(u)
    BY <2>1 DEF HasSet
  <2> QED
    BY <2>2, <2>3 DEF Heard
<1>2. CASE ~lib.initialized
  BY <1>2 DEF Heard, Fresh
<1> QED
  BY <1>1, <1>2
-----------------------------------------------------------------------------
(* The steps.                                                              *)

\* t, at l, goes on with the calls b.
Goes(F, k, t, l, b) ==
  /\ Placed(F, k) /\ id[t] # 0 /\ code[t] # <<>> /\ Calls(t, b) /\ IsList(b)
  /\ Follows(b \o Tail(code[t]), l, k)

\* b needs nothing that the library, or the thread's state, do not have.
Ready(t, b) ==
  /\ lib.initialized \/ After(b, Len(b), Needs, Gives)
  /\ code[t][1][1] \in Gives => lib'.initialized \/ \E i \in 1 .. Len(b) : b[i][1] \in Gives
  /\ Served(t)' \/ After(b, Len(b), NeedState, GiveState)
  /\ code[t][1][1] \in GiveState => Served(t)' \/ \E i \in 1 .. Len(b) : b[i][1] \in GiveState

\* What t goes to.
Goal(F, t, l) ==
  \/ l = F[t] /\ l = "none"
  \/ F[t] = "none" /\ l = "askInit"
  \/ F[t] = "none" /\ l = "askCopy" /\ lib.initialized /\ ~tls[t].there /\ lib.main # id[t]
  \/ F[t] = "none" /\ l \in {"askSet", "askSwap"} /\ lib.initialized
  \/ F[t] = "checkInit" /\ l = "closeInit" /\ lib.initialized
  \/ F[t] = "checkInit" /\ l = "build" /\ ~lib.initialized

\* Only the calls change.
LEMMA CallsOnly ==
  ASSUME NEW F, NEW k, NEW t \in Thread, NEW l \in Labels, NEW b, Goes(F, k, t, l, b),
         Ready(t, b), Goal(F, t, l),
         UNCHANGED <<threaded, id, mutex, lib, defaults, globals, tls, dicts, told>>
  PROVE  Placed(Went(F, t, l), k)'
<1>1. F \in [Thread -> Labels] /\ k \in 1 .. 7 /\ Shape(F, k)
  BY DEF Goes, Placed, Shape
<1>2. /\ Shape(Went(F, t, l), k)' /\ code'[t] = b \o Tail(code[t])
      /\ \A u \in Thread \ {t} : code'[u] = code[u]
  <2>1. Calls(t, b) /\ IsList(b) /\ Follows(b \o Tail(code[t]), l, k) /\ code[t] # <<>>
    BY DEF Goes
  <2>2. OwnTurn(F, t, k, k)
    BY DEF OwnTurn
  <2> QED
    BY <1>1, <2>1, <2>2, Moved
<1>3. Shape(Went(F, t, l), k)'
  BY <1>2
<1>4. Ids(k)'
  BY IdsKept DEF Goes, Placed
<1>5. Built(Went(F, t, l), k)'
  <2>1. Built(F, k)
    BY DEF Goes, Placed
  <2>2. F[t] = "build" => l = "build"
    BY DEF Goal
  <2>3. l = "build" => ~lib.initialized
    BY DEF Goal
  <2>4. l \in {"closeInit"} \cup AtDefaults => lib.initialized
    BY DEF Goal, AtDefaults, InDefaults
  <2> QED
    BY <1>1, <2>1, <2>2, <2>3, <2>4, BuiltKept
<1>6. Closed(Went(F, t, l))'
  <2>1. Closed(F) /\ id[t] # 0
    BY DEF Goes, Placed
  <2>2. l \in Initialising => F[t] \in Initialising
    BY DEF Goal, Initialising
  <2>3. l \in InDefaults => F[t] \in InDefaults
    BY DEF Goal, InDefaults
  <2> QED
    BY <1>1, <2>1, <2>2, <2>3, ClosedKept
<1>7. Ordered'
  <2>1. Ordered /\ code[t] # <<>> /\ IsList(b)
    BY DEF Goes, Placed
  <2>2. \A u \in Thread : Served(u)' <=> Served(u)
    BY DEF Served
  <2>3. Prepared(b, Needs, Gives, lib'.initialized) /\ Prepared(b, NeedState, GiveState, Served(t)')
    BY DEF Prepared, Ready
  <2>4. /\ code[t][1][1] \in Gives => lib'.initialized \/ \E i \in 1 .. Len(b) : b[i][1] \in Gives
        /\ code[t][1][1] \in GiveState => Served(t)' \/ \E i \in 1 .. Len(b) : b[i][1] \in GiveState
    BY DEF Ready
  <2> QED
    BY <1>1, <1>2, <2>1, <2>2, <2>3, <2>4, OrderedKept
<1>8. Fresh'
  BY FreshKept DEF Goes, Placed
<1>9. Formed'
  BY FormedKept DEF Goes, Placed
<1>10. Paired(Went(F, t, l))'
  <2>1. Paired(F)
    BY DEF Goes, Placed
  <2>2. l \notin {"setHandler", "copyContext"} /\ F[t] # "setHandler"
    BY DEF Goal
  <2> QED
    BY <1>1, <1>2, <2>1, <2>2, PairedKept
<1>11. Copying(Went(F, t, l))'
  <2>1. Copying(F)
    BY DEF Goes, Placed
  <2>2. l \in {"askCopy", "copyHandler", "copyContext"} => ~tls[t].there /\ lib.main # id[t]
    BY DEF Goal
  <2> QED
    BY <1>1, <2>1, <2>2, CopyingKept
<1>12. Heard'
  BY <1>2, HeardKept DEF Goes, Placed
<1> QED
  BY <1>3, <1>4, <1>5, <1>6, <1>7, <1>8, <1>9, <1>10, <1>11, <1>12 DEF Placed

\* The invariant.
Somewhere == \E F, k : Placed(F, k)

LEMMA Found ==
  ASSUME NEW F, NEW t, NEW l, NEW k, Placed(Went(F, t, l), k)'
  PROVE  Somewhere'
<1> DEFINE G == Went(F, t, l)
<1>1. Placed(G, k)'
  OBVIOUS
<1> QED
  BY <1>1 DEF Somewhere, Went

\* What is known of a thread that is about to call f.
LEMMA Facing ==
  ASSUME NEW F, NEW k, Placed(F, k), NEW t \in Thread, NEW f, At(t, f)
  PROVE  /\ F \in [Thread -> Labels] /\ k \in 1 .. 7
         /\ IsList(code[t]) /\ code[t] # <<>> /\ id[t] # 0 /\ Follows(code[t], F[t], k)
         /\ code[t][1][1] = f /\ Arg(t) = code[t][1][2]
<1>1. F \in [Thread -> Labels] /\ k \in 1 .. 7 /\ IsList(code[t]) /\ Follows(code[t], F[t], k)
  BY DEF Placed, Shape
<1>2. code[t] # <<>> /\ id[t] # 0 /\ Head(code[t])[1] = f
  BY DEF At
<1>3. Head(code[t]) = code[t][1]
  BY <1>1, CallListFacts
<1> QED
  BY <1>1, <1>2, <1>3 DEF Arg

LEMMA OutsideOfLocks ==
  ASSUME NEW F, NEW k, Placed(F, k), NEW t \in Thread, NEW f, At(t, f), f \notin Inner \cup LockCalls
  PROVE  F[t] = "none"
<1>1. /\ IsList(code[t]) /\ code[t] # <<>> /\ Follows(code[t], F[t], k) /\ code[t][1][1] = f
      /\ F[t] \in Labels /\ k \in 1 .. 7
  BY Facing
<1> DEFINE c == code[t]
           l == F[t]
<1> HIDE DEF c, l
<1>2. c[1][1] \notin Inner \cup LockCalls => l = "none"
  BY <1>1, Whereabouts DEF c, l
<1> QED
  BY <1>1, <1>2 DEF c, l

\* A call that only makes others, none of them in a lock.
LEMMA Quiet ==
  ASSUME NEW F, NEW k, Placed(F, k), NEW t \in Thread, NEW f, At(t, f), F[t] = "none",
         NEW b, IsList(b), \A i \in 1 .. Len(b) : Loose(b[i]), Calls(t, b), Ready(t, b),
         UNCHANGED <<threaded, id, mutex, lib, defaults, globals, tls, dicts, told>>
  PROVE  Somewhere'
<1>1. /\ F \in [Thread -> Labels] /\ k \in 1 .. 7 /\ IsList(code[t]) /\ code[t] # <<>>
      /\ id[t] # 0 /\ Follows(code[t], F[t], k)
  BY Facing
<1>2. Rest(code[t], 0)
  BY <1>1 DEF Follows
<1>3. Follows(b \o Tail(code[t]), "none", k)
  <2>1. Rest(b \o Tail(code[t]), 0)
    <3>1. 0 \in Nat /\ 0 < 2
      OBVIOUS
    <3> QED
      BY <1>1, <1>2, <3>1, RestKept
  <2> QED
    BY <2>1 DEF Follows
<1>4. "none" \in Labels
  BY DEF Labels
<1>5. Goes(F, k, t, "none", b)
  BY <1>1, <1>3 DEF Goes
<1>6. Goal(F, t, "none")
  BY DEF Goal
<1>7. Placed(Went(F, t, "none"), k)'
  BY <1>4, <1>5, <1>6, CallsOnly
<1> QED
  BY <1>7, Found

LEMMA QuietReturn ==
  ASSUME NEW F, NEW k, Placed(F, k), NEW t \in Thread, NEW f, At(t, f), F[t] = "none",
         f \in Gives => lib.initialized, f \in GiveState => Served(t), Returns(t),
         UNCHANGED <<threaded, id, mutex, lib, defaults, globals, tls, dicts, told>>
  PROVE  Somewhere'
<1>1. IsList(<<>>) /\ Len(<<>>) = 0 /\ code[t][1][1] = f
  BY EmptyList, Facing
<1>2. Served(t)' <=> Served(t)
  BY DEF Served
<1>3. Ready(t, <<>>)
  BY <1>1, <1>2 DEF Ready, After
<1>4. \A i \in 1 .. Len(<<>>) : Loose(<<>>[i])
  BY <1>1
<1>5. Calls(t, <<>>)
  BY DEF Returns
<1> QED
  BY <1>1, <1>3, <1>4, <1>5, Quiet

\* What the library's users do when it is initialised.
LEMMA ReadyWhenInitialised ==
  ASSUME NEW t \in Thread, NEW b, lib.initialized, lib' = lib,
         \A i \in 1 .. Len(b) : b[i][1] \notin NeedState, code[t][1][1] \notin GiveState
  PROVE  Ready(t, b)
BY DEF Ready, After

LEMMA Simple ==
  ASSUME NEW F, NEW k, Placed(F, k), NEW t \in Thread,
         \/ TakeRecursive(t) \/ GiveRecursive(t) \/ LockLibrary(t) \/ Join(t)
  PROVE  Somewhere'
<1>1. PICK f \in {"RMutexLock", "RMutexUnlock", "LockLibrary", "Join"} : At(t, f)
  BY DEF TakeRecursive, GiveRecursive, LockLibrary, Join
<1>2. Returns(t) /\ UNCHANGED <<threaded, id, mutex, lib, defaults, globals, tls, dicts, told>>
  BY DEF TakeRecursive, GiveRecursive, LockLibrary, Join, LockCall, UnlockCall, rvars
<1>3. f \notin Inner \cup LockCalls /\ f \notin Gives /\ f \notin GiveState
  BY <1>1 DEF Inner, LockCalls, Gives, GiveState
<1>4. F[t] = "none"
  BY <1>1, <1>3, OutsideOfLocks
<1> QED
  BY <1>1, <1>2, <1>3, <1>4, QuietReturn

\* A call that goes on in a lock.
LEMMA IntoLock ==
  ASSUME NEW F, NEW k, Placed(F, k), NEW t \in Thread, NEW f, At(t, f), NEW l \in Labels,
         NEW b, IsList(b), Calls(t, b), Follows(b \o Tail(code[t]), l, k),
         Ready(t, b), Goal(F, t, l),
         UNCHANGED <<threaded, id, mutex, lib, defaults, globals, tls, dicts, told>>
  PROVE  Somewhere'
<1>1. code[t] # <<>> /\ id[t] # 0
  BY Facing
<1>2. Goes(F, k, t, l, b)
  BY <1>1 DEF Goes
<1>3. Placed(Went(F, t, l), k)'
  BY <1>2, CallsOnly
<1> QED
  BY <1>3, Found

\* What is read outside the lock is the flag, or FALSE.
LEMMA FlagIsRead ==
  ASSUME NEW t, InitParser(t)
  PROVE  \/ Calls(t, Locked("init", <<<<"InitOnce">>>>))
         \/ lib.initialized /\ Calls(t, <<>>)
<1>1. PICK seen \in FlagRead(t) :
        Calls(t, IF seen THEN <<>> ELSE Locked("init", <<<<"InitOnce">>>>))
  BY DEF InitParser
<1>2. seen = lib.initialized \/ seen = FALSE
  BY DEF FlagRead
<1>3. CASE seen
  BY <1>1, <1>2, <1>3
<1>4. CASE ~seen
  BY <1>1, <1>4
<1> QED
  BY <1>3, <1>4

LEMMA InitParserStep ==
  ASSUME NEW F, NEW k, Placed(F, k), NEW t \in Thread, InitParser(t)
  PROVE  Somewhere'
<1> DEFINE b == Locked("init", <<<<"InitOnce">>>>)
<1>1. /\ At(t, "InitParser")
      /\ Calls(t, b) \/ (lib.initialized /\ Calls(t, <<>>))
      /\ UNCHANGED <<threaded, id, mutex, lib, defaults, globals, tls, dicts, told>>
  BY FlagIsRead DEF InitParser, rvars
<1>2. F[t] = "none"
  <2>1. "InitParser" \notin Inner \cup LockCalls
    BY DEF Inner, LockCalls
  <2> QED
    BY <1>1, <2>1, OutsideOfLocks
<1>3. CASE lib.initialized /\ Calls(t, <<>>)
  <2>1. Returns(t)
    BY <1>3 DEF Returns
  <2>2. "InitParser" \notin GiveState
    BY DEF GiveState
  <2> HIDE DEF b
  <2> QED
    BY <1>1, <1>2, <1>3, <2>1, <2>2, QuietReturn
<1>4. CASE Calls(t, b)
  <2>1. IsList(code[t]) /\ code[t] # <<>> /\ Follows(code[t], "none", k) /\ code[t][1][1] = "InitParser"
    BY <1>1, <1>2, Facing
  <2>2. IsList(b) /\ Follows(b \o Tail(code[t]), "askInit", k)
    BY <2>1, LocksInit
  <2>3. Len(b) = 3 /\ b[1] = Lock("init") /\ b[2] = <<"InitOnce">> /\ b[3] = Unlock("init")
    BY <2>1, LocksInit
  <2> HIDE DEF b
  <2>4. \A i \in 1 .. 3 : i = 1 \/ i = 2 \/ i = 3
    OBVIOUS
  <2>5. After(b, Len(b), Needs, Gives)
    BY <2>3, <2>4 DEF After, Needs, Lock, Unlock
  <2>6. After(b, Len(b), NeedState, GiveState)
    BY <2>3, <2>4 DEF After, NeedState, Lock, Unlock
  <2>7. 2 \in 1 .. Len(b) /\ b[2][1] \in Gives
    BY <2>3 DEF Gives
  <2>8. code[t][1][1] \notin GiveState
    BY <2>1 DEF GiveState
  <2>9. Ready(t, b)
    BY <2>5, <2>6, <2>7, <2>8 DEF Ready
  <2>10. "askInit" \in Labels /\ Goal(F, t, "askInit")
    BY <1>2 DEF Labels, Goal
  <2> QED
    BY <1>1, <1>4, <2>2, <2>9, <2>10, IntoLock
<1> QED
  BY <1>1, <1>3, <1>4

LEMMA InitOnceStep ==
  ASSUME NEW F, NEW k, Placed(F, k), NEW t \in Thread, InitOnce(t)
  PROVE  Somewhere'
<1> DEFINE b == [i \in DOMAIN Subsystems |-> <<"Init", Subsystems[i]>>] \o <<<<"SetInitialized">>>>
<1>1. /\ At(t, "InitOnce") /\ Calls(t, IF lib.initialized THEN <<>> ELSE b)
      /\ UNCHANGED <<threaded, id, mutex, lib, defaults, globals, tls, dicts, told>>
  BY DEF InitOnce, rvars
<1> HIDE DEF b
<1>2. /\ IsList(code[t]) /\ code[t] # <<>> /\ Follows(code[t], F[t], k) /\ code[t][1][1] = "InitOnce"
      /\ F \in [Thread -> Labels] /\ k \in 1 .. 7
  BY <1>1, Facing
<1>3. F[t] = "checkInit"
  <2> DEFINE c == code[t]
             l == F[t]
  <2>1. IsList(c) /\ c # <<>> /\ Follows(c, l, k) /\ l \in Labels /\ c[1][1] = "InitOnce"
    BY <1>2
  <2> HIDE DEF c, l
  <2>2. l = "checkInit"
    BY <1>2, <2>1, Whereabouts
  <2> QED
    BY <2>2 DEF l
<1>4. CASE lib.initialized
  <2>1. Follows(<<>> \o Tail(code[t]), "closeInit", k)
    BY <1>2, <1>3, Onward
  <2>2. IsList(<<>>) /\ Len(<<>>) = 0
    BY EmptyList
  <2>3. Ready(t, <<>>)
    <3>1. code[t][1][1] \notin GiveState
      BY <1>2 DEF GiveState
    <3> QED
      BY <1>1, <1>4, <2>2, <3>1, ReadyWhenInitialised
  <2>4. "closeInit" \in Labels /\ Goal(F, t, "closeInit")
    BY <1>3, <1>4 DEF Labels, Initialising, Goal
  <2>5. Calls(t, <<>>)
    BY <1>1, <1>4
  <2> QED
    BY <1>1, <2>1, <2>2, <2>3, <2>4, <2>5, IntoLock
<1>5. CASE ~lib.initialized
  <2>1. /\ Len(b) = 7 /\ b[7] = <<"SetInitialized">> /\ \A i \in 1 .. 6 : b[i][1] = "Init"
        /\ IsList(b) /\ Follows(b \o Tail(code[t]), "build", 1)
    <3>1. Follows(code[t], "checkInit", k)
      BY <1>2, <1>3
    <3> QED
      BY <1>2, <3>1, StartsToBuild DEF b
  <2>2. k = 1
    <3>1. ASSUME NEW u \in Thread, F[u] = "build" PROVE FALSE
      <4>1. Ids(k) /\ Closed(F)
        BY DEF Placed
      <4>2. F[u] \in Initialising /\ F[t] \in Initialising
        BY <3>1, <1>3 DEF Initialising
      <4>3. t = u
        BY <4>1, <4>2, Alone
      <4> QED
        BY <1>3, <3>1, <4>3
    <3>2. Built(F, k)
      BY DEF Placed
    <3>3. ~(k > 1)
      BY <1>5, <3>1, <3>2 DEF Built
    <3> QED
      BY <1>2, <3>3
  <2>3. Ready(t, b)
    <3>1. \A i \in 1 .. 7 : i \in 1 .. 6 \/ i = 7
      OBVIOUS
    <3>2. \A i \in 1 .. Len(b) : b[i][1] \in {"Init", "SetInitialized"}
      BY <2>1, <3>1
    <3>3. After(b, Len(b), Needs, Gives)
      BY <3>2 DEF After, Needs
    <3>4. After(b, Len(b), NeedState, GiveState)
      BY <3>2 DEF After, NeedState
    <3>5. 7 \in 1 .. Len(b) /\ b[7][1] \in Gives
      BY <2>1 DEF Gives
    <3>6. code[t][1][1] \notin GiveState
      BY <1>2 DEF GiveState
    <3> QED
      BY <3>3, <3>4, <3>5, <3>6 DEF Ready
  <2>4. "build" \in Labels /\ Goal(F, t, "build")
    BY <1>3, <1>5 DEF Labels, Initialising, Goal
  <2>5. Calls(t, b)
    BY <1>1, <1>5
  <2>6. Follows(b \o Tail(code[t]), "build", k)
    BY <2>1, <2>2
  <2> QED
    BY <1>1, <2>1, <2>3, <2>4, <2>5, <2>6, IntoLock
<1> QED
  BY <1>4, <1>5

\* When the library is initialised, the main thread is the one that did it.
LEMMA MainThread ==
  ASSUME NEW F, NEW k, Placed(F, k), NEW t \in Thread, lib.initialized, id[t] # 0
  PROVE  IsMain(t) <=> lib.main = id[t]
<1>1. k = 7
  BY DEF Placed, Built
<1>2. k > 1
  BY <1>1
<1>3. ASSUME ~threaded PROVE lib.main = id[t]
  <2>1. lib.main = id[First]
    BY <1>2, <1>3 DEF Placed, Ids
  <2>2. t = First
    BY <1>3 DEF Placed, Ids
  <2> QED
    BY <2>1, <2>2
<1> QED
  BY <1>3 DEF IsMain

\* What t needs for the call is there.
LEMMA Given ==
  ASSUME NEW F, NEW k, Placed(F, k), NEW t \in Thread, NEW f, At(t, f)
  PROVE  /\ f \in Needs => lib.initialized
         /\ f \in NeedState => Served(t)
<1>1. IsList(code[t]) /\ code[t] # <<>> /\ code[t][1][1] = f
  BY Facing
<1>2. Len(code[t]) \in Nat /\ Len(code[t]) > 0
  BY <1>1, CallListFacts
<1>3. 1 \in 1 .. Len(code[t]) /\ \A j \in 1 .. 1 - 1 : FALSE
  BY <1>2
<1>4. /\ f \in Needs => ~After(code[t], Len(code[t]), Needs, Gives)
      /\ f \in NeedState => ~After(code[t], Len(code[t]), NeedState, GiveState)
  BY <1>1, <1>3 DEF After
<1>5. /\ Prepared(code[t], Needs, Gives, lib.initialized)
      /\ Prepared(code[t], NeedState, GiveState, Served(t))
  BY DEF Placed, Ordered
<1> QED
  BY <1>4, <1>5 DEF Prepared

LEMMA GetStateStep ==
  ASSUME NEW F, NEW k, Placed(F, k), NEW t \in Thread, GetState(t)
  PROVE  Somewhere'
<1> DEFINE b == Locked("defaults", <<<<"CopyHandler">>, <<"CopyContext">>>>)
<1>1. /\ At(t, "GetState") /\ Calls(t, IF IsMain(t) \/ tls[t].there THEN <<>> ELSE b)
      /\ UNCHANGED <<threaded, id, mutex, lib, defaults, globals, tls, dicts, told>>
  BY DEF GetState, rvars
<1> HIDE DEF b
<1>2. /\ IsList(code[t]) /\ code[t] # <<>> /\ Follows(code[t], F[t], k) /\ code[t][1][1] = "GetState"
      /\ F \in [Thread -> Labels] /\ k \in 1 .. 7 /\ id[t] # 0
  BY <1>1, Facing
<1>3. F[t] = "none"
  <2>1. "GetState" \notin Inner \cup LockCalls
    BY DEF Inner, LockCalls
  <2> QED
    BY <1>1, <2>1, OutsideOfLocks
<1>4. lib.initialized
  <2>1. "GetState" \in Needs
    BY DEF Needs
  <2> QED
    BY <1>1, <2>1, Given
<1>5. IsMain(t) <=> lib.main = id[t]
  BY <1>2, <1>4, MainThread
<1>6. CASE IsMain(t) \/ tls[t].there
  <2>1. Returns(t)
    BY <1>1, <1>6 DEF Returns
  <2>2. "GetState" \notin Gives
    BY DEF Gives
  <2>3. Served(t)
    BY <1>4, <1>5, <1>6 DEF Served
  <2> QED
    BY <1>1, <1>3, <2>1, <2>2, <2>3, QuietReturn
<1>7. CASE ~(IsMain(t) \/ tls[t].there)
  <2>1. /\ Len(b) = 4 /\ b[3] = <<"CopyContext">>
        /\ \A i \in 1 .. 4 : b[i][1] \notin {"Store", "Deliver"}
        /\ IsList(b) /\ Follows(b \o Tail(code[t]), "askCopy", k)
    <3>1. Follows(code[t], "none", k)
      BY <1>2, <1>3
    <3> QED
      BY <1>2, <3>1, LocksToCopy DEF b
  <2>2. Ready(t, b)
    <3>1. After(b, Len(b), NeedState, GiveState)
      BY <2>1 DEF After, NeedState
    <3>2. 3 \in 1 .. Len(b) /\ b[3][1] \in GiveState
      BY <2>1 DEF GiveState
    <3> QED
      BY <1>1, <1>4, <3>1, <3>2 DEF Ready
  <2>3. "askCopy" \in Labels /\ Goal(F, t, "askCopy")
    BY <1>3, <1>4, <1>5, <1>7 DEF Labels, AtDefaults, Goal
  <2>4. Calls(t, b)
    BY <1>1, <1>7
  <2> QED
    BY <1>1, <2>1, <2>2, <2>3, <2>4, IntoLock
<1> QED
  BY <1>6, <1>7

LEMMA DefaultSteps ==
  ASSUME NEW F, NEW k, Placed(F, k), NEW t \in Thread, SetDefaultFunc(t) \/ SwapDefault(t)
  PROVE  Somewhere'
<1> DEFINE h == Arg(t)
           b == Locked("defaults", <<<<"DefaultContext", h>>, <<"DefaultHandler", h>>>>)
           d == Locked("defaults", <<<<"ReadSetting", h>>>>)
<1>1. /\ \/ At(t, "SetDefaultFunc") /\ Calls(t, b)
         \/ At(t, "SwapDefault") /\ Calls(t, d)
      /\ lib.initialized
      /\ UNCHANGED <<threaded, id, mutex, lib, defaults, globals, tls, dicts, told>>
  BY DEF SetDefaultFunc, SwapDefault, rvars
<1> HIDE DEF h, b, d
<1>2. PICK f \in {"SetDefaultFunc", "SwapDefault"} :
        At(t, f) /\ Calls(t, IF f = "SetDefaultFunc" THEN b ELSE d)
  BY <1>1
<1>3. f \notin Inner \cup LockCalls /\ f \notin GiveState
  BY <1>2 DEF Inner, LockCalls, GiveState
<1>4. F[t] = "none"
  BY <1>2, <1>3, OutsideOfLocks
<1>5. IsList(code[t]) /\ code[t] # <<>> /\ Follows(code[t], "none", k) /\ code[t][1][1] = f
  BY <1>2, <1>4, Facing
<1>6. /\ \A i \in 1 .. Len(b) : b[i][1] \notin {"Store", "Deliver"}
      /\ IsList(b) /\ Follows(b \o Tail(code[t]), "askSet", k)
  BY <1>5, LocksToSet DEF b
<1>7. /\ \A i \in 1 .. Len(d) : d[i][1] \notin {"Store", "Deliver"}
      /\ IsList(d) /\ Follows(d \o Tail(code[t]), "askSwap", k)
  BY <1>5, LocksToSwap DEF d
<1>8. /\ {"askSet", "askSwap"} \subseteq Labels
      /\ Goal(F, t, "askSet") /\ Goal(F, t, "askSwap")
  BY <1>1, <1>4 DEF Labels, AtDefaults, Goal
<1>9. CASE f = "SetDefaultFunc"
  <2>1. Ready(t, b)
    BY <1>1, <1>3, <1>5, <1>6, ReadyWhenInitialised DEF NeedState
  <2>2. Calls(t, b)
    BY <1>2, <1>9
  <2> QED
    BY <1>1, <1>2, <1>6, <1>8, <2>1, <2>2, IntoLock
<1>10. CASE f = "SwapDefault"
  <2>1. Ready(t, d)
    BY <1>1, <1>3, <1>5, <1>7, ReadyWhenInitialised DEF NeedState
  <2>2. Calls(t, d)
    BY <1>2, <1>10
  <2> QED
    BY <1>1, <1>2, <1>7, <1>8, <2>1, <2>2, IntoLock
<1> QED
  BY <1>2, <1>9, <1>10

LEMMA ErrorSteps ==
  ASSUME NEW F, NEW k, Placed(F, k), NEW t \in Thread, SetFunc(t) \/ RaiseError(t)
  PROVE  Somewhere'
<1> DEFINE h == Arg(t)
           x == IF At(t, "SetFunc") THEN <<"Store", h>> ELSE <<"Deliver">>
           b == <<<<"InitParser">>, <<"GetState">>, x>>
<1>1. PICK f \in {"SetFunc", "RaiseError"} : At(t, f)
  BY DEF SetFunc, RaiseError
<1>2. /\ Calls(t, b) /\ x[1] \in NeedState
      /\ UNCHANGED <<threaded, id, mutex, lib, defaults, globals, tls, dicts, told>>
  <2>1. ~(At(t, "SetFunc") /\ At(t, "RaiseError"))
    BY DEF At
  <2> QED
    BY <2>1 DEF SetFunc, RaiseError, rvars, NeedState
<1> HIDE DEF x, h
<1>3. IsList(b) /\ Len(b) = 3 /\ b[1] = <<"InitParser">> /\ b[2] = <<"GetState">> /\ b[3] = x
  BY Tuples
<1> HIDE DEF b
<1>4. f \notin Inner \cup LockCalls /\ f \notin Gives /\ f \notin GiveState
  BY <1>1 DEF Inner, LockCalls, Gives, GiveState
<1>5. F[t] = "none" /\ code[t][1][1] = f
  BY <1>1, <1>4, OutsideOfLocks, Facing
<1>6. \A i \in 1 .. Len(b) : i = 1 \/ i = 2 \/ i = 3
  BY <1>3
<1>7. \A i \in 1 .. Len(b) : Loose(b[i])
  BY <1>2, <1>3, <1>6 DEF Loose, Inner, LockCalls, NeedState
<1>8. After(b, Len(b), Needs, Gives)
  <2>1. ASSUME NEW i \in 1 .. Len(b), b[i][1] \in Needs PROVE 1 \in 1 .. i - 1 /\ b[1][1] \in Gives
    BY <1>3, <1>6, <2>1 DEF Needs, Gives
  <2> QED
    BY <2>1 DEF After
<1>9. After(b, Len(b), NeedState, GiveState)
  <2>1. ASSUME NEW i \in 1 .. Len(b), b[i][1] \in NeedState PROVE 2 \in 1 .. i - 1 /\ b[2][1] \in GiveState
    BY <1>3, <1>6, <2>1 DEF NeedState, GiveState
  <2> QED
    BY <2>1 DEF After
<1>10. Ready(t, b)
  BY <1>4, <1>5, <1>8, <1>9 DEF Ready
<1> QED
  BY <1>1, <1>2, <1>3, <1>5, <1>7, <1>10, Quiet

\* Calls outside of the locks, which do not need the state of the thread.
Plain(b) == IsList(b) /\ \A i \in 1 .. Len(b) : Loose(b[i]) /\ b[i][1] \notin NeedState

LEMMA PlainCalls ==
  ASSUME NEW x, NEW y, NEW z,
         Loose(x) /\ x[1] \notin NeedState, Loose(y) /\ y[1] \notin NeedState,
         Loose(z) /\ z[1] \notin NeedState
  PROVE  Plain(<<x>>) /\ Plain(<<x, y>>) /\ Plain(<<x, y, z>>)
<1>1. /\ IsList(<<x>>) /\ Len(<<x>>) = 1
      /\ IsList(<<x, y>>) /\ Len(<<x, y>>) = 2
      /\ IsList(<<x, y, z>>) /\ Len(<<x, y, z>>) = 3
  BY Tuples
<1>2. \A i \in 1 .. 3 : i = 1 \/ i = 2 \/ i = 3
  OBVIOUS
<1>3. \A i \in 1 .. 1 : Loose(<<x>>[i]) /\ <<x>>[i][1] \notin NeedState
  OBVIOUS
<1>4. \A i \in 1 .. 2 : Loose(<<x, y>>[i]) /\ <<x, y>>[i][1] \notin NeedState
  BY <1>2
<1>5. \A i \in 1 .. 3 : Loose(<<x, y, z>>[i]) /\ <<x, y, z>>[i][1] \notin NeedState
  BY <1>2
<1>6. Plain(<<x>>)
  BY <1>1, <1>3 DEF Plain
<1>7. Plain(<<x, y>>)
  BY <1>1, <1>4 DEF Plain
<1>8. Plain(<<x, y, z>>)
  BY <1>1, <1>5 DEF Plain
<1> QED
  BY <1>6, <1>7, <1>8

LEMMA NothingPlain == Plain(<<>>)
<1>1. IsList(<<>>) /\ Len(<<>>) = 0
  BY EmptyList
<1> QED
  BY <1>1 DEF Plain

LEMMA PlainStep ==
  ASSUME NEW F, NEW k, Placed(F, k), NEW t \in Thread, NEW f, At(t, f),
         f \notin Inner \cup LockCalls, f \notin GiveState, lib.initialized,
         NEW b, Plain(b), Calls(t, b),
         UNCHANGED <<threaded, id, mutex, lib, defaults, globals, tls, dicts, told>>
  PROVE  Somewhere'
<1>1. F[t] = "none" /\ code[t][1][1] = f
  BY OutsideOfLocks, Facing
<1>2. Ready(t, b)
  BY <1>1, ReadyWhenInitialised DEF Plain
<1> QED
  BY <1>1, <1>2, Quiet DEF Plain

LEMMA PlainAppended ==
  ASSUME NEW b, Plain(b), NEW c, Plain(c)
  PROVE  Plain(b \o c)
<1> DEFINE d == b \o c
           m == Len(b)
           n == Len(c)
<1>1. /\ IsList(d) /\ m \in Nat /\ n \in Nat /\ Len(d) = m + n
      /\ \A i \in 1 .. m : d[i] = b[i]
      /\ \A i \in 1 .. n : d[m + i] = c[i]
  BY Appended DEF Plain
<1>2. /\ \A i \in 1 .. m : Loose(b[i]) /\ b[i][1] \notin NeedState
      /\ \A i \in 1 .. n : Loose(c[i]) /\ c[i][1] \notin NeedState
  BY DEF Plain
<1> HIDE DEF d, m, n
<1>3. ASSUME NEW i \in 1 .. m + n PROVE Loose(d[i]) /\ d[i][1] \notin NeedState
  <2>1. CASE i \in 1 .. m
    BY <2>1, <1>1, <1>2
  <2>2. CASE i \notin 1 .. m
    <3> DEFINE j == i - m
    <3>1. j \in 1 .. n /\ m + j = i
      BY <2>2, <1>1
    <3> HIDE DEF j
    <3>2. d[m + j] = c[j]
      BY <3>1, <1>1
    <3> QED
      BY <3>1, <3>2, <1>2
  <2> QED
    BY <2>1, <2>2
<1>4. Plain(d)
  BY <1>1, <1>3 DEF Plain
<1> QED
  BY <1>4 DEF d

LEMMA PlainLocked ==
  ASSUME NEW b, Plain(b)
  PROVE  Plain(Locked("dict", b))
<1> DEFINE d == Locked("dict", b)
<1>1. /\ IsList(d) /\ Len(b) \in Nat /\ Len(d) = Len(b) + 2
      /\ d[1] = <<"MutexLock", "dict">>
      /\ \A i \in 1 .. Len(b) : d[i + 1] = b[i]
      /\ d[Len(b) + 2] = <<"MutexUnlock", "dict">>
  BY LockedList DEF Plain
<1>2. /\ Loose(<<"MutexLock", "dict">>) /\ "MutexLock" \notin NeedState
      /\ Loose(<<"MutexUnlock", "dict">>) /\ "MutexUnlock" \notin NeedState
  BY DEF Loose, LockCalls, Inner, NeedState
<1> DEFINE n == Len(b)
<1> HIDE DEF d, n
<1>3. ASSUME NEW i \in 1 .. n + 2 PROVE Loose(d[i]) /\ d[i][1] \notin NeedState
  <2>1. n \in Nat
    BY <1>1 DEF n
  <2>2. i = 1 \/ i = n + 2 \/ i - 1 \in 1 .. n
    BY <2>1
  <2>3. CASE i = 1
    BY <2>3, <1>1, <1>2
  <2>4. CASE i = n + 2
    BY <2>4, <1>1, <1>2 DEF n
  <2>5. CASE i - 1 \in 1 .. n
    <3> DEFINE j == i - 1
    <3>1. j \in 1 .. n /\ j + 1 = i
      BY <2>5, <2>1
    <3> HIDE DEF j
    <3>2. d[j + 1] = b[j]
      BY <3>1, <1>1 DEF n
    <3>3. Loose(b[j]) /\ b[j][1] \notin NeedState
      BY <3>1 DEF Plain, n
    <3> QED
      BY <3>1, <3>2, <3>3
  <2> QED
    BY <2>2, <2>3, <2>4, <2>5
<1>4. Len(d) = n + 2
  BY <1>1 DEF n
<1> QED
  BY <1>1, <1>3, <1>4 DEF Plain, d

LEMMA CountingSteps ==
  ASSUME NEW F, NEW k, Placed(F, k), NEW t \in Thread,
         \/ DictReference(t) \/ DictFree(t) \/ ReadRefs(t) \/ IfLast(t) \/ DictGone(t)
  PROVE  Somewhere'
<1> DEFINE x == <<"MutexLock", "dict">>
           y == <<"MutexUnlock", "dict">>
<1>1. UNCHANGED <<threaded, id, mutex, lib, defaults, globals, tls, dicts, told>>
  BY DEF DictReference, DictFree, ReadRefs, IfLast, DictGone, rvars
<1>2. /\ Loose(x) /\ x[1] \notin NeedState
      /\ Loose(y) /\ y[1] \notin NeedState
  BY DEF Loose, LockCalls, Inner, NeedState
<1>3. ASSUME NEW f \in {"ReadRefs", "WriteRefs", "IfLast", "DictGone", "DictFree", "FreeDict",
                        "DictReference"}
      PROVE  /\ f \notin Inner \cup LockCalls /\ f \notin GiveState /\ f \notin NeedState
             /\ \A h : Loose(<<f, h>>) /\ <<f, h>>[1] \notin NeedState
  BY DEF Loose, LockCalls, Inner, NeedState, GiveState
<1> DEFINE h == Arg(t)
           v == dicts[h]
<1>4. DictReference(t) \/ DictFree(t) => lib.initialized
  BY DEF DictReference, DictFree, InUse, Placed, Fresh
<1>5. CASE DictReference(t)
  <2> DEFINE z == <<"ReadRefs", <<h, 1>>>>
  <2>1. At(t, "DictReference") /\ Calls(t, Locked("dict", <<z>>))
    BY <1>5 DEF DictReference
  <2>2. Loose(z) /\ z[1] \notin NeedState
    BY <1>3
  <2> HIDE DEF z
  <2>3. Plain(Locked("dict", <<z>>))
    BY <2>2, PlainCalls, PlainLocked
  <2> QED
    BY <1>1, <1>3, <1>4, <1>5, <2>1, <2>3, PlainStep
<1>6. CASE DictFree(t)
  <2> DEFINE z == <<"ReadRefs", <<h, -1>>>>
             w == <<"IfLast", h>>
  <2>1. At(t, "DictFree") /\ Calls(t, <<x, z, w>>)
    BY <1>6 DEF DictFree
  <2>2. Loose(z) /\ z[1] \notin NeedState /\ Loose(w) /\ w[1] \notin NeedState
    BY <1>3
  <2> HIDE DEF x, z, w
  <2>3. Plain(<<x, z, w>>)
    BY <1>2, <2>2, PlainCalls
  <2> QED
    BY <1>1, <1>3, <1>4, <1>6, <2>1, <2>3, PlainStep
<1>7. CASE ReadRefs(t)
  <2> DEFINE z == <<"WriteRefs", <<h[1], dicts[h[1]].refs + h[2]>>>>
  <2>1. At(t, "ReadRefs") /\ Calls(t, <<z>>)
    BY <1>7 DEF ReadRefs
  <2>2. Loose(z) /\ z[1] \notin NeedState /\ "ReadRefs" \in Needs
    BY <1>3 DEF Needs
  <2> HIDE DEF z
  <2>3. Plain(<<z>>) /\ lib.initialized
    BY <2>1, <2>2, PlainCalls, Given
  <2> QED
    BY <1>1, <1>3, <2>1, <2>3, PlainStep
<1>8. CASE IfLast(t)
  <2> DEFINE z == <<"DictGone", h>>
  <2>1. At(t, "IfLast") /\ Calls(t, IF v.refs > 0 THEN <<y>> ELSE <<y, z>>)
    BY <1>8 DEF IfLast
  <2>2. Loose(z) /\ z[1] \notin NeedState /\ "IfLast" \in Needs
    BY <1>3 DEF Needs
  <2> HIDE DEF y, z, v
  <2>3. Plain(<<y>>) /\ Plain(<<y, z>>) /\ lib.initialized
    BY <1>2, <2>1, <2>2, PlainCalls, Given
  <2>4. Plain(IF v.refs > 0 THEN <<y>> ELSE <<y, z>>)
    BY <2>3
  <2> QED
    BY <1>1, <1>3, <2>1, <2>3, <2>4, PlainStep
<1>9. CASE DictGone(t)
  <2> DEFINE z == <<"DictFree", v.sub>>
             w == <<"FreeDict", h>>
  <2>1. At(t, "DictGone") /\ Calls(t, (IF v.sub = NoDict THEN <<>> ELSE <<z>>) \o <<w>>)
    BY <1>9 DEF DictGone
  <2>2. /\ Loose(z) /\ z[1] \notin NeedState /\ Loose(w) /\ w[1] \notin NeedState
        /\ "DictGone" \in Needs
    BY <1>3 DEF Needs
  <2> HIDE DEF z, w
  <2>3. Plain(<<w>>) /\ Plain(<<z>>) /\ lib.initialized
    BY <2>1, <2>2, PlainCalls, Given
  <2>4. Plain(<<>>) /\ Plain(<<>> \o <<w>>) /\ Plain(<<z>> \o <<w>>)
    BY <2>3, NothingPlain, PlainAppended
  <2>5. Plain((IF v.sub = NoDict THEN <<>> ELSE <<z>>) \o <<w>>)
    BY <2>3, <2>4
  <2> QED
    BY <1>1, <1>3, <2>1, <2>3, <2>5, PlainStep
<1> QED
  BY <1>5, <1>6, <1>7, <1>8, <1>9

LEMMA CreateSteps ==
  ASSUME NEW F, NEW k, Placed(F, k), NEW t \in Thread, DictCreate(t) \/ DictCreateSub(t)
  PROVE  Somewhere'
<1>1. UNCHANGED <<threaded, id, mutex, lib, defaults, globals, tls, dicts, told>>
  BY DEF DictCreate, DictCreateSub, rvars
<1>2. ASSUME NEW f \in {"InitParser", "NewDict", "DictCreate", "DictCreateSub", "SetSub", "DictReference"}
      PROVE  /\ f \notin Inner \cup LockCalls /\ f \notin GiveState /\ f \notin NeedState
             /\ Loose(<<f>>) /\ <<f>>[1] \notin NeedState
             /\ \A h : Loose(<<f, h>>) /\ <<f, h>>[1] \notin NeedState
  BY DEF Loose, LockCalls, Inner, NeedState, GiveState
<1>3. ASSUME NEW f \in {"DictCreate", "DictCreateSub"}, At(t, f), NEW b, Plain(b), Calls(t, b),
             Len(b) > 0, b[1][1] \in Gives
      PROVE  Somewhere'
  <2>1. F[t] = "none" /\ code[t][1][1] = f
    BY <1>2, <1>3, OutsideOfLocks, Facing
  <2>2. Len(b) \in Nat /\ 1 \in 1 .. Len(b) /\ IsList(b)
    BY <1>3, CallListFacts DEF Plain
  <2>3. After(b, Len(b), Needs, Gives)
    <3>1. ASSUME NEW i \in 1 .. Len(b), b[i][1] \in Needs PROVE 1 \in 1 .. i - 1
      <4>1. i # 1
        BY <1>3, <3>1 DEF Needs, Gives
      <4> QED
        BY <4>1, <2>2
    <3> QED
      BY <1>3, <3>1 DEF After
  <2>4. After(b, Len(b), NeedState, GiveState)
    BY <1>3 DEF After, Plain
  <2>5. Ready(t, b)
    BY <1>2, <1>3, <2>1, <2>2, <2>3, <2>4 DEF Ready
  <2> QED
    BY <1>1, <1>3, <2>1, <2>2, <2>5, Quiet DEF Plain
<1>4. CASE DictCreate(t)
  <2> DEFINE x == <<"InitParser">>
             y == <<"NewDict", Arg(t)>>
             s == <<x, y>>
             l == Locked("dict", <<>>)
  <2>1. At(t, "DictCreate") /\ Calls(t, s \o l)
    BY <1>4 DEF DictCreate
  <2>2. Loose(x) /\ x[1] \notin NeedState /\ Loose(y) /\ y[1] \notin NeedState /\ x[1] \in Gives
    BY <1>2 DEF Gives
  <2> HIDE DEF x, y
  <2>3. IsList(s) /\ Len(s) = 2 /\ s[1] = x /\ Plain(s) /\ Plain(l)
    BY <2>2, Tuples, PlainCalls, PlainLocked, NothingPlain
  <2> HIDE DEF s, l
  <2>4. Plain(s \o l)
    BY <2>3, PlainAppended
  <2>5. Len(s \o l) = Len(s) + Len(l) /\ Len(l) \in Nat /\ \A i \in 1 .. Len(s) : (s \o l)[i] = s[i]
    BY <2>3, Appended DEF Plain
  <2>6. Len(s \o l) > 0 /\ (s \o l)[1][1] \in Gives
    BY <2>2, <2>3, <2>5
  <2> QED
    BY <1>3, <2>1, <2>4, <2>6
<1>5. CASE DictCreateSub(t)
  <2> DEFINE x == <<"DictCreate", Arg(t)[1]>>
             y == <<"SetSub", <<Arg(t)[1], Arg(t)[2]>>>>
             z == <<"DictReference", Arg(t)[2]>>
             s == <<x, y, z>>
  <2>1. At(t, "DictCreateSub") /\ Calls(t, s)
    BY <1>5 DEF DictCreateSub
  <2>2. /\ Loose(x) /\ x[1] \notin NeedState /\ Loose(y) /\ y[1] \notin NeedState
        /\ Loose(z) /\ z[1] \notin NeedState /\ x[1] \in Gives
    BY <1>2 DEF Gives
  <2> HIDE DEF x, y, z
  <2>3. IsList(s) /\ Len(s) = 3 /\ s[1] = x /\ Plain(s)
    BY <2>2, Tuples, PlainCalls
  <2> QED
    BY <1>3, <2>1, <2>2, <2>3
<1> QED
  BY <1>4, <1>5

\* What the calls that change the state of the library or of a thread leave as it is.
Frame(F, k) ==
  Shape(F, k) /\ Ids(k) /\ Built(F, k) /\ Closed(F) /\ Ordered /\ Fresh

LEMMA DataStep ==
  ASSUME NEW F, NEW k, NEW t \in Thread, NEW l \in Labels, NEW b, Goes(F, k, t, l, b), Ready(t, b),
         lib.initialized, F[t] \notin Initialising, l \notin {"askInit"} \cup Initialising,
         l \in InDefaults => F[t] \in InDefaults,
         UNCHANGED <<threaded, id, mutex, lib>>,
         \A u \in Thread : tls[u].there => tls'[u].there
  PROVE  Frame(Went(F, t, l), k)' /\ \A u \in Thread \ {t} : code'[u] = code[u]
<1>1. F \in [Thread -> Labels] /\ k \in 1 .. 7 /\ Shape(F, k)
  BY DEF Goes, Placed, Shape
<1>2. /\ Shape(Went(F, t, l), k)' /\ code'[t] = b \o Tail(code[t])
      /\ \A u \in Thread \ {t} : code'[u] = code[u]
  <2>1. Calls(t, b) /\ IsList(b) /\ Follows(b \o Tail(code[t]), l, k) /\ code[t] # <<>>
    BY DEF Goes
  <2>2. OwnTurn(F, t, k, k)
    BY DEF OwnTurn
  <2> QED
    BY <1>1, <2>1, <2>2, Moved
<1>3. Shape(Went(F, t, l), k)'
  BY <1>2
<1>4. Ids(k)'
  BY IdsKept DEF Goes, Placed
<1>5. Built(Went(F, t, l), k)'
  <2>1. Built(F, k)
    BY DEF Goes, Placed
  <2>2. F[t] # "build" /\ l # "build"
    BY DEF Initialising
  <2> QED
    BY <1>1, <2>1, <2>2, BuiltKept
<1>6. Closed(Went(F, t, l))'
  <2>1. Closed(F) /\ id[t] # 0
    BY DEF Goes, Placed
  <2> QED
    BY <1>1, <2>1, ClosedKept
<1>7. Ordered'
  <2>1. Ordered /\ code[t] # <<>> /\ IsList(b)
    BY DEF Goes, Placed
  <2>2. \A u \in Thread : Served(u) => Served(u)'
    BY DEF Served
  <2>3. Prepared(b, Needs, Gives, lib'.initialized) /\ Prepared(b, NeedState, GiveState, Served(t)')
    BY DEF Prepared, Ready
  <2>4. /\ code[t][1][1] \in Gives => lib'.initialized \/ \E i \in 1 .. Len(b) : b[i][1] \in Gives
        /\ code[t][1][1] \in GiveState => Served(t)' \/ \E i \in 1 .. Len(b) : b[i][1] \in GiveState
    BY DEF Ready
  <2> QED
    BY <1>1, <1>2, <2>1, <2>2, <2>3, <2>4, OrderedKept
<1>8. Fresh'
  BY FreshKept DEF Goes, Placed
<1> QED
  BY <1>2, <1>3, <1>4, <1>5, <1>6, <1>7, <1>8 DEF Frame

LEMMA Together ==
  ASSUME NEW F, NEW t, NEW l, NEW k, Frame(Went(F, t, l), k)', Formed', Paired(Went(F, t, l))',
         Copying(Went(F, t, l))', Heard'
  PROVE  Somewhere'
<1>1. Placed(Went(F, t, l), k)'
  BY DEF Placed, Frame
<1> QED
  BY <1>1, Found

\* The same for a call that returns.
LEMMA DataReturn ==
  ASSUME NEW F, NEW k, Placed(F, k), NEW t \in Thread, NEW f, At(t, f), Returns(t),
         NEW l \in Labels, Follows(<<>> \o Tail(code[t]), l, k),
         lib.initialized, F[t] \notin Initialising, l \notin {"askInit"} \cup Initialising,
         l \in InDefaults => F[t] \in InDefaults,
         UNCHANGED <<threaded, id, mutex, lib>>,
         \A u \in Thread : tls[u].there => tls'[u].there,
         f \in GiveState => Served(t)'
  PROVE  Frame(Went(F, t, l), k)' /\ \A u \in Thread \ {t} : code'[u] = code[u]
<1>1. code[t] # <<>> /\ id[t] # 0 /\ code[t][1][1] = f
  BY Facing
<1>2. IsList(<<>>) /\ Len(<<>>) = 0
  BY EmptyList
<1>3. Goes(F, k, t, l, <<>>)
  BY <1>1, <1>2 DEF Goes, Returns
<1>4. Ready(t, <<>>)
  BY <1>1, <1>2 DEF Ready, After
<1> QED
  BY <1>3, <1>4, DataStep

LEMMA DictSteps ==
  ASSUME NEW F, NEW k, Placed(F, k), NEW t \in Thread,
         NewDict(t) \/ SetSub(t) \/ WriteRefs(t) \/ FreeDict(t)
  PROVE  Somewhere'
<1>1. PICK f \in {"NewDict", "SetSub", "WriteRefs", "FreeDict"} : At(t, f)
  BY DEF NewDict, SetSub, WriteRefs, FreeDict
<1>2. Returns(t) /\ UNCHANGED <<threaded, id, mutex, lib, defaults, globals, tls, told>>
  BY DEF NewDict, SetSub, WriteRefs, FreeDict, rvars
<1>3. f \notin Inner \cup LockCalls /\ f \in Needs /\ f \notin GiveState
  BY <1>1 DEF Inner, LockCalls, Needs, GiveState
<1>4. F[t] = "none" /\ lib.initialized
  BY <1>1, <1>3, OutsideOfLocks, Given
<1>5. /\ F \in [Thread -> Labels] /\ k \in 1 .. 7 /\ IsList(code[t]) /\ code[t] # <<>>
      /\ Follows(code[t], "none", k)
  BY <1>1, <1>4, Facing
<1>6. /\ "none" \in Labels /\ "none" \notin Initialising /\ "none" \notin InDefaults
  BY DEF Labels, Initialising, InDefaults
<1>7. Follows(<<>> \o Tail(code[t]), "none", k)
  BY <1>5, <1>6, Onward
<1>8. Frame(Went(F, t, "none"), k)' /\ \A u \in Thread \ {t} : code'[u] = code[u]
  BY <1>1, <1>2, <1>3, <1>4, <1>6, <1>7, DataReturn
<1>9. Formed'
  BY <1>2, FormedKept DEF Placed
<1>10. Paired(Went(F, t, "none"))'
  BY <1>2, <1>4, <1>5, <1>6, <1>8, PairedKept DEF Placed
<1>11. Copying(Went(F, t, "none"))'
  BY <1>2, <1>5, <1>6, CopyingKept DEF Placed
<1>12. Heard'
  BY <1>2, <1>5, <1>8, HeardKept DEF Placed
<1> QED
  BY <1>8, <1>9, <1>10, <1>11, <1>12, Together

\* A call inside of the lock for the defaults.
LEMMA InsideDefaults ==
  ASSUME NEW F, NEW k, Placed(F, k), NEW t \in Thread, NEW f, At(t, f),
         f \in {"CopyHandler", "CopyContext", "DefaultContext", "DefaultHandler",
                "ReadSetting", "WriteSetting"}
  PROVE  /\ F[t] \in InDefaults /\ F[t] \notin Initialising /\ lib.initialized
         /\ f = "CopyHandler" => F[t] = "copyHandler"
         /\ f = "CopyContext" => F[t] = "copyContext"
         /\ f = "DefaultContext" => F[t] = "setContext"
         /\ f = "DefaultHandler" => F[t] = "setHandler"
         /\ f = "ReadSetting" => F[t] = "readSetting"
         /\ f = "WriteSetting" => F[t] = "writeSetting"
         /\ \A u \in Thread \ {t} : F[u] \notin InDefaults
<1> DEFINE c == code[t]
           l == F[t]
<1>1. /\ IsList(c) /\ c # <<>> /\ Follows(c, l, k) /\ l \in Labels /\ c[1][1] = f /\ k \in 1 .. 7
  BY Facing
<1> HIDE DEF c, l
<1>2. /\ f = "CopyHandler" => l = "copyHandler"
      /\ f = "CopyContext" => l = "copyContext"
      /\ f = "DefaultContext" => l = "setContext"
      /\ f = "DefaultHandler" => l = "setHandler"
      /\ f = "ReadSetting" => l = "readSetting"
      /\ f = "WriteSetting" => l = "writeSetting"
  BY <1>1, Whereabouts
<1>3. l \in InDefaults /\ l \notin Initialising /\ l \in AtDefaults
  BY <1>2 DEF InDefaults, Initialising, AtDefaults
<1>4. lib.initialized
  BY <1>3 DEF Placed, Built, l
<1>5. ASSUME NEW u \in Thread, F[u] \in InDefaults PROVE u = t
  <2>1. F[t] \in InDefaults /\ Ids(k) /\ Closed(F)
    BY <1>3 DEF Placed, l
  <2> QED
    BY <1>5, <2>1, Alone
<1> QED
  BY <1>2, <1>3, <1>4, <1>5 DEF l

LEMMA DefaultLabels ==
  /\ {"copyContext", "setHandler", "writeSetting", "close"} \subseteq Labels
  /\ {"copyContext", "setHandler", "writeSetting", "close"} \subseteq InDefaults
  /\ {"copyContext", "setHandler", "writeSetting", "close"} \cap ({"askInit"} \cup Initialising) = {}
BY DEF Labels, Initialising, AtDefaults, InDefaults

LEMMA WriteSettingStep ==
  ASSUME NEW F, NEW k, Placed(F, k), NEW t \in Thread, WriteSetting(t)
  PROVE  Somewhere'
<1>1. /\ At(t, "WriteSetting") /\ Returns(t)
      /\ UNCHANGED <<threaded, id, mutex, lib, globals, tls, dicts, told>>
      /\ defaults' = [defaults EXCEPT !.setting = Arg(t)]
  BY DEF WriteSetting, rvars
<1>2. /\ F[t] = "writeSetting" /\ F[t] \in InDefaults /\ F[t] \notin Initialising /\ lib.initialized
  BY <1>1, InsideDefaults
<1>3. /\ F \in [Thread -> Labels] /\ k \in 1 .. 7 /\ IsList(code[t]) /\ code[t] # <<>>
      /\ Follows(code[t], "writeSetting", k)
  BY <1>1, <1>2, Facing
<1>4. Follows(<<>> \o Tail(code[t]), "close", k)
  BY <1>2, <1>3, DefaultLabels, Onward
<1>5. "WriteSetting" \notin GiveState
  BY DEF GiveState
<1>6. Frame(Went(F, t, "close"), k)' /\ \A u \in Thread \ {t} : code'[u] = code[u]
  BY <1>1, <1>2, <1>4, <1>5, DefaultLabels, DataReturn
<1>7. /\ defaults'.handler = defaults.handler /\ defaults'.context = defaults.context
      /\ Formed'
  BY <1>1 DEF Placed, Formed
<1>8. Paired(Went(F, t, "close"))'
  BY <1>1, <1>2, <1>3, <1>6, <1>7, DefaultLabels, PairedKept DEF Placed
<1>9. Copying(Went(F, t, "close"))'
  BY <1>1, <1>3, DefaultLabels, CopyingKept DEF Placed
<1>10. Heard'
  BY <1>1, <1>3, <1>6, HeardKept DEF Placed
<1> QED
  BY <1>6, <1>7, <1>8, <1>9, <1>10, Together

LEMMA ReadSettingStep ==
  ASSUME NEW F, NEW k, Placed(F, k), NEW t \in Thread, ReadSetting(t)
  PROVE  Somewhere'
<1> DEFINE b == <<<<"WriteSetting", Arg(t)>>>>
           e == [told[t] EXCEPT !.old = defaults.setting]
<1>1. /\ At(t, "ReadSetting") /\ Calls(t, b)
      /\ UNCHANGED <<threaded, id, mutex, lib, defaults, globals, tls, dicts>>
      /\ told' = [told EXCEPT ![t].old = defaults.setting, ![t].new = Arg(t)]
  BY DEF ReadSetting, rvars
<1>2. F[t] = "readSetting" /\ F[t] \in InDefaults /\ F[t] \notin Initialising /\ lib.initialized
  BY <1>1, InsideDefaults
<1>3. /\ F \in [Thread -> Labels] /\ k \in 1 .. 7 /\ IsList(code[t]) /\ code[t] # <<>>
      /\ Follows(code[t], "readSetting", k) /\ id[t] # 0 /\ code[t][1][1] = "ReadSetting"
  BY <1>1, <1>2, Facing
<1>4. IsList(b) /\ Follows(b \o Tail(code[t]), "writeSetting", k)
  BY <1>3, ReadsThenWrites
<1>5. Len(b) = 1 /\ b[1][1] = "WriteSetting"
  BY Tuples
<1> HIDE DEF b
<1>6. Goes(F, k, t, "writeSetting", b)
  BY <1>1, <1>3, <1>4 DEF Goes
<1>7. Ready(t, b)
  <2>1. \A i \in 1 .. Len(b) : b[i][1] \notin NeedState
    BY <1>5 DEF NeedState
  <2>2. code[t][1][1] \notin GiveState
    BY <1>3 DEF GiveState
  <2> QED
    BY <1>1, <1>2, <2>1, <2>2, ReadyWhenInitialised
<1>8. Frame(Went(F, t, "writeSetting"), k)' /\ \A u \in Thread \ {t} : code'[u] = code[u]
  BY <1>1, <1>2, <1>6, <1>7, DefaultLabels, DataStep
<1>9. /\ told' = [u \in Thread |-> told'[u]]
      /\ \A u \in Thread \ {t} : told'[u] = told[u]
      /\ told'[t] = [set |-> told[t].set, reached |-> told[t].reached, own |-> told[t].own,
                     new |-> Arg(t), old |-> defaults.setting]
  <2>1. Formed
    BY DEF Placed
  <2>2. e = [set |-> told[t].set, reached |-> told[t].reached, own |-> told[t].own,
             new |-> told[t].new, old |-> defaults.setting]
    BY <2>1 DEF Formed
  <2> HIDE DEF e
  <2> DEFINE g == [told EXCEPT ![t] = e]
             r == [e EXCEPT !.new = Arg(t)]
  <2>3. r = [set |-> told[t].set, reached |-> told[t].reached, own |-> told[t].own,
             new |-> Arg(t), old |-> defaults.setting]
    BY <2>2
  <2>4. told = [u \in Thread |-> told[u]]
    BY <2>1 DEF Formed
  <2>5. told' = [g EXCEPT ![t] = [g[t] EXCEPT !.new = Arg(t)]]
    BY <1>1 DEF e
  <2>6. g = [u \in Thread |-> IF u = t THEN e ELSE told[u]]
    BY <2>4
  <2>7. told' = [u \in Thread |-> IF u = t THEN r ELSE told[u]]
    BY <2>5, <2>6
  <2> HIDE DEF r, g
  <2> QED
    BY <2>3, <2>7
<1>10. \A u \in Thread : /\ told'[u].set = told[u].set /\ told'[u].own = told[u].own
                         /\ told'[u].reached = told[u].reached
  BY <1>9
<1>11. Formed'
  BY <1>1, <1>9 DEF Placed, Formed
<1>12. Paired(Went(F, t, "writeSetting"))'
  BY <1>1, <1>2, <1>3, <1>8, DefaultLabels, PairedKept DEF Placed
<1>13. Copying(Went(F, t, "writeSetting"))'
  BY <1>1, <1>3, DefaultLabels, CopyingKept DEF Placed
<1>14. Heard'
  BY <1>1, <1>3, <1>8, <1>10, HeardKept DEF Placed
<1> QED
  BY <1>8, <1>11, <1>12, <1>13, <1>14, Together

LEMMA DefaultContextStep ==
  ASSUME NEW F, NEW k, Placed(F, k), NEW t \in Thread, DefaultContext(t)
  PROVE  Somewhere'
<1>1. /\ At(t, "DefaultContext") /\ Returns(t)
      /\ UNCHANGED <<threaded, id, mutex, lib, globals, tls, dicts, told>>
      /\ defaults' = [defaults EXCEPT !.context = Arg(t)]
  BY DEF DefaultContext, rvars
<1>2. /\ F[t] = "setContext" /\ F[t] \in InDefaults /\ F[t] \notin Initialising /\ lib.initialized
      /\ \A u \in Thread \ {t} : F[u] \notin InDefaults
  BY <1>1, InsideDefaults
<1>3. /\ F \in [Thread -> Labels] /\ k \in 1 .. 7 /\ IsList(code[t]) /\ code[t] # <<>>
      /\ Follows(code[t], "setContext", k) /\ Arg(t) = code[t][1][2] /\ id[t] # 0
  BY <1>1, <1>2, Facing
<1>4. /\ Follows(<<>> \o Tail(code[t]), "setHandler", k)
      /\ (<<>> \o Tail(code[t]))[1][2] = code[t][1][2]
  BY <1>3, HandlerNext
<1>5. "DefaultContext" \notin GiveState
  BY DEF GiveState
<1>6. Frame(Went(F, t, "setHandler"), k)' /\ \A u \in Thread \ {t} : code'[u] = code[u]
  BY <1>1, <1>2, <1>4, <1>5, DefaultLabels, DataReturn
<1>7. defaults'.context = Arg(t) /\ Formed'
  BY <1>1 DEF Placed, Formed
<1>8. Paired(Went(F, t, "setHandler"))'
  <2> DEFINE G == Went(F, t, "setHandler")
  <2>1. /\ G[t] = "setHandler" /\ (\A u \in Thread \ {t} : G[u] = F[u]) /\ G' = G
    BY <1>3, DefaultLabels, WentThere DEF Went
  <2> HIDE DEF G
  <2>2. code'[t][1][2] = defaults'.context
    <3>1. code' = [code EXCEPT ![t] = <<>> \o Tail(code[t])]
      BY <1>1 DEF Returns, Calls
    <3> DEFINE d == <<>> \o Tail(code[t])
    <3>2. d[1][2] = Arg(t)
      BY <1>3, <1>4
    <3> HIDE DEF d
    <3>3. code'[t] = d
      BY <3>1 DEF Placed, Shape, d
    <3> QED
      BY <1>7, <3>2, <3>3
  <2>3. ASSUME NEW u \in Thread
        PROVE  /\ G[u] = "setHandler" => code'[u][1][2] = defaults'.context
               /\ G[u] # "copyContext"
    <3>1. u # t => G[u] \notin InDefaults
      BY <1>2, <2>1
    <3> QED
      BY <2>1, <2>2, <3>1, DefaultLabels
  <2>4. Paired(F) /\ globals' = globals /\ tls' = tls
    BY <1>1 DEF Placed
  <2>5. Paired(G)'
    BY <2>1, <2>3, <2>4 DEF Paired
  <2> QED
    BY <2>5 DEF G
<1>9. Copying(Went(F, t, "setHandler"))'
  BY <1>1, <1>3, DefaultLabels, CopyingKept DEF Placed
<1>10. Heard'
  BY <1>1, <1>3, <1>6, HeardKept DEF Placed
<1> QED
  BY <1>6, <1>7, <1>8, <1>9, <1>10, Together

LEMMA DefaultHandlerStep ==
  ASSUME NEW F, NEW k, Placed(F, k), NEW t \in Thread, DefaultHandler(t)
  PROVE  Somewhere'
<1>1. /\ At(t, "DefaultHandler") /\ Returns(t)
      /\ UNCHANGED <<threaded, id, mutex, lib, globals, tls, dicts, told>>
      /\ defaults' = [defaults EXCEPT !.handler = Arg(t)]
  BY DEF DefaultHandler, rvars
<1>2. /\ F[t] = "setHandler" /\ F[t] \in InDefaults /\ F[t] \notin Initialising /\ lib.initialized
      /\ \A u \in Thread \ {t} : F[u] \notin InDefaults
  BY <1>1, InsideDefaults
<1>3. /\ F \in [Thread -> Labels] /\ k \in 1 .. 7 /\ IsList(code[t]) /\ code[t] # <<>>
      /\ Follows(code[t], "setHandler", k) /\ Arg(t) = code[t][1][2] /\ id[t] # 0
  BY <1>1, <1>2, Facing
<1>4. Follows(<<>> \o Tail(code[t]), "close", k)
  BY <1>2, <1>3, DefaultLabels, Onward
<1>5. "DefaultHandler" \notin GiveState
  BY DEF GiveState
<1>6. Frame(Went(F, t, "close"), k)' /\ \A u \in Thread \ {t} : code'[u] = code[u]
  BY <1>1, <1>2, <1>4, <1>5, DefaultLabels, DataReturn
<1>7. defaults'.handler = Arg(t) /\ defaults'.context = defaults.context /\ Formed'
  BY <1>1 DEF Placed, Formed
<1>8. Paired(Went(F, t, "close"))'
  <2> DEFINE G == Went(F, t, "close")
  <2>1. /\ G[t] = "close" /\ (\A u \in Thread \ {t} : G[u] = F[u]) /\ G' = G
    BY <1>3, DefaultLabels, WentThere DEF Went
  <2> HIDE DEF G
  <2>2. ASSUME NEW u \in Thread PROVE G[u] # "setHandler" /\ G[u] # "copyContext"
    <3>1. u # t => G[u] \notin InDefaults
      BY <1>2, <2>1
    <3> QED
      BY <2>1, <3>1, DefaultLabels
  <2>3. defaults'.handler = defaults'.context
    BY <1>2, <1>3, <1>7 DEF Placed, Paired
  <2>4. Paired(F) /\ globals' = globals /\ tls' = tls
    BY <1>1 DEF Placed
  <2>5. Paired(G)'
    BY <2>1, <2>2, <2>3, <2>4 DEF Paired
  <2> QED
    BY <2>5 DEF G
<1>9. Copying(Went(F, t, "close"))'
  BY <1>1, <1>3, DefaultLabels, CopyingKept DEF Placed
<1>10. Heard'
  BY <1>1, <1>3, <1>6, HeardKept DEF Placed
<1> QED
  BY <1>6, <1>7, <1>8, <1>9, <1>10, Together

\* The state of t changes, which it does not have yet.
LEMMA CopiedState ==
  ASSUME NEW F, NEW k, Placed(F, k), NEW t \in Thread, code[t] # <<>>,
         F[t] \in {"askCopy", "copyHandler", "copyContext"},
         UNCHANGED <<id, lib, globals, told>>, lib.initialized,
         \A u \in Thread \ {t} : tls'[u] = tls[u] /\ code'[u] = code[u]
  PROVE  Heard'
<1>1. ~tls[t].there /\ lib.main # id[t]
  BY DEF Placed, Copying
<1>2. told[t].set = NoHandler
  BY <1>1 DEF Placed, Heard, HasSet
<1>3. ASSUME NEW u \in Thread \ {t}
      PROVE  told[u].set = NoHandler \/ code'[u] = <<>> \/ HasSet(u)'
  <2>1. told[u].set = NoHandler \/ code[u] = <<>> \/ HasSet(u)
    BY DEF Placed, Heard
  <2>2. tls'[u] = tls[u] /\ code'[u] = code[u]
    OBVIOUS
  <2> QED
    BY <2>1, <2>2 DEF HasSet
<1>4. \A u \in Thread : /\ told[u].own /\ told[u].reached.handler = told[u].reached.context
  BY DEF Placed, Heard
<1>5. \A u \in Thread : told'[u].set = NoHandler \/ code'[u] = <<>> \/ HasSet(u)'
  BY <1>2, <1>3
<1> QED
  BY <1>4, <1>5 DEF Heard

LEMMA CopyHandlerStep ==
  ASSUME NEW F, NEW k, Placed(F, k), NEW t \in Thread, CopyHandler(t)
  PROVE  Somewhere'
<1>1. /\ At(t, "CopyHandler") /\ Returns(t)
      /\ UNCHANGED <<threaded, id, mutex, lib, defaults, globals, dicts, told>>
      /\ tls' = [tls EXCEPT ![t].pair.handler = defaults.handler]
  BY DEF CopyHandler, rvars
<1>2. /\ F[t] = "copyHandler" /\ F[t] \in InDefaults /\ F[t] \notin Initialising /\ lib.initialized
      /\ \A u \in Thread \ {t} : F[u] \notin InDefaults
  BY <1>1, InsideDefaults
<1>3. /\ F \in [Thread -> Labels] /\ k \in 1 .. 7 /\ IsList(code[t]) /\ code[t] # <<>>
      /\ Follows(code[t], "copyHandler", k) /\ id[t] # 0
  BY <1>1, <1>2, Facing
<1>4. Follows(<<>> \o Tail(code[t]), "copyContext", k)
  BY <1>2, <1>3, DefaultLabels, Onward
<1>5. /\ tls' = [u \in Thread |-> tls'[u]]
      /\ \A u \in Thread \ {t} : tls'[u] = tls[u]
      /\ tls'[t] = [there |-> tls[t].there, pair |-> tls'[t].pair]
      /\ tls'[t].pair = [handler |-> defaults.handler, context |-> tls[t].pair.context]
  <2> DEFINE o == tls[t]
             q == o.pair
             x == defaults.handler
  <2>1. /\ Formed /\ o = [there |-> o.there, pair |-> q]
        /\ q = [handler |-> q.handler, context |-> q.context]
    BY DEF Placed, Formed
  <2>2. tls' = [tls EXCEPT ![t] = [o EXCEPT !.pair = [q EXCEPT !.handler = x]]]
    BY <1>1
  <2> HIDE DEF o, q, x
  <2> DEFINE p == [q EXCEPT !.handler = x]
             e == [o EXCEPT !.pair = p]
  <2>3. p = [handler |-> x, context |-> q.context]
    BY <2>1
  <2> HIDE DEF p
  <2>4. e = [there |-> o.there, pair |-> p]
    BY <2>1
  <2>5. tls' = [tls EXCEPT ![t] = e]
    BY <2>2 DEF p
  <2> HIDE DEF e
  <2>6. tls' = [u \in Thread |-> IF u = t THEN e ELSE tls[u]]
    BY <2>1, <2>5 DEF Formed
  <2> QED
    BY <2>3, <2>4, <2>6 DEF o, q, x
<1>6. \A u \in Thread : tls'[u].there = tls[u].there
  BY <1>5
<1>7. Formed'
  BY <1>1, <1>5 DEF Placed, Formed
<1>8. "CopyHandler" \notin GiveState
  BY DEF GiveState
<1>9. Frame(Went(F, t, "copyContext"), k)' /\ \A u \in Thread \ {t} : code'[u] = code[u]
  BY <1>1, <1>2, <1>4, <1>6, <1>8, DefaultLabels, DataReturn
<1>10. Paired(Went(F, t, "copyContext"))'
  <2> DEFINE G == Went(F, t, "copyContext")
  <2>1. /\ G[t] = "copyContext" /\ (\A u \in Thread \ {t} : G[u] = F[u]) /\ G' = G
    BY <1>3, DefaultLabels, WentThere DEF Went
  <2> HIDE DEF G
  <2>2. ASSUME NEW u \in Thread \ {t} PROVE G[u] # "setHandler" /\ G[u] # "copyContext" /\ F[u] # "setHandler"
    <3>1. G[u] \notin InDefaults /\ F[u] \notin InDefaults
      BY <1>2, <2>1
    <3> QED
      BY <3>1, DefaultLabels
  <2>3. defaults.handler = defaults.context
    BY <1>2, <2>2 DEF Placed, Paired
  <2>4. Paired(F) /\ Copying(F)
    BY DEF Placed
  <2>5. ASSUME NEW u \in Thread, tls'[u].there PROVE tls'[u].pair.handler = tls'[u].pair.context
    <3>1. u # t
      BY <1>2, <1>6, <2>4, <2>5 DEF Copying
    <3> QED
      BY <1>5, <2>4, <2>5, <3>1 DEF Paired
  <2>6. tls'[t].pair.handler = defaults.handler
    BY <1>5
  <2>7. Paired(G)'
    BY <1>1, <2>1, <2>2, <2>3, <2>4, <2>5, <2>6 DEF Paired
  <2> QED
    BY <2>7 DEF G
<1>11. Copying(Went(F, t, "copyContext"))'
  <2> DEFINE G == Went(F, t, "copyContext")
  <2>1. /\ (\A u \in Thread \ {t} : G[u] = F[u]) /\ G' = G
    BY <1>3, DefaultLabels, WentThere DEF Went
  <2> HIDE DEF G
  <2>2. ASSUME NEW u \in Thread, G[u] \in {"askCopy", "copyHandler", "copyContext"}
        PROVE  ~tls'[u].there /\ lib.main # id[u]
    <3>1. F[u] \in {"askCopy", "copyHandler", "copyContext"}
      BY <1>2, <2>1, <2>2
    <3> QED
      BY <1>6, <3>1 DEF Placed, Copying
  <2>3. Copying(G)'
    BY <1>1, <2>1, <2>2 DEF Copying
  <2> QED
    BY <2>3 DEF G
<1>12. Heard'
  BY <1>1, <1>2, <1>3, <1>5, <1>9, CopiedState
<1> QED
  BY <1>7, <1>9, <1>10, <1>11, <1>12, Together

LEMMA CopyContextStep ==
  ASSUME NEW F, NEW k, Placed(F, k), NEW t \in Thread, CopyContext(t)
  PROVE  Somewhere'
<1>1. /\ At(t, "CopyContext") /\ Returns(t)
      /\ UNCHANGED <<threaded, id, mutex, lib, defaults, globals, dicts, told>>
      /\ tls' = [tls EXCEPT ![t].pair.context = defaults.context, ![t].there = TRUE]
  BY DEF CopyContext, rvars
<1>2. /\ F[t] = "copyContext" /\ F[t] \in InDefaults /\ F[t] \notin Initialising /\ lib.initialized
      /\ \A u \in Thread \ {t} : F[u] \notin InDefaults
  BY <1>1, InsideDefaults
<1>3. /\ F \in [Thread -> Labels] /\ k \in 1 .. 7 /\ IsList(code[t]) /\ code[t] # <<>>
      /\ Follows(code[t], "copyContext", k) /\ id[t] # 0
  BY <1>1, <1>2, Facing
<1>4. Follows(<<>> \o Tail(code[t]), "close", k)
  BY <1>2, <1>3, DefaultLabels, Onward
<1>5. /\ tls' = [u \in Thread |-> tls'[u]]
      /\ \A u \in Thread \ {t} : tls'[u] = tls[u]
      /\ tls'[t] = [there |-> TRUE, pair |-> tls'[t].pair]
      /\ tls'[t].pair = [handler |-> tls[t].pair.handler, context |-> defaults.context]
  <2> DEFINE o == tls[t]
             q == o.pair
             x == defaults.context
  <2>1. /\ Formed /\ o = [there |-> o.there, pair |-> q]
        /\ q = [handler |-> q.handler, context |-> q.context]
    BY DEF Placed, Formed
  <2> DEFINE p == [q EXCEPT !.context = x]
             e == [o EXCEPT !.pair = p]
             g == [tls EXCEPT ![t] = e]
             v == TRUE
             y == o.there
             r == [e EXCEPT !.there = v]
  <2>2. tls' = [g EXCEPT ![t] = [g[t] EXCEPT !.there = v]]
    BY <1>1
  <2> HIDE DEF o, q, x, v, y
  <2>3. p = [handler |-> q.handler, context |-> x]
    BY <2>1
  <2> HIDE DEF p
  <2>4. e = [there |-> y, pair |-> p]
    BY <2>1 DEF y
  <2> HIDE DEF e
  <2>5. r = [there |-> v, pair |-> p]
    BY <2>4
  <2>6. g = [u \in Thread |-> IF u = t THEN e ELSE tls[u]]
    BY <2>1 DEF Formed
  <2>7. tls' = [u \in Thread |-> IF u = t THEN r ELSE tls[u]]
    BY <2>2, <2>6
  <2> HIDE DEF r, g
  <2> QED
    BY <2>3, <2>5, <2>7 DEF o, q, x, v
<1>6. tls'[t].there /\ \A u \in Thread : tls[u].there => tls'[u].there
  BY <1>5
<1>7. Formed'
  BY <1>1, <1>5 DEF Placed, Formed
<1>8. Served(t)'
  BY <1>1, <1>2, <1>6 DEF Served
<1>9. Frame(Went(F, t, "close"), k)' /\ \A u \in Thread \ {t} : code'[u] = code[u]
  BY <1>1, <1>2, <1>4, <1>6, <1>8, DefaultLabels, DataReturn
<1> DEFINE G == Went(F, t, "close")
<1>10. /\ G[t] = "close" /\ (\A u \in Thread \ {t} : G[u] = F[u]) /\ G' = G
  BY <1>3, DefaultLabels, WentThere DEF Went
<1>11. Paired(G)'
  <2> HIDE DEF G
  <2>1. ASSUME NEW u \in Thread PROVE G[u] # "setHandler" /\ G[u] # "copyContext" /\ F[u] # "setHandler"
    <3>1. u # t => G[u] \notin InDefaults /\ F[u] \notin InDefaults
      BY <1>2, <1>10
    <3> QED
      BY <1>2, <1>10, <3>1, DefaultLabels
  <2>2. Paired(F)
    BY DEF Placed
  <2>3. defaults.handler = defaults.context /\ tls[t].pair.handler = defaults.handler
    BY <1>2, <2>1, <2>2 DEF Paired
  <2>4. ASSUME NEW u \in Thread, tls'[u].there PROVE tls'[u].pair.handler = tls'[u].pair.context
    BY <1>5, <2>2, <2>3, <2>4 DEF Paired
  <2> QED
    BY <1>1, <1>10, <2>1, <2>2, <2>3, <2>4 DEF Paired
<1>12. Copying(G)'
  <2> HIDE DEF G
  <2>1. ASSUME NEW u \in Thread, G[u] \in {"askCopy", "copyHandler", "copyContext"}
        PROVE  ~tls'[u].there /\ lib.main # id[u]
    <3>1. u # t
      BY <1>10, <2>1
    <3> QED
      BY <1>5, <1>10, <2>1, <3>1 DEF Placed, Copying
  <2> QED
    BY <1>1, <1>10, <2>1 DEF Copying
<1>13. Heard'
  BY <1>1, <1>2, <1>3, <1>5, <1>9, CopiedState
<1> QED
  BY <1>7, <1>9, <1>11, <1>12, <1>13, Together

\* What t, outside of the locks, does with its state.
LEMMA WithState ==
  ASSUME NEW F, NEW k, Placed(F, k), NEW t \in Thread, NEW f, At(t, f), f \in NeedState, Returns(t),
         UNCHANGED <<threaded, id, mutex, lib, defaults>>,
         \A u \in Thread : tls[u].there => tls'[u].there
  PROVE  /\ F[t] = "none" /\ Served(t) /\ lib.initialized /\ (IsMain(t) <=> lib.main = id[t])
         /\ Frame(Went(F, t, "none"), k)' /\ \A u \in Thread \ {t} : code'[u] = code[u]
         /\ Went(F, t, "none") = F
<1>1. f \notin Inner \cup LockCalls /\ f \notin GiveState
  BY DEF NeedState, Inner, LockCalls, GiveState
<1>2. F[t] = "none" /\ Served(t) /\ lib.initialized
  BY <1>1, OutsideOfLocks, Given DEF Served
<1>3. /\ F \in [Thread -> Labels] /\ k \in 1 .. 7 /\ IsList(code[t]) /\ code[t] # <<>>
      /\ Follows(code[t], "none", k) /\ id[t] # 0
  BY <1>2, Facing
<1>4. "none" \in Labels /\ "none" \notin Initialising /\ "none" \notin InDefaults
  BY DEF Labels, Initialising, InDefaults
<1>5. Follows(<<>> \o Tail(code[t]), "none", k)
  BY <1>3, <1>4, Onward
<1>6. Frame(Went(F, t, "none"), k)' /\ \A u \in Thread \ {t} : code'[u] = code[u]
  BY <1>1, <1>2, <1>4, <1>5, DataReturn
<1>7. IsMain(t) <=> lib.main = id[t]
  BY <1>2, <1>3, MainThread
<1>8. Went(F, t, "none") = F
  BY <1>2, <1>3 DEF Went
<1> QED
  BY <1>2, <1>6, <1>7, <1>8

LEMMA StoreStep ==
  ASSUME NEW F, NEW k, Placed(F, k), NEW t \in Thread, Store(t)
  PROVE  Somewhere'
<1> DEFINE h == Arg(t)
           p == [handler |-> h, context |-> h]
<1>1. /\ At(t, "Store") /\ Returns(t)
      /\ UNCHANGED <<threaded, id, mutex, lib, defaults, dicts>>
      /\ told' = [told EXCEPT ![t].set = h]
      /\ IsMain(t) => globals' = p /\ tls' = tls
      /\ ~IsMain(t) => globals' = globals /\ tls' = [tls EXCEPT ![t].pair = p]
  BY DEF Store, rvars
<1> HIDE DEF h
<1>2. p.handler = h /\ p.context = h /\ p = [handler |-> p.handler, context |-> p.context]
  OBVIOUS
<1> HIDE DEF p
<1>3. /\ told' = [u \in Thread |-> told'[u]]
      /\ \A u \in Thread \ {t} : told'[u] = told[u]
      /\ told'[t] = [set |-> h, reached |-> told[t].reached, own |-> told[t].own,
                     new |-> told[t].new, old |-> told[t].old]
  BY <1>1 DEF Placed, Formed
<1>4. ASSUME ~IsMain(t)
      PROVE  /\ tls' = [u \in Thread |-> tls'[u]]
             /\ \A u \in Thread \ {t} : tls'[u] = tls[u]
             /\ tls'[t] = [there |-> tls[t].there, pair |-> p]
  BY <1>1, <1>4 DEF Placed, Formed
<1>5. \A u \in Thread : tls'[u].there = tls[u].there
  BY <1>1, <1>4
<1>6. /\ F[t] = "none" /\ Served(t) /\ lib.initialized /\ (IsMain(t) <=> lib.main = id[t])
      /\ Frame(Went(F, t, "none"), k)' /\ \A u \in Thread \ {t} : code'[u] = code[u]
      /\ Went(F, t, "none") = F
  <2>1. "Store" \in NeedState
    BY DEF NeedState
  <2> QED
    BY <1>1, <1>5, <2>1, WithState
<1>7. Formed'
  <2>1. CASE IsMain(t)
    BY <1>1, <1>3, <2>1 DEF Placed, Formed
  <2>2. CASE ~IsMain(t)
    <3>1. tls' = [u \in Thread |-> tls'[u]]
      BY <1>4, <2>2
    <3>2. ASSUME NEW u \in Thread
          PROVE  /\ tls'[u] = [there |-> tls'[u].there, pair |-> tls'[u].pair]
                 /\ tls'[u].pair = [handler |-> tls'[u].pair.handler, context |-> tls'[u].pair.context]
      BY <1>2, <1>4, <2>2 DEF Placed, Formed
    <3> QED
      BY <1>1, <1>3, <3>1, <3>2 DEF Placed, Formed
  <2> QED
    BY <2>1, <2>2
<1>8. Paired(F)'
  <2>1. Paired(F)
    BY DEF Placed
  <2>2. globals'.handler = globals'.context
    BY <1>1, <1>2, <2>1 DEF Paired
  <2>3. ASSUME NEW u \in Thread, tls'[u].there PROVE tls'[u].pair.handler = tls'[u].pair.context
    BY <1>1, <1>2, <1>4, <2>1, <2>3 DEF Paired
  <2>4. ASSUME NEW u \in Thread
        PROVE  /\ F[u] = "setHandler" => code'[u][1][2] = defaults.context
               /\ F[u] = "copyContext" => tls'[u].pair.handler = defaults.handler
    <3>1. CASE u = t
      BY <1>6, <3>1
    <3>2. CASE u # t
      <4>1. code'[u] = code[u] /\ tls'[u] = tls[u]
        BY <1>1, <1>4, <1>6, <3>2
      <4> QED
        BY <2>1, <4>1 DEF Paired
    <3> QED
      BY <3>1, <3>2
  <2> QED
    BY <1>1, <2>1, <2>2, <2>3, <2>4 DEF Paired
<1>9. Copying(F)'
  BY <1>1, <1>5 DEF Placed, Copying
<1>10. Heard'
  <2>1. \A u \in Thread : told'[u].own /\ told'[u].reached.handler = told'[u].reached.context
    BY <1>3 DEF Placed, Heard
  <2>2. told'[t].set = h
    BY <1>3
  <2>3. id[t] # 0
    BY <1>1, Facing
  <2>4. HasSet(t)'
    <3>1. CASE lib.main = id[t]
      BY <1>1, <1>2, <1>6, <2>2, <2>3, <3>1 DEF HasSet
    <3>2. CASE lib.main # id[t]
      <4>1. tls'[t].there /\ tls'[t].pair = p
        BY <1>4, <1>6, <3>2 DEF Served
      <4> QED
        BY <1>1, <1>2, <2>2, <2>3, <3>2, <4>1 DEF HasSet
    <3> QED
      BY <3>1, <3>2
  <2>5. ASSUME NEW u \in Thread \ {t}
        PROVE  told'[u].set = NoHandler \/ code'[u] = <<>> \/ HasSet(u)'
    <3>1. code'[u] = code[u] /\ tls'[u] = tls[u] /\ told'[u] = told[u]
      BY <1>1, <1>3, <1>4, <1>6
    <3>2. told[u].set = NoHandler \/ code[u] = <<>> \/ HasSet(u)
      BY DEF Placed, Heard
    <3>3. ASSUME HasSet(u) PROVE HasSet(u)'
      <4>1. lib.main = id[u] => id[t] # lib.main
        BY <2>3, <3>3 DEF Placed, Ids, HasSet
      <4>2. lib.main = id[u] => globals' = globals
        BY <1>1, <1>6, <4>1
      <4> QED
        BY <1>1, <3>1, <3>3, <4>2 DEF HasSet
    <3> QED
      BY <3>1, <3>2, <3>3
  <2> QED
    BY <2>1, <2>4, <2>5 DEF Heard
<1> QED
  BY <1>6, <1>7, <1>8, <1>9, <1>10, Together

LEMMA DeliverStep ==
  ASSUME NEW F, NEW k, Placed(F, k), NEW t \in Thread, Deliver(t)
  PROVE  Somewhere'
<1> DEFINE p == IF IsMain(t) THEN globals ELSE tls[t].pair
           own == told[t].set \in {p.handler, NoHandler}
           o == told[t]
           e == [o EXCEPT !.reached = p]
           g == [told EXCEPT ![t] = e]
           r == [e EXCEPT !.own = own]
<1>1. /\ At(t, "Deliver") /\ Returns(t)
      /\ UNCHANGED <<threaded, id, mutex, lib, defaults, globals, tls, dicts>>
      /\ told' = [g EXCEPT ![t] = [g[t] EXCEPT !.own = own]]
  BY DEF Deliver, rvars
<1>2. /\ o = [set |-> o.set, reached |-> o.reached, own |-> o.own, new |-> o.new, old |-> o.old]
      /\ told = [u \in Thread |-> told[u]]
  BY DEF Placed, Formed
<1>3. /\ F[t] = "none" /\ Served(t) /\ lib.initialized /\ (IsMain(t) <=> lib.main = id[t])
      /\ Frame(Went(F, t, "none"), k)' /\ \A u \in Thread \ {t} : code'[u] = code[u]
      /\ Went(F, t, "none") = F
  <2>1. "Deliver" \in NeedState
    BY DEF NeedState
  <2>2. \A u \in Thread : tls[u].there => tls'[u].there
    BY <1>1
  <2>3. At(t, "Deliver") /\ Returns(t) /\ UNCHANGED <<threaded, id, mutex, lib, defaults>>
    BY <1>1
  <2> QED
    BY <2>1, <2>2, <2>3, WithState
<1>4. p.handler = p.context
  BY <1>3 DEF Placed, Paired, Served
<1>5. own
  <2>1. code[t] # <<>>
    BY <1>1, Facing
  <2>2. told[t].set = NoHandler \/ HasSet(t)
    BY <2>1 DEF Placed, Heard
  <2>3. HasSet(t) => told[t].set = p.handler
    BY <1>3 DEF HasSet
  <2> QED
    BY <2>2, <2>3
<1> HIDE DEF p, own
<1>6. e = [set |-> o.set, reached |-> p, own |-> o.own, new |-> o.new, old |-> o.old]
  <2> HIDE DEF o
  <2> QED
    BY <1>2
<1> HIDE DEF e
<1>7. r = [set |-> o.set, reached |-> p, own |-> own, new |-> o.new, old |-> o.old]
  <2> HIDE DEF o
  <2> QED
    BY <1>6
<1>8. g = [u \in Thread |-> IF u = t THEN e ELSE told[u]]
  BY <1>2
<1>9. told' = [u \in Thread |-> IF u = t THEN r ELSE told[u]]
  BY <1>1, <1>8
<1> HIDE DEF g, r
<1>10. /\ told' = [u \in Thread |-> told'[u]]
       /\ \A u \in Thread \ {t} : told'[u] = told[u]
       /\ told'[t] = [set |-> o.set, reached |-> p, own |-> own, new |-> o.new, old |-> o.old]
  BY <1>7, <1>9
<1>11. Formed'
  BY <1>1, <1>10 DEF Placed, Formed
<1>12. Paired(F)'
  <2>1. ASSUME NEW u \in Thread PROVE F[u] = "setHandler" => code'[u] = code[u]
    BY <1>3
  <2> QED
    BY <1>1, <2>1 DEF Placed, Paired
<1>13. Copying(F)'
  BY <1>1 DEF Placed, Copying
<1>14. Heard'
  <2>1. told'[t].own /\ told'[t].reached.handler = told'[t].reached.context /\ told'[t].set = told[t].set
    BY <1>4, <1>5, <1>10
  <2>2. code[t] # <<>>
    BY <1>1, Facing
  <2>3. ASSUME NEW u \in Thread
        PROVE  /\ told'[u].own /\ told'[u].reached.handler = told'[u].reached.context
               /\ told'[u].set = told[u].set
    BY <1>10, <2>1 DEF Placed, Heard
  <2>4. ASSUME NEW u \in Thread PROVE told'[u].set = NoHandler \/ code'[u] = <<>> \/ HasSet(u)'
    <3>1. told[u].set = NoHandler \/ code[u] = <<>> \/ HasSet(u)
      BY DEF Placed, Heard
    <3>2. code[u] = <<>> => code'[u] = code[u]
      BY <1>3, <2>2
    <3>3. HasSet(u)' <=> HasSet(u)
      BY <1>1, <2>3 DEF HasSet
    <3> QED
      BY <2>3, <3>1, <3>2, <3>3
  <2> QED
    BY <2>3, <2>4 DEF Heard
<1> QED
  BY <1>3, <1>11, <1>12, <1>13, <1>14, Together

LEMMA OtherLockSteps ==
  ASSUME NEW F, NEW k, Placed(F, k), UNCHANGED <<threaded, libVars>>
  PROVE  Somewhere'
<1>1. UNCHANGED <<threaded, code, id, mutex, lib, defaults, globals, tls, dicts, told>>
  BY DEF libVars
<1>2. Shape(F, k)' /\ Ids(k)' /\ Built(F, k)' /\ Closed(F)'
  BY <1>1 DEF Placed, Shape, Ids, Built, Closed
<1>3. Ordered' /\ Fresh' /\ Formed'
  BY <1>1 DEF Placed, Ordered, Served, Fresh, Formed
<1>4. Paired(F)' /\ Copying(F)' /\ Heard'
  BY <1>1 DEF Placed, Paired, Copying, Heard, HasSet
<1>5. Placed(F, k)'
  BY <1>2, <1>3, <1>4 DEF Placed
<1> QED
  BY <1>5 DEF Somewhere

\* A thread that ends is nowhere.
LEMMA ExitStep ==
  ASSUME NEW F, NEW k, Placed(F, k), NEW t \in Thread, Exit(t)
  PROVE  Somewhere'
<1>1. /\ id[t] # 0 /\ code[t] = <<>> /\ t # First
      /\ id' = [id EXCEPT ![t] = 0] /\ tls' = [tls EXCEPT ![t] = NoState]
      /\ UNCHANGED <<threaded, code, mutex, lib, defaults, globals, dicts, told>>
  BY DEF Exit, rvars
<1>2. F \in [Thread -> Labels] /\ k \in 1 .. 7 /\ Follows(code[t], F[t], k)
  BY DEF Placed, Shape
<1>3. F[t] = "none"
  <2> DEFINE l == F[t]
  <2>1. Len(code[t]) = 0
    BY <1>1, EmptyList
  <2>2. \A n \in 1 .. 10 : ~Rest(code[t], n)
    BY <2>1 DEF Rest
  <2>3. l \in Labels /\ Follows(code[t], l, k)
    BY <1>2
  <2> HIDE DEF l
  <2>4. l = "build" => Rest(code[t], 9 - k) /\ 9 - k \in 1 .. 10
    BY <1>2, <2>3 DEF Follows
  <2>5. l \notin {"none", "build"} => \E n \in {1, 2, 3, 4} : Rest(code[t], n)
    BY <2>3 DEF Follows, Labels, Initialising, AtDefaults, InDefaults
  <2>6. \A n \in {1, 2, 3, 4} : n \in 1 .. 10
    OBVIOUS
  <2>7. l = "none"
    BY <2>2, <2>4, <2>5, <2>6
  <2> QED
    BY <2>7 DEF l
<1>4. /\ id' = [u \in Thread |-> id'[u]] /\ id'[t] = 0 /\ \A u \in Thread \ {t} : id'[u] = id[u]
      /\ tls' = [u \in Thread |-> tls'[u]] /\ tls'[t] = NoState
      /\ \A u \in Thread \ {t} : tls'[u] = tls[u]
  BY <1>1 DEF Placed, Ids, Formed
<1>5. Shape(F, k)' /\ Built(F, k)'
  BY <1>1 DEF Placed, Shape, Built
<1>6. Ids(k)'
  <2>1. id'[First] = id[First]
    BY <1>1, <1>4, ThreadAssumption
  <2>2. Ids(k)
    BY DEF Placed
  <2>3. ASSUME NEW u \in Thread, NEW v \in Thread, id'[u] = id'[v], id'[u] # 0 PROVE u = v
    BY <1>4, <2>2, <2>3 DEF Ids
  <2>4. ASSUME ~threaded, NEW u \in Thread \ {First} PROVE id'[u] = 0
    BY <1>4, <2>2, <2>4 DEF Ids
  <2> QED
    BY <1>1, <1>4, <2>1, <2>2, <2>3, <2>4 DEF Ids
<1>7. Closed(F)'
  BY <1>1, <1>3, <1>4 DEF Placed, Closed
<1>8. Ordered'
  <2>1. ASSUME NEW u \in Thread
        PROVE  /\ Prepared(code'[u], Needs, Gives, lib'.initialized)
               /\ Prepared(code'[u], NeedState, GiveState, Served(u)')
    <3>1. /\ Prepared(code[u], Needs, Gives, lib.initialized)
          /\ Prepared(code[u], NeedState, GiveState, Served(u))
      BY DEF Placed, Ordered
    <3>2. u # t => (Served(u)' <=> Served(u))
      BY <1>1, <1>4 DEF Served
    <3>3. After(code[t], Len(code[t]), NeedState, GiveState)
      BY <1>1, EmptyList DEF After
    <3> QED
      BY <1>1, <3>1, <3>2, <3>3 DEF Prepared
  <2> QED
    BY <2>1 DEF Ordered
<1>9. NoState.there = FALSE /\ NoState.pair = NoPair /\ NoPair.handler = NoPair.context
  BY DEF NoState, NoPair
<1>10. Fresh'
  BY <1>1, <1>4, <1>9 DEF Placed, Fresh
<1>11. Formed'
  <2>1. /\ NoState = [there |-> NoState.there, pair |-> NoState.pair]
        /\ NoState.pair = [handler |-> NoState.pair.handler, context |-> NoState.pair.context]
    BY DEF NoState, NoPair
  <2> QED
    BY <1>1, <1>4, <2>1 DEF Placed, Formed
<1>12. Paired(F)'
  <2>1. ASSUME NEW u \in Thread, tls'[u].there PROVE tls'[u].pair.handler = tls'[u].pair.context
    BY <1>4, <1>9, <2>1 DEF Placed, Paired
  <2>2. ASSUME NEW u \in Thread, F[u] = "copyContext" PROVE tls'[u].pair.handler = defaults.handler
    BY <1>3, <1>4, <2>2 DEF Placed, Paired
  <2> QED
    BY <1>1, <2>1, <2>2 DEF Placed, Paired
<1>13. Copying(F)'
  BY <1>1, <1>3, <1>4 DEF Placed, Copying
<1>14. Heard'
  <2>1. ASSUME NEW u \in Thread PROVE told[u].set = NoHandler \/ code[u] = <<>> \/ HasSet(u)'
    <3>1. CASE u = t
      BY <1>1, <3>1
    <3>2. CASE u # t
      <4>1. id'[u] = id[u] /\ tls'[u] = tls[u]
        BY <1>4, <3>2
      <4> QED
        BY <1>1, <4>1 DEF Placed, Heard, HasSet
    <3> QED
      BY <3>1, <3>2
  <2> QED
    BY <1>1, <2>1 DEF Placed, Heard
<1>15. Placed(F, k)'
  BY <1>5, <1>6, <1>7, <1>8, <1>10, <1>11, <1>12, <1>13, <1>14 DEF Placed
<1> QED
  BY <1>15 DEF Somewhere

\* A call that returns, whatever it has changed.
LEMMA Returned ==
  ASSUME NEW F, NEW k, Placed(F, k), NEW t \in Thread, NEW f, At(t, f), Returns(t),
         NEW l \in Labels, NEW n \in 1 .. 7, OwnTurn(F, t, k, n),
         Follows(<<>> \o Tail(code[t]), l, n),
         lib.initialized => lib'.initialized, \A u \in Thread : Served(u) => Served(u)',
         f \in Gives => lib'.initialized, f \in GiveState => Served(t)'
  PROVE  /\ Shape(Went(F, t, l), n)' /\ Ordered'
         /\ \A u \in Thread \ {t} : code'[u] = code[u]
<1>1. /\ F \in [Thread -> Labels] /\ k \in 1 .. 7 /\ Shape(F, k) /\ IsList(code[t]) /\ code[t] # <<>>
      /\ code[t][1][1] = f
  BY Facing DEF Placed
<1>2. IsList(<<>>) /\ Len(<<>>) = 0 /\ Calls(t, <<>>)
  BY EmptyList DEF Returns
<1>4. /\ Shape(Went(F, t, l), n)' /\ code'[t] = <<>> \o Tail(code[t])
      /\ \A u \in Thread \ {t} : code'[u] = code[u]
  <2> DEFINE b == <<>>
  <2>1. Calls(t, b) /\ Follows(b \o Tail(code[t]), l, n) /\ IsList(b)
    BY <1>2
  <2> HIDE DEF b
  <2>2. /\ Shape(Went(F, t, l), n)' /\ code'[t] = b \o Tail(code[t])
        /\ \A u \in Thread \ {t} : code'[u] = code[u]
    BY <1>1, <2>1, Moved
  <2> QED
    BY <2>2 DEF b
<1>5. Shape(Went(F, t, l), n)'
  BY <1>4
<1>6. Ordered'
  <2>1. Ordered
    BY DEF Placed
  <2>2. Prepared(<<>>, Needs, Gives, lib'.initialized) /\ Prepared(<<>>, NeedState, GiveState, Served(t)')
    BY <1>2 DEF Prepared, After
  <2>3. /\ code[t][1][1] \in Gives => lib'.initialized
        /\ code[t][1][1] \in GiveState => Served(t)'
    BY <1>1
  <2> QED
    BY <1>1, <1>2, <1>4, <2>1, <2>2, <2>3, OrderedKept
<1> QED
  BY <1>4, <1>5, <1>6

LEMMA SpawnStep ==
  ASSUME NEW F, NEW k, Placed(F, k), NEW t \in Thread, Spawn(t)
  PROVE  Somewhere'
<1> DEFINE w == Arg(t)
<1>1. /\ At(t, "Spawn") /\ id[w] = 0 /\ threaded' = TRUE /\ Returns(t)
      /\ UNCHANGED <<mutex, lib, defaults, globals, tls, dicts, told>>
  BY DEF Spawn, BecomeThreaded
<1>2. PICK i \in Id \ {id[u] : u \in Alive} : id' = [id EXCEPT ![w] = i]
  BY DEF Spawn
<1> HIDE DEF w
<1>3. i # 0 /\ \A u \in Thread : id[u] # 0 => id[u] # i
  BY <1>2, LibraryAssumption DEF Alive
<1>4. /\ F \in [Thread -> Labels] /\ k \in 1 .. 7 /\ IsList(code[t]) /\ code[t] # <<>>
      /\ Follows(code[t], F[t], k) /\ id[t] # 0
  BY <1>1, Facing
<1>5. F[t] = "none" /\ "Spawn" \notin Gives /\ "Spawn" \notin GiveState
  <2>1. "Spawn" \notin Inner \cup LockCalls
    BY DEF Inner, LockCalls
  <2> QED
    BY <1>1, <2>1, OutsideOfLocks DEF Gives, GiveState
<1>6. /\ id' = [u \in Thread |-> id'[u]]
      /\ \A u \in Thread : id[u] # 0 => id'[u] = id[u]
      /\ \A u \in Thread : u # w => id'[u] = id[u]
      /\ w \in Thread => id'[w] = i
  BY <1>1, <1>2 DEF Placed, Ids
<1>7. Ids(k)'
  <2>1. Ids(k)
    BY DEF Placed
  <2>2. ASSUME NEW u \in Thread, NEW v \in Thread, id'[u] = id'[v], id'[u] # 0 PROVE u = v
    <3>1. CASE u = w
      BY <1>3, <1>6, <2>2, <3>1
    <3>2. CASE u # w /\ v = w
      BY <1>3, <1>6, <2>2, <3>2
    <3>3. CASE u # w /\ v # w
      BY <1>6, <2>1, <2>2, <3>3 DEF Ids
    <3> QED
      BY <3>1, <3>2, <3>3
  <2>3. id'[First] # 0
    BY <1>6, <2>1, ThreadAssumption DEF Ids
  <2> QED
    BY <1>1, <1>6, <2>1, <2>2, <2>3 DEF Ids
<1>8. Closed(F)'
  <2>1. ASSUME NEW u \in Thread, F[u] # "none" PROVE threaded /\ id'[u] # 0
    <3>1. id[u] # 0
      BY <2>1 DEF Placed, Closed
    <3>2. ASSUME ~threaded PROVE FALSE
      <4>1. u = First /\ t = First
        BY <1>4, <3>1, <3>2 DEF Placed, Ids
      <4> QED
        BY <1>5, <2>1, <4>1
    <3> QED
      BY <1>6, <3>1, <3>2
  <2>2. "none" \notin Initialising /\ "none" \notin InDefaults
    BY DEF Initialising, InDefaults
  <2>3. ASSUME NEW u \in Thread
        PROVE  /\ F[u] # "none" => id'[u] # 0
               /\ F[u] \in Initialising => mutex["init"] = u
               /\ F[u] \in InDefaults => mutex["defaults"] = u
    BY <2>1, <2>2 DEF Placed, Closed
  <2> QED
    BY <1>1, <2>3 DEF Placed, Closed
<1>9. \A u \in Thread : Served(u) => Served(u)'
  <2>1. ASSUME NEW u \in Thread, lib.initialized, lib.main = id[u] PROVE lib.main = id'[u]
    <3>1. k > 1
      BY <2>1 DEF Placed, Built
    <3>2. lib.main # 0
      BY <3>1 DEF Placed, Ids
    <3> QED
      BY <1>6, <2>1, <3>2
  <2> QED
    BY <1>1, <2>1 DEF Served
<1>10. "none" \in Labels /\ Went(F, t, "none") = F
  BY <1>4, <1>5 DEF Labels, Went
<1>11. Follows(<<>> \o Tail(code[t]), "none", k)
  BY <1>4, <1>5, <1>10, Onward
<1>12. Shape(F, k)' /\ Ordered' /\ \A u \in Thread \ {t} : code'[u] = code[u]
  <2>1. /\ Shape(Went(F, t, "none"), k)' /\ Ordered'
        /\ \A u \in Thread \ {t} : code'[u] = code[u]
    BY <1>1, <1>4, <1>5, <1>9, <1>10, <1>11, Returned DEF OwnTurn
  <2> QED
    BY <1>10, <2>1
<1>13. Built(F, k)' /\ Fresh' /\ Formed'
  BY <1>1 DEF Placed, Built, Fresh, Formed
<1>14. Paired(F)'
  <2>1. ASSUME NEW u \in Thread PROVE F[u] = "setHandler" => code'[u] = code[u]
    BY <1>5, <1>12
  <2> QED
    BY <1>1, <2>1 DEF Placed, Paired
<1>15. Copying(F)'
  <2>1. ASSUME NEW u \in Thread, F[u] \in {"askCopy", "copyHandler", "copyContext"}
        PROVE  ~tls[u].there /\ lib.main # id'[u]
    <3>1. id[u] # 0
      BY <2>1 DEF Placed, Closed
    <3> QED
      BY <1>6, <2>1, <3>1 DEF Placed, Copying
  <2> QED
    BY <1>1, <2>1 DEF Copying
<1>16. Heard'
  <2>1. ASSUME NEW u \in Thread PROVE told[u].set = NoHandler \/ code'[u] = <<>> \/ HasSet(u)'
    <3>1. told[u].set = NoHandler \/ code[u] = <<>> \/ HasSet(u)
      BY DEF Placed, Heard
    <3>2. code[u] = <<>> => code'[u] = code[u]
      BY <1>4, <1>12
    <3>3. HasSet(u) => HasSet(u)'
      BY <1>1, <1>6 DEF HasSet
    <3> QED
      BY <3>1, <3>2, <3>3
  <2> QED
    BY <1>1, <2>1 DEF Placed, Heard
<1>17. Placed(F, k)'
  BY <1>7, <1>8, <1>12, <1>13, <1>14, <1>15, <1>16 DEF Placed
<1> QED
  BY <1>17 DEF Somewhere

\* The thread that initialises is alone, and none uses the library yet.
LEMMA Building ==
  ASSUME NEW F, NEW k, Placed(F, k), NEW t \in Thread, NEW f, At(t, f), f \in {"Init", "SetInitialized"}
  PROVE  /\ F[t] = "build" /\ ~lib.initialized /\ "build" \in Initialising
         /\ \A u \in Thread \ {t} : F[u] \notin Initialising
         /\ \A u \in Thread : F[u] \notin AtDefaults
         /\ f = "Init" => k < 7 /\ code[t][1][2] = Subsystems[k]
         /\ f = "SetInitialized" => k = 7
<1> DEFINE c == code[t]
           l == F[t]
<1>1. /\ IsList(c) /\ c # <<>> /\ Follows(c, l, k) /\ l \in Labels /\ c[1][1] = f /\ k \in 1 .. 7
  BY Facing
<1> HIDE DEF c, l
<1>2. /\ l = "build"
      /\ f = "Init" => k < 7 /\ c[1][2] = Subsystems[k]
      /\ f = "SetInitialized" => k = 7
  BY <1>1, Whereabouts
<1>3. ~lib.initialized
  BY <1>2 DEF Placed, Built, l
<1>4. "build" \in Initialising
  BY DEF Initialising
<1>5. ASSUME NEW u \in Thread, F[u] \in Initialising PROVE u = t
  <2>1. F[t] \in Initialising /\ Ids(k) /\ Closed(F)
    BY <1>2, <1>4 DEF Placed, l
  <2> QED
    BY <1>5, <2>1, Alone
<1>6. \A u \in Thread : F[u] \notin AtDefaults
  BY <1>3 DEF Placed, Built
<1> QED
  BY <1>2, <1>3, <1>4, <1>5, <1>6 DEF c, l

LEMMA SetInitializedStep ==
  ASSUME NEW F, NEW k, Placed(F, k), NEW t \in Thread, SetInitialized(t)
  PROVE  Somewhere'
<1>1. /\ At(t, "SetInitialized") /\ Returns(t)
      /\ UNCHANGED <<threaded, id, mutex, defaults, globals, tls, dicts, told>>
      /\ lib' = [lib EXCEPT !.initialized = TRUE]
  BY DEF SetInitialized, rvars
<1>2. /\ F[t] = "build" /\ ~lib.initialized /\ "build" \in Initialising /\ k = 7
      /\ \A u \in Thread \ {t} : F[u] \notin Initialising
      /\ \A u \in Thread : F[u] \notin AtDefaults
  BY <1>1, Building
<1>3. /\ F \in [Thread -> Labels] /\ k \in 1 .. 7 /\ IsList(code[t]) /\ code[t] # <<>>
      /\ Follows(code[t], F[t], k) /\ id[t] # 0 /\ F[t] \in Labels
  BY <1>1, Facing
<1>4. /\ lib' = [initialized |-> lib'.initialized, main |-> lib.main, made |-> lib.made]
      /\ lib'.initialized = TRUE
  BY <1>1 DEF Placed, Built
<1>5. /\ "closeInit" \in Labels /\ "closeInit" \in Initialising
      /\ "closeInit" \notin InDefaults
  BY DEF Labels, Initialising, InDefaults
<1>6. Follows(<<>> \o Tail(code[t]), "closeInit", k)
  BY <1>2, <1>3, Onward
<1> DEFINE G == Went(F, t, "closeInit")
<1>7. /\ G[t] = "closeInit" /\ (\A u \in Thread \ {t} : G[u] = F[u]) /\ G' = G
  BY <1>3, <1>5, WentThere DEF Went
<1>8. \A u \in Thread : Served(u) => Served(u)'
  BY <1>2 DEF Served
<1>9. Shape(G, k)' /\ Ordered' /\ \A u \in Thread \ {t} : code'[u] = code[u]
  <2>1. "SetInitialized" \notin GiveState /\ OwnTurn(F, t, k, k)
    BY DEF GiveState, OwnTurn
  <2> QED
    BY <1>1, <1>3, <1>4, <1>5, <1>6, <1>8, <2>1, Returned
<1>10. Closed(G)'
  BY <1>1, <1>2, <1>3, <1>5, ClosedKept DEF Placed
<1>11. Paired(G)'
  <2>1. F[t] # "setHandler" /\ defaults'.handler = defaults.handler /\ defaults'.context = defaults.context
    BY <1>1, <1>2
  <2> QED
    BY <1>1, <1>3, <1>5, <1>9, <2>1, PairedKept DEF Placed
<1> HIDE DEF G
<1>12. Ids(k)'
  BY <1>1, <1>4 DEF Placed, Ids
<1>13. Built(G, k)'
  <2>1. ASSUME NEW u \in Thread PROVE G[u] # "build"
    BY <1>2, <1>7
  <2>2. Built(F, k)
    BY DEF Placed
  <2>3. lib'.made = lib.made /\ lib'.main = lib.main /\ lib'.initialized
    BY <1>4
  <2>4. lib' = [initialized |-> lib'.initialized, main |-> lib'.main, made |-> lib'.made]
    BY <1>4
  <2>5. lib'.initialized \in BOOLEAN
    BY <1>4
  <2>6. lib'.made = [s \in Names |-> lib'.made[s]]
    BY <2>2, <2>3 DEF Built
  <2>7. \A j \in 1 .. 6 : lib'.made[Subsystems[j]] = IF j < k THEN 1 ELSE 0
    BY <2>2, <2>3 DEF Built
  <2> QED
    BY <1>2, <1>7, <2>1, <2>3, <2>4, <2>5, <2>6, <2>7 DEF Built
<1>14. Fresh' /\ Formed'
  BY <1>1, <1>4 DEF Placed, Fresh, Formed
<1>15. Copying(G)'
  <2>1. ASSUME NEW u \in Thread PROVE G[u] \notin {"askCopy", "copyHandler", "copyContext"}
    <3>1. u # t => G[u] \notin AtDefaults
      BY <1>2, <1>7
    <3> QED
      BY <1>7, <3>1 DEF AtDefaults, InDefaults
  <2> QED
    BY <1>7, <2>1 DEF Copying
<1>16. Heard'
  BY <1>1, <1>2, <1>3, <1>9, HeardKept DEF Placed
<1>17. Placed(G, k)'
  BY <1>9, <1>10, <1>11, <1>12, <1>13, <1>14, <1>15, <1>16 DEF Placed
<1> QED
  BY <1>17, Found DEF G

LEMMA RecordChanged ==
  ASSUME NEW r, NEW v, NEW y, NEW z, r = [initialized |-> v, main |-> y, made |-> z], NEW q, NEW x
  PROVE  [r EXCEPT !.made = q, !.main = x] = [initialized |-> v, main |-> x, made |-> q]
<1> DEFINE e == [r EXCEPT !.made = q]
<1>1. e = [initialized |-> v, main |-> y, made |-> q]
  OBVIOUS
<1>2. [e EXCEPT !.main = x] = [initialized |-> v, main |-> x, made |-> q]
  <2> HIDE DEF e
  <2> QED
    BY <1>1
<1> QED
  BY <1>2

LEMMA InitialiseStep ==
  ASSUME NEW F, NEW k, Placed(F, k), NEW t \in Thread, Initialise(t)
  PROVE  Somewhere'
<1> DEFINE s == Arg(t)
           n == k + 1
<1>1. /\ At(t, "Init") /\ Returns(t)
      /\ UNCHANGED <<threaded, id, defaults, globals, tls, dicts, told>>
      /\ lib' = [lib EXCEPT !.made[s] = @ + 1,
                            !.main = IF s = "threads" THEN id[t] ELSE @]
      /\ mutex' = CASE s = "globals" -> [mutex EXCEPT !["defaults"] = Nobody]
                    [] s = "dict"    -> [mutex EXCEPT !["dict"] = Nobody]
                    [] OTHER         -> mutex
  BY DEF Initialise, rvars
<1>2. /\ F[t] = "build" /\ ~lib.initialized /\ "build" \in Initialising /\ k < 7
      /\ \A u \in Thread \ {t} : F[u] \notin Initialising
      /\ \A u \in Thread : F[u] \notin AtDefaults
  BY <1>1, Building
<1>3. /\ F \in [Thread -> Labels] /\ k \in 1 .. 7 /\ IsList(code[t]) /\ code[t] # <<>>
      /\ Follows(code[t], F[t], k) /\ id[t] # 0 /\ F[t] \in Labels /\ s = Subsystems[k]
  BY <1>1, Facing, Building
<1> HIDE DEF s
<1>4. n \in 1 .. 7 /\ n > 1 /\ k \in 1 .. 6 /\ s \in Names /\ \A j \in 1 .. 6 : j < n <=> j < k \/ j = k
  BY <1>2, <1>3, SubsystemNames DEF Names
<1>5. /\ lib' = [initialized |-> FALSE, main |-> lib'.main, made |-> lib'.made]
      /\ lib'.made = [lib.made EXCEPT ![s] = @ + 1]
      /\ lib'.main = IF s = "threads" THEN id[t] ELSE lib.main
  <2> DEFINE v == FALSE
             y == lib.main
             z == lib.made
             q == [z EXCEPT ![s] = z[s] + 1]
             x == IF s = "threads" THEN id[t] ELSE y
  <2>1. lib = [initialized |-> v, main |-> y, made |-> z]
    BY <1>2 DEF Placed, Built
  <2>2. lib' = [lib EXCEPT !.made = q, !.main = x]
    BY <1>1
  <2> HIDE DEF v, y, z, q, x
  <2>3. lib' = [initialized |-> v, main |-> x, made |-> q]
    BY <2>1, <2>2, RecordChanged
  <2>4. lib'.main = x /\ lib'.made = q
    BY <2>3
  <2> QED
    BY <2>3, <2>4 DEF v, y, z, q, x
<1>6. Follows(<<>> \o Tail(code[t]), "build", n)
  BY <1>2, <1>3, Onward
<1> HIDE DEF n
<1>7. /\ Went(F, t, "build") = F /\ "build" \in Labels
  BY <1>2, <1>3 DEF Went
<1>8. Shape(F, n)' /\ Ordered' /\ \A u \in Thread \ {t} : code'[u] = code[u]
  <2>1. "Init" \notin Gives /\ "Init" \notin GiveState
    BY DEF Gives, GiveState
  <2>2. OwnTurn(F, t, k, n)
    BY <1>2 DEF OwnTurn
  <2>3. ~lib.initialized /\ \A u \in Thread : Served(u) => Served(u)'
    BY <1>2 DEF Served
  <2>4. /\ Shape(Went(F, t, "build"), n)' /\ Ordered'
        /\ \A u \in Thread \ {t} : code'[u] = code[u]
    BY <1>1, <1>3, <1>4, <1>6, <1>7, <2>1, <2>2, <2>3, Returned
  <2> QED
    BY <1>7, <2>4
<1>9. Ids(n)'
  <2>1. Ids(k)
    BY DEF Placed
  <2>2. s = "threads" <=> k = 1
    BY <1>3, <1>4, SubsystemNames
  <2>3. lib'.main # 0 /\ (~threaded => lib'.main = id[First])
    <3>1. CASE k = 1
      <4>1. lib'.main = id[t]
        BY <1>5, <2>2, <3>1
      <4>2. ~threaded => t = First
        BY <1>3, <2>1 DEF Ids
      <4> QED
        BY <1>3, <4>1, <4>2
    <3>2. CASE k # 1
      <4>1. lib'.main = lib.main /\ k > 1
        BY <1>4, <1>5, <2>2, <3>2
      <4> QED
        BY <2>1, <4>1 DEF Ids
    <3> QED
      BY <3>1, <3>2
  <2> QED
    BY <1>1, <2>1, <2>3 DEF Ids
<1>10. Built(F, n)'
  <2>1. Built(F, k)
    BY DEF Placed
  <2>2. lib'.initialized = FALSE
    BY <1>5
  <2>3. lib' = [initialized |-> lib'.initialized, main |-> lib'.main, made |-> lib'.made]
    BY <1>5, <2>2
  <2>4. lib'.made = [x \in Names |-> lib'.made[x]]
    BY <1>5, <2>1 DEF Built
  <2>5. ASSUME NEW j \in 1 .. 6 PROVE lib'.made[Subsystems[j]] = IF j < n THEN 1 ELSE 0
    <3>1. Subsystems[j] \in Names
      BY SubsystemNames DEF Names
    <3>2. lib.made[Subsystems[j]] = IF j < k THEN 1 ELSE 0
      BY <2>1 DEF Built
    <3>3. lib.made = [x \in Names |-> lib.made[x]]
      BY <2>1 DEF Built
    <3>4. CASE j = k
      <4>1. lib.made[s] = 0
        BY <1>3, <3>2, <3>4
      <4>2. lib'.made[s] = 0 + 1
        BY <1>4, <1>5, <3>3, <4>1
      <4> QED
        BY <1>3, <1>4, <3>4, <4>2
    <3>5. CASE j # k
      <4>1. Subsystems[j] # s
        BY <1>3, <1>4, <3>5, SubsystemNames
      <4>2. lib'.made[Subsystems[j]] = lib.made[Subsystems[j]]
        BY <1>5, <3>1, <3>3, <4>1
      <4> QED
        BY <1>4, <3>2, <3>5, <4>2
    <3> QED
      BY <3>4, <3>5
  <2>6. ASSUME NEW u \in Thread PROVE F[u] \notin {"closeInit"} \cup AtDefaults
    BY <1>2, <2>1 DEF Built
  <2> QED
    BY <1>2, <2>2, <2>3, <2>4, <2>5, <2>6 DEF Built
<1>11. Closed(F)'
  <2>1. Closed(F)
    BY DEF Placed
  <2>2. mutex' = [m \in Mutexes |-> mutex'[m]] /\ mutex'["init"] = mutex["init"]
    <3>1. \/ mutex' = mutex
          \/ mutex' = [mutex EXCEPT !["defaults"] = Nobody]
          \/ mutex' = [mutex EXCEPT !["dict"] = Nobody]
      BY <1>1
    <3>2. mutex = [m \in Mutexes |-> mutex[m]] /\ "init" \in Mutexes
      BY <2>1 DEF Closed, Mutexes
    <3> QED
      BY <3>1, <3>2
  <2>3. ASSUME NEW u \in Thread
        PROVE  /\ F[u] # "none" => id[u] # 0
               /\ threaded /\ F[u] \in Initialising => mutex'["init"] = u
               /\ F[u] \notin InDefaults
    <3>1. F[u] \notin AtDefaults
      BY <1>2
    <3> QED
      BY <2>1, <2>2, <3>1 DEF Closed, AtDefaults
  <2> QED
    BY <1>1, <2>2, <2>3 DEF Closed
<1>12. Fresh' /\ Formed'
  BY <1>1, <1>2 DEF Placed, Fresh, Formed
<1>13. Paired(F)'
  <2>1. ASSUME NEW u \in Thread PROVE F[u] # "setHandler" /\ F[u] # "copyContext"
    <3>1. F[u] \notin AtDefaults
      BY <1>2
    <3> QED
      BY <3>1 DEF AtDefaults, InDefaults
  <2> QED
    BY <1>1, <2>1 DEF Placed, Paired
<1>14. Copying(F)'
  <2>1. ASSUME NEW u \in Thread PROVE F[u] \notin {"askCopy", "copyHandler", "copyContext"}
    <3>1. F[u] \notin AtDefaults
      BY <1>2
    <3> QED
      BY <3>1 DEF AtDefaults, InDefaults
  <2> QED
    BY <2>1 DEF Copying
<1>15. Heard'
  BY <1>1, <1>2, <1>3, <1>8, HeardKept DEF Placed
<1>16. Placed(F, n)'
  BY <1>8, <1>9, <1>10, <1>11, <1>12, <1>13, <1>14, <1>15 DEF Placed
<1> QED
  BY <1>16 DEF Somewhere

\* A thread at p goes to l when it has called f for the mutex m.
Moves(f, m, p, l) ==
  \/ p = "none" /\ l = "none" /\ m \notin {"init", "defaults"}
  \/ f = "MutexLock" /\ m = "init" /\ p = "askInit" /\ l = "checkInit"
  \/ f = "MutexLock" /\ m = "defaults" /\ p = "askCopy" /\ l = "copyHandler"
  \/ f = "MutexLock" /\ m = "defaults" /\ p = "askSet" /\ l = "setContext"
  \/ f = "MutexLock" /\ m = "defaults" /\ p = "askSwap" /\ l = "readSetting"
  \/ f = "MutexUnlock" /\ m = "init" /\ p = "closeInit" /\ l = "none"
  \/ f = "MutexUnlock" /\ m = "defaults" /\ p = "close" /\ l = "none"

LEMMA AtLock ==
  ASSUME NEW F, NEW k, Placed(F, k), NEW t \in Thread, NEW f \in LockCalls, At(t, f)
  PROVE  \E l \in Labels : Moves(f, Arg(t), F[t], l) /\ Follows(<<>> \o Tail(code[t]), l, k)
<1> DEFINE c == code[t]
           p == F[t]
           m == Arg(t)
           d == <<>> \o Tail(c)
<1>1. /\ IsList(c) /\ c # <<>> /\ Follows(c, p, k) /\ p \in Labels /\ c[1][1] = f /\ k \in 1 .. 7
      /\ m = c[1][2]
  BY Facing
<1> HIDE DEF c, p, m
<1>2. /\ p = "none" => Follows(d, "none", k)
      /\ p = "askInit" => Follows(d, "checkInit", k)
      /\ p = "closeInit" => Follows(d, "none", k)
      /\ p = "askCopy" => Follows(d, "copyHandler", k)
      /\ p = "askSet" => Follows(d, "setContext", k)
      /\ p = "askSwap" => Follows(d, "readSetting", k)
      /\ p = "close" => Follows(d, "none", k)
  BY <1>1, Onward
<1> HIDE DEF d
<1>3. f = "MutexLock" \/ f = "MutexUnlock"
  BY DEF LockCalls
<1>4. f = "MutexLock" => \/ p = "none" /\ m \notin {"init", "defaults"}
                         \/ p = "askInit" /\ m = "init"
                         \/ p \in {"askCopy", "askSet", "askSwap"} /\ m = "defaults"
  BY <1>1, Whereabouts
<1>5. f = "MutexUnlock" => \/ p = "none" /\ m \notin {"init", "defaults"}
                           \/ p = "closeInit" /\ m = "init"
                           \/ p = "close" /\ m = "defaults"
  BY <1>1, Whereabouts
<1>6. {"none", "checkInit", "copyHandler", "setContext", "readSetting"} \subseteq Labels
  BY DEF Labels, Initialising, AtDefaults, InDefaults
<1>7. \E l \in Labels : Moves(f, m, p, l) /\ Follows(d, l, k)
  BY <1>2, <1>3, <1>4, <1>5, <1>6 DEF Moves
<1> QED
  BY <1>7 DEF c, p, m, d

LEMMA LockPassed ==
  ASSUME NEW F, NEW k, Placed(F, k), NEW t \in Thread, NEW f \in LockCalls, At(t, f), Returns(t),
         UNCHANGED <<threaded, id, lib, defaults, globals, tls, dicts, told>>,
         NEW l \in Labels, NEW m, Moves(f, m, F[t], l), Follows(<<>> \o Tail(code[t]), l, k),
         Closed(Went(F, t, l))'
  PROVE  Somewhere'
<1>1. F \in [Thread -> Labels] /\ k \in 1 .. 7 /\ code[t] # <<>>
  BY Facing
<1>2. /\ F[t] # "build" /\ l # "build" /\ l # "closeInit" /\ F[t] # "setHandler"
      /\ l \notin {"setHandler", "copyContext"} /\ (l = "copyHandler" => F[t] = "askCopy")
      /\ l # "askCopy" /\ (l \in AtDefaults => F[t] \in AtDefaults)
  BY DEF Moves, AtDefaults, InDefaults
<1>3. Shape(Went(F, t, l), k)' /\ Ordered' /\ \A u \in Thread \ {t} : code'[u] = code[u]
  <2>1. f \notin Gives /\ f \notin GiveState /\ OwnTurn(F, t, k, k)
    BY DEF LockCalls, Gives, GiveState, OwnTurn
  <2>2. \A u \in Thread : Served(u) => Served(u)'
    BY DEF Served
  <2> QED
    BY <1>1, <2>1, <2>2, Returned
<1>4. Ids(k)'
  BY IdsKept DEF Placed
<1>5. Built(Went(F, t, l), k)'
  <2>1. Built(F, k)
    BY DEF Placed
  <2>2. l \in {"closeInit"} \cup AtDefaults => lib.initialized
    BY <1>2, <2>1 DEF Built
  <2> QED
    BY <1>1, <1>2, <2>1, <2>2, BuiltKept
<1>6. Fresh' /\ Formed'
  BY FreshKept, FormedKept DEF Placed
<1>7. Paired(Went(F, t, l))'
  BY <1>1, <1>2, <1>3, PairedKept DEF Placed
<1>8. Copying(Went(F, t, l))'
  <2> DEFINE G == Went(F, t, l)
  <2>1. /\ G[t] = l /\ (\A u \in Thread \ {t} : G[u] = F[u]) /\ G' = G
    BY <1>1, WentThere DEF Went
  <2> HIDE DEF G
  <2>2. ASSUME NEW u \in Thread, G[u] \in {"askCopy", "copyHandler", "copyContext"}
        PROVE  ~tls[u].there /\ lib.main # id[u]
    <3>1. F[u] \in {"askCopy", "copyHandler", "copyContext"}
      BY <1>2, <2>1, <2>2
    <3> QED
      BY <3>1 DEF Placed, Copying
  <2>3. Copying(G)'
    BY <2>1, <2>2 DEF Copying
  <2> QED
    BY <2>3 DEF G
<1>9. Heard'
  BY <1>1, <1>3, HeardKept DEF Placed
<1>10. Placed(Went(F, t, l), k)'
  BY <1>3, <1>4, <1>5, <1>6, <1>7, <1>8, <1>9 DEF Placed
<1> QED
  BY <1>10, Found

\* With one thread, the mutexes do nothing and there is no one to keep out.
LEMMA LockAlone ==
  ASSUME NEW F, NEW k, Placed(F, k), NEW t \in Thread, id[t] # 0, ~threaded,
         UNCHANGED <<threaded, id, mutex>>, NEW l \in Labels
  PROVE  Closed(Went(F, t, l))'
<1> DEFINE G == Went(F, t, l)
<1>1. Closed(F) /\ Shape(F, k)
  BY DEF Placed
<1>2. (\A u \in Thread \ {t} : G[u] = F[u]) /\ G' = G
  BY <1>1, WentThere DEF Went, Shape
<1> HIDE DEF G
<1>3. \A u \in Thread : G[u] # "none" => id[u] # 0
  BY <1>1, <1>2 DEF Closed
<1>4. Closed(G)'
  BY <1>1, <1>2, <1>3 DEF Closed
<1> QED
  BY <1>4 DEF G

LEMMA MutexLockStep ==
  ASSUME NEW F, NEW k, Placed(F, k), NEW t \in Thread, MutexLock(t)
  PROVE  Somewhere'
<1> DEFINE m == Arg(t)
           f == "MutexLock"
<1>1. /\ At(t, f) /\ Returns(t)
      /\ UNCHANGED <<threaded, id, lib, defaults, globals, tls, dicts, told>>
      /\ threaded => mutex[m] = Nobody /\ mutex' = [mutex EXCEPT ![m] = t]
      /\ ~threaded => UNCHANGED mutex
  BY DEF MutexLock, rvars
<1>2. f \in LockCalls
  BY DEF LockCalls
<1>3. PICK l \in Labels : Moves(f, m, F[t], l) /\ Follows(<<>> \o Tail(code[t]), l, k)
  BY <1>1, <1>2, AtLock
<1> HIDE DEF m
<1>4. F \in [Thread -> Labels] /\ id[t] # 0
  BY <1>1, Facing
<1>5. CASE threaded
  <2> DEFINE G == Went(F, t, l)
  <2>1. G[t] = l /\ (\A u \in Thread \ {t} : G[u] = F[u]) /\ G' = G
    BY <1>4, WentThere DEF Went
  <2> HIDE DEF G
  <2>2. Closed(F) /\ mutex[m] = Nobody /\ mutex' = [mutex EXCEPT ![m] = t] /\ threaded'
    BY <1>1, <1>5 DEF Placed
  <2>3. /\ mutex' = [x \in Mutexes |-> mutex'[x]] /\ {"init", "defaults"} \subseteq Mutexes
        /\ \A x \in Mutexes : mutex'[x] = IF x = m THEN t ELSE mutex[x]
    BY <2>2 DEF Closed, Mutexes
  <2>4. /\ l \in Initialising => m = "init"
        /\ l \in InDefaults => m = "defaults"
    BY <1>3 DEF Moves, Initialising, InDefaults
  <2>5. ASSUME NEW u \in Thread
        PROVE  /\ G[u] # "none" => id[u] # 0
               /\ G[u] \in Initialising => mutex'["init"] = u
               /\ G[u] \in InDefaults => mutex'["defaults"] = u
    <3>1. CASE u = t
      BY <1>4, <2>1, <2>3, <2>4, <3>1
    <3>2. CASE u # t
      <4>1. Nobody # u
        BY ThreadAssumption
      <4>2. /\ F[u] # "none" => id[u] # 0
            /\ F[u] \in Initialising => mutex["init"] = u
            /\ F[u] \in InDefaults => mutex["defaults"] = u
        BY <1>5, <2>2 DEF Closed
      <4> QED
        BY <2>1, <2>2, <2>3, <3>2, <4>1, <4>2
    <3> QED
      BY <3>1, <3>2
  <2>6. Closed(G)'
    BY <1>1, <2>1, <2>3, <2>5 DEF Closed
  <2>7. Closed(Went(F, t, l))'
    BY <2>6 DEF G
  <2> QED
    BY <1>1, <1>2, <1>3, <2>7, LockPassed
<1>6. CASE ~threaded
  <2>1. Closed(Went(F, t, l))'
    BY <1>1, <1>4, <1>6, LockAlone
  <2> QED
    BY <1>1, <1>2, <1>3, <2>1, LockPassed
<1> QED
  BY <1>5, <1>6

LEMMA MutexUnlockStep ==
  ASSUME NEW F, NEW k, Placed(F, k), NEW t \in Thread, MutexUnlock(t)
  PROVE  Somewhere'
<1> DEFINE m == Arg(t)
           f == "MutexUnlock"
<1>1. /\ At(t, f) /\ Returns(t)
      /\ UNCHANGED <<threaded, id, lib, defaults, globals, tls, dicts, told>>
      /\ threaded => mutex' = [mutex EXCEPT ![m] = Nobody]
      /\ ~threaded => UNCHANGED mutex
  BY DEF MutexUnlock, rvars
<1>2. f \in LockCalls
  BY DEF LockCalls
<1>3. PICK l \in Labels : Moves(f, m, F[t], l) /\ Follows(<<>> \o Tail(code[t]), l, k)
  BY <1>1, <1>2, AtLock
<1> HIDE DEF m
<1>4. F \in [Thread -> Labels] /\ id[t] # 0
  BY <1>1, Facing
<1>5. CASE threaded
  <2> DEFINE G == Went(F, t, l)
  <2>1. G[t] = l /\ (\A u \in Thread \ {t} : G[u] = F[u]) /\ G' = G
    BY <1>4, WentThere DEF Went
  <2> HIDE DEF G
  <2>2. Closed(F) /\ Ids(k) /\ mutex' = [mutex EXCEPT ![m] = Nobody] /\ threaded'
    BY <1>1, <1>5 DEF Placed
  <2>3. /\ mutex' = [x \in Mutexes |-> mutex'[x]] /\ {"init", "defaults"} \subseteq Mutexes
        /\ \A x \in Mutexes : x # m => mutex'[x] = mutex[x]
    BY <2>2 DEF Closed, Mutexes
  <2>4. /\ l = "none" /\ "none" \notin Initialising /\ "none" \notin InDefaults
        /\ m = "init" => F[t] \in Initialising
        /\ m = "defaults" => F[t] \in InDefaults
    BY <1>3 DEF Moves, Initialising, InDefaults
  <2>5. ASSUME NEW u \in Thread
        PROVE  /\ G[u] # "none" => id[u] # 0
               /\ G[u] \in Initialising => mutex'["init"] = u
               /\ G[u] \in InDefaults => mutex'["defaults"] = u
    <3>1. CASE u = t
      BY <2>1, <2>4, <3>1
    <3>2. CASE u # t
      <4>1. /\ F[u] # "none" => id[u] # 0
            /\ F[u] \in Initialising => mutex["init"] = u
            /\ F[u] \in InDefaults => mutex["defaults"] = u
        BY <1>5, <2>2 DEF Closed
      <4>2. /\ F[u] \in Initialising => m # "init"
            /\ F[u] \in InDefaults => m # "defaults"
        BY <2>2, <2>4, <3>2, Alone
      <4> QED
        BY <2>1, <2>3, <3>2, <4>1, <4>2
    <3> QED
      BY <3>1, <3>2
  <2>6. Closed(G)'
    BY <1>1, <2>1, <2>3, <2>5 DEF Closed
  <2>7. Closed(Went(F, t, l))'
    BY <2>6 DEF G
  <2> QED
    BY <1>1, <1>2, <1>3, <2>7, LockPassed
<1>6. CASE ~threaded
  <2>1. Closed(Went(F, t, l))'
    BY <1>1, <1>4, <1>6, LockAlone
  <2> QED
    BY <1>1, <1>2, <1>3, <2>1, LockPassed
<1> QED
  BY <1>5, <1>6
-----------------------------------------------------------------------------
(* The whole.                                                              *)

\* Programs make no call of those that functions keep to themselves.
LEMMA ProgramCalls ==
  ASSUME NEW x \in ApiCalls
  PROVE  Loose(x) /\ x[1] \notin Needs /\ x[1] \notin NeedState
<1>1. x[1] \in {"RMutexLock", "RMutexUnlock", "LockLibrary", "InitParser", "RaiseError",
                "Spawn", "Join", "SetFunc", "SetDefaultFunc", "SwapDefault",
                "DictCreate", "DictReference", "DictFree", "DictCreateSub"}
  <2>1. CASE x \in {<<f>> : f \in {"RMutexLock", "RMutexUnlock", "LockLibrary", "InitParser", "RaiseError"}}
    BY <2>1
  <2>2. CASE x \in {"Spawn", "Join"} \X Thread
    BY <2>2
  <2>3. CASE x \in {"SetFunc", "SetDefaultFunc", "SwapDefault"} \X (Handler \cup {NoHandler})
    BY <2>3
  <2>4. CASE x \in {"DictCreate", "DictReference", "DictFree"} \X Dict
    BY <2>4
  <2>5. CASE x \in {"DictCreateSub"} \X (Dict \X Dict)
    BY <2>5
  <2> QED
    BY <2>1, <2>2, <2>3, <2>4, <2>5 DEF ApiCalls
<1> QED
  BY <1>1 DEF Loose, Inner, LockCalls, Needs, NeedState

\* The invariant holds at first.
LEMMA PlacedAtFirst == LInit => Somewhere
<1> SUFFICES ASSUME LInit PROVE Somewhere
  OBVIOUS
<1> DEFINE F == [t \in Thread |-> "none"]
<1>1. PICK i \in Id : id = [t \in Thread |-> IF t = First THEN i ELSE 0]
  BY DEF LInit
<1>2. i # 0 /\ id[First] = i /\ \A t \in Thread \ {First} : id[t] = 0
  BY <1>1, LibraryAssumption, ThreadAssumption
<1>3. /\ lib = [initialized |-> FALSE, main |-> 0, made |-> [s \in Names |-> 0]]
      /\ threaded = FALSE /\ code \in Programs
      /\ mutex = [m \in Mutexes |-> Nobody] /\ defaults = NoDefaults /\ globals = NoPair
      /\ tls = [t \in Thread |-> NoState] /\ dicts = [d \in Dict |-> NoDictionary]
      /\ told = [t \in Thread |-> [set |-> NoHandler, reached |-> NoPair, own |-> TRUE,
                                   new |-> NoHandler, old |-> NoHandler]]
  BY DEF LInit, RInit, Names
<1>4. code \in [Thread -> Seq(ApiCalls)]
  BY <1>3, LibraryAssumption
<1>5. F \in [Thread -> Labels] /\ \A t \in Thread : F[t] = "none"
  BY DEF Labels
<1> HIDE DEF F
<1>6. ASSUME NEW t \in Thread
      PROVE  /\ IsList(code[t]) /\ Len(code[t]) \in Nat
             /\ \A j \in 1 .. Len(code[t]) : /\ Loose(code[t][j]) /\ code[t][j][1] \notin Needs
                                             /\ code[t][j][1] \notin NeedState
  <2>1. code[t] \in Seq(ApiCalls)
    BY <1>4
  <2>2. IsList(code[t])
    BY <2>1, Elements
  <2>3. Len(code[t]) \in Nat /\ \A j \in 1 .. Len(code[t]) : code[t][j] \in ApiCalls
    BY <2>1
  <2> QED
    BY <2>2, <2>3, ProgramCalls
<1>7. Shape(F, 1)
  <2>1. ASSUME NEW t \in Thread PROVE Follows(code[t], F[t], 1)
    <3>1. Rest(code[t], 0)
      BY <1>6 DEF Rest
    <3> QED
      BY <1>5, <3>1 DEF Follows
  <2>2. 1 \in 1 .. 7 /\ code = [t \in Thread |-> code[t]]
    BY <1>4
  <2> QED
    BY <1>5, <1>6, <2>1, <2>2 DEF Shape
<1>8. Ids(1)
  <2>1. \A t, u \in Thread : id[t] = id[u] /\ id[t] # 0 => t = u
    BY <1>2
  <2>2. id = [t \in Thread |-> id[t]] /\ ~(1 > 1)
    BY <1>1
  <2> QED
    BY <1>2, <1>3, <2>1, <2>2 DEF Ids
<1>9. Built(F, 1)
  <2>1. \A j \in 1 .. 6 : lib.made[Subsystems[j]] = 0 /\ ~(j < 1)
    BY <1>3, SubsystemNames DEF Names
  <2>2. \A t \in Thread : F[t] # "build" /\ F[t] \notin {"closeInit"} \cup AtDefaults
    BY <1>5 DEF AtDefaults, InDefaults
  <2> QED
    BY <1>3, <2>1, <2>2 DEF Built
<1>10. Closed(F)
  <2>1. \A t \in Thread : F[t] \notin Initialising /\ F[t] \notin InDefaults
    BY <1>5 DEF Initialising, InDefaults
  <2> QED
    BY <1>3, <1>5, <2>1 DEF Closed
<1>11. Ordered
  BY <1>6 DEF Ordered, Prepared, After
<1>12. Fresh
  BY <1>3 DEF Fresh, NoState, NoDictionary
<1>13. Formed
  <2>1. defaults = [handler |-> defaults.handler, context |-> defaults.context, setting |-> defaults.setting]
    BY <1>3 DEF NoDefaults
  <2>2. \A t \in Thread :
          /\ tls[t] = [there |-> tls[t].there, pair |-> tls[t].pair]
          /\ tls[t].pair = [handler |-> tls[t].pair.handler, context |-> tls[t].pair.context]
    BY <1>3 DEF NoState, NoPair
  <2>3. \A t \in Thread :
          told[t] = [set |-> told[t].set, reached |-> told[t].reached, own |-> told[t].own,
                     new |-> told[t].new, old |-> told[t].old]
    BY <1>3
  <2>4. tls = [t \in Thread |-> tls[t]] /\ told = [t \in Thread |-> told[t]]
    BY <1>3
  <2> QED
    BY <2>1, <2>2, <2>3, <2>4 DEF Formed
<1>14. Paired(F)
  BY <1>3, <1>5 DEF Paired, NoPair, NoState, NoDefaults
<1>15. Copying(F)
  BY <1>5 DEF Copying
<1>16. Heard
  BY <1>3 DEF Heard, NoPair
<1>17. Placed(F, 1)
  BY <1>7, <1>8, <1>9, <1>10, <1>11, <1>12, <1>13, <1>14, <1>15, <1>16 DEF Placed
<1> QED
  BY <1>17 DEF Somewhere

\* Every step keeps the invariant.
LEMMA StillSomewhere == Somewhere /\ [LNext]_vars => Somewhere'
<1> SUFFICES ASSUME Somewhere, [LNext]_vars PROVE Somewhere'
  OBVIOUS
<1>1. PICK F, k : Placed(F, k)
  BY DEF Somewhere
<1>2. CASE UNCHANGED vars
  <2>1. UNCHANGED <<threaded, libVars>>
    BY <1>2 DEF vars, rvars
  <2> QED
    BY <1>1, <2>1, OtherLockSteps
<1>3. ASSUME NEW t \in Thread, RecursiveStep(t) \/ Spurious(t) PROVE Somewhere'
  <2>1. UNCHANGED <<threaded, libVars>>
    BY <1>3 DEF RecursiveStep, Spurious, MutexStep, Enter, Reenter, Queue, Sleep, Wake,
       StopWaiting, Take, Release, Leave, SpuriousWakeup
  <2> QED
    BY <1>1, <2>1, OtherLockSteps
<1>4. ASSUME NEW t \in Thread,
             \/ TakeRecursive(t) \/ GiveRecursive(t) \/ LockLibrary(t)
             \/ MutexLock(t) \/ MutexUnlock(t) \/ Spawn(t) \/ Exit(t) \/ Join(t)
      PROVE  Somewhere'
  BY <1>1, <1>4, Simple, MutexLockStep, MutexUnlockStep, SpawnStep, ExitStep
<1>5. ASSUME NEW t \in Thread,
             InitParser(t) \/ InitOnce(t) \/ Initialise(t) \/ SetInitialized(t)
      PROVE  Somewhere'
  BY <1>1, <1>5, InitParserStep, InitOnceStep, InitialiseStep, SetInitializedStep
<1>6. ASSUME NEW t \in Thread,
             \/ GetState(t) \/ CopyHandler(t) \/ CopyContext(t)
             \/ SetDefaultFunc(t) \/ DefaultContext(t) \/ DefaultHandler(t)
             \/ SwapDefault(t) \/ ReadSetting(t) \/ WriteSetting(t)
      PROVE  Somewhere'
  BY <1>1, <1>6, GetStateStep, CopyHandlerStep, CopyContextStep, DefaultSteps,
     DefaultContextStep, DefaultHandlerStep, ReadSettingStep, WriteSettingStep
<1>7. ASSUME NEW t \in Thread, SetFunc(t) \/ Store(t) \/ RaiseError(t) \/ Deliver(t)
      PROVE  Somewhere'
  BY <1>1, <1>7, ErrorSteps, StoreStep, DeliverStep
<1>8. ASSUME NEW t \in Thread,
             \/ DictCreate(t) \/ NewDict(t) \/ DictCreateSub(t) \/ SetSub(t)
             \/ DictReference(t) \/ ReadRefs(t) \/ WriteRefs(t)
             \/ DictFree(t) \/ IfLast(t) \/ DictGone(t) \/ FreeDict(t)
      PROVE  Somewhere'
  BY <1>1, <1>8, CreateSteps, DictSteps, CountingSteps
<1> QED
  BY <1>2, <1>3, <1>4, <1>5, <1>6, <1>7, <1>8 DEF LNext, LibraryStep

Sighted ==
  /\ sight = [threads |-> sight.threads, mutexes |-> sight.mutexes, early |-> sight.early]
  /\ InSight

\* Who was in sight of an early initialisation remains so, and so is whom he starts.
LEMMA SightKept == Somewhere /\ Sighted /\ [LNext]_vars => Sighted'
<1> SUFFICES ASSUME Somewhere, Sighted, [LNext]_vars PROVE Sighted'
  OBVIOUS
<1>1. PICK k : Ids(k)
  BY DEF Somewhere, Placed
<1>2. ASSUME UNCHANGED <<id, sight>> PROVE Sighted'
  BY <1>2 DEF Sighted, InSight, Alive
<1>3. CASE UNCHANGED vars
  BY <1>2, <1>3 DEF vars, libVars
<1>4. ASSUME NEW t \in Thread, MutexLock(t) \/ MutexUnlock(t) PROVE Sighted'
  <2>1. /\ id' = id /\ sight'.early = sight.early /\ sight.threads \subseteq sight'.threads
        /\ sight' = [threads |-> sight'.threads, mutexes |-> sight'.mutexes, early |-> sight'.early]
    BY <1>4 DEF MutexLock, MutexUnlock, Sighted
  <2> QED
    BY <2>1 DEF Sighted, InSight, Alive
<1>5. ASSUME NEW t \in Thread, Spawn(t) PROVE Sighted'
  <2> DEFINE u == Arg(t)
  <2>1. /\ id[t] # 0 /\ Sees(u, t)
        /\ \E i \in Id : id' = [id EXCEPT ![u] = i]
    BY <1>5 DEF Spawn, At
  <2>2. \A v \in Thread : id'[v] # 0 => v = u \/ id[v] # 0
    BY <1>1, <2>1 DEF Ids
  <2>3. /\ sight'.early = sight.early
        /\ t \in sight.threads => sight'.threads = sight.threads \cup {u}
        /\ sight' = [threads |-> sight'.threads, mutexes |-> sight'.mutexes, early |-> sight'.early]
    BY <2>1 DEF Sees, Sighted
  <2> QED
    BY <2>1, <2>2, <2>3 DEF Sighted, InSight, Alive
<1>6. ASSUME NEW t \in Thread, Exit(t) PROVE Sighted'
  <2>1. sight' = sight /\ id' = [id EXCEPT ![t] = 0]
    BY <1>6 DEF Exit
  <2>2. \A v \in Thread : id'[v] # 0 => id[v] # 0
    BY <1>1, <2>1 DEF Ids
  <2> QED
    BY <2>1, <2>2 DEF Sighted, InSight, Alive
<1>7. ASSUME NEW t \in Thread, Join(t) PROVE Sighted'
  <2>1. /\ id[t] # 0 /\ id' = id
        /\ IF t \in sight.threads THEN sight' = sight ELSE Sees(t, Arg(t))
    BY <1>7 DEF Join, At
  <2>2. CASE t \in sight.threads
    BY <1>2, <2>1, <2>2
  <2>3. CASE t \notin sight.threads
    <3>1. ~sight.early
      BY <2>1, <2>3 DEF Sighted, InSight, Alive
    <3>2. /\ sight'.early = sight.early
          /\ sight' = [threads |-> sight'.threads, mutexes |-> sight'.mutexes, early |-> sight'.early]
      BY <2>1, <2>3 DEF Sees, Sighted
    <3> QED
      BY <3>1, <3>2 DEF Sighted, InSight
  <2> QED
    BY <2>2, <2>3
<1>8. ASSUME NEW t \in Thread, SetInitialized(t) PROVE Sighted'
  <2>1. /\ id[t] # 0 /\ id' = id
        /\ sight' = [sight EXCEPT !.threads = @ \cup {t}, !.early = ~threaded]
    BY <1>8 DEF SetInitialized, At
  <2>2. /\ sight'.early <=> ~threaded
        /\ t \in sight'.threads
        /\ sight' = [threads |-> sight'.threads, mutexes |-> sight'.mutexes, early |-> sight'.early]
    BY <2>1 DEF Sighted
  <2>3. ASSUME ~threaded, NEW v \in Thread, id[v] # 0 PROVE v = t
    BY <1>1, <2>1, <2>3 DEF Ids
  <2> QED
    BY <2>1, <2>2, <2>3 DEF Sighted, InSight, Alive
<1>9. ASSUME NEW t \in Thread,
             \/ RecursiveStep(t) \/ Spurious(t) \/ TakeRecursive(t) \/ GiveRecursive(t)
             \/ LockLibrary(t) \/ InitParser(t) \/ InitOnce(t) \/ Initialise(t)
             \/ GetState(t) \/ CopyHandler(t) \/ CopyContext(t)
             \/ SetDefaultFunc(t) \/ DefaultContext(t) \/ DefaultHandler(t)
             \/ SwapDefault(t) \/ ReadSetting(t) \/ WriteSetting(t)
             \/ SetFunc(t) \/ Store(t) \/ RaiseError(t) \/ Deliver(t)
             \/ DictCreate(t) \/ NewDict(t) \/ DictCreateSub(t) \/ SetSub(t)
             \/ DictReference(t) \/ ReadRefs(t) \/ WriteRefs(t)
             \/ DictFree(t) \/ IfLast(t) \/ DictGone(t) \/ FreeDict(t)
      PROVE  Sighted'
  <2>1. UNCHANGED <<id, sight>>
    BY <1>9 DEF RecursiveStep, Spurious, libVars, TakeRecursive, GiveRecursive, LockLibrary,
       InitParser, InitOnce, Initialise, GetState, CopyHandler, CopyContext, SetDefaultFunc,
       DefaultContext, DefaultHandler, SwapDefault, ReadSetting, WriteSetting, SetFunc, Store,
       RaiseError, Deliver, DictCreate, NewDict, DictCreateSub, SetSub, DictReference, ReadRefs,
       WriteRefs, DictFree, IfLast, DictGone, FreeDict
  <2> QED
    BY <1>2, <2>1
<1>10. CASE LNext
  <2>1. PICK t \in Thread : LibraryStep(t) \/ Spurious(t)
    BY <1>10 DEF LNext
  <2> QED
    BY <1>4, <1>5, <1>6, <1>7, <1>8, <1>9, <2>1 DEF LibraryStep
<1> QED
  BY <1>3, <1>10

\* Each subsystem is initialised once, and all of them before a thread uses the
\* library, whichever threads begin at the same time; and what was initialised
\* before there was a second thread is seen by all (xml_parser.c:94, and :89).
THEOREM LibraryInitialisedOnce == LSpec => []InitialisedOnce
<1>1. Somewhere /\ Sighted => InitialisedOnce
  <2> SUFFICES ASSUME NEW F, NEW k, Placed(F, k), Sighted PROVE InitialisedOnce
    BY DEF Somewhere
  <2>1. /\ lib.made = [s \in Names |-> lib.made[s]]
        /\ \A j \in 1 .. 6 : lib.made[Subsystems[j]] = IF j < k THEN 1 ELSE 0
        /\ lib.initialized => k = 7
    BY DEF Placed, Built
  <2>2. ASSUME NEW s \in DOMAIN lib.made
        PROVE  lib.made[s] <= 1 /\ (lib.initialized => lib.made[s] = 1)
    <3>1. PICK j \in 1 .. 6 : s = Subsystems[j]
      BY <2>1, SubsystemNames DEF Names
    <3> QED
      BY <2>1, <3>1
  <2> QED
    BY <2>2 DEF Placed, Fresh, Sighted, InitialisedOnce
<1>2. LInit => Sighted
  BY DEF LInit, Sighted, InSight
<1> QED
  BY <1>1, <1>2, PlacedAtFirst, StillSomewhere, SightKept, PTL DEF LSpec

\* An error reaches the handler that the thread which raised it has set, with
\* the context of that handler, whoever changes the defaults (xml_error.c:306).
THEOREM ErrorsFindTheirHandler == LSpec => []ErrorsReachTheirHandler
<1>1. Somewhere => ErrorsReachTheirHandler
  BY DEF Somewhere, Placed, Heard, ErrorsReachTheirHandler
<1> QED
  BY <1>1, PlacedAtFirst, StillSomewhere, PTL DEF LSpec
-----------------------------------------------------------------------------
(* The calls that a call makes, and what it changes.                       *)

Listed == code = [t \in Thread |-> code[t]] /\ \A t \in Thread : IsList(code[t])

\* t makes the calls b instead of its first.
Turns(t, b) ==
  /\ Listed /\ Listed' /\ \A u \in Thread \ {t} : code'[u] = code[u]
  /\ Len(b) \in Nat /\ Len(code[t]) \in Nat \ {0}
  /\ Len(code'[t]) = Len(b) + (Len(code[t]) - 1)
  /\ Replaces(code'[t], code[t], Len(code[t]), b, Len(b))

\* b is the list of these calls.
Is1(b, x) == Len(b) = 1 /\ b[1] = x
Is2(b, x, y) == Len(b) = 2 /\ b[1] = x /\ b[2] = y
Is3(b, x, y, z) == Len(b) = 3 /\ b[1] = x /\ b[2] = y /\ b[3] = z
Is4(b, x, y, z, w) == Len(b) = 4 /\ b[1] = x /\ b[2] = y /\ b[3] = z /\ b[4] = w

\* Calls that always make others.
Expanding == {"SetDefaultFunc", "SwapDefault", "ReadSetting", "SetFunc", "RaiseError", "DictCreate",
              "DictCreateSub", "DictReference", "ReadRefs", "DictFree", "IfLast", "DictGone"}

\* b is what the call f(a) makes.
Expands(f, a, b) ==
  \/ Len(b) = 0 /\ f \notin Expanding
  \/ f = "InitParser" /\ Is3(b, Lock("init"), <<"InitOnce">>, Unlock("init"))
  \/ f = "InitOnce" /\ Len(b) = 7 /\ \A i \in 1 .. 7 : b[i][1] \in {"Init", "SetInitialized"}
  \/ f = "GetState" /\ Is4(b, Lock("defaults"), <<"CopyHandler">>, <<"CopyContext">>, Unlock("defaults"))
  \/ /\ f = "SetDefaultFunc"
     /\ Is4(b, Lock("defaults"), <<"DefaultContext", a>>, <<"DefaultHandler", a>>, Unlock("defaults"))
  \/ f = "SwapDefault" /\ Is3(b, Lock("defaults"), <<"ReadSetting", a>>, Unlock("defaults"))
  \/ f = "ReadSetting" /\ Is1(b, <<"WriteSetting", a>>)
  \/ /\ f \in {"SetFunc", "RaiseError"} /\ Len(b) = 3
     /\ \A i \in 1 .. 3 : b[i][1] \in {"InitParser", "GetState", "Store", "Deliver"}
  \/ f = "DictCreate" /\ Is4(b, <<"InitParser">>, <<"NewDict", a>>, Lock("dict"), Unlock("dict"))
  \/ /\ f = "DictCreateSub"
     /\ Is3(b, <<"DictCreate", a[1]>>, <<"SetSub", <<a[1], a[2]>>>>, <<"DictReference", a[2]>>)
  \/ f = "DictReference" /\ Is3(b, Lock("dict"), <<"ReadRefs", <<a, 1>>>>, Unlock("dict"))
  \/ f = "ReadRefs" /\ Is1(b, <<"WriteRefs", <<a[1], dicts[a[1]].refs + a[2]>>>>)
  \/ f = "DictFree" /\ Is3(b, Lock("dict"), <<"ReadRefs", <<a, -1>>>>, <<"IfLast", a>>)
  \/ f = "IfLast" /\ dicts[a].refs > 0 /\ Is1(b, Unlock("dict"))
  \/ f = "IfLast" /\ ~(dicts[a].refs > 0) /\ Is2(b, Unlock("dict"), <<"DictGone", a>>)
  \/ f = "DictGone" /\ dicts[a].sub = NoDict /\ Is1(b, <<"FreeDict", a>>)
  \/ f = "DictGone" /\ dicts[a].sub # NoDict /\ Is2(b, <<"DictFree", dicts[a].sub>>, <<"FreeDict", a>>)

\* What Calls says of the lists.
LEMMA Turning ==
  ASSUME NEW F, NEW k, Placed(F, k), NEW t \in Thread, code[t] # <<>>, NEW b, IsList(b), Calls(t, b)
  PROVE  Turns(t, b)
<1> DEFINE d == b \o Tail(code[t])
<1>1. code = [u \in Thread |-> code[u]] /\ \A u \in Thread : IsList(code[u])
  BY DEF Placed, Shape
<1>2. /\ IsList(d) /\ Len(d) = Len(b) + (Len(code[t]) - 1)
      /\ Replaces(d, code[t], Len(code[t]), b, Len(b))
  BY <1>1, Replaced
<1>3. Len(b) \in Nat /\ Len(code[t]) \in Nat \ {0}
  BY <1>1, CallListFacts
<1>4. code' = [code EXCEPT ![t] = d]
  BY DEF Calls
<1> HIDE DEF d
<1>5. code'[t] = d /\ (\A u \in Thread \ {t} : code'[u] = code[u]) /\ code' = [u \in Thread |-> code'[u]]
  BY <1>1, <1>4
<1>6. Listed /\ Listed'
  BY <1>1, <1>2, <1>5 DEF Listed
<1> QED
  BY <1>2, <1>3, <1>5, <1>6 DEF Turns

\* Lists put together: two and two, ...
LEMMA TwoAndTwo ==
  ASSUME NEW s, NEW e, IsList(s), IsList(e)
  PROVE  /\ IsList(s \o e)
         /\ Len(s) = 2 /\ Len(e) = 2 => Is4(s \o e, s[1], s[2], e[1], e[2])
<1> DEFINE d == s \o e
<1>1. /\ IsList(d) /\ Len(d) = Len(s) + Len(e)
      /\ \A i \in 1 .. Len(s) : d[i] = s[i]
      /\ \A i \in 1 .. Len(e) : d[Len(s) + i] = e[i]
  BY Appended
<1> HIDE DEF d
<1>2. ASSUME Len(s) = 2, Len(e) = 2 PROVE Is4(d, s[1], s[2], e[1], e[2])
  <2>1. d[2 + 1] = e[1] /\ d[2 + 2] = e[2]
    BY <1>1, <1>2
  <2> QED
    BY <1>1, <1>2, <2>1 DEF Is4
<1> QED
  BY <1>1, <1>2 DEF d

\* ... nothing or one and one.
LEMMA ListThenOne ==
  ASSUME NEW s, IsList(s), NEW q, IsList(q)
  PROVE  /\ IsList(s \o q)
         /\ Len(s) = 0 /\ Len(q) = 1 => Is1(s \o q, q[1])
         /\ Len(s) = 1 /\ Len(q) = 1 => Is2(s \o q, s[1], q[1])
<1> DEFINE d == s \o q
<1>1. /\ IsList(d) /\ Len(d) = Len(s) + Len(q)
      /\ \A i \in 1 .. Len(s) : d[i] = s[i]
      /\ \A i \in 1 .. Len(q) : d[Len(s) + i] = q[i]
  BY Appended
<1> HIDE DEF d
<1>2. ASSUME Len(s) = 0, Len(q) = 1 PROVE Is1(d, q[1])
  <2>1. d[0 + 1] = q[1]
    BY <1>1, <1>2
  <2> QED
    BY <1>1, <1>2, <2>1 DEF Is1
<1>3. ASSUME Len(s) = 1, Len(q) = 1 PROVE Is2(d, s[1], q[1])
  <2>1. d[1 + 1] = q[1] /\ d[1] = s[1]
    BY <1>1, <1>3
  <2> QED
    BY <1>1, <1>3, <2>1 DEF Is2
<1> QED
  BY <1>1, <1>2, <1>3 DEF d

\* The list that DictGone makes.
LEMMA OneAndOne ==
  ASSUME NEW x, NEW z
  PROVE  /\ IsList(<<>> \o <<z>>) /\ Is1(<<>> \o <<z>>, z)
         /\ IsList(<<x>> \o <<z>>) /\ Is2(<<x>> \o <<z>>, x, z)
<1> DEFINE e == <<>>
           p == <<x>>
           q == <<z>>
<1>1. /\ IsList(e) /\ Len(e) = 0 /\ IsList(p) /\ Len(p) = 1 /\ p[1] = x
      /\ IsList(q) /\ Len(q) = 1 /\ q[1] = z
  BY EmptyList, Tuples
<1> HIDE DEF e, p, q
<1>2. IsList(e \o q) /\ Is1(e \o q, z) /\ IsList(p \o q) /\ Is2(p \o q, x, z)
  BY <1>1, ListThenOne
<1> QED
  BY <1>2 DEF e, p, q

\* The other lists that calls make.
LEMMA CallLists ==
  ASSUME NEW x, NEW y, NEW z, NEW w
  PROVE  /\ IsList(<<>>) /\ Len(<<>>) = 0
         /\ IsList(<<x>>) /\ Is1(<<x>>, x)
         /\ IsList(<<x, y>>) /\ Is2(<<x, y>>, x, y)
         /\ IsList(<<x, y, z>>) /\ Is3(<<x, y, z>>, x, y, z)
         /\ \A m : IsList(Locked(m, <<>>)) /\ Is2(Locked(m, <<>>), Lock(m), Unlock(m))
         /\ \A m : IsList(Locked(m, <<x>>)) /\ Is3(Locked(m, <<x>>), Lock(m), x, Unlock(m))
         /\ \A m : IsList(Locked(m, <<x, y>>)) /\ Is4(Locked(m, <<x, y>>), Lock(m), x, y, Unlock(m))
         /\ IsList(<<x, y>> \o Locked("dict", <<>>))
         /\ Is4(<<x, y>> \o Locked("dict", <<>>), x, y, Lock("dict"), Unlock("dict"))
<1>1. /\ IsList(<<x>>) /\ Is1(<<x>>, x)
      /\ IsList(<<x, y>>) /\ Is2(<<x, y>>, x, y)
      /\ IsList(<<x, y, z>>) /\ Is3(<<x, y, z>>, x, y, z)
  BY Tuples DEF Is1, Is2, Is3
<1>2. ASSUME NEW m, NEW s, IsList(s)
      PROVE  /\ IsList(Locked(m, s)) /\ Locked(m, s)[1] = Lock(m)
             /\ Len(Locked(m, s)) = Len(s) + 2 /\ Locked(m, s)[Len(s) + 2] = Unlock(m)
             /\ \A i \in 1 .. Len(s) : Locked(m, s)[i + 1] = s[i]
  BY <1>2, LockedList DEF Lock, Unlock
<1>3. ASSUME NEW m PROVE IsList(Locked(m, <<>>)) /\ Is2(Locked(m, <<>>), Lock(m), Unlock(m))
  <2>1. IsList(<<>>) /\ Len(<<>>) = 0
    BY EmptyList
  <2> DEFINE e == Locked(m, <<>>)
  <2>2. IsList(e) /\ e[1] = Lock(m) /\ Len(e) = Len(<<>>) + 2 /\ e[Len(<<>>) + 2] = Unlock(m)
    BY <1>2, <2>1
  <2> HIDE DEF e
  <2>3. IsList(e) /\ Is2(e, Lock(m), Unlock(m))
    BY <2>1, <2>2 DEF Is2
  <2> QED
    BY <2>3 DEF e
<1>4. ASSUME NEW m PROVE IsList(Locked(m, <<x>>)) /\ Is3(Locked(m, <<x>>), Lock(m), x, Unlock(m))
  <2> DEFINE s == <<x>>
             e == Locked(m, s)
  <2>1. IsList(s) /\ Len(s) = 1 /\ s[1] = x
    BY Tuples
  <2>a. IsList(s)
    BY <2>1
  <2> HIDE DEF s
  <2>2. /\ IsList(e) /\ e[1] = Lock(m) /\ Len(e) = Len(s) + 2 /\ e[Len(s) + 2] = Unlock(m)
        /\ \A i \in 1 .. Len(s) : e[i + 1] = s[i]
    BY <1>2, <2>a
  <2> HIDE DEF e
  <2>3. IsList(e) /\ Is3(e, Lock(m), x, Unlock(m))
    BY <2>1, <2>2 DEF Is3
  <2> QED
    BY <2>3 DEF e, s
<1>5. ASSUME NEW m PROVE IsList(Locked(m, <<x, y>>)) /\ Is4(Locked(m, <<x, y>>), Lock(m), x, y, Unlock(m))
  <2> DEFINE s == <<x, y>>
             e == Locked(m, s)
  <2>1. IsList(s) /\ Len(s) = 2 /\ s[1] = x /\ s[2] = y
    BY Tuples
  <2>a. IsList(s)
    BY <2>1
  <2> HIDE DEF s
  <2>2. /\ IsList(e) /\ e[1] = Lock(m) /\ Len(e) = Len(s) + 2 /\ e[Len(s) + 2] = Unlock(m)
        /\ \A i \in 1 .. Len(s) : e[i + 1] = s[i]
    BY <1>2, <2>a
  <2> HIDE DEF e
  <2>3. IsList(e) /\ Is4(e, Lock(m), x, y, Unlock(m))
    BY <2>1, <2>2 DEF Is4
  <2> QED
    BY <2>3 DEF e, s
<1>6. /\ IsList(<<x, y>> \o Locked("dict", <<>>))
      /\ Is4(<<x, y>> \o Locked("dict", <<>>), x, y, Lock("dict"), Unlock("dict"))
  <2> DEFINE s == <<x, y>>
             e == Locked("dict", <<>>)
             d == s \o e
  <2>1. IsList(s) /\ Len(s) = 2 /\ s[1] = x /\ s[2] = y
    BY Tuples
  <2>2. IsList(e) /\ Len(e) = 2 /\ e[1] = Lock("dict") /\ e[2] = Unlock("dict")
    BY <1>3 DEF Is2
  <2> HIDE DEF s, e
  <2>3. IsList(s \o e) /\ Is4(s \o e, x, y, Lock("dict"), Unlock("dict"))
    BY <2>1, <2>2, TwoAndTwo
  <2> QED
    BY <2>3 DEF s, e
<1> QED
  BY <1>1, <1>3, <1>4, <1>5, <1>6, EmptyList

\* What the call f(a) of t changes of the dictionaries, ...
ChangesDicts(f, a) ==
  /\ f \notin {"NewDict", "SetSub", "WriteRefs", "FreeDict"} => dicts' = dicts
  /\ f = "NewDict" => dicts' = [dicts EXCEPT ![a] = [NoDictionary EXCEPT !.refs = 1]]
  /\ f = "SetSub" => dicts' = [dicts EXCEPT ![a[1]].sub = a[2]]
  /\ f = "WriteRefs" => dicts' = [dicts EXCEPT ![a[1]].refs = a[2]]
  /\ f = "FreeDict" => dicts' = [dicts EXCEPT ![a].freed = TRUE]
  /\ f \in {"DictReference", "DictFree"} => a \in Dict /\ dicts[a].refs > 0

\* ... of the default that is swapped and of what is told of it,
ChangesDefaults(t, f, a) ==
  /\ defaults'.setting = IF f = "WriteSetting" THEN a ELSE defaults.setting
  /\ \A u \in Thread : /\ told'[u].old = IF f = "ReadSetting" /\ u = t THEN defaults.setting ELSE told[u].old
                       /\ told'[u].new = IF f = "ReadSetting" /\ u = t THEN a ELSE told[u].new

\* ... of the simple mutexes,
ChangesMutex(t, f, a) ==
  /\ f \notin {"MutexLock", "MutexUnlock", "Init"} => mutex' = mutex
  /\ f \in {"MutexLock", "MutexUnlock"} /\ ~threaded => mutex' = mutex
  /\ f = "MutexLock" /\ threaded => mutex[a] = Nobody /\ mutex' = [mutex EXCEPT ![a] = t]
  /\ f = "MutexUnlock" /\ threaded => mutex' = [mutex EXCEPT ![a] = Nobody]
  /\ f = "Init" => /\ ~lib.initialized
                   /\ \A m \in Mutexes : mutex'[m] = mutex[m] \/ (m # "init" /\ mutex'[m] = Nobody)

\* ... of who lives, holds the recursive lock and has a state,
ChangesThreads(t, f, a) ==
  /\ id[t] # 0 /\ pc[t] = "idle"
  /\ f # "Spawn" => id' = id /\ threaded' = threaded
  /\ f = "Spawn" => threaded' /\ id[a] = 0 /\ \E i \in Id : id' = [id EXCEPT ![a] = i]
  /\ f \notin {"RMutexLock", "RMutexUnlock"} => depth' = depth /\ pc' = pc
  /\ f = "RMutexLock" => LockCall(t)
  /\ f = "RMutexUnlock" => UnlockCall(t)
  /\ \A u \in Thread : tls'[u].there /\ ~tls[u].there => u = t

\* ... of the initialisation.
ChangesLibrary(t, f) ==
  /\ lib.initialized => lib'.initialized
  /\ f \in Needs => lib.initialized

\* A call of t does all of this at once, ...
Changes(t, f, a) ==
  /\ ChangesDicts(f, a) /\ ChangesDefaults(t, f, a) /\ ChangesMutex(t, f, a)
  /\ ChangesThreads(t, f, a) /\ ChangesLibrary(t, f)

\* ... and makes the calls b.
Turn(t, b) ==
  Turns(t, b) /\ Expands(code[t][1][1], code[t][1][2], b) /\ Changes(t, code[t][1][1], code[t][1][2])

\* A call that makes others and changes nothing else.
LEMMA OnlyCalls ==
  ASSUME NEW F, NEW k, Placed(F, k), NEW t \in Thread, NEW f, At(t, f), NEW b, IsList(b),
         Calls(t, b), Expands(f, Arg(t), b),
         UNCHANGED <<rvars, id, mutex, lib, defaults, globals, tls, dicts, told>>,
         f \notin {"Init", "MutexLock", "MutexUnlock", "Spawn", "RMutexLock", "RMutexUnlock",
                  "NewDict", "SetSub", "WriteRefs", "FreeDict", "WriteSetting", "ReadSetting"},
         f \in {"DictReference", "DictFree"} => Arg(t) \in InUse
  PROVE  Turn(t, b)
<1>1. code[t] # <<>> /\ id[t] # 0 /\ code[t][1][1] = f /\ Arg(t) = code[t][1][2]
  BY Facing
<1>2. Turns(t, b)
  BY <1>1, Turning
<1>3. ChangesDicts(f, Arg(t))
  BY DEF ChangesDicts, InUse
<1>4. ChangesDefaults(t, f, Arg(t))
  <2>1. f # "WriteSetting" /\ f # "ReadSetting" /\ defaults' = defaults /\ told' = told
    OBVIOUS
  <2>2. /\ defaults'.setting = defaults.setting
        /\ \A u \in Thread : told'[u].old = told[u].old /\ told'[u].new = told[u].new
    BY <2>1
  <2> QED
    BY <2>1, <2>2 DEF ChangesDefaults
<1>5. ChangesMutex(t, f, Arg(t))
  BY DEF ChangesMutex
<1>6. ChangesThreads(t, f, Arg(t))
  BY <1>1 DEF ChangesThreads, rvars, mutexVars, At
<1>7. ChangesLibrary(t, f)
  BY Given DEF ChangesLibrary
<1> QED
  BY <1>1, <1>2, <1>3, <1>4, <1>5, <1>6, <1>7 DEF Turn, Changes

\* The functions that only make calls.
LEMMA CallingSteps ==
  ASSUME NEW F, NEW k, Placed(F, k), NEW t \in Thread,
         \/ LockLibrary(t) \/ Join(t) \/ InitParser(t) \/ InitOnce(t) \/ GetState(t)
         \/ SetDefaultFunc(t) \/ SwapDefault(t) \/ SetFunc(t) \/ RaiseError(t)
         \/ DictCreate(t) \/ DictCreateSub(t) \/ DictReference(t) \/ ReadRefs(t)
         \/ DictFree(t) \/ IfLast(t) \/ DictGone(t)
  PROVE  \E b : Turn(t, b)
<1> DEFINE h == Arg(t)
<1>0. UNCHANGED <<rvars, id, mutex, lib, defaults, globals, tls, dicts, told>>
  BY DEF LockLibrary, Join, InitParser, InitOnce, GetState, SetDefaultFunc, SwapDefault, SetFunc,
     RaiseError, DictCreate, DictCreateSub, DictReference, ReadRefs, DictFree, IfLast, DictGone
<1>1. ASSUME NEW f, At(t, f), NEW b, IsList(b), Calls(t, b), Expands(f, h, b),
             f \in {"LockLibrary", "Join", "InitParser", "InitOnce", "GetState", "SetDefaultFunc",
                   "SwapDefault", "SetFunc", "RaiseError", "DictCreate", "DictCreateSub",
                   "DictReference", "ReadRefs", "DictFree", "IfLast", "DictGone"},
             f \in {"DictReference", "DictFree"} => h \in InUse
      PROVE  \E c : Turn(t, c)
  BY <1>0, <1>1, OnlyCalls
<1>2. ASSUME NEW f, At(t, f), Calls(t, <<>>), f \in {"LockLibrary", "Join", "InitParser", "InitOnce", "GetState"}
      PROVE  \E c : Turn(t, c)
  <2>1. IsList(<<>>) /\ Len(<<>>) = 0
    BY EmptyList
  <2>2. Expands(f, h, <<>>)
    BY <1>2, <2>1 DEF Expands, Expanding
  <2> QED
    BY <1>1, <1>2, <2>1, <2>2
<1>3. CASE LockLibrary(t) \/ Join(t)
  BY <1>2, <1>3 DEF LockLibrary, Join, Returns
<1>4. CASE InitParser(t)
  <2> DEFINE x == <<"InitOnce">>
             b == Locked("init", <<x>>)
  <2>1. At(t, "InitParser") /\ (Calls(t, b) \/ Calls(t, <<>>))
    BY <1>4, FlagIsRead DEF InitParser
  <2>2. IsList(b) /\ Is3(b, Lock("init"), x, Unlock("init"))
    BY CallLists
  <2> HIDE DEF b
  <2>3. Expands("InitParser", h, b)
    BY <2>2 DEF Expands
  <2> QED
    BY <1>1, <1>2, <2>1, <2>2, <2>3
<1>5. CASE InitOnce(t)
  <2> DEFINE b == [i \in DOMAIN Subsystems |-> <<"Init", Subsystems[i]>>] \o <<<<"SetInitialized">>>>
  <2>1. At(t, "InitOnce") /\ Calls(t, IF lib.initialized THEN <<>> ELSE b)
    BY <1>5 DEF InitOnce
  <2>2. IsList(code[t]) /\ code[t] # <<>> /\ Follows(code[t], "checkInit", k)
    <3>1. /\ IsList(code[t]) /\ code[t] # <<>> /\ Follows(code[t], F[t], k) /\ F[t] \in Labels
          /\ k \in 1 .. 7 /\ code[t][1][1] = "InitOnce"
      BY <2>1, Facing
    <3>2. F[t] = "checkInit"
      BY <3>1, Whereabouts
    <3> QED
      BY <3>1, <3>2
  <2>3. IsList(b) /\ Len(b) = 7 /\ b[7] = <<"SetInitialized">> /\ \A i \in 1 .. 6 : b[i][1] = "Init"
    BY <2>2, StartsToBuild
  <2> HIDE DEF b
  <2>4. \A i \in 1 .. 7 : b[i][1] \in {"Init", "SetInitialized"}
    <3>1. \A i \in 1 .. 7 : i = 7 \/ i \in 1 .. 6
      OBVIOUS
    <3> QED
      BY <2>3, <3>1
  <2>5. Expands("InitOnce", h, b)
    BY <2>3, <2>4 DEF Expands
  <2> QED
    BY <1>1, <1>2, <2>1, <2>3, <2>5
<1>6. CASE GetState(t)
  <2> DEFINE x == <<"CopyHandler">>
             y == <<"CopyContext">>
             b == Locked("defaults", <<x, y>>)
  <2>1. At(t, "GetState") /\ Calls(t, IF IsMain(t) \/ tls[t].there THEN <<>> ELSE b)
    BY <1>6 DEF GetState
  <2>2. IsList(b) /\ Is4(b, Lock("defaults"), x, y, Unlock("defaults"))
    BY CallLists
  <2> HIDE DEF b
  <2>3. Expands("GetState", h, b)
    BY <2>2 DEF Expands
  <2> QED
    BY <1>1, <1>2, <2>1, <2>2, <2>3
<1>7. CASE SetDefaultFunc(t)
  <2> DEFINE x == <<"DefaultContext", h>>
             y == <<"DefaultHandler", h>>
             b == Locked("defaults", <<x, y>>)
  <2>1. At(t, "SetDefaultFunc") /\ Calls(t, b)
    BY <1>7 DEF SetDefaultFunc
  <2>2. IsList(b) /\ Is4(b, Lock("defaults"), x, y, Unlock("defaults"))
    BY CallLists
  <2> HIDE DEF b, h
  <2>3. Expands("SetDefaultFunc", h, b)
    BY <2>2 DEF Expands
  <2> QED
    BY <1>1, <2>1, <2>2, <2>3
<1>8. CASE SwapDefault(t)
  <2> DEFINE x == <<"ReadSetting", h>>
             b == Locked("defaults", <<x>>)
  <2>1. At(t, "SwapDefault") /\ Calls(t, b)
    BY <1>8 DEF SwapDefault
  <2>2. IsList(b) /\ Is3(b, Lock("defaults"), x, Unlock("defaults"))
    BY CallLists
  <2> HIDE DEF b, h
  <2>3. Expands("SwapDefault", h, b)
    BY <2>2 DEF Expands
  <2> QED
    BY <1>1, <2>1, <2>2, <2>3
<1>9. CASE SetFunc(t) \/ RaiseError(t)
  <2>0. \E f, z :
          /\ f \in {"SetFunc", "RaiseError"} /\ z[1] \in {"Store", "Deliver"}
          /\ At(t, f) /\ Calls(t, <<<<"InitParser">>, <<"GetState">>, z>>)
    <3>1. ASSUME SetFunc(t)
          PROVE  /\ At(t, "SetFunc") /\ Calls(t, <<<<"InitParser">>, <<"GetState">>, <<"Store", h>>>>)
                 /\ <<"Store", h>>[1] \in {"Store", "Deliver"}
      BY <3>1 DEF SetFunc
    <3>2. ASSUME RaiseError(t)
          PROVE  /\ At(t, "RaiseError") /\ Calls(t, <<<<"InitParser">>, <<"GetState">>, <<"Deliver">>>>)
                 /\ <<"Deliver">>[1] \in {"Store", "Deliver"}
      BY <3>2 DEF RaiseError
    <3> HIDE DEF h
    <3> QED
      BY <1>9, <3>1, <3>2, Zenon
  <2>1. PICK f, z :
          /\ f \in {"SetFunc", "RaiseError"} /\ z[1] \in {"Store", "Deliver"}
          /\ At(t, f) /\ Calls(t, <<<<"InitParser">>, <<"GetState">>, z>>)
    BY <2>0
  <2> DEFINE x == <<"InitParser">>
             y == <<"GetState">>
             b == <<x, y, z>>
  <2>2. IsList(b) /\ Is3(b, x, y, z)
    BY CallLists
  <2>3. Calls(t, b)
    BY <2>1
  <2> HIDE DEF b
  <2>4. Len(b) = 3 /\ \A i \in 1 .. 3 : b[i][1] \in {"InitParser", "GetState", "Store", "Deliver"}
    <3>1. \A i \in 1 .. 3 : i = 1 \/ i = 2 \/ i = 3
      OBVIOUS
    <3>2. b[1][1] = "InitParser" /\ b[2][1] = "GetState" /\ b[3][1] = z[1] /\ Len(b) = 3
      BY <2>2 DEF Is3
    <3> QED
      BY <2>1, <3>1, <3>2
  <2>5. Expands(f, h, b)
    BY <2>1, <2>4 DEF Expands
  <2> QED
    BY <1>1, <2>1, <2>2, <2>3, <2>5
<1>10. CASE DictCreate(t)
  <2> DEFINE x == <<"InitParser">>
             y == <<"NewDict", h>>
             b == <<x, y>> \o Locked("dict", <<>>)
  <2>1. At(t, "DictCreate") /\ Calls(t, b)
    BY <1>10 DEF DictCreate
  <2>2. IsList(b) /\ Is4(b, x, y, Lock("dict"), Unlock("dict"))
    BY CallLists
  <2> HIDE DEF b, h
  <2>3. Expands("DictCreate", h, b)
    BY <2>2 DEF Expands
  <2> QED
    BY <1>1, <2>1, <2>2, <2>3
<1>11. CASE DictCreateSub(t)
  <2> DEFINE x == <<"DictCreate", h[1]>>
             y == <<"SetSub", <<h[1], h[2]>>>>
             z == <<"DictReference", h[2]>>
             b == <<x, y, z>>
  <2>1. At(t, "DictCreateSub") /\ Calls(t, b)
    BY <1>11 DEF DictCreateSub
  <2>2. IsList(b) /\ Is3(b, x, y, z)
    BY CallLists
  <2> HIDE DEF b, h
  <2>3. Expands("DictCreateSub", h, b)
    BY <2>2 DEF Expands
  <2> QED
    BY <1>1, <2>1, <2>2, <2>3
<1>12. CASE DictReference(t)
  <2> DEFINE x == <<"ReadRefs", <<h, 1>>>>
             b == Locked("dict", <<x>>)
  <2>1. At(t, "DictReference") /\ Calls(t, b) /\ h \in InUse
    BY <1>12 DEF DictReference
  <2>2. IsList(b) /\ Is3(b, Lock("dict"), x, Unlock("dict"))
    BY CallLists
  <2> HIDE DEF b, h
  <2>3. Expands("DictReference", h, b)
    BY <2>2 DEF Expands
  <2> QED
    BY <1>1, <2>1, <2>2, <2>3
<1>13. CASE ReadRefs(t)
  <2> DEFINE x == <<"WriteRefs", <<h[1], dicts[h[1]].refs + h[2]>>>>
             b == <<x>>
  <2>1. At(t, "ReadRefs") /\ Calls(t, b)
    BY <1>13 DEF ReadRefs
  <2>2. IsList(b) /\ Is1(b, x)
    BY CallLists
  <2> HIDE DEF b, h
  <2>3. Expands("ReadRefs", h, b)
    BY <2>2 DEF Expands
  <2> QED
    BY <1>1, <2>1, <2>2, <2>3
<1>14. CASE DictFree(t)
  <2> DEFINE x == <<"MutexLock", "dict">>
             y == <<"ReadRefs", <<h, -1>>>>
             z == <<"IfLast", h>>
             b == <<x, y, z>>
  <2>1. At(t, "DictFree") /\ Calls(t, b) /\ h \in InUse
    BY <1>14 DEF DictFree
  <2>2. IsList(b) /\ Is3(b, x, y, z)
    BY CallLists
  <2> HIDE DEF b, h
  <2>3. Expands("DictFree", h, b)
    BY <2>2 DEF Expands, Lock
  <2> QED
    BY <1>1, <2>1, <2>2, <2>3
<1>15. CASE IfLast(t)
  <2> DEFINE x == <<"MutexUnlock", "dict">>
             z == <<"DictGone", h>>
             b == <<x>>
             c == <<x, z>>
  <2>1. At(t, "IfLast") /\ Calls(t, IF dicts[h].refs > 0 THEN b ELSE c)
    BY <1>15 DEF IfLast
  <2>2. IsList(b) /\ Is1(b, x) /\ IsList(c) /\ Is2(c, x, z)
    BY CallLists
  <2> HIDE DEF b, c, h
  <2>3. /\ dicts[h].refs > 0 => Expands("IfLast", h, b)
        /\ ~(dicts[h].refs > 0) => Expands("IfLast", h, c)
    BY <2>2 DEF Expands, Unlock
  <2> QED
    BY <1>1, <2>1, <2>2, <2>3
<1>16. CASE DictGone(t)
  <2> DEFINE x == <<"DictFree", dicts[h].sub>>
             z == <<"FreeDict", h>>
             b == <<>> \o <<z>>
             c == <<x>> \o <<z>>
  <2>1. /\ At(t, "DictGone")
        /\ Calls(t, (IF dicts[h].sub = NoDict THEN <<>> ELSE <<x>>) \o <<z>>)
    BY <1>16 DEF DictGone
  <2>2. Calls(t, IF dicts[h].sub = NoDict THEN b ELSE c)
    BY <2>1
  <2>3. IsList(b) /\ Is1(b, z) /\ IsList(c) /\ Is2(c, x, z)
    BY OneAndOne
  <2> HIDE DEF b, c, h
  <2>5. /\ dicts[h].sub = NoDict => Expands("DictGone", h, b)
        /\ dicts[h].sub # NoDict => Expands("DictGone", h, c)
    BY <2>3 DEF Expands
  <2> QED
    BY <1>1, <2>1, <2>2, <2>3, <2>5
<1> QED
  BY <1>3, <1>4, <1>5, <1>6, <1>7, <1>8, <1>9, <1>10, <1>11, <1>12, <1>13, <1>14, <1>15, <1>16

\* A call that returns.
LEMMA Returning ==
  ASSUME NEW F, NEW k, Placed(F, k), NEW t \in Thread, NEW f, At(t, f), Returns(t),
         f \notin Expanding, Changes(t, f, Arg(t))
  PROVE  \E b : Turn(t, b)
<1>1. code[t] # <<>> /\ code[t][1][1] = f /\ Arg(t) = code[t][1][2]
  BY Facing
<1>2. IsList(<<>>) /\ Len(<<>>) = 0
  BY EmptyList
<1>3. Turns(t, <<>>)
  BY <1>1, <1>2, Turning DEF Returns
<1>4. Expands(f, Arg(t), <<>>)
  BY <1>2 DEF Expands
<1> QED
  BY <1>1, <1>3, <1>4 DEF Turn

\* What stays as it is when the call f changes something of one kind.
LEMMA Elsewhere ==
  ASSUME NEW F, NEW k, Placed(F, k), NEW t \in Thread, NEW f, At(t, f), NEW a
  PROVE  /\ f \notin {"NewDict", "SetSub", "WriteRefs", "FreeDict", "DictReference", "DictFree"} /\ dicts' = dicts
              => ChangesDicts(f, a)
         /\ f \notin {"WriteSetting", "ReadSetting"} /\ defaults' = defaults /\ told' = told
              => ChangesDefaults(t, f, a)
         /\ f \notin {"MutexLock", "MutexUnlock", "Init"} /\ mutex' = mutex => ChangesMutex(t, f, a)
         /\ f \notin {"Spawn", "RMutexLock", "RMutexUnlock"} /\ UNCHANGED <<rvars, id, tls>>
              => ChangesThreads(t, f, a)
         /\ lib' = lib => ChangesLibrary(t, f)
<1>1. f \notin {"NewDict", "SetSub", "WriteRefs", "FreeDict", "DictReference", "DictFree"} /\ dicts' = dicts
        => ChangesDicts(f, a)
  BY DEF ChangesDicts
<1>2. ASSUME f \notin {"WriteSetting", "ReadSetting"}, defaults' = defaults, told' = told
      PROVE  ChangesDefaults(t, f, a)
  <2>1. /\ defaults'.setting = defaults.setting
        /\ \A u \in Thread : told'[u].old = told[u].old /\ told'[u].new = told[u].new
    BY <1>2
  <2> QED
    BY <1>2, <2>1 DEF ChangesDefaults
<1>3. f \notin {"MutexLock", "MutexUnlock", "Init"} /\ mutex' = mutex => ChangesMutex(t, f, a)
  BY DEF ChangesMutex
<1>4. ASSUME f \notin {"Spawn", "RMutexLock", "RMutexUnlock"}, UNCHANGED <<rvars, id, tls>>
      PROVE  ChangesThreads(t, f, a)
  BY <1>4 DEF ChangesThreads, rvars, mutexVars, At
<1>5. lib' = lib => ChangesLibrary(t, f)
  BY Given DEF ChangesLibrary
<1> QED
  BY <1>1, <1>2, <1>3, <1>4, <1>5

\* The calls that change a dictionary, ...
LEMMA DictReturns ==
  ASSUME NEW F, NEW k, Placed(F, k), NEW t \in Thread,
         NewDict(t) \/ SetSub(t) \/ WriteRefs(t) \/ FreeDict(t)
  PROVE  \E b : Turn(t, b)
<1>1. ASSUME NEW f \in {"NewDict", "SetSub", "WriteRefs", "FreeDict"}, At(t, f), Returns(t),
             ChangesDicts(f, Arg(t)), UNCHANGED <<rvars, id, mutex, lib, defaults, globals, tls, told>>
      PROVE  \E b : Turn(t, b)
  <2>1. f \notin Expanding
    BY DEF Expanding
  <2>2. /\ ChangesDefaults(t, f, Arg(t)) /\ ChangesMutex(t, f, Arg(t))
        /\ ChangesThreads(t, f, Arg(t)) /\ ChangesLibrary(t, f)
    BY <1>1, Elsewhere
  <2> QED
    BY <1>1, <2>1, <2>2, Returning DEF Changes
<1>2. CASE NewDict(t)
  BY <1>1, <1>2 DEF NewDict, ChangesDicts
<1>3. CASE SetSub(t)
  BY <1>1, <1>3 DEF SetSub, ChangesDicts
<1>4. CASE WriteRefs(t)
  BY <1>1, <1>4 DEF WriteRefs, ChangesDicts
<1>5. CASE FreeDict(t)
  BY <1>1, <1>5 DEF FreeDict, ChangesDicts
<1> QED
  BY <1>2, <1>3, <1>4, <1>5

\* ... the defaults or where errors go, ...
LEMMA DefaultReturns ==
  ASSUME NEW F, NEW k, Placed(F, k), NEW t \in Thread,
         DefaultContext(t) \/ DefaultHandler(t) \/ WriteSetting(t) \/ Store(t) \/ Deliver(t)
  PROVE  \E b : Turn(t, b)
<1> DEFINE h == Arg(t)
<1>1. ASSUME NEW f \in {"DefaultContext", "DefaultHandler", "WriteSetting", "Store", "Deliver"},
             At(t, f), Returns(t), ChangesDefaults(t, f, h),
             \A u \in Thread : tls'[u].there /\ ~tls[u].there => u = t,
             UNCHANGED <<rvars, id, mutex, lib, dicts>>
      PROVE  \E b : Turn(t, b)
  <2>1. f \notin Expanding
    BY DEF Expanding
  <2>2. ChangesDicts(f, h) /\ ChangesMutex(t, f, h) /\ ChangesLibrary(t, f)
    BY <1>1, Elsewhere
  <2>3. ChangesThreads(t, f, h)
    BY <1>1 DEF ChangesThreads, rvars, mutexVars, At
  <2> QED
    BY <1>1, <2>1, <2>2, <2>3, Returning DEF Changes
<1>2. /\ defaults = [handler |-> defaults.handler, context |-> defaults.context, setting |-> defaults.setting]
      /\ told = [u \in Thread |-> told[u]]
      /\ \A u \in Thread : told[u] = [set |-> told[u].set, reached |-> told[u].reached, own |-> told[u].own,
                                      new |-> told[u].new, old |-> told[u].old]
      /\ tls = [u \in Thread |-> tls[u]]
      /\ \A u \in Thread : tls[u] = [there |-> tls[u].there, pair |-> tls[u].pair]
  BY DEF Placed, Formed
<1>3. CASE DefaultContext(t) \/ DefaultHandler(t)
  <2>1. PICK f \in {"DefaultContext", "DefaultHandler"} : At(t, f)
    BY <1>3 DEF DefaultContext, DefaultHandler
  <2>2. Returns(t) /\ UNCHANGED <<rvars, id, mutex, lib, tls, dicts, told>>
    BY <1>3 DEF DefaultContext, DefaultHandler
  <2>3. defaults'.setting = defaults.setting
    BY <1>2, <1>3 DEF DefaultContext, DefaultHandler
  <2>4. \A u \in Thread : told'[u].old = told[u].old /\ told'[u].new = told[u].new
    BY <2>2
  <2>5. ChangesDefaults(t, f, h)
    BY <2>3, <2>4 DEF ChangesDefaults
  <2>6. \A u \in Thread : tls'[u].there /\ ~tls[u].there => u = t
    BY <2>2
  <2> QED
    BY <1>1, <2>1, <2>2, <2>5, <2>6
<1>4. CASE WriteSetting(t)
  <2>1. /\ At(t, "WriteSetting") /\ Returns(t) /\ UNCHANGED <<rvars, id, mutex, lib, tls, dicts, told>>
        /\ defaults' = [defaults EXCEPT !.setting = h]
    BY <1>4 DEF WriteSetting
  <2>2. defaults'.setting = h
    BY <1>2, <2>1
  <2>3. \A u \in Thread : told'[u].old = told[u].old /\ told'[u].new = told[u].new
    BY <2>1
  <2>4. ChangesDefaults(t, "WriteSetting", h)
    BY <2>2, <2>3 DEF ChangesDefaults
  <2>5. \A u \in Thread : tls'[u].there /\ ~tls[u].there => u = t
    BY <2>1
  <2> QED
    BY <1>1, <2>1, <2>4, <2>5
<1>5. ASSUME Store(t) \/ Deliver(t)
      PROVE  /\ \A u \in Thread : told'[u].old = told[u].old /\ told'[u].new = told[u].new
             /\ \A u \in Thread : tls'[u].there /\ ~tls[u].there => u = t
  <2>1. CASE Store(t)
    <3>1. told' = [told EXCEPT ![t].set = h]
      BY <2>1 DEF Store
    <3>2. \A u \in Thread : told'[u].old = told[u].old /\ told'[u].new = told[u].new
      BY <1>2, <3>1
    <3>3. tls' = tls \/ \E p : tls' = [tls EXCEPT ![t].pair = p]
      BY <2>1 DEF Store
    <3>4. \A u \in Thread : tls'[u].there /\ ~tls[u].there => u = t
      BY <1>2, <3>3
    <3> QED
      BY <3>2, <3>4
  <2>2. CASE Deliver(t)
    <3>1. PICK p, o : told' = [told EXCEPT ![t].reached = p, ![t].own = o]
      BY <2>2 DEF Deliver
    <3>2. \A u \in Thread : told'[u].old = told[u].old /\ told'[u].new = told[u].new
      BY <1>2, <3>1
    <3>3. tls' = tls
      BY <2>2 DEF Deliver
    <3> QED
      BY <3>2, <3>3
  <2> QED
    BY <1>5, <2>1, <2>2
<1>6. CASE Store(t) \/ Deliver(t)
  <2>1. PICK f \in {"Store", "Deliver"} : At(t, f)
    BY <1>6 DEF Store, Deliver
  <2>2. Returns(t) /\ UNCHANGED <<rvars, id, mutex, lib, defaults, dicts>>
    BY <1>6 DEF Store, Deliver
  <2>3. defaults'.setting = defaults.setting
    BY <2>2
  <2>4. ChangesDefaults(t, f, h)
    BY <1>5, <1>6, <2>3 DEF ChangesDefaults
  <2> QED
    BY <1>1, <1>5, <1>6, <2>1, <2>2, <2>4
<1> QED
  BY <1>3, <1>4, <1>6

\* ... the state of the thread, ...
LEMMA CopyReturns ==
  ASSUME NEW F, NEW k, Placed(F, k), NEW t \in Thread, CopyHandler(t) \/ CopyContext(t)
  PROVE  \E b : Turn(t, b)
<1> DEFINE h == Arg(t)
<1>1. PICK f \in {"CopyHandler", "CopyContext"} : At(t, f)
  BY DEF CopyHandler, CopyContext
<1>2. Returns(t) /\ UNCHANGED <<rvars, id, mutex, lib, defaults, dicts, told>>
  BY DEF CopyHandler, CopyContext
<1>3. /\ tls = [u \in Thread |-> tls[u]]
      /\ \A u \in Thread : tls[u] = [there |-> tls[u].there, pair |-> tls[u].pair]
  BY DEF Placed, Formed
<1>4. \A u \in Thread \ {t} : tls'[u] = tls[u]
  BY <1>3 DEF CopyHandler, CopyContext
<1>5. f \notin Expanding
  BY DEF Expanding
<1>6. /\ ChangesDicts(f, h) /\ ChangesDefaults(t, f, h) /\ ChangesMutex(t, f, h) /\ ChangesLibrary(t, f)
  BY <1>1, <1>2, Elsewhere
<1>7. ChangesThreads(t, f, h)
  BY <1>1, <1>2, <1>4 DEF ChangesThreads, rvars, mutexVars, At
<1> QED
  BY <1>1, <1>2, <1>5, <1>6, <1>7, Returning DEF Changes

\* ... what is told of the default, ...
LEMMA ReadSettingTurn ==
  ASSUME NEW F, NEW k, Placed(F, k), NEW t \in Thread, ReadSetting(t)
  PROVE  \E b : Turn(t, b)
<1> DEFINE h == Arg(t)
           x == <<"WriteSetting", h>>
           b == <<x>>
<1>1. /\ At(t, "ReadSetting") /\ Calls(t, b)
      /\ UNCHANGED <<rvars, id, mutex, lib, defaults, globals, tls, dicts>>
      /\ told' = [told EXCEPT ![t].old = defaults.setting, ![t].new = h]
  BY DEF ReadSetting
<1>2. /\ told = [u \in Thread |-> told[u]]
      /\ \A u \in Thread : told[u] = [set |-> told[u].set, reached |-> told[u].reached, own |-> told[u].own,
                                      new |-> told[u].new, old |-> told[u].old]
  BY DEF Placed, Formed
<1> HIDE DEF h
<1>3. \A u \in Thread : /\ told'[u].old = IF u = t THEN defaults.setting ELSE told[u].old
                        /\ told'[u].new = IF u = t THEN h ELSE told[u].new
  <2> DEFINE g == [told EXCEPT ![t].old = defaults.setting]
  <2>1. told' = [g EXCEPT ![t].new = h]
    BY <1>1
  <2>2. /\ g = [u \in Thread |-> g[u]] /\ \A u \in Thread \ {t} : g[u] = told[u]
        /\ g[t] = [set |-> told[t].set, reached |-> told[t].reached, own |-> told[t].own,
                    new |-> told[t].new, old |-> defaults.setting]
    BY <1>2
  <2> HIDE DEF g
  <2>3. /\ \A u \in Thread \ {t} : told'[u] = told[u]
        /\ told'[t] = [set |-> told[t].set, reached |-> told[t].reached, own |-> told[t].own,
                       new |-> h, old |-> defaults.setting]
    BY <2>1, <2>2
  <2> QED
    BY <2>3
<1>4. ChangesDefaults(t, "ReadSetting", h)
  <2>1. defaults'.setting = defaults.setting
    BY <1>1
  <2> QED
    BY <1>3, <2>1 DEF ChangesDefaults
<1>5. /\ ChangesDicts("ReadSetting", h) /\ ChangesMutex(t, "ReadSetting", h)
      /\ ChangesLibrary(t, "ReadSetting") /\ ChangesThreads(t, "ReadSetting", h)
  BY <1>1, Elsewhere
<1>6. IsList(b) /\ Is1(b, x)
  BY CallLists
<1>7. code[t] # <<>> /\ code[t][1][1] = "ReadSetting" /\ h = code[t][1][2]
  BY <1>1, Facing DEF h
<1> HIDE DEF b
<1>8. Turns(t, b)
  BY <1>1, <1>6, <1>7, Turning
<1>9. Expands("ReadSetting", h, b)
  BY <1>6 DEF Expands
<1> QED
  BY <1>4, <1>5, <1>7, <1>8, <1>9 DEF Turn, Changes

\* ... the library, ...
LEMMA InitReturns ==
  ASSUME NEW F, NEW k, Placed(F, k), NEW t \in Thread, Initialise(t) \/ SetInitialized(t)
  PROVE  \E b : Turn(t, b)
<1> DEFINE h == Arg(t)
<1>1. PICK f \in {"Init", "SetInitialized"} : At(t, f)
  BY DEF Initialise, SetInitialized
<1>2. Returns(t) /\ UNCHANGED <<rvars, id, defaults, tls, dicts, told>>
  BY DEF Initialise, SetInitialized
<1>3. /\ lib = [initialized |-> lib.initialized, main |-> lib.main, made |-> lib.made]
      /\ mutex = [m \in Mutexes |-> mutex[m]] /\ \A u \in Thread : F[u] = "build" => ~lib.initialized
  BY DEF Placed, Built, Closed
<1>4. F[t] = "build"
  <2>1. /\ IsList(code[t]) /\ code[t] # <<>> /\ Follows(code[t], F[t], k) /\ F[t] \in Labels
        /\ k \in 1 .. 7 /\ code[t][1][1] = f
    BY <1>1, Facing
  <2> QED
    BY <2>1, Whereabouts
<1>5. ~lib.initialized /\ f \notin Needs
  BY <1>3, <1>4 DEF Needs
<1>6. ChangesLibrary(t, f)
  BY <1>5 DEF ChangesLibrary
<1>7. ChangesMutex(t, f, h)
  <2>1. CASE SetInitialized(t)
    <3>1. f = "SetInitialized" /\ mutex' = mutex
      BY <1>1, <2>1 DEF SetInitialized, At
    <3> QED
      BY <3>1 DEF ChangesMutex
  <2>2. CASE Initialise(t)
    <3>1. f = "Init"
      BY <1>1, <2>2 DEF Initialise, At
    <3>2. mutex' = mutex \/ \E m \in {"defaults", "dict"} : mutex' = [mutex EXCEPT ![m] = Nobody]
      BY <2>2 DEF Initialise
    <3>3. \A m \in Mutexes : mutex'[m] = mutex[m] \/ (m # "init" /\ mutex'[m] = Nobody)
      BY <1>3, <3>2
    <3> QED
      BY <1>5, <3>1, <3>3 DEF ChangesMutex
  <2> QED
    BY <2>1, <2>2
<1>8. ChangesDicts(f, h) /\ ChangesDefaults(t, f, h) /\ ChangesThreads(t, f, h)
  BY <1>1, <1>2, Elsewhere
<1>9. f \notin Expanding
  BY DEF Expanding
<1> QED
  BY <1>1, <1>2, <1>6, <1>7, <1>8, <1>9, Returning DEF Changes

\* ... a mutex or the recursive lock, ...
LEMMA LockReturns ==
  ASSUME NEW F, NEW k, Placed(F, k), NEW t \in Thread,
         MutexLock(t) \/ MutexUnlock(t) \/ TakeRecursive(t) \/ GiveRecursive(t)
  PROVE  \E b : Turn(t, b)
<1> DEFINE h == Arg(t)
<1>1. PICK f \in {"MutexLock", "MutexUnlock", "RMutexLock", "RMutexUnlock"} : At(t, f)
  BY DEF MutexLock, MutexUnlock, TakeRecursive, GiveRecursive
<1>2. Returns(t) /\ UNCHANGED <<id, lib, defaults, tls, dicts, told>>
  BY DEF MutexLock, MutexUnlock, TakeRecursive, GiveRecursive
<1>3. f \notin Expanding
  BY DEF Expanding
<1>4. ChangesDicts(f, h) /\ ChangesDefaults(t, f, h) /\ ChangesLibrary(t, f)
  BY <1>1, <1>2, Elsewhere
<1>5. CASE MutexLock(t) \/ MutexUnlock(t)
  <2>1. f \in {"MutexLock", "MutexUnlock"} /\ UNCHANGED rvars
    BY <1>1, <1>5 DEF MutexLock, MutexUnlock, At
  <2>2. ChangesThreads(t, f, h)
    BY <1>1, <1>2, <2>1, Elsewhere
  <2>3. ChangesMutex(t, f, h)
    BY <1>1, <1>5, <2>1 DEF ChangesMutex, MutexLock, MutexUnlock, At
  <2> QED
    BY <1>1, <1>2, <1>3, <1>4, <2>2, <2>3, Returning DEF Changes
<1>6. CASE TakeRecursive(t) \/ GiveRecursive(t)
  <2>1. f \in {"RMutexLock", "RMutexUnlock"} /\ mutex' = mutex
    BY <1>1, <1>6 DEF TakeRecursive, GiveRecursive, At
  <2>2. ChangesMutex(t, f, h)
    BY <1>1, <2>1, Elsewhere
  <2>3. /\ f = "RMutexLock" => LockCall(t)
        /\ f = "RMutexUnlock" => UnlockCall(t)
        /\ threaded' = threaded
    BY <1>1, <1>6 DEF TakeRecursive, GiveRecursive, At, LockCall, UnlockCall
  <2>4. ChangesThreads(t, f, h)
    BY <1>1, <1>2, <2>1, <2>3 DEF ChangesThreads, At
  <2> QED
    BY <1>1, <1>2, <1>3, <1>4, <2>2, <2>4, Returning DEF Changes
<1> QED
  BY <1>5, <1>6

\* ... and who lives.
LEMMA SpawnReturns ==
  ASSUME NEW F, NEW k, Placed(F, k), NEW t \in Thread, Spawn(t)
  PROVE  \E b : Turn(t, b)
<1> DEFINE h == Arg(t)
<1>1. /\ At(t, "Spawn") /\ Returns(t) /\ id[h] = 0 /\ BecomeThreaded
      /\ \E i \in Id : id' = [id EXCEPT ![h] = i]
      /\ UNCHANGED <<mutex, lib, defaults, globals, tls, dicts, told>>
  BY DEF Spawn
<1>2. ChangesThreads(t, "Spawn", h)
  BY <1>1 DEF ChangesThreads, BecomeThreaded, mutexVars, At
<1>3. /\ ChangesDicts("Spawn", h) /\ ChangesDefaults(t, "Spawn", h) /\ ChangesMutex(t, "Spawn", h)
      /\ ChangesLibrary(t, "Spawn")
  BY <1>1, Elsewhere
<1>4. "Spawn" \notin Expanding
  BY DEF Expanding
<1> QED
  BY <1>1, <1>2, <1>3, <1>4, Returning DEF Changes

\* Every step is a turn of a thread, or leaves the calls and what they work on: at most
\* a thread that has none left ends.
Stays ==
  /\ UNCHANGED <<threaded, code, mutex, lib, defaults, dicts, told>>
  /\ \A t \in Thread : id'[t] = id[t] \/ (code[t] = <<>> /\ id'[t] = 0)

LEMMA EveryStep ==
  ASSUME NEW F, NEW k, Placed(F, k), [LNext]_vars
  PROVE  Stays \/ \E t \in Thread : \E b : Turn(t, b)
<1>1. CASE UNCHANGED vars
  BY <1>1 DEF vars, rvars, libVars, Stays
<1>2. ASSUME NEW t \in Thread, RecursiveStep(t) \/ Spurious(t) \/ Exit(t) PROVE Stays
  <2>1. CASE RecursiveStep(t) \/ Spurious(t)
    <3>1. UNCHANGED <<threaded, libVars>>
      BY <2>1 DEF RecursiveStep, Spurious, MutexStep, Enter, Reenter, Queue, Sleep, Wake,
         StopWaiting, Take, Release, Leave, SpuriousWakeup
    <3> QED
      BY <3>1 DEF libVars, Stays
  <2>2. CASE Exit(t)
    <3>1. id = [u \in Thread |-> id[u]]
      BY DEF Placed, Ids
    <3>2. /\ UNCHANGED <<threaded, code, mutex, lib, defaults, dicts, told>>
          /\ code[t] = <<>> /\ id' = [id EXCEPT ![t] = 0]
      BY <2>2 DEF Exit, rvars
    <3> QED
      BY <3>1, <3>2 DEF Stays
  <2> QED
    BY <1>2, <2>1, <2>2
<1>3. ASSUME NEW t \in Thread,
             \/ TakeRecursive(t) \/ GiveRecursive(t) \/ LockLibrary(t)
             \/ MutexLock(t) \/ MutexUnlock(t) \/ Spawn(t) \/ Join(t)
      PROVE  \E b : Turn(t, b)
  BY <1>3, LockReturns, SpawnReturns, CallingSteps
<1>4. ASSUME NEW t \in Thread,
             \/ InitParser(t) \/ InitOnce(t) \/ Initialise(t) \/ SetInitialized(t)
             \/ GetState(t) \/ CopyHandler(t) \/ CopyContext(t)
             \/ SetDefaultFunc(t) \/ DefaultContext(t) \/ DefaultHandler(t)
             \/ SwapDefault(t) \/ ReadSetting(t) \/ WriteSetting(t)
      PROVE  \E b : Turn(t, b)
  BY <1>4, CallingSteps, InitReturns, CopyReturns, DefaultReturns, ReadSettingTurn
<1>5. ASSUME NEW t \in Thread,
             \/ SetFunc(t) \/ Store(t) \/ RaiseError(t) \/ Deliver(t)
             \/ DictCreate(t) \/ NewDict(t) \/ DictCreateSub(t) \/ SetSub(t)
             \/ DictReference(t) \/ ReadRefs(t) \/ WriteRefs(t)
             \/ DictFree(t) \/ IfLast(t) \/ DictGone(t) \/ FreeDict(t)
      PROVE  \E b : Turn(t, b)
  BY <1>5, CallingSteps, DictReturns, DefaultReturns
<1>6. CASE LNext
  <2>1. PICK t \in Thread : LibraryStep(t) \/ Spurious(t)
    BY <1>6 DEF LNext
  <2>2. Stays \/ \E b : Turn(t, b)
    BY <1>2, <1>3, <1>4, <1>5, <2>1 DEF LibraryStep
  <2> QED
    BY <2>2
<1> QED
  BY <1>1, <1>6
-----------------------------------------------------------------------------
(* Calls that are made once.                                               *)

\* What is called and with which argument.
Key(x) == <<x[1], x[2]>>

\* No call in S is still to be made, or one at most.
Absent(S) == \A t \in Thread : \A i \in 1 .. Len(code[t]) : Key(code[t][i]) \notin S

AtMostOne(S) ==
  \A t, u \in Thread : \A i \in 1 .. Len(code[t]), j \in 1 .. Len(code[u]) :
    Key(code[t][i]) \in S /\ Key(code[u][j]) \in S => t = u /\ i = j

\* Where a call was before t made the n calls b.
Was(t, n, u, i) == IF u = t THEN (i - n) + 1 ELSE i

\* Every call was there, or t made it.
LEMMA Origin ==
  ASSUME NEW t \in Thread, NEW b, Turns(t, b), NEW u \in Thread, NEW i \in 1 .. Len(code'[u])
  PROVE  \/ u = t /\ i \in 1 .. Len(b) /\ code'[u][i] = b[i]
         \/ /\ Was(t, Len(b), u, i) \in 1 .. Len(code[u])
            /\ code'[u][i] = code[u][Was(t, Len(b), u, i)]
            /\ u = t => Was(t, Len(b), u, i) > 1
<1>1. /\ Len(b) \in Nat /\ Len(code[t]) \in Nat \ {0} /\ Len(code'[t]) = Len(b) + (Len(code[t]) - 1)
      /\ Replaces(code'[t], code[t], Len(code[t]), b, Len(b))
      /\ \A v \in Thread \ {t} : code'[v] = code[v]
  BY DEF Turns
<1>2. CASE u # t
  BY <1>1, <1>2 DEF Was
<1>3. CASE u = t
  <2> DEFINE n == Len(b)
             p == Len(code[t])
  <2>1. /\ n \in Nat /\ p \in Nat \ {0} /\ i \in 1 .. n + (p - 1)
        /\ \A j \in 1 .. n : code'[t][j] = b[j]
        /\ \A j \in n + 1 .. n + (p - 1) : code'[t][j] = code[t][(j - n) + 1]
    BY <1>1, <1>3 DEF Replaces
  <2> HIDE DEF n, p
  <2>2. i \in 1 .. n \/ (i \in n + 1 .. n + (p - 1) /\ (i - n) + 1 \in 1 .. p /\ (i - n) + 1 > 1)
    BY <2>1
  <2>3. \/ i \in 1 .. n /\ code'[t][i] = b[i]
        \/ (i - n) + 1 \in 1 .. p /\ (i - n) + 1 > 1 /\ code'[t][i] = code[t][(i - n) + 1]
    BY <2>1, <2>2
  <2> QED
    BY <1>3, <2>3 DEF Was, n, p
<1> QED
  BY <1>2, <1>3

\* There is a first call.
LEMMA HeadIsFirst ==
  ASSUME NEW t \in Thread, NEW b, Turns(t, b)
  PROVE  1 \in 1 .. Len(code[t]) /\ Len(b) \in Nat
BY DEF Turns

\* Calls in S come from calls only, ...
LEMMA AbsentKept ==
  ASSUME NEW S, NEW t \in Thread, NEW b, Turns(t, b), Absent(S),
         \A i \in 1 .. Len(b) : Key(b[i]) \notin S
  PROVE  Absent(S)'
<1> SUFFICES ASSUME NEW u \in Thread, NEW i \in 1 .. Len(code'[u])
             PROVE  Key(code'[u][i]) \notin S
  BY DEF Absent, Key
<1> DEFINE w == Was(t, Len(b), u, i)
<1>1. \/ i \in 1 .. Len(b) /\ code'[u][i] = b[i]
      \/ w \in 1 .. Len(code[u]) /\ code'[u][i] = code[u][w]
  BY Origin
<1> HIDE DEF w
<1> QED
  BY <1>1 DEF Absent

\* ... one from one.
LEMMA OnceKept ==
  ASSUME NEW S, NEW t \in Thread, NEW b, Turns(t, b), AtMostOne(S),
         \A i, j \in 1 .. Len(b) : Key(b[i]) \in S /\ Key(b[j]) \in S => i = j,
         \A i \in 1 .. Len(b) : Key(b[i]) \in S => Key(code[t][1]) \in S
  PROVE  AtMostOne(S)'
<1> SUFFICES ASSUME NEW u \in Thread, NEW v \in Thread,
                    NEW i \in 1 .. Len(code'[u]), NEW j \in 1 .. Len(code'[v]),
                    Key(code'[u][i]) \in S, Key(code'[v][j]) \in S
             PROVE  u = v /\ i = j
  BY DEF AtMostOne, Key
<1> DEFINE w == Was(t, Len(b), u, i)
           x == Was(t, Len(b), v, j)
<1>1. \/ u = t /\ i \in 1 .. Len(b) /\ code'[u][i] = b[i]
      \/ w \in 1 .. Len(code[u]) /\ code'[u][i] = code[u][w] /\ (u = t => w > 1)
  BY Origin
<1>2. \/ v = t /\ j \in 1 .. Len(b) /\ code'[v][j] = b[j]
      \/ x \in 1 .. Len(code[v]) /\ code'[v][j] = code[v][x] /\ (v = t => x > 1)
  BY Origin
<1>3. u = v /\ w = x => i = j
  <2>1. Len(b) \in Nat
    BY HeadIsFirst
  <2> QED
    BY <2>1 DEF Was
<1>4. 1 \in 1 .. Len(code[t])
  BY HeadIsFirst
<1> HIDE DEF w, x
<1>5. ~(1 > 1)
  OBVIOUS
<1> QED
  BY <1>1, <1>2, <1>3, <1>4, <1>5 DEF AtMostOne

\* The one call in S is made, and makes none in S.
LEMMA LastOne ==
  ASSUME NEW S, NEW t \in Thread, NEW b, Turns(t, b), AtMostOne(S), Key(code[t][1]) \in S,
         \A i \in 1 .. Len(b) : Key(b[i]) \notin S
  PROVE  Absent(S)'
<1> SUFFICES ASSUME NEW u \in Thread, NEW i \in 1 .. Len(code'[u]), Key(code'[u][i]) \in S
             PROVE  FALSE
  BY DEF Absent, Key
<1> DEFINE w == Was(t, Len(b), u, i)
<1>1. \/ i \in 1 .. Len(b) /\ code'[u][i] = b[i]
      \/ w \in 1 .. Len(code[u]) /\ code'[u][i] = code[u][w] /\ (u = t => w > 1)
  BY Origin
<1>2. 1 \in 1 .. Len(code[t])
  BY HeadIsFirst
<1> HIDE DEF w
<1>3. ~(1 > 1)
  OBVIOUS
<1> QED
  BY <1>1, <1>2, <1>3 DEF AtMostOne
-----------------------------------------------------------------------------
(* The defaults that are put in the place of each other.                   *)

\* The calls that put h in the place of the default.
Swaps(h) == {"SwapDefault", "ReadSetting", "WriteSetting"} \X {h}

\* t has replaced a default, or is about to.
Gave(t) == told[t].new # NoHandler

\* A value that is the default, or was, is not set again; a thread that was given the
\* value that is still the default is about to replace it.
SwapInv ==
  /\ \A h : AtMostOne(Swaps(h))
  /\ Absent(Swaps(NoHandler)) /\ Absent(Swaps(defaults.setting))
  /\ \A t \in Thread : Gave(t) => Absent(Swaps(told[t].old))
  /\ \A t \in Thread : Gave(t) /\ told[t].old = defaults.setting
                        => code[t] # <<>> /\ code[t][1][1] = "WriteSetting"
  /\ DefaultsHandedOver

\* Only a call that sets h makes one that does, and one at most.
LEMMA SwapsMade ==
  ASSUME NEW h, NEW f, NEW a, NEW b, Expands(f, a, b)
  PROVE  /\ \A i \in 1 .. Len(b) : Key(b[i]) \in Swaps(h) => <<f, a>> \in Swaps(h) /\ f # "WriteSetting"
         /\ \A i, j \in 1 .. Len(b) : Key(b[i]) \in Swaps(h) /\ Key(b[j]) \in Swaps(h) => i = j
         /\ f = "ReadSetting" => Len(b) = 1 /\ b[1] = <<"WriteSetting", a>>
<1>1. \A x : Key(x) \in Swaps(h) <=> x[1] \in {"SwapDefault", "ReadSetting", "WriteSetting"} /\ x[2] = h
  BY DEF Key, Swaps
<1>2. <<f, a>> \in Swaps(h) <=> f \in {"SwapDefault", "ReadSetting", "WriteSetting"} /\ a = h
  BY DEF Swaps
<1>3. CASE f = "SwapDefault"
  <2>1. Is3(b, Lock("defaults"), <<"ReadSetting", a>>, Unlock("defaults"))
    BY <1>3 DEF Expands, Expanding
  <2>2. \A i \in 1 .. 3 : b[i][1] \in {"SwapDefault", "ReadSetting", "WriteSetting"} => i = 2
    BY <2>1 DEF Is3, Lock, Unlock
  <2>3. Len(b) = 3 /\ b[2][1] = "ReadSetting" /\ b[2][2] = a
    BY <2>1 DEF Is3
  <2> QED
    BY <1>1, <1>2, <1>3, <2>2, <2>3
<1>4. CASE f = "ReadSetting"
  <2>1. Len(b) = 1 /\ b[1] = <<"WriteSetting", a>>
    BY <1>4 DEF Expands, Expanding, Is1
  <2>2. \A i \in 1 .. 1 : i = 1
    OBVIOUS
  <2> QED
    BY <1>1, <1>2, <1>4, <2>1, <2>2
<1>5. CASE f \notin {"SwapDefault", "ReadSetting"}
  <2>1. \A i \in 1 .. Len(b) : b[i][1] \notin {"SwapDefault", "ReadSetting", "WriteSetting"}
    <3> DEFINE Other(y) == y[1] \notin {"SwapDefault", "ReadSetting", "WriteSetting"}
    <3>1. /\ \A x : Is1(b, x) => Len(b) = 1 /\ (Other(x) => \A i \in 1 .. 1 : Other(b[i]))
          /\ \A x, y : Is2(b, x, y) => Len(b) = 2 /\ (Other(x) /\ Other(y) => \A i \in 1 .. 2 : Other(b[i]))
          /\ \A x, y, z : Is3(b, x, y, z) =>
               Len(b) = 3 /\ (Other(x) /\ Other(y) /\ Other(z) => \A i \in 1 .. 3 : Other(b[i]))
          /\ \A x, y, z, w : Is4(b, x, y, z, w) =>
               Len(b) = 4 /\ (Other(x) /\ Other(y) /\ Other(z) /\ Other(w) => \A i \in 1 .. 4 : Other(b[i]))
      BY DEF Is1, Is2, Is3, Is4
    <3>2. /\ \A m : Other(Lock(m)) /\ Other(Unlock(m))
          /\ \A g : Other(<<g>>) <=> g \notin {"SwapDefault", "ReadSetting", "WriteSetting"}
          /\ \A g, y : Other(<<g, y>>) <=> g \notin {"SwapDefault", "ReadSetting", "WriteSetting"}
      BY DEF Lock, Unlock
    <3> DEFINE All == \A i \in 1 .. Len(b) : Other(b[i])
    <3>3. ASSUME Len(b) = 0 PROVE All
      BY <3>3
    <3>4. ASSUME f = "InitOnce" /\ Len(b) = 7 /\ \A i \in 1 .. 7 : b[i][1] \in {"Init", "SetInitialized"} PROVE All
      BY <3>4
    <3>5. ASSUME /\ f \in {"SetFunc", "RaiseError"} /\ Len(b) = 3
                 /\ \A i \in 1 .. 3 : b[i][1] \in {"InitParser", "GetState", "Store", "Deliver"}
          PROVE  All
      BY <3>5
    <3> HIDE DEF Other
    <3>6. ASSUME f = "InitParser" /\ Is3(b, Lock("init"), <<"InitOnce">>, Unlock("init")) PROVE All
      BY <3>1, <3>2, <3>6
    <3>7. ASSUME f = "GetState" /\ Is4(b, Lock("defaults"), <<"CopyHandler">>, <<"CopyContext">>, Unlock("defaults")) PROVE All
      BY <3>1, <3>2, <3>7
    <3>8. ASSUME /\ f = "SetDefaultFunc"
                 /\ Is4(b, Lock("defaults"), <<"DefaultContext", a>>, <<"DefaultHandler", a>>, Unlock("defaults"))
          PROVE All
      BY <3>1, <3>2, <3>8
    <3>9. ASSUME f = "DictCreate" /\ Is4(b, <<"InitParser">>, <<"NewDict", a>>, Lock("dict"), Unlock("dict")) PROVE All
      BY <3>1, <3>2, <3>9
    <3>10. ASSUME /\ f = "DictCreateSub"
                 /\ Is3(b, <<"DictCreate", a[1]>>, <<"SetSub", <<a[1], a[2]>>>>, <<"DictReference", a[2]>>)
          PROVE All
      BY <3>1, <3>2, <3>10
    <3>11. ASSUME f = "DictReference" /\ Is3(b, Lock("dict"), <<"ReadRefs", <<a, 1>>>>, Unlock("dict")) PROVE All
      BY <3>1, <3>2, <3>11
    <3>12. ASSUME f = "ReadRefs" /\ Is1(b, <<"WriteRefs", <<a[1], dicts[a[1]].refs + a[2]>>>>) PROVE All
      BY <3>1, <3>2, <3>12
    <3>13. ASSUME f = "DictFree" /\ Is3(b, Lock("dict"), <<"ReadRefs", <<a, -1>>>>, <<"IfLast", a>>) PROVE All
      BY <3>1, <3>2, <3>13
    <3>14. Is1(b, Unlock("dict")) \/ Is1(b, <<"FreeDict", a>>) => All
      BY <3>1, <3>2
    <3>15. Is2(b, Unlock("dict"), <<"DictGone", a>>) => All
      BY <3>1, <3>2
    <3>16. Is2(b, <<"DictFree", dicts[a].sub>>, <<"FreeDict", a>>) => All
      BY <3>1, <3>2
    <3> HIDE DEF All
    <3>17. All
      <4>1. Expands(f, a, b) /\ f # "SwapDefault" /\ f # "ReadSetting"
        BY <1>5
      <4>2. CASE f \in {"SetDefaultFunc", "InitParser", "InitOnce", "GetState"}
        BY <4>1, <4>2, <3>3, <3>4, <3>6, <3>7, <3>8 DEF Expands
      <4>3. CASE f \in {"SetFunc", "RaiseError", "DictCreate", "DictCreateSub", "DictReference"}
        BY <4>1, <4>3, <3>3, <3>5, <3>9, <3>10, <3>11 DEF Expands
      <4>4. CASE f \in {"ReadRefs", "DictFree"}
        BY <4>1, <4>4, <3>3, <3>12, <3>13 DEF Expands
      <4>5. CASE f \in {"IfLast", "DictGone"}
        <5>1. \/ Is1(b, Unlock("dict")) \/ Is1(b, <<"FreeDict", a>>)
              \/ Is2(b, Unlock("dict"), <<"DictGone", a>>)
              \/ Is2(b, <<"DictFree", dicts[a].sub>>, <<"FreeDict", a>>)
          BY <4>1, <4>5 DEF Expands, Expanding
        <5> QED
          BY <5>1, <3>14, <3>15, <3>16
      <4>6. CASE f \notin {"SetDefaultFunc", "InitParser", "InitOnce", "GetState", "SetFunc", "RaiseError", "DictCreate",
                           "DictCreateSub", "DictReference", "ReadRefs", "DictFree", "IfLast", "DictGone"}
        BY <4>1, <4>6, <3>3 DEF Expands
      <4> QED
        BY <4>2, <4>3, <4>4, <4>5, <4>6
    <3> QED
      BY <3>17 DEF All, Other
  <2> QED
    BY <1>1, <1>5, <2>1
<1> QED
  BY <1>3, <1>4, <1>5

\* Every turn keeps this.
LEMMA SwapKept ==
  ASSUME NEW F, NEW k, Placed(F, k), SwapInv, NEW t \in Thread, NEW b, Turn(t, b)
  PROVE  SwapInv'
<1> DEFINE f == code[t][1][1]
           a == code[t][1][2]
<1>1. Turns(t, b) /\ Expands(f, a, b) /\ ChangesDefaults(t, f, a)
  BY DEF Turn, Changes
<1>2. Key(code[t][1]) = <<f, a>> /\ 1 \in 1 .. Len(code[t])
  BY <1>1, HeadIsFirst DEF Key
<1>3. ASSUME NEW h
      PROVE  /\ AtMostOne(Swaps(h))'
             /\ Absent(Swaps(h)) => Absent(Swaps(h))'
             /\ f = "WriteSetting" /\ a = h => Absent(Swaps(h))' /\ ~Absent(Swaps(h))
  <2>1. /\ \A i \in 1 .. Len(b) : Key(b[i]) \in Swaps(h) => Key(code[t][1]) \in Swaps(h) /\ f # "WriteSetting"
        /\ \A i, j \in 1 .. Len(b) : Key(b[i]) \in Swaps(h) /\ Key(b[j]) \in Swaps(h) => i = j
    <3> HIDE DEF f, a
    <3>1. /\ \A i \in 1 .. Len(b) : Key(b[i]) \in Swaps(h) => <<f, a>> \in Swaps(h) /\ f # "WriteSetting"
          /\ \A i, j \in 1 .. Len(b) : Key(b[i]) \in Swaps(h) /\ Key(b[j]) \in Swaps(h) => i = j
      BY <1>1, SwapsMade
    <3> QED
      BY <1>2, <3>1
  <2>2. AtMostOne(Swaps(h))
    BY DEF SwapInv
  <2>3. f = "WriteSetting" /\ a = h => Key(code[t][1]) \in Swaps(h)
    BY <1>2 DEF Swaps
  <2> DEFINE S == Swaps(h)
  <2>4. S' = S
    BY DEF Swaps
  <2> HIDE DEF S
  <2>5. AtMostOne(S)'
    BY <1>1, <2>1, <2>2, OnceKept DEF S
  <2>6. Absent(S) => Key(code[t][1]) \notin S
    BY <1>2 DEF Absent
  <2>7. Absent(S) => Absent(S)'
    BY <1>1, <2>1, <2>6, AbsentKept DEF S
  <2>8. ASSUME f = "WriteSetting", a = h PROVE Absent(S)' /\ ~Absent(S)
    BY <1>1, <2>1, <2>2, <2>3, <2>6, <2>8, LastOne DEF S
  <2> QED
    BY <2>4, <2>5, <2>7, <2>8 DEF S
<1>4. /\ defaults'.setting = IF f = "WriteSetting" THEN a ELSE defaults.setting
      /\ \A u \in Thread : /\ told'[u].old = IF f = "ReadSetting" /\ u = t THEN defaults.setting ELSE told[u].old
                           /\ told'[u].new = IF f = "ReadSetting" /\ u = t THEN a ELSE told[u].new
  BY <1>1 DEF ChangesDefaults
<1>5. Absent(Swaps(NoHandler))'
  BY <1>3 DEF SwapInv
<1>6. Absent(Swaps(defaults.setting))'
  <2>1. PICK h : h = defaults'.setting
    OBVIOUS
  <2>2. Absent(Swaps(h))'
    BY <1>3, <1>4, <2>1 DEF SwapInv
  <2> QED
    BY <2>1, <2>2
<1>7. ASSUME NEW u \in Thread, Gave(u)' PROVE Absent(Swaps(told[u].old))'
  <2>1. PICK h : h = told'[u].old
    OBVIOUS
  <2>2. Absent(Swaps(h))
    BY <1>4, <1>7, <2>1 DEF SwapInv, Gave
  <2>3. Absent(Swaps(h))'
    BY <1>3, <2>2
  <2> QED
    BY <2>1, <2>3
\* Who was given the value that is still the default is the only one in the mutex.
<1>8. ASSUME NEW u \in Thread \ {t}, code[u] # <<>>, code[u][1][1] = "WriteSetting"
      PROVE  f # "ReadSetting"
  <2>1. /\ IsList(code[u]) /\ IsList(code[t]) /\ code[t] # <<>> /\ k \in 1 .. 7
        /\ F[u] \in Labels /\ F[t] \in Labels
        /\ Follows(code[u], F[u], k) /\ Follows(code[t], F[t], k)
    <3>1. /\ \A v \in Thread : IsList(code[v]) /\ F[v] \in Labels /\ Follows(code[v], F[v], k)
          /\ k \in 1 .. 7
      BY DEF Placed, Shape
    <3>2. code[t] # <<>>
      BY <1>1, EmptyList DEF Turns
    <3> QED
      BY <3>1, <3>2
  <2>2. F[u] = "writeSetting"
    BY <1>8, <2>1, Whereabouts
  <2>3. f = "ReadSetting" => F[t] = "readSetting"
    BY <2>1, Whereabouts
  <2>4. F[u] \in InDefaults /\ (f = "ReadSetting" => F[t] \in InDefaults)
    BY <2>2, <2>3 DEF InDefaults
  <2>5. Ids(k) /\ Closed(F)
    BY DEF Placed
  <2>6. F[t] \in InDefaults /\ F[u] \in InDefaults => t = u
    BY <2>5, Alone
  <2> QED
    BY <2>4, <2>6
<1>9. ASSUME NEW u \in Thread \ {t}, Gave(u), f = "ReadSetting" PROVE told[u].old # defaults.setting
  BY <1>8, <1>9 DEF SwapInv
<1>10. ASSUME NEW u \in Thread, Gave(u)', told'[u].old = defaults'.setting
       PROVE  code'[u] # <<>> /\ code'[u][1][1] = "WriteSetting"
  <2>1. CASE f = "WriteSetting"
    <3>1. PICK h : h = a
      OBVIOUS
    <3>2. Gave(u) /\ told[u].old = h
      BY <1>4, <1>10, <2>1, <3>1 DEF Gave
    <3>3. Absent(Swaps(h)) /\ ~Absent(Swaps(h))
      BY <1>3, <2>1, <3>1, <3>2 DEF SwapInv
    <3> QED
      BY <3>3
  <2>2. CASE f # "WriteSetting" /\ u = t
    <3>1. CASE f = "ReadSetting"
      <4>1. Len(b) = 1 /\ b[1] = <<"WriteSetting", a>>
        BY <1>1, <3>1, SwapsMade
      <4>2. code'[t][1] = b[1] /\ Len(code'[t]) > 0
        <5>1. 1 \in 1 .. Len(b)
          BY <4>1
        <5> QED
          BY <1>1, <4>1, <5>1 DEF Turns, Replaces
      <4>3. code'[t] # <<>>
        BY <4>2, EmptyList
      <4> QED
        BY <2>2, <4>1, <4>2, <4>3
    <3>2. CASE f # "ReadSetting"
      <4>1. Gave(t) /\ told[t].old = defaults.setting
        BY <1>4, <1>10, <2>2, <3>2 DEF Gave
      <4> QED
        BY <2>2, <4>1 DEF SwapInv
    <3> QED
      BY <3>1, <3>2
  <2>3. CASE f # "WriteSetting" /\ u # t
    <3>1. Gave(u) /\ told[u].old = defaults.setting /\ code'[u] = code[u]
      BY <1>1, <1>4, <1>10, <2>3 DEF Gave, Turns
    <3> QED
      BY <3>1 DEF SwapInv
  <2> QED
    BY <2>1, <2>2, <2>3
<1>11. DefaultsHandedOver'
  <2> SUFFICES ASSUME NEW u \in Thread, NEW v \in Thread, u # v, Gave(u)', Gave(v)'
               PROVE  told'[u].old # told'[v].old
    BY DEF DefaultsHandedOver, Gave
  <2>1. CASE f # "ReadSetting" \/ t \notin {u, v}
    <3>1. /\ Gave(u) /\ Gave(v) /\ told'[u].old = told[u].old /\ told'[v].old = told[v].old
      BY <1>4, <2>1 DEF Gave
    <3> QED
      BY <3>1 DEF SwapInv, DefaultsHandedOver, Gave
  <2>2. CASE f = "ReadSetting" /\ t = u
    <3>1. /\ Gave(v) /\ told'[u].old = defaults.setting /\ told'[v].old = told[v].old
      BY <1>4, <2>2 DEF Gave
    <3> QED
      BY <1>9, <2>2, <3>1
  <2>3. CASE f = "ReadSetting" /\ t = v
    <3>1. /\ Gave(u) /\ told'[v].old = defaults.setting /\ told'[u].old = told[u].old
      BY <1>4, <2>3 DEF Gave
    <3> QED
      BY <1>9, <2>3, <3>1
  <2> QED
    BY <2>1, <2>2, <2>3
<1> QED
  BY <1>3, <1>5, <1>6, <1>7, <1>10, <1>11 DEF SwapInv

\* It holds at first.
LEMMA SwapAtFirst ==
  ASSUME DefaultsDiffer, LInit
  PROVE  SwapInv
<1>1. /\ code \in Programs /\ defaults = NoDefaults
      /\ \A t \in Thread : told[t].new = NoHandler
  BY DEF LInit
<1>2. code \in [Thread -> Seq(ApiCalls)]
  BY <1>1, LibraryAssumption
<1>3. ASSUME NEW t \in Thread, NEW i \in 1 .. Len(code[t]), NEW h, Key(code[t][i]) \in Swaps(h)
      PROVE  i \in DOMAIN code[t] /\ code[t][i] = <<"SwapDefault", h>>
  <2>1. i \in DOMAIN code[t] /\ code[t][i] \in ApiCalls
    BY <1>2
  <2> DEFINE x == code[t][i]
  <2> HIDE DEF x
  <2>2. x \in ApiCalls /\ x[1] \in {"SwapDefault", "ReadSetting", "WriteSetting"} /\ x[2] = h
    BY <1>3, <2>1 DEF Key, Swaps, x
  <2>3. x \in {"SetFunc", "SetDefaultFunc", "SwapDefault"} \X (Handler \cup {NoHandler})
    BY <2>2 DEF ApiCalls
  <2>4. x = <<"SwapDefault", h>>
    BY <2>2, <2>3
  <2> QED
    BY <2>1, <2>4 DEF x
<1>4. \A h : AtMostOne(Swaps(h))
  <2> SUFFICES ASSUME NEW h, NEW t \in Thread, NEW u \in Thread,
                      NEW i \in 1 .. Len(code[t]), NEW j \in 1 .. Len(code[u]),
                      Key(code[t][i]) \in Swaps(h), Key(code[u][j]) \in Swaps(h)
               PROVE  t = u /\ i = j
    BY DEF AtMostOne
  <2>1. /\ i \in DOMAIN code[t] /\ code[t][i] = <<"SwapDefault", h>>
        /\ j \in DOMAIN code[u] /\ code[u][j] = <<"SwapDefault", h>>
    BY <1>3
  <2> QED
    BY <1>1, <2>1 DEF DefaultsDiffer
<1>5. Absent(Swaps(NoHandler))
  <2> SUFFICES ASSUME NEW t \in Thread, NEW i \in 1 .. Len(code[t]), Key(code[t][i]) \in Swaps(NoHandler)
               PROVE  FALSE
    BY DEF Absent
  <2>1. i \in DOMAIN code[t] /\ code[t][i] = <<"SwapDefault", NoHandler>>
    BY <1>3
  <2> QED
    BY <1>1, <2>1 DEF DefaultsDiffer
<1>6. defaults.setting = NoHandler /\ \A t \in Thread : ~Gave(t)
  BY <1>1 DEF NoDefaults, Gave
<1> QED
  BY <1>4, <1>5, <1>6 DEF SwapInv, DefaultsHandedOver, Gave

\* However the threads that replace a default come in each other's way, none is handed
\* a value that another one was handed before (xml_globals.c:789), in programs that
\* set no two defaults to the same value.
THEOREM NoDefaultLost ==
  ASSUME DefaultsDiffer
  PROVE  LSpec => []DefaultsHandedOver
<1> DEFINE Inv == Somewhere /\ SwapInv
<1>1. LInit => Inv
  BY PlacedAtFirst, SwapAtFirst
<1>2. Inv /\ [LNext]_vars => Inv'
  <2> SUFFICES ASSUME Somewhere, SwapInv, [LNext]_vars PROVE Inv'
    OBVIOUS
  <2>1. PICK F, k : Placed(F, k)
    BY DEF Somewhere
  <2>2. ASSUME Stays PROVE SwapInv'
    <3>1. UNCHANGED <<code, defaults, told>>
      BY <2>2 DEF Stays
    <3>2. DefaultsHandedOver' = DefaultsHandedOver
      BY <3>1 DEF DefaultsHandedOver
    <3>3. \A S : Absent(S)' = Absent(S) /\ AtMostOne(S)' = AtMostOne(S)
      BY <3>1 DEF Absent, AtMostOne
    <3>4. \A t \in Thread : Gave(t)' = Gave(t)
      BY <3>1 DEF Gave
    <3> QED
      BY <3>1, <3>2, <3>3, <3>4 DEF SwapInv
  <2>3. ASSUME NEW t \in Thread, NEW b, Turn(t, b) PROVE SwapInv'
    BY <2>1, <2>3, SwapKept
  <2>4. SwapInv'
    BY <2>1, <2>2, <2>3, EveryStep
  <2> QED
    BY <2>4, StillSomewhere
<1>3. Inv => DefaultsHandedOver
  BY DEF SwapInv
<1> QED
  BY <1>1, <1>2, <1>3, PTL DEF LSpec
-----------------------------------------------------------------------------
(* The calls on dictionaries.                                              *)

\* The call that is made when r calls are left.
Nth(c, r) == c[(Len(c) - r) + 1]

DictCalls == {"DictCreate", "NewDict", "DictCreateSub", "SetSub", "DictReference", "ReadRefs",
              "WriteRefs", "DictFree", "IfLast", "DictGone", "FreeDict"}

\* Calls on a dictionary that make others.
Opening == {"DictCreate", "DictCreateSub", "DictReference", "ReadRefs", "DictFree", "IfLast", "DictGone"}

\* x has nothing to do with dictionaries or with who lives.
Aside(x) == x[1] \notin DictCalls \cup {"Spawn"} /\ ~(x[1] \in LockCalls /\ x[2] = "dict")

LEMMA Mirror == \A n \in Nat, m \in Nat : \A i \in 1 .. m : ((m + (n - 1)) - ((n + m) - i)) + 1 = i
OBVIOUS

\* d is left of c, which has n calls, when the m calls b are made instead of the first.
Leaves(c, d, b, n, m) ==
  /\ n \in Nat \ {0} /\ m \in Nat /\ Len(c) = n /\ Len(d) = (n - 1) + m /\ Len(b) = m
  /\ Nth(c, n) = c[1]
  /\ \A r \in 1 .. n - 1 : Nth(d, r) = Nth(c, r)
  /\ \A i \in 1 .. m : Nth(d, (n + m) - i) = b[i]
  /\ \A r \in 1 .. Len(d) : r \in 1 .. n - 1 \/ \E i \in 1 .. m : r = (n + m) - i /\ Nth(d, r) = b[i]

LEMMA FromEnd ==
  ASSUME NEW t \in Thread, NEW b, Turns(t, b)
  PROVE  Leaves(code[t], code'[t], b, Len(code[t]), Len(b))
<1>0. PICK n, m : n = Len(code[t]) /\ m = Len(b)
  OBVIOUS
<1>1. /\ n \in Nat \ {0} /\ m \in Nat /\ Len(code'[t]) = m + (n - 1)
      /\ \A i \in 1 .. m : code'[t][i] = b[i]
      /\ \A i \in m + 1 .. m + (n - 1) : code'[t][i] = code[t][(i - m) + 1]
  BY <1>0 DEF Turns, Replaces
<1>2. Nth(code[t], n) = code[t][1]
  <2>1. (n - n) + 1 = 1
    BY <1>1
  <2> QED
    BY <1>0, <2>1 DEF Nth
<1>3. ASSUME NEW r \in 1 .. n - 1 PROVE Nth(code'[t], r) = Nth(code[t], r)
  <2>1. /\ ((m + (n - 1)) - r) + 1 \in m + 1 .. m + (n - 1)
        /\ ((((m + (n - 1)) - r) + 1) - m) + 1 = (n - r) + 1
    BY <1>1
  <2>2. PICK i : i = ((m + (n - 1)) - r) + 1
    OBVIOUS
  <2>3. code'[t][i] = code[t][(i - m) + 1] /\ (i - m) + 1 = (n - r) + 1
    BY <1>1, <2>1, <2>2
  <2>4. Nth(code'[t], r) = code'[t][i] /\ Nth(code[t], r) = code[t][(n - r) + 1]
    BY <1>0, <1>1, <2>2 DEF Nth
  <2> QED
    BY <2>3, <2>4
<1>4. ASSUME NEW i \in 1 .. m PROVE Nth(code'[t], (n + m) - i) = b[i]
  <2>0. n \in Nat /\ m \in Nat
    BY <1>1
  <2>1. ((m + (n - 1)) - ((n + m) - i)) + 1 = i
    BY <2>0, Mirror
  <2> QED
    BY <1>0, <1>1, <2>1 DEF Nth
<1>5. ASSUME NEW r \in 1 .. Len(code'[t]), r \notin 1 .. n - 1
      PROVE  \E i \in 1 .. m : r = (n + m) - i /\ Nth(code'[t], r) = b[i]
  <2>1. n \in Nat \ {0} /\ m \in Nat /\ r \in 1 .. m + (n - 1)
    BY <1>1
  <2>2. (n + m) - r \in 1 .. m /\ r = (n + m) - ((n + m) - r)
    BY <1>5, <2>1
  <2> QED
    BY <1>4, <2>2
<1>6. Len(code'[t]) = (n - 1) + m
  BY <1>1
<1> QED
  BY <1>0, <1>1, <1>2, <1>3, <1>4, <1>5, <1>6 DEF Leaves

LEMMA Little ==
  /\ \A i \in 1 .. 1 : i = 1
  /\ \A i \in 1 .. 2 : i = 1 \/ i = 2
  /\ \A i \in 1 .. 3 : i = 1 \/ i = 2 \/ i = 3
  /\ \A i \in 1 .. 4 : i = 1 \/ i = 2 \/ i = 3 \/ i = 4
OBVIOUS

\* Only calls on dictionaries make calls on dictionaries.
LEMMA AsideBodies ==
  ASSUME NEW f, NEW a, NEW b, Expands(f, a, b), f \notin Opening
  PROVE  /\ \A i \in 1 .. Len(b) : Aside(b[i])
         /\ f \in DictCalls \cup LockCalls \cup {"Spawn"} => Len(b) = 0
<1> USE Little DEF Aside, DictCalls, LockCalls, Lock, Unlock, Opening, Is1, Is2, Is3, Is4
<1>1. CASE Len(b) = 0
  BY <1>1
<1>2. CASE f \in {"InitParser", "GetState", "SetDefaultFunc", "SwapDefault", "ReadSetting"} /\ Len(b) # 0
  BY <1>2 DEF Expands
<1>3. CASE f \in {"InitOnce", "SetFunc", "RaiseError"} /\ Len(b) # 0
  BY <1>3 DEF Expands
<1> QED
  BY <1>1, <1>2, <1>3 DEF Expands

LEMMA DictBodies ==
  ASSUME NEW f, NEW a, NEW b, Expands(f, a, b), f \in Opening
  PROVE  /\ f = "DictCreate" => Is4(b, <<"InitParser">>, <<"NewDict", a>>, Lock("dict"), Unlock("dict"))
         /\ f = "DictCreateSub" =>
              Is3(b, <<"DictCreate", a[1]>>, <<"SetSub", <<a[1], a[2]>>>>, <<"DictReference", a[2]>>)
         /\ f = "DictReference" => Is3(b, Lock("dict"), <<"ReadRefs", <<a, 1>>>>, Unlock("dict"))
         /\ f = "ReadRefs" => Is1(b, <<"WriteRefs", <<a[1], dicts[a[1]].refs + a[2]>>>>)
         /\ f = "DictFree" => Is3(b, Lock("dict"), <<"ReadRefs", <<a, -1>>>>, <<"IfLast", a>>)
         /\ f = "IfLast" => \/ dicts[a].refs > 0 /\ Is1(b, Unlock("dict"))
                            \/ ~(dicts[a].refs > 0) /\ Is2(b, Unlock("dict"), <<"DictGone", a>>)
         /\ f = "DictGone" => \/ dicts[a].sub = NoDict /\ Is1(b, <<"FreeDict", a>>)
                              \/ dicts[a].sub # NoDict /\ Is2(b, <<"DictFree", dicts[a].sub>>, <<"FreeDict", a>>)
BY DEF Expands, Expanding, Opening
-----------------------------------------------------------------------------
(* What the calls are about.                                               *)

Typed(x) ==
  /\ x[1] \in {"DictCreate", "NewDict", "DictReference", "DictFree", "IfLast", "DictGone", "FreeDict"}
       => x[2] \in Dict
  /\ x[1] \in {"DictCreateSub", "SetSub"} => x[2] \in Dict \X Dict /\ x[2][1] # x[2][2]
  /\ x[1] = "ReadRefs" => x[2] \in Dict \X {1, -1}
  /\ x[1] = "WriteRefs" => x[2] \in Dict \X Nat
  /\ x[1] = "Spawn" => x[2] \in Thread

WellTyped ==
  /\ dicts \in [Dict -> [refs : Nat, sub : Dict \cup {NoDict}, freed : BOOLEAN]]
  /\ \A t \in Thread : \A r \in 1 .. Len(code[t]) : Typed(Nth(code[t], r))

\* Someone counts on the dictionary that x is about, and a new number of references is
\* one more or one less.
Sure(x) ==
  /\ x[1] \in {"ReadRefs", "WriteRefs", "SetSub"} => dicts[x[2][1]].refs > 0
  /\ x[1] = "WriteRefs" => \/ x[2][2] = dicts[x[2][1]].refs + 1
                           \/ x[2][2] = dicts[x[2][1]].refs - 1

LEMMA TypedBodies ==
  ASSUME dicts \in [Dict -> [refs : Nat, sub : Dict \cup {NoDict}, freed : BOOLEAN]],
         NEW x, Typed(x), Sure(x), NEW b, Expands(x[1], x[2], b), NEW i \in 1 .. Len(b)
  PROVE  Typed(b[i])
<1>1. CASE x[1] \notin Opening
  <2>1. Aside(b[i])
    BY <1>1, AsideBodies
  <2> QED
    BY <2>1 DEF Aside, Typed, DictCalls
<1>2. CASE x[1] \in {"DictCreate", "DictReference", "DictFree"}
  <2>1. x[2] \in Dict /\ x[1] \in Opening
    BY <1>2 DEF Typed, Opening
  <2>2. /\ x[1] = "DictCreate" => Is4(b, <<"InitParser">>, <<"NewDict", x[2]>>, Lock("dict"), Unlock("dict"))
        /\ x[1] = "DictReference" => Is3(b, Lock("dict"), <<"ReadRefs", <<x[2], 1>>>>, Unlock("dict"))
        /\ x[1] = "DictFree" => Is3(b, Lock("dict"), <<"ReadRefs", <<x[2], -1>>>>, <<"IfLast", x[2]>>)
    BY <2>1, DictBodies
  <2> QED
    BY <1>2, <2>1, <2>2, Little DEF Typed, Is3, Is4, Lock, Unlock
<1>3. CASE x[1] = "DictCreateSub"
  <2>1. x[2] \in Dict \X Dict /\ x[2][1] # x[2][2] /\ x[1] \in Opening
    BY <1>3 DEF Typed, Opening
  <2>2. Is3(b, <<"DictCreate", x[2][1]>>, <<"SetSub", <<x[2][1], x[2][2]>>>>, <<"DictReference", x[2][2]>>)
    BY <1>3, <2>1, DictBodies
  <2> QED
    BY <2>1, <2>2, Little DEF Typed, Is3
<1>4. CASE x[1] = "ReadRefs"
  <2>1. x[2] \in Dict \X {1, -1} /\ x[1] \in Opening
    BY <1>4 DEF Typed, Opening
  <2>2. Is1(b, <<"WriteRefs", <<x[2][1], dicts[x[2][1]].refs + x[2][2]>>>>)
    BY <1>4, <2>1, DictBodies
  <2>3. dicts[x[2][1]].refs \in Nat /\ dicts[x[2][1]].refs > 0 /\ x[2][2] \in {1, -1}
    BY <1>4, <2>1 DEF Sure
  <2>4. dicts[x[2][1]].refs + x[2][2] \in Nat
    BY <2>3
  <2> QED
    BY <2>1, <2>2, <2>4, Little DEF Typed, Is1
<1>5. CASE x[1] = "IfLast"
  <2>1. x[2] \in Dict /\ x[1] \in Opening
    BY <1>5 DEF Typed, Opening
  <2>2. Is1(b, Unlock("dict")) \/ Is2(b, Unlock("dict"), <<"DictGone", x[2]>>)
    BY <1>5, <2>1, DictBodies
  <2> QED
    BY <2>1, <2>2, Little DEF Typed, Is1, Is2, Unlock
<1>6. CASE x[1] = "DictGone"
  <2>1. x[2] \in Dict /\ x[1] \in Opening
    BY <1>6 DEF Typed, Opening
  <2>2. \/ Is1(b, <<"FreeDict", x[2]>>)
        \/ dicts[x[2]].sub \in Dict /\ Is2(b, <<"DictFree", dicts[x[2]].sub>>, <<"FreeDict", x[2]>>)
    BY <1>6, <2>1, DictBodies
  <2> QED
    BY <2>1, <2>2, Little DEF Typed, Is1, Is2
<1> QED
  BY <1>1, <1>2, <1>3, <1>4, <1>5, <1>6 DEF Opening

\* What a call x changes of the dictionaries.
Becomes(x) ==
  /\ dicts' \in [Dict -> [refs : Nat, sub : Dict \cup {NoDict}, freed : BOOLEAN]]
  /\ \A d \in Dict :
       /\ dicts'[d].refs = IF x[1] = "NewDict" /\ x[2] = d THEN 1
                           ELSE IF x[1] = "WriteRefs" /\ x[2][1] = d THEN x[2][2]
                           ELSE dicts[d].refs
       /\ dicts'[d].sub = IF x[1] = "NewDict" /\ x[2] = d THEN NoDict
                          ELSE IF x[1] = "SetSub" /\ x[2][1] = d THEN x[2][2]
                          ELSE dicts[d].sub
       /\ dicts'[d].freed = IF x[1] = "NewDict" /\ x[2] = d THEN FALSE
                            ELSE IF x[1] = "FreeDict" /\ x[2] = d THEN TRUE
                            ELSE dicts[d].freed

LEMMA DictChanges ==
  ASSUME dicts \in [Dict -> [refs : Nat, sub : Dict \cup {NoDict}, freed : BOOLEAN]],
         NEW x, Typed(x), ChangesDicts(x[1], x[2])
  PROVE  Becomes(x)
<1> USE DEF Becomes
<1>1. CASE x[1] \notin {"NewDict", "SetSub", "WriteRefs", "FreeDict"}
  <2>1. dicts' = dicts
    BY <1>1 DEF ChangesDicts
  <2> QED
    BY <1>1, <2>1
<1>2. CASE x[1] = "NewDict"
  <2>1. x[2] \in Dict /\ dicts' = [dicts EXCEPT ![x[2]] = [refs |-> 1, sub |-> NoDict, freed |-> FALSE]]
    BY <1>2 DEF Typed, ChangesDicts, NoDictionary
  <2> QED
    BY <1>2, <2>1
<1>3. CASE x[1] = "SetSub"
  <2>1. x[2][1] \in Dict /\ x[2][2] \in Dict /\ dicts' = [dicts EXCEPT ![x[2][1]].sub = x[2][2]]
    BY <1>3 DEF Typed, ChangesDicts
  <2> QED
    BY <1>3, <2>1
<1>4. CASE x[1] = "WriteRefs"
  <2>1. x[2][1] \in Dict /\ x[2][2] \in Nat /\ dicts' = [dicts EXCEPT ![x[2][1]].refs = x[2][2]]
    BY <1>4 DEF Typed, ChangesDicts
  <2> QED
    BY <1>4, <2>1
<1>5. CASE x[1] = "FreeDict"
  <2>1. x[2] \in Dict /\ dicts' = [dicts EXCEPT ![x[2]].freed = TRUE]
    BY <1>5 DEF Typed, ChangesDicts
  <2> QED
    BY <1>5, <2>1
<1> QED
  BY <1>1, <1>2, <1>3, <1>4, <1>5

\* The call that t makes.
LEMMA TurnFacts ==
  ASSUME NEW t \in Thread, NEW b, Turn(t, b), NEW x, x = code[t][1],
         NEW n, n = Len(code[t]), NEW m, m = Len(b)
  PROVE  /\ Leaves(code[t], code'[t], b, n, m)
         /\ Turns(t, b) /\ Expands(x[1], x[2], b) /\ Changes(t, x[1], x[2])
         /\ n \in Nat \ {0} /\ n \in 1 .. n /\ x = Nth(code[t], n)
         /\ \A u \in Thread \ {t} : code'[u] = code[u]
<1>1. Turns(t, b) /\ Expands(x[1], x[2], b) /\ Changes(t, x[1], x[2])
  BY DEF Turn
<1>2. Leaves(code[t], code'[t], b, n, m)
  BY <1>1, FromEnd
<1>3. n \in Nat \ {0} /\ x = Nth(code[t], n)
  BY <1>2 DEF Leaves
<1> QED
  BY <1>1, <1>2, <1>3 DEF Turns

LEMMA TypedKept ==
  ASSUME WellTyped, NEW t \in Thread, NEW b, Turn(t, b), Sure(code[t][1])
  PROVE  WellTyped'
<1>1. PICK x, n, m : x = code[t][1] /\ n = Len(code[t]) /\ m = Len(b)
  OBVIOUS
<1>2. /\ Leaves(code[t], code'[t], b, n, m) /\ Expands(x[1], x[2], b) /\ ChangesDicts(x[1], x[2])
      /\ n \in 1 .. n /\ x = Nth(code[t], n) /\ \A u \in Thread \ {t} : code'[u] = code[u]
  BY <1>1, TurnFacts DEF Changes
<1>3. Typed(x) /\ Sure(x) /\ dicts \in [Dict -> [refs : Nat, sub : Dict \cup {NoDict}, freed : BOOLEAN]]
  BY <1>1, <1>2 DEF WellTyped
<1>4. dicts' \in [Dict -> [refs : Nat, sub : Dict \cup {NoDict}, freed : BOOLEAN]]
  BY <1>2, <1>3, DictChanges DEF Becomes
<1>5. ASSUME NEW u \in Thread, NEW r \in 1 .. Len(code'[u]) PROVE Typed(Nth(code'[u], r))
  <2>1. CASE u # t
    BY <1>2, <1>5, <2>1 DEF WellTyped
  <2>2. CASE u = t
    <3>2. CASE r \in 1 .. n - 1
      <4>1. r \in 1 .. n
        BY <1>2, <3>2 DEF Leaves
      <4> QED
        BY <1>1, <2>2, <1>2, <3>2, <4>1 DEF WellTyped, Leaves
    <3>3. CASE r \notin 1 .. n - 1
      <4>1. PICK i \in 1 .. Len(b) : Nth(code'[t], r) = b[i]
        BY <1>1, <1>5, <2>2, <1>2, <3>3 DEF Leaves
      <4> QED
        BY <1>2, <1>3, <2>2, <4>1, TypedBodies
    <3> QED
      BY <3>2, <3>3
  <2> QED
    BY <2>1, <2>2
<1>6. \A x2, y2 : Typed(x2)' <=> Typed(x2)
  BY DEF Typed
<1> QED
  BY <1>4, <1>5 DEF WellTyped, Typed, Nth
-----------------------------------------------------------------------------
(* In the mutex of the dictionaries.                                       *)

\* x is where the mutex is taken, or given back.
Locking(x) == x[1] = "MutexLock" /\ x[2] = "dict"

Unlocking(x) == x[1] = "MutexUnlock" /\ x[2] = "dict"

\* The call y can be the first, or stand behind x, when the library is at l.
Begins(l, y) == Locking(y) => l.initialized

ComesAfter(l, x, y) ==
  /\ y[1] # "WriteRefs"
  /\ y[1] = "ReadRefs" => Locking(x)
  /\ y[1] = "IfLast" => \/ x[1] = "ReadRefs" /\ x[2] = <<y[2], -1>>
                        \/ x[1] = "WriteRefs" /\ x[2][1] = y[2]
  /\ Unlocking(y) => Locking(x) \/ x[1] \in {"ReadRefs", "WriteRefs"}
  /\ Locking(y) => l.initialized \/ x[1] = "NewDict"

Sequenced(l, c) ==
  /\ Len(c) > 0 => Begins(l, Nth(c, Len(c)))
  /\ \A r \in 1 .. Len(c) - 1 : ComesAfter(l, Nth(c, r + 1), Nth(c, r))

LEMMA SequencedBodies ==
  ASSUME NEW x, NEW b, Expands(x[1], x[2], b), NEW l,
         x[1] \in {"DictReference", "DictFree"} => l.initialized
  PROVE  /\ Len(b) > 0 => Begins(l, b[1])
         /\ \A i \in 2 .. Len(b) : ComesAfter(l, b[i - 1], b[i])
<1> DEFINE Good == /\ Len(b) > 0 => Begins(l, b[1])
                   /\ \A i \in 2 .. Len(b) : ComesAfter(l, b[i - 1], b[i])
<1> USE DEF Begins, ComesAfter, Lock, Unlock, Locking, Unlocking
<1>p. /\ \A i \in 2 .. 1 : FALSE
      /\ \A i \in 2 .. 2 : i = 2 /\ i - 1 = 1
      /\ \A i \in 2 .. 3 : (i = 2 /\ i - 1 = 1) \/ (i = 3 /\ i - 1 = 2)
      /\ \A i \in 2 .. 4 : (i = 2 /\ i - 1 = 1) \/ (i = 3 /\ i - 1 = 2) \/ (i = 4 /\ i - 1 = 3)
  OBVIOUS
<1>1. CASE x[1] \notin Opening
  <2>1. \A i \in 1 .. Len(b) : Aside(b[i])
    BY <1>1, AsideBodies
  <2>2. Len(b) \in Nat /\ \A i \in 2 .. Len(b) : i \in 1 .. Len(b)
    BY DEF Expands, Is1, Is2, Is3, Is4
  <2>3. \A y : Aside(y) => Begins(l, y) /\ \A w : ComesAfter(l, w, y)
    BY DEF Aside, DictCalls, LockCalls
  <2>4. Len(b) > 0 => 1 \in 1 .. Len(b)
    BY <2>2
  <2> HIDE DEF Begins, ComesAfter
  <2> QED
    BY <2>1, <2>2, <2>3, <2>4
<1>2. ASSUME x[1] = "DictCreate" PROVE Good
  <2>1. Is4(b, <<"InitParser">>, <<"NewDict", x[2]>>, Lock("dict"), Unlock("dict"))
    BY <1>2, DictBodies DEF Opening
  <2> QED
    BY <1>p, <2>1 DEF Is4
<1>3. ASSUME x[1] = "DictCreateSub" PROVE Good
  <2>1. Is3(b, <<"DictCreate", x[2][1]>>, <<"SetSub", <<x[2][1], x[2][2]>>>>, <<"DictReference", x[2][2]>>)
    BY <1>3, DictBodies DEF Opening
  <2> QED
    BY <1>p, <2>1 DEF Is3
<1>4. ASSUME x[1] = "DictReference" PROVE Good
  <2>1. Is3(b, Lock("dict"), <<"ReadRefs", <<x[2], 1>>>>, Unlock("dict"))
    BY <1>4, DictBodies DEF Opening
  <2> QED
    BY <1>4, <1>p, <2>1 DEF Is3
<1>5. ASSUME x[1] = "ReadRefs" PROVE Good
  <2>1. Is1(b, <<"WriteRefs", <<x[2][1], dicts[x[2][1]].refs + x[2][2]>>>>)
    BY <1>5, DictBodies DEF Opening
  <2> QED
    BY <1>p, <2>1 DEF Is1
<1>6. ASSUME x[1] = "DictFree" PROVE Good
  <2>1. Is3(b, Lock("dict"), <<"ReadRefs", <<x[2], -1>>>>, <<"IfLast", x[2]>>)
    BY <1>6, DictBodies DEF Opening
  <2> QED
    BY <1>6, <1>p, <2>1 DEF Is3
<1>7. ASSUME x[1] = "IfLast" PROVE Good
  <2>1. Is1(b, Unlock("dict")) \/ Is2(b, Unlock("dict"), <<"DictGone", x[2]>>)
    BY <1>7, DictBodies DEF Opening
  <2>2. CASE Is1(b, Unlock("dict"))
    BY <1>p, <2>2 DEF Is1
  <2>3. CASE Is2(b, Unlock("dict"), <<"DictGone", x[2]>>)
    BY <1>p, <2>3 DEF Is2
  <2> QED
    BY <2>1, <2>2, <2>3
<1>8. ASSUME x[1] = "DictGone" PROVE Good
  <2>1. Is1(b, <<"FreeDict", x[2]>>) \/ Is2(b, <<"DictFree", dicts[x[2]].sub>>, <<"FreeDict", x[2]>>)
    BY <1>8, DictBodies DEF Opening
  <2> QED
    BY <1>p, <2>1 DEF Is1, Is2
<1> QED
  BY <1>1, <1>2, <1>3, <1>4, <1>5, <1>6, <1>7, <1>8 DEF Opening

\* The call behind the ones that are made.
LEMMA SequencedSeam ==
  ASSUME NEW x, NEW b, Expands(x[1], x[2], b), NEW l, NEW k,
         l.initialized => k.initialized, x[1] = "NewDict" => k.initialized, NEW y, ComesAfter(l, x, y)
  PROVE  /\ Len(b) = 0 => Begins(k, y)
         /\ Len(b) > 0 => ComesAfter(k, b[Len(b)], y)
<1>1. ASSUME x[1] \notin Opening, Len(b) > 0 PROVE x[1] # "NewDict" /\ ~Locking(x) /\ x[1] # "WriteRefs"
  <2>1. x[1] \notin DictCalls \cup LockCalls \cup {"Spawn"}
    BY <1>1, AsideBodies
  <2> QED
    BY <2>1 DEF DictCalls, LockCalls, Locking
<1>2. ASSUME x[1] = "ReadRefs" PROVE Len(b) = 1 /\ b[1][1] = "WriteRefs" /\ b[1][2][1] = x[2][1]
  <2>1. Is1(b, <<"WriteRefs", <<x[2][1], dicts[x[2][1]].refs + x[2][2]>>>>)
    BY <1>2, DictBodies DEF Opening
  <2> QED
    BY <2>1 DEF Is1
<1>3. Len(b) = 0 => Begins(k, y)
  BY DEF Begins, ComesAfter, Locking
<1>4. ASSUME Len(b) > 0 PROVE ComesAfter(k, b[Len(b)], y)
  <2>1. CASE x[1] = "ReadRefs"
    <3>1. Len(b) = 1 /\ b[1][1] = "WriteRefs" /\ b[1][2][1] = x[2][1]
      BY <1>2, <2>1
    <3>2. y[1] = "IfLast" => x[2] = <<y[2], -1>>
      BY <2>1 DEF ComesAfter
    <3> QED
      BY <2>1, <3>1, <3>2 DEF ComesAfter, Locking
  <2>2. CASE x[1] # "ReadRefs"
    <3>1. x[1] # "NewDict" /\ ~Locking(x) /\ x[1] # "WriteRefs"
      <4>1. CASE x[1] \in Opening
        BY <4>1 DEF Opening, Locking
      <4>2. CASE x[1] \notin Opening
        BY <1>1, <1>4, <4>2
      <4> QED
        BY <4>1, <4>2
    <3> QED
      BY <2>2, <3>1 DEF ComesAfter
  <2> QED
    BY <2>1, <2>2
<1> QED
  BY <1>3, <1>4

LEMMA SequencedKept ==
  ASSUME NEW c, NEW d, NEW x, NEW b, NEW n, NEW m, Leaves(c, d, b, n, m), x = Nth(c, n),
         Expands(x[1], x[2], b), NEW l, NEW k, l.initialized => k.initialized,
         x[1] \in {"DictReference", "DictFree", "NewDict"} => k.initialized, Sequenced(l, c)
  PROVE  Sequenced(k, d)
<1>1. /\ n \in Nat \ {0} /\ m \in Nat /\ Len(c) = n /\ Len(d) = (n - 1) + m /\ Len(b) = m
      /\ \A q \in 1 .. n - 1 : Nth(d, q) = Nth(c, q)
      /\ \A i \in 1 .. m : Nth(d, (n + m) - i) = b[i]
      /\ \A r \in 1 .. Len(d) : r \in 1 .. n - 1 \/ \E i \in 1 .. m : r = (n + m) - i /\ Nth(d, r) = b[i]
  BY DEF Leaves
<1>2. /\ Len(b) > 0 => Begins(k, b[1])
      /\ \A i \in 2 .. Len(b) : ComesAfter(k, b[i - 1], b[i])
  BY SequencedBodies
<1>3. ASSUME NEW y, ComesAfter(l, x, y)
      PROVE  /\ Len(b) = 0 => Begins(k, y)
             /\ Len(b) > 0 => ComesAfter(k, b[Len(b)], y)
  BY <1>3, SequencedSeam
<1>4. \A r \in 1 .. n - 1 : ComesAfter(l, Nth(c, r + 1), Nth(c, r))
  BY <1>1 DEF Sequenced
<1>5. ASSUME Len(d) > 0 PROVE Begins(k, Nth(d, Len(d)))
  <2>1. CASE m = 0
    <3>1. Len(d) = n - 1 /\ n - 1 \in 1 .. n - 1 /\ (n - 1) + 1 = n
      BY <1>1, <1>5, <2>1
    <3>2. ComesAfter(l, x, Nth(c, n - 1)) /\ Nth(d, Len(d)) = Nth(c, n - 1)
      BY <1>1, <1>4, <3>1
    <3> QED
      BY <1>1, <1>3, <2>1, <3>2
  <2>2. CASE m > 0
    <3>1. 1 \in 1 .. m /\ (n + m) - 1 = Len(d)
      BY <1>1, <2>2
    <3> QED
      BY <1>1, <1>2, <2>2, <3>1
  <2> QED
    BY <1>1, <2>1, <2>2
<1>6. ASSUME NEW r \in 1 .. Len(d) - 1 PROVE ComesAfter(k, Nth(d, r + 1), Nth(d, r))
  <2>1. CASE r \in 1 .. n - 2
    <3>1. r \in 1 .. n - 1 /\ r + 1 \in 1 .. n - 1
      BY <1>1, <2>1
    <3>2. ComesAfter(l, Nth(d, r + 1), Nth(d, r))
      BY <1>1, <1>4, <3>1
    <3> QED
      BY <3>2 DEF ComesAfter
  <2>2. CASE r = n - 1
    <3>1. r \in 1 .. n - 1 /\ r + 1 = n /\ m \in 1 .. m /\ (n + m) - m = n /\ m > 0
      BY <1>1, <1>6, <2>2
    <3>2. ComesAfter(l, x, Nth(c, r)) /\ Nth(d, r) = Nth(c, r) /\ Nth(d, r + 1) = b[m]
      BY <1>1, <1>4, <3>1
    <3> QED
      BY <1>1, <1>3, <3>1, <3>2
  <2>3. CASE r \notin 1 .. n - 1
    <3>1. r \in 1 .. Len(d)
      BY <1>1, <1>6
    <3>2. PICK i \in 1 .. m : r = (n + m) - i /\ Nth(d, r) = b[i]
      BY <1>1, <2>3, <3>1
    <3>3. i \in 2 .. m /\ i - 1 \in 1 .. m /\ (n + m) - (i - 1) = r + 1
      BY <1>1, <1>6, <3>2
    <3> QED
      BY <1>1, <1>2, <3>2, <3>3
  <2> QED
    BY <1>1, <2>1, <2>2, <2>3
<1> QED
  BY <1>5, <1>6 DEF Sequenced

\* The first of the calls c is made in the mutex.
Counting(c) ==
  Len(c) > 0 /\ (Nth(c, Len(c))[1] \in {"ReadRefs", "WriteRefs", "IfLast"} \/ Unlocking(Nth(c, Len(c))))

LEMMA CountingNext ==
  ASSUME NEW c, NEW d, NEW x, NEW b, NEW n, NEW m, Leaves(c, d, b, n, m), x = Nth(c, n),
         Expands(x[1], x[2], b), NEW l, Sequenced(l, c), Counting(d)
  PROVE  \/ Counting(c) /\ x[1] \in {"ReadRefs", "WriteRefs", "IfLast"}
         \/ Locking(x) /\ l.initialized
<1>1. /\ n \in Nat \ {0} /\ m \in Nat /\ Len(c) = n /\ Len(d) = (n - 1) + m /\ Len(b) = m
      /\ \A q \in 1 .. n - 1 : Nth(d, q) = Nth(c, q)
      /\ \A i \in 1 .. m : Nth(d, (n + m) - i) = b[i]
  BY DEF Leaves
<1>2. PICK y : y = Nth(d, Len(d))
  OBVIOUS
<1>3. Len(d) > 0 /\ (y[1] \in {"ReadRefs", "WriteRefs", "IfLast"} \/ Unlocking(y))
  BY <1>2 DEF Counting
<1>4. n > 0
  BY <1>1
<1>5. CASE m = 0
  <2>1. Len(d) = n - 1 /\ n - 1 \in 1 .. n - 1 /\ (n - 1) + 1 = n
    BY <1>1, <1>3, <1>5
  <2>2. y = Nth(c, n - 1) /\ ComesAfter(l, x, y)
    BY <1>1, <1>2, <2>1 DEF Sequenced
  <2>3. ASSUME x[1] = "ReadRefs" PROVE FALSE
    <3>1. Is1(b, <<"WriteRefs", <<x[2][1], dicts[x[2][1]].refs + x[2][2]>>>>)
      BY <2>3, DictBodies DEF Opening
    <3> QED
      BY <1>1, <1>5, <3>1 DEF Is1
  <2>4. Locking(x) \/ x[1] = "WriteRefs"
    BY <1>3, <2>2, <2>3 DEF ComesAfter
  <2>5. Begins(l, x)
    BY <1>1, <1>4 DEF Sequenced
  <2> QED
    BY <1>1, <1>4, <2>4, <2>5 DEF Begins, Counting
<1>6. CASE m > 0
  <2>1. 1 \in 1 .. m /\ (n + m) - 1 = Len(d)
    BY <1>1, <1>6
  <2>2. y = b[1]
    BY <1>1, <1>2, <2>1
  <2>3. x[1] \in Opening
    <3>1. ~Aside(y)
      BY <1>3 DEF Aside, DictCalls, LockCalls, Unlocking
    <3> QED
      BY <1>1, <2>1, <2>2, <3>1, AsideBodies
  <2>4. x[1] \in {"ReadRefs", "IfLast"}
    <3> QED
      BY <1>3, <2>2, <2>3, DictBodies DEF Opening, Unlocking, Is1, Is2, Is3, Is4, Lock, Unlock
  <2> QED
    BY <1>1, <1>4, <2>4 DEF Counting
<1> QED
  BY <1>1, <1>5, <1>6

Locks ==
  \A t \in Thread :
    /\ Sequenced(lib, code[t])
    /\ Counting(code[t]) => id[t] # 0 /\ lib.initialized /\ (threaded => mutex["dict"] = t)

\* One thread at most counts at a time.
LEMMA CountsAlone ==
  ASSUME NEW k, Ids(k), Locks, NEW t \in Thread, Counting(code[t]), NEW u \in Thread, Counting(code[u])
  PROVE  t = u
<1>1. /\ id[t] # 0 /\ (threaded => mutex["dict"] = t)
      /\ id[u] # 0 /\ (threaded => mutex["dict"] = u)
  BY DEF Locks
<1> QED
  BY <1>1 DEF Ids

LEMMA LocksKept ==
  ASSUME NEW F, NEW k, Placed(F, k), Locks, NEW t \in Thread, NEW b, Turn(t, b)
  PROVE  Locks'
<1>1. PICK x, n, m : x = code[t][1] /\ n = Len(code[t]) /\ m = Len(b)
  OBVIOUS
<1>2. /\ Leaves(code[t], code'[t], b, n, m) /\ Expands(x[1], x[2], b) /\ Changes(t, x[1], x[2])
      /\ n \in Nat \ {0} /\ n \in 1 .. n /\ x = Nth(code[t], n) /\ \A u \in Thread \ {t} : code'[u] = code[u]
  BY <1>1, TurnFacts
<1>3. lib.initialized => lib'.initialized
  BY <1>2 DEF Changes, ChangesLibrary
<1>4. x[1] \in {"DictReference", "DictFree", "NewDict"} => lib.initialized
  <2>1. CASE x[1] = "NewDict"
    BY <1>2, <2>1 DEF Changes, ChangesLibrary, Needs
  <2>2. CASE x[1] \in {"DictReference", "DictFree"}
    <3>1. x[2] \in Dict /\ dicts[x[2]].refs > 0
      BY <1>2, <2>2 DEF Changes, ChangesDicts
    <3>2. dicts[x[2]].refs # 0
      BY <3>1
    <3> QED
      BY <3>1, <3>2 DEF Placed, Fresh
  <2> QED
    BY <2>1, <2>2
<1>5. Ids(k) /\ mutex = [m2 \in Mutexes |-> mutex[m2]] /\ "dict" \in Mutexes
  BY DEF Placed, Closed, Mutexes
<1>6. ASSUME NEW u \in Thread PROVE Sequenced(lib', code'[u])
  <2>1. CASE u = t
    <3>1. Sequenced(lib, code[t])
      BY DEF Locks
    <3>2. Sequenced(lib', code'[t])
      BY <1>2, <1>3, <1>4, <3>1, SequencedKept
    <3> QED
      BY <2>1, <3>2
  <2>2. CASE u # t
    <3>1. Sequenced(lib, code[u]) /\ code'[u] = code[u]
      BY <1>2, <2>2 DEF Locks
    <3> QED
      BY <1>3, <3>1 DEF Sequenced, Begins, ComesAfter
  <2> QED
    BY <2>1, <2>2
<1>7. ASSUME NEW u \in Thread, id[u] # 0 PROVE id'[u] # 0
  BY <1>2, <1>5, <1>7, LibraryAssumption DEF Changes, ChangesThreads, Ids
<1>8. ASSUME NEW u \in Thread \ {t}, Counting(code[u])
      PROVE  id'[u] # 0 /\ lib'.initialized /\ (threaded' => mutex'["dict"] = u)
  <2>1. id[u] # 0 /\ lib.initialized /\ (threaded => mutex["dict"] = u)
    BY <1>8 DEF Locks
  <2>2. id[t] # 0 /\ (x[1] # "Spawn" => threaded' = threaded)
    BY <1>2 DEF Changes, ChangesThreads
  <2>3. ASSUME threaded' PROVE threaded
    <3>1. ASSUME ~threaded PROVE FALSE
      BY <1>5, <1>8, <2>1, <2>2, <3>1 DEF Ids
    <3> QED
      BY <3>1
  <2>4. ASSUME threaded PROVE mutex'["dict"] = u
    <3>1. mutex["dict"] = u /\ u # Nobody
      BY <2>1, <2>4, ThreadAssumption
    <3>2. ~(x[1] = "MutexUnlock" /\ x[2] = "dict")
      <4>1. ASSUME Unlocking(x) PROVE FALSE
        <5>1. Len(code[t]) > 0 /\ Nth(code[t], Len(code[t])) = x
          BY <1>1, <1>2
        <5>2. Counting(code[t])
          BY <4>1, <5>1 DEF Counting
        <5> QED
          BY <1>5, <1>8, <5>2, CountsAlone
      <4> QED
        BY <4>1 DEF Unlocking
    <3>3. ChangesMutex(t, x[1], x[2])
      BY <1>2 DEF Changes
    <3>4. CASE x[1] \notin {"MutexLock", "MutexUnlock", "Init"}
      BY <3>1, <3>3, <3>4 DEF ChangesMutex
    <3>5. CASE x[1] = "Init"
      BY <2>1, <3>3, <3>5 DEF ChangesMutex
    <3>6. CASE x[1] = "MutexLock"
      BY <1>5, <2>4, <3>1, <3>3, <3>6 DEF ChangesMutex
    <3>7. CASE x[1] = "MutexUnlock"
      BY <1>5, <2>4, <3>1, <3>2, <3>3, <3>7 DEF ChangesMutex
    <3> QED
      BY <3>4, <3>5, <3>6, <3>7
  <2> QED
    BY <1>3, <1>7, <2>1, <2>3, <2>4
<1>9. ASSUME Counting(code'[t]) PROVE id'[t] # 0 /\ lib'.initialized /\ (threaded' => mutex'["dict"] = t)
  <2>1. Sequenced(lib, code[t])
    BY DEF Locks
  <2>2. \/ Counting(code[t]) /\ x[1] \in {"ReadRefs", "WriteRefs", "IfLast"}
        \/ Locking(x) /\ lib.initialized
    BY <1>2, <1>9, <2>1, CountingNext
  <2>3. id'[t] # 0
    BY <1>2, <1>7 DEF Changes, ChangesThreads
  <2>4. x[1] # "Spawn"
    BY <2>2 DEF Locking
  <2>5. threaded' = threaded /\ ChangesMutex(t, x[1], x[2])
    BY <1>2, <2>4 DEF Changes, ChangesThreads
  <2>6. CASE Counting(code[t]) /\ x[1] \in {"ReadRefs", "WriteRefs", "IfLast"}
    <3>1. lib.initialized /\ (threaded => mutex["dict"] = t)
      BY <2>6 DEF Locks
    <3>2. mutex' = mutex
      BY <2>5, <2>6 DEF ChangesMutex
    <3> QED
      BY <1>3, <2>3, <2>5, <3>1, <3>2
  <2>7. CASE Locking(x) /\ lib.initialized
    <3>1. x[1] = "MutexLock" /\ x[2] = "dict"
      BY <2>7 DEF Locking
    <3>2. threaded => mutex'["dict"] = t
      BY <1>5, <2>5, <3>1 DEF ChangesMutex
    <3> QED
      BY <1>3, <2>3, <2>5, <2>7, <3>2
  <2> QED
    BY <2>2, <2>6, <2>7
<1>10. ASSUME NEW u \in Thread PROVE Counting(code'[u]) => id'[u] # 0 /\ lib'.initialized /\ (threaded' => mutex'["dict"] = u)
  <2>1. CASE u = t
    BY <1>9, <2>1
  <2>2. CASE u # t
    <3>1. u \in Thread \ {t} /\ code'[u] = code[u]
      BY <1>2, <2>2
    <3> QED
      BY <1>8, <3>1
  <2> QED
    BY <2>1, <2>2
<1>11. \A c, l : (Counting(c)' <=> Counting(c)) /\ (Sequenced(l, c)' <=> Sequenced(l, c))
  BY DEF Counting, Sequenced, Begins, ComesAfter, Locking, Unlocking, Nth
<1> QED
  BY <1>6, <1>10 DEF Locks, Counting, Sequenced, Begins, ComesAfter, Locking, Unlocking, Nth, Lock, Unlock
-----------------------------------------------------------------------------
(* What becomes of a dictionary.                                           *)

\* The calls that make d, those that say what it inherits from, and those that end it.
MakersOf(d) == ({"DictCreate", "NewDict"} \X {d}) \cup ({"DictCreateSub"} \X ({d} \X Dict))

LinksOf(d) == {"DictCreateSub", "SetSub"} \X ({d} \X Dict)

EndsOf(d) == {"DictGone", "FreeDict"} \X {d}

LEMMA KeyIn ==
  ASSUME NEW y, NEW d
  PROVE  /\ Key(y) \in MakersOf(d) <=> \/ y[1] \in {"DictCreate", "NewDict"} /\ y[2] = d
                                       \/ y[1] = "DictCreateSub" /\ y[2] \in {d} \X Dict
         /\ Key(y) \in LinksOf(d) <=> y[1] \in {"DictCreateSub", "SetSub"} /\ y[2] \in {d} \X Dict
         /\ Key(y) \in EndsOf(d) <=> y[1] \in {"DictGone", "FreeDict"} /\ y[2] = d
         /\ Key(y) \in {<<"FreeDict", d>>} <=> y[1] = "FreeDict" /\ y[2] = d
         /\ Key(y) \in {<<"Spawn", d>>} <=> y[1] = "Spawn" /\ y[2] = d
BY DEF Key, MakersOf, LinksOf, EndsOf

\* What calls of these the call x makes, and where.
LEMMA KeyBodies ==
  ASSUME NEW x, Typed(x), NEW b, Expands(x[1], x[2], b), NEW d, NEW i \in 1 .. Len(b)
  PROVE  /\ Key(b[i]) \in MakersOf(d) => /\ Key(x) \in MakersOf(d)
                                         /\ \/ x[1] = "DictCreate" /\ i = 2
                                            \/ x[1] = "DictCreateSub" /\ i = 1
         /\ Key(b[i]) \in LinksOf(d) => Key(x) \in LinksOf(d) /\ x[1] = "DictCreateSub" /\ i = 2
         /\ Key(b[i]) \in EndsOf(d) => /\ i = Len(b) /\ x[2] = d
                                       /\ x[1] = "DictGone" \/ (x[1] = "IfLast" /\ ~(dicts[d].refs > 0))
         /\ Key(b[i]) \in {<<"FreeDict", d>>} => x[1] = "DictGone" /\ x[2] = d
         /\ b[i][1] # "Spawn"
<1> DEFINE Good ==
         /\ Key(b[i]) \in MakersOf(d) => /\ Key(x) \in MakersOf(d)
                                         /\ \/ x[1] = "DictCreate" /\ i = 2
                                            \/ x[1] = "DictCreateSub" /\ i = 1
         /\ Key(b[i]) \in LinksOf(d) => Key(x) \in LinksOf(d) /\ x[1] = "DictCreateSub" /\ i = 2
         /\ Key(b[i]) \in EndsOf(d) => /\ i = Len(b) /\ x[2] = d
                                       /\ x[1] = "DictGone" \/ (x[1] = "IfLast" /\ ~(dicts[d].refs > 0))
         /\ Key(b[i]) \in {<<"FreeDict", d>>} => x[1] = "DictGone" /\ x[2] = d
         /\ b[i][1] # "Spawn"
<1> USE KeyIn, Little
<1>1. CASE x[1] \notin Opening
  <2>1. Aside(b[i])
    BY <1>1, AsideBodies
  <2> QED
    BY <2>1 DEF Aside, DictCalls
<1>2. ASSUME x[1] = "DictCreate" PROVE Good
  <2>1. Is4(b, <<"InitParser">>, <<"NewDict", x[2]>>, Lock("dict"), Unlock("dict"))
    BY <1>2, DictBodies DEF Opening
  <2> QED
    BY <1>2, <2>1 DEF Is4, Lock, Unlock
<1>3. ASSUME x[1] = "DictCreateSub" PROVE Good
  <2>1. Is3(b, <<"DictCreate", x[2][1]>>, <<"SetSub", <<x[2][1], x[2][2]>>>>, <<"DictReference", x[2][2]>>)
    BY <1>3, DictBodies DEF Opening
  <2>2. x[2] \in Dict \X Dict /\ x[2] = <<x[2][1], x[2][2]>>
    BY <1>3 DEF Typed
  <2>3. /\ Len(b) = 3 /\ b[1][1] = "DictCreate" /\ b[1][2] = x[2][1]
        /\ b[2][1] = "SetSub" /\ b[2][2] = x[2] /\ b[3][1] = "DictReference"
    BY <2>1, <2>2 DEF Is3
  <2>4. i = 1 \/ i = 2 \/ i = 3
    BY <2>3
  <2>5. x[2][1] = d => x[2] \in {d} \X Dict
    BY <2>2
  <2> QED
    BY <1>3, <2>3, <2>4, <2>5
<1>4. ASSUME x[1] = "DictReference" PROVE Good
  <2>1. Is3(b, Lock("dict"), <<"ReadRefs", <<x[2], 1>>>>, Unlock("dict"))
    BY <1>4, DictBodies DEF Opening
  <2> QED
    BY <1>4, <2>1 DEF Is3, Lock, Unlock
<1>5. ASSUME x[1] = "ReadRefs" PROVE Good
  <2>1. Is1(b, <<"WriteRefs", <<x[2][1], dicts[x[2][1]].refs + x[2][2]>>>>)
    BY <1>5, DictBodies DEF Opening
  <2> QED
    BY <2>1 DEF Is1
<1>6. ASSUME x[1] = "DictFree" PROVE Good
  <2>1. Is3(b, Lock("dict"), <<"ReadRefs", <<x[2], -1>>>>, <<"IfLast", x[2]>>)
    BY <1>6, DictBodies DEF Opening
  <2> QED
    BY <1>6, <2>1 DEF Is3, Lock
<1>7. ASSUME x[1] = "IfLast" PROVE Good
  <2>1. \/ Is1(b, Unlock("dict"))
        \/ ~(dicts[x[2]].refs > 0) /\ Is2(b, Unlock("dict"), <<"DictGone", x[2]>>)
    BY <1>7, DictBodies DEF Opening
  <2>2. CASE Is1(b, Unlock("dict"))
    BY <2>2 DEF Is1, Unlock
  <2>3. CASE ~(dicts[x[2]].refs > 0) /\ Is2(b, Unlock("dict"), <<"DictGone", x[2]>>)
    BY <1>7, <2>3 DEF Is2, Unlock
  <2> QED
    BY <2>1, <2>2, <2>3
<1>8. ASSUME x[1] = "DictGone" PROVE Good
  <2>1. Is1(b, <<"FreeDict", x[2]>>) \/ Is2(b, <<"DictFree", dicts[x[2]].sub>>, <<"FreeDict", x[2]>>)
    BY <1>8, DictBodies DEF Opening
  <2>2. CASE Is1(b, <<"FreeDict", x[2]>>)
    BY <1>8, <2>2 DEF Is1
  <2>3. CASE Is2(b, <<"DictFree", dicts[x[2]].sub>>, <<"FreeDict", x[2]>>)
    BY <1>8, <2>3 DEF Is2
  <2> QED
    BY <2>1, <2>2, <2>3
<1> QED
  BY <1>1, <1>2, <1>3, <1>4, <1>5, <1>6, <1>7, <1>8 DEF Opening

\* The first call in S is made to be made.
LEMMA FirstOne ==
  ASSUME NEW S, NEW t \in Thread, NEW b, Turns(t, b), Absent(S),
         \A i, j \in 1 .. Len(b) : Key(b[i]) \in S /\ Key(b[j]) \in S => i = j
  PROVE  AtMostOne(S)'
<1> SUFFICES ASSUME NEW u \in Thread, NEW v \in Thread,
                    NEW i \in 1 .. Len(code'[u]), NEW j \in 1 .. Len(code'[v]),
                    Key(code'[u][i]) \in S, Key(code'[v][j]) \in S
             PROVE  u = v /\ i = j
  BY DEF AtMostOne, Key
<1> DEFINE w == Was(t, Len(b), u, i)
           x == Was(t, Len(b), v, j)
<1>1. \/ u = t /\ i \in 1 .. Len(b) /\ code'[u][i] = b[i]
      \/ w \in 1 .. Len(code[u]) /\ code'[u][i] = code[u][w] /\ (u = t => w > 1)
  BY Origin
<1>2. \/ v = t /\ j \in 1 .. Len(b) /\ code'[v][j] = b[j]
      \/ x \in 1 .. Len(code[v]) /\ code'[v][j] = code[v][x] /\ (v = t => x > 1)
  BY Origin
<1> HIDE DEF w, x
<1> QED
  BY <1>1, <1>2 DEF Absent

\* Another call than the first is still to be made.
LEMMA StillThere ==
  ASSUME NEW S, NEW t \in Thread, NEW b, Turns(t, b), ~Absent(S), Key(code[t][1]) \notin S
  PROVE  ~Absent(S)'
<1>0. PICK u \in Thread : \E i \in 1 .. Len(code[u]) : Key(code[u][i]) \in S
  BY DEF Absent
<1>1. PICK i \in 1 .. Len(code[u]) : Key(code[u][i]) \in S
  BY <1>0
<1>2. CASE u # t
  <2>1. code'[u] = code[u]
    BY <1>2 DEF Turns
  <2> QED
    BY <1>1, <2>1 DEF Absent, Key
<1>3. CASE u = t
  <2>1. PICK n, p : n = Len(b) /\ p = Len(code[t])
    OBVIOUS
  <2>2. /\ n \in Nat /\ p \in Nat \ {0} /\ Len(code'[t]) = n + (p - 1)
        /\ \A j \in n + 1 .. n + (p - 1) : code'[t][j] = code[t][(j - n) + 1]
    BY <2>1 DEF Turns, Replaces
  <2>3. i \in 1 .. p /\ i # 1
    BY <1>1, <1>3, <2>1
  <2>4. (n + i) - 1 \in n + 1 .. n + (p - 1) /\ (((n + i) - 1) - n) + 1 = i
        /\ (n + i) - 1 \in 1 .. n + (p - 1)
    BY <2>2, <2>3
  <2>5. (n + i) - 1 \in 1 .. Len(code'[t]) /\ code'[t][(n + i) - 1] = code[t][i]
    BY <2>2, <2>4
  <2>6. Key(code'[t][(n + i) - 1]) \in S
    BY <1>1, <1>3, <2>5
  <2> QED
    BY <2>5, <2>6 DEF Absent, Key
<1> QED
  BY <1>2, <1>3

LEMMA HeadThere ==
  ASSUME NEW S, NEW t \in Thread, NEW b, Turns(t, b), Key(code[t][1]) \in S
  PROVE  ~Absent(S)
BY HeadIsFirst DEF Absent

\* The three lists of calls on d, one turn later.
Once(d) == AtMostOne(MakersOf(d)) /\ AtMostOne(LinksOf(d)) /\ AtMostOne(EndsOf(d))

\* What is left of them when x is called.
KeysLater(x, d) ==
  /\ Once(d)'
  /\ Absent(MakersOf(d)) => Absent(MakersOf(d))'
  /\ Absent(LinksOf(d)) => Absent(LinksOf(d))'
  /\ Absent(EndsOf(d)) => \/ Absent(EndsOf(d))'
                          \/ x[1] = "IfLast" /\ x[2] = d /\ ~(dicts[d].refs > 0)
  /\ x[1] = "NewDict" /\ x[2] = d => Absent(MakersOf(d))' /\ ~Absent(MakersOf(d))
  /\ x[1] = "SetSub" /\ x[2] \in {d} \X Dict => Absent(LinksOf(d))' /\ ~Absent(LinksOf(d))
  /\ x[1] = "FreeDict" /\ x[2] = d => Absent(EndsOf(d))' /\ ~Absent(EndsOf(d))

LEMMA KeysKept ==
  ASSUME NEW t \in Thread, NEW b, Turns(t, b), NEW x, x = code[t][1], Typed(x),
         Expands(x[1], x[2], b), NEW d, Once(d),
         x[1] = "IfLast" /\ x[2] = d /\ ~(dicts[d].refs > 0) => Absent(EndsOf(d))
  PROVE  KeysLater(x, d)
<1> PICK M : M = MakersOf(d)
  OBVIOUS
<1> PICK L : L = LinksOf(d)
  OBVIOUS
<1> PICK E : E = EndsOf(d)
  OBVIOUS
<1>1. /\ \A y : Key(y) \in M <=> \/ y[1] \in {"DictCreate", "NewDict"} /\ y[2] = d
                                 \/ y[1] = "DictCreateSub" /\ y[2] \in {d} \X Dict
      /\ \A y : Key(y) \in L <=> y[1] \in {"DictCreateSub", "SetSub"} /\ y[2] \in {d} \X Dict
      /\ \A y : Key(y) \in E <=> y[1] \in {"DictGone", "FreeDict"} /\ y[2] = d
  BY KeyIn
<1>2. /\ \A i \in 1 .. Len(b) : Key(b[i]) \in M => Key(x) \in M /\ x[1] # "NewDict"
      /\ \A i, j \in 1 .. Len(b) : Key(b[i]) \in M /\ Key(b[j]) \in M => i = j
  <2>1. ASSUME NEW i \in 1 .. Len(b), Key(b[i]) \in M
        PROVE  Key(x) \in M /\ ((x[1] = "DictCreate" /\ i = 2) \/ (x[1] = "DictCreateSub" /\ i = 1))
    BY <2>1, KeyBodies
  <2> QED
    BY <2>1
<1>3. /\ \A i \in 1 .. Len(b) : Key(b[i]) \in L => Key(x) \in L /\ x[1] # "SetSub"
      /\ \A i, j \in 1 .. Len(b) : Key(b[i]) \in L /\ Key(b[j]) \in L => i = j
  <2>1. ASSUME NEW i \in 1 .. Len(b), Key(b[i]) \in L
        PROVE  Key(x) \in L /\ x[1] = "DictCreateSub" /\ i = 2
    BY <2>1, KeyBodies
  <2> QED
    BY <2>1
<1>4. /\ \A i \in 1 .. Len(b) : Key(b[i]) \in E =>
           \/ Key(x) \in E /\ x[1] # "FreeDict"
           \/ x[1] = "IfLast" /\ x[2] = d /\ ~(dicts[d].refs > 0)
      /\ \A i, j \in 1 .. Len(b) : Key(b[i]) \in E /\ Key(b[j]) \in E => i = j
  <2>1. ASSUME NEW i \in 1 .. Len(b), Key(b[i]) \in E
        PROVE  /\ i = Len(b) /\ x[2] = d
               /\ x[1] = "DictGone" \/ (x[1] = "IfLast" /\ ~(dicts[d].refs > 0))
    BY <2>1, KeyBodies
  <2> QED
    BY <1>1, <2>1
<1>5. AtMostOne(M) /\ AtMostOne(L) /\ AtMostOne(E)
  BY DEF Once
<1>6. AtMostOne(M)' /\ (Absent(M) => Absent(M)') /\ (x[1] = "NewDict" /\ x[2] = d => Absent(M)' /\ ~Absent(M))
  <2>1. AtMostOne(M)'
    BY <1>2, <1>5, OnceKept
  <2>2. Absent(M) => Key(x) \notin M
    BY HeadThere
  <2>3. Absent(M) => Absent(M)'
    BY <1>2, <2>2, AbsentKept
  <2>4. ASSUME x[1] = "NewDict" /\ x[2] = d PROVE Absent(M)' /\ ~Absent(M)
    <3>1. Key(x) \in M /\ \A i \in 1 .. Len(b) : Key(b[i]) \notin M
      BY <1>1, <1>2, <2>4
    <3> QED
      BY <1>5, <2>2, <3>1, LastOne
  <2> QED
    BY <2>1, <2>3, <2>4
<1>7. AtMostOne(L)' /\ (Absent(L) => Absent(L)') /\ (x[1] = "SetSub" /\ x[2] \in {d} \X Dict => Absent(L)' /\ ~Absent(L))
  <2>1. AtMostOne(L)'
    BY <1>3, <1>5, OnceKept
  <2>2. Absent(L) => Key(x) \notin L
    BY HeadThere
  <2>3. Absent(L) => Absent(L)'
    BY <1>3, <2>2, AbsentKept
  <2>4. ASSUME x[1] = "SetSub" /\ x[2] \in {d} \X Dict PROVE Absent(L)' /\ ~Absent(L)
    <3>1. Key(x) \in L /\ \A i \in 1 .. Len(b) : Key(b[i]) \notin L
      BY <1>1, <1>3, <2>4
    <3> QED
      BY <1>5, <2>2, <3>1, LastOne
  <2> QED
    BY <2>1, <2>3, <2>4
<1>8. /\ AtMostOne(E)'
      /\ Absent(E) => Absent(E)' \/ (x[1] = "IfLast" /\ x[2] = d /\ ~(dicts[d].refs > 0))
      /\ x[1] = "FreeDict" /\ x[2] = d => Absent(E)' /\ ~Absent(E)
  <2>2. Absent(E) => Key(x) \notin E
    BY HeadThere
  <2>1. AtMostOne(E)'
    <3>1. CASE x[1] = "IfLast" /\ x[2] = d /\ ~(dicts[d].refs > 0)
      BY <1>4, <3>1, FirstOne
    <3>2. CASE ~(x[1] = "IfLast" /\ x[2] = d /\ ~(dicts[d].refs > 0))
      BY <1>4, <1>5, <3>2, OnceKept
    <3> QED
      BY <3>1, <3>2
  <2>3. Absent(E) => Absent(E)' \/ (x[1] = "IfLast" /\ x[2] = d /\ ~(dicts[d].refs > 0))
    BY <1>4, <2>2, AbsentKept
  <2>4. ASSUME x[1] = "FreeDict" /\ x[2] = d PROVE Absent(E)' /\ ~Absent(E)
    <3>1. Key(x) \in E /\ \A i \in 1 .. Len(b) : Key(b[i]) \notin E
      BY <1>1, <1>4, <2>4
    <3> QED
      BY <1>5, <2>2, <3>1, LastOne
  <2> QED
    BY <2>1, <2>3, <2>4
<1>9. MakersOf(d)' = M /\ LinksOf(d)' = L /\ EndsOf(d)' = E
  BY DEF MakersOf, LinksOf, EndsOf
<1> QED
  BY <1>6, <1>7, <1>8, <1>9 DEF Once, KeysLater

\* A dictionary is made once, linked once and ended once, in this order; it is ended by the
\* thread that has counted down to 0.
LifeOf(d) ==
  /\ Once(d)
  /\ ~Absent(MakersOf(d)) => /\ dicts[d].refs = 0 /\ ~dicts[d].freed /\ dicts[d].sub = NoDict
                             /\ Absent(EndsOf(d))
  /\ ~Absent(LinksOf(d)) => dicts[d].sub = NoDict
  /\ ~Absent(EndsOf(d)) => dicts[d].refs = 0 /\ ~dicts[d].freed
  /\ dicts[d].freed => dicts[d].refs = 0
  /\ \A t \in Thread :
       /\ Len(code[t]) > 0 /\ Nth(code[t], Len(code[t]))[1] = "IfLast"
       /\ Nth(code[t], Len(code[t]))[2] = d /\ dicts[d].refs = 0
       => ~dicts[d].freed /\ Absent(EndsOf(d)) /\ Absent(MakersOf(d))

Life == \A d \in Dict : LifeOf(d)

\* The counter is looked at right after it was written.
LEMMA IfLastNext ==
  ASSUME NEW c, NEW d, NEW x, NEW b, NEW n, NEW m, Leaves(c, d, b, n, m), x = Nth(c, n),
         Expands(x[1], x[2], b), NEW l, Sequenced(l, c), Len(d) > 0, Nth(d, Len(d))[1] = "IfLast"
  PROVE  m = 0 /\ x[1] = "WriteRefs" /\ x[2][1] = Nth(d, Len(d))[2]
<1>1. /\ n \in Nat \ {0} /\ m \in Nat /\ Len(c) = n /\ Len(d) = (n - 1) + m /\ Len(b) = m
      /\ \A q \in 1 .. n - 1 : Nth(d, q) = Nth(c, q)
      /\ \A i \in 1 .. m : Nth(d, (n + m) - i) = b[i]
  BY DEF Leaves
<1>2. PICK y : y = Nth(d, Len(d))
  OBVIOUS
<1>5. CASE m = 0
  <2>1. Len(d) = n - 1 /\ n - 1 \in 1 .. n - 1 /\ (n - 1) + 1 = n
    BY <1>1, <1>5
  <2>2. y = Nth(c, n - 1) /\ ComesAfter(l, x, y)
    BY <1>1, <1>2, <2>1 DEF Sequenced
  <2>3. ASSUME x[1] = "ReadRefs" PROVE FALSE
    <3>1. Is1(b, <<"WriteRefs", <<x[2][1], dicts[x[2][1]].refs + x[2][2]>>>>)
      BY <2>3, DictBodies DEF Opening
    <3> QED
      BY <1>1, <1>5, <3>1 DEF Is1
  <2> QED
    BY <1>2, <1>5, <2>2, <2>3 DEF ComesAfter
<1>6. CASE m > 0
  <2>1. 1 \in 1 .. m /\ (n + m) - 1 = Len(d)
    BY <1>1, <1>6
  <2>2. y = b[1]
    BY <1>1, <1>2, <2>1
  <2>3. x[1] \in Opening
    <3>1. ~Aside(y)
      BY <1>2 DEF Aside, DictCalls
    <3> QED
      BY <1>1, <2>1, <2>2, <3>1, AsideBodies
  <2>4. FALSE
    BY <1>2, <2>2, <2>3, DictBodies DEF Opening, Is1, Is2, Is3, Is4, Lock, Unlock
  <2> QED
    BY <2>4
<1> QED
  BY <1>1, <1>5, <1>6

LEMMA LifeKept ==
  ASSUME NEW F, NEW k, Placed(F, k), WellTyped, Locks, Life, NEW t \in Thread, NEW b, Turn(t, b),
         Sure(code[t][1])
  PROVE  Life'
<1>1. PICK x, n, m : x = code[t][1] /\ n = Len(code[t]) /\ m = Len(b)
  OBVIOUS
<1>2. /\ Leaves(code[t], code'[t], b, n, m) /\ Turns(t, b) /\ Expands(x[1], x[2], b)
      /\ ChangesDicts(x[1], x[2])
      /\ n \in Nat \ {0} /\ n \in 1 .. n /\ x = Nth(code[t], n) /\ \A u \in Thread \ {t} : code'[u] = code[u]
  BY <1>1, TurnFacts DEF Changes
<1>3. Typed(x) /\ Sure(x) /\ dicts \in [Dict -> [refs : Nat, sub : Dict \cup {NoDict}, freed : BOOLEAN]]
  BY <1>1, <1>2 DEF WellTyped
<1>4. Becomes(x)
  BY <1>2, <1>3, DictChanges
<1> SUFFICES ASSUME NEW d \in Dict PROVE LifeOf(d)'
  BY DEF Life
<1> DEFINE M == ~Absent(MakersOf(d))
           L == ~Absent(LinksOf(d))
           E == ~Absent(EndsOf(d))
<1>5. /\ dicts[d].refs \in Nat /\ dicts[d].freed \in BOOLEAN
      /\ dicts'[d].refs = IF x[1] = "NewDict" /\ x[2] = d THEN 1
                          ELSE IF x[1] = "WriteRefs" /\ x[2][1] = d THEN x[2][2]
                          ELSE dicts[d].refs
      /\ dicts'[d].sub = IF x[1] = "NewDict" /\ x[2] = d THEN NoDict
                         ELSE IF x[1] = "SetSub" /\ x[2][1] = d THEN x[2][2]
                         ELSE dicts[d].sub
      /\ dicts'[d].freed = IF x[1] = "NewDict" /\ x[2] = d THEN FALSE
                           ELSE IF x[1] = "FreeDict" /\ x[2] = d THEN TRUE
                           ELSE dicts[d].freed
  BY <1>3, <1>4 DEF Becomes
<1>6. /\ Once(d)
      /\ M => dicts[d].refs = 0 /\ ~dicts[d].freed /\ dicts[d].sub = NoDict /\ ~E
      /\ L => dicts[d].sub = NoDict
      /\ E => dicts[d].refs = 0 /\ ~dicts[d].freed
      /\ dicts[d].freed => dicts[d].refs = 0
  BY DEF Life, LifeOf
<1>7. ASSUME NEW u \in Thread, Len(code[u]) > 0, Nth(code[u], Len(code[u]))[1] = "IfLast",
             Nth(code[u], Len(code[u]))[2] = d, dicts[d].refs = 0
      PROVE  ~dicts[d].freed /\ ~E /\ ~M
  BY <1>7 DEF Life, LifeOf
<1>8. x[1] = "IfLast" /\ x[2] = d /\ ~(dicts[d].refs > 0) => ~dicts[d].freed /\ ~E /\ ~M
  <2>1. n > 0
    BY <1>2
  <2>2. ~(dicts[d].refs > 0) => dicts[d].refs = 0
    BY <1>5
  <2> QED
    BY <1>1, <1>2, <1>7, <2>1, <2>2
<1>9. /\ Once(d)'
      /\ M' => M
      /\ L' => L
      /\ E' => E \/ (x[1] = "IfLast" /\ x[2] = d /\ ~(dicts[d].refs > 0))
      /\ x[1] = "NewDict" /\ x[2] = d => ~M' /\ M
      /\ x[1] = "SetSub" /\ x[2] \in {d} \X Dict => ~L' /\ L
      /\ x[1] = "FreeDict" /\ x[2] = d => ~E' /\ E
  <2>1. KeysLater(x, d)
    <3>1. x[1] = "IfLast" /\ x[2] = d /\ ~(dicts[d].refs > 0) => Absent(EndsOf(d))
      BY <1>8
    <3> QED
      BY <1>1, <1>2, <1>3, <1>6, <3>1, KeysKept
  <2> QED
    BY <2>1 DEF KeysLater
<1> HIDE DEF M, L, E
<1>10. /\ x[1] \in {"WriteRefs", "SetSub"} /\ x[2][1] = d => dicts[d].refs > 0
       /\ x[1] = "SetSub" /\ x[2][1] = d => x[2] \in {d} \X Dict
  BY <1>3 DEF Sure, Typed
<1>11. M' => dicts'[d].refs = 0 /\ ~dicts'[d].freed /\ dicts'[d].sub = NoDict /\ ~E'
  BY <1>5, <1>6, <1>8, <1>9, <1>10
<1>12. L' => dicts'[d].sub = NoDict
  BY <1>5, <1>6, <1>9, <1>10
<1>13. E' => dicts'[d].refs = 0 /\ ~dicts'[d].freed
  BY <1>5, <1>6, <1>8, <1>9, <1>10
<1>14. ASSUME dicts'[d].freed PROVE dicts'[d].refs = 0
  <2>1. ~(x[1] = "NewDict" /\ x[2] = d)
    BY <1>5, <1>14
  <2>2. dicts[d].refs = 0
    BY <1>5, <1>6, <1>9, <1>14, <2>1
  <2>3. ~(x[1] = "WriteRefs" /\ x[2][1] = d)
    BY <1>10, <2>2
  <2> QED
    BY <1>5, <2>1, <2>2, <2>3
<1>15. ASSUME NEW u \in Thread, Len(code'[u]) > 0, Nth(code'[u], Len(code'[u]))[1] = "IfLast",
              Nth(code'[u], Len(code'[u]))[2] = d, dicts'[d].refs = 0
       PROVE  ~dicts'[d].freed /\ ~E' /\ ~M'
  <2>1. CASE u = t
    <3>1. Sequenced(lib, code[t])
      BY DEF Locks
    <3>2. m = 0 /\ x[1] = "WriteRefs" /\ x[2][1] = d
      BY <1>2, <1>15, <2>1, <3>1, IfLastNext
    <3> QED
      BY <1>5, <1>6, <1>9, <1>10, <3>2
  <2>2. CASE u # t
    <3>1. /\ Len(code[u]) > 0 /\ Nth(code[u], Len(code[u]))[1] = "IfLast"
          /\ Nth(code[u], Len(code[u]))[2] = d
      BY <1>2, <1>15, <2>2
    <3>2. Counting(code[u]) /\ Ids(k)
      BY <3>1 DEF Counting, Placed
    <3>3. ASSUME x[1] \in {"ReadRefs", "WriteRefs", "IfLast"} PROVE FALSE
      <4>1. Counting(code[t])
        BY <1>1, <1>2, <3>3 DEF Counting
      <4> QED
        BY <2>2, <3>2, <4>1, CountsAlone
    <3>4. dicts[d].refs = 0
      BY <1>5, <1>15, <3>3
    <3>5. ~dicts[d].freed /\ ~E /\ ~M
      BY <1>7, <3>1, <3>4
    <3> QED
      BY <1>5, <1>9, <3>3, <3>5
  <2> QED
    BY <2>1, <2>2
<1> QED
  BY <1>9, <1>11, <1>12, <1>13, <1>14, <1>15 DEF LifeOf, M, L, E, Nth
-----------------------------------------------------------------------------
(* How many references the threads have.                                   *)

\* t has g[t] of them.
Owned(g) == {p \in Thread \X Nat : p[2] < g[p[1]]}

LEMMA OwnedPairs ==
  ASSUME NEW g \in [Thread -> Nat], NEW u \in Thread, NEW i \in Nat
  PROVE  <<u, i>> \in Owned(g) <=> i < g[u]
BY DEF Owned

LEMMA OwnedMore ==
  ASSUME NEW g \in [Thread -> Nat], NEW h \in [Thread -> Nat], NEW t \in Thread,
         h[t] = g[t] + 1, \A u \in Thread \ {t} : h[u] = g[u], IsFiniteSet(Owned(g))
  PROVE  IsFiniteSet(Owned(h)) /\ Cardinality(Owned(h)) = Cardinality(Owned(g)) + 1
<1>1. Owned(h) = Owned(g) \cup {<<t, g[t]>>}
  <2>1. ASSUME NEW p \in Thread \X Nat PROVE p \in Owned(h) <=> p \in Owned(g) \/ p = <<t, g[t]>>
    <3>1. PICK u \in Thread, i \in Nat : p = <<u, i>>
      OBVIOUS
    <3>2. CASE u = t
      <4>1. i < h[t] <=> i < g[t] \/ i = g[t]
        OBVIOUS
      <4> QED
        BY <3>1, <3>2, <4>1, OwnedPairs
    <3>3. CASE u # t
      BY <3>1, <3>3, OwnedPairs
    <3> QED
      BY <3>2, <3>3
  <2>2. Owned(h) \subseteq Thread \X Nat /\ Owned(g) \subseteq Thread \X Nat /\ <<t, g[t]>> \in Thread \X Nat
    BY DEF Owned
  <2> QED
    BY <2>1, <2>2
<1>2. <<t, g[t]>> \notin Owned(g)
  BY OwnedPairs
<1> QED
  BY <1>1, <1>2, FS_AddElement

LEMMA OwnedLess ==
  ASSUME NEW g \in [Thread -> Nat], NEW h \in [Thread -> Nat], NEW t \in Thread,
         h[t] = g[t] - 1, \A u \in Thread \ {t} : h[u] = g[u], IsFiniteSet(Owned(g))
  PROVE  IsFiniteSet(Owned(h)) /\ Cardinality(Owned(h)) = Cardinality(Owned(g)) - 1
<1>1. Owned(h) \subseteq Owned(g)
  <2>1. ASSUME NEW p \in Owned(h) PROVE p \in Owned(g)
    <3>1. PICK u \in Thread, i \in Nat : p = <<u, i>>
      BY DEF Owned
    <3>2. i < h[u] /\ (h[u] = g[u] \/ h[u] = g[u] - 1)
      BY <3>1, OwnedPairs
    <3> QED
      BY <3>1, <3>2, OwnedPairs
  <2> QED
    BY <2>1
<1>2. IsFiniteSet(Owned(h)) /\ Cardinality(Owned(h)) \in Nat
  BY <1>1, FS_Subset, FS_CardinalityType
<1>3. g[t] = h[t] + 1 /\ \A u \in Thread \ {t} : g[u] = h[u]
  OBVIOUS
<1>4. Cardinality(Owned(g)) = Cardinality(Owned(h)) + 1
  BY <1>2, <1>3, OwnedMore
<1> QED
  BY <1>2, <1>4

\* t gives what u has then to u, which had nothing.
LEMMA OwnedMoved ==
  ASSUME NEW g \in [Thread -> Nat], NEW h \in [Thread -> Nat], NEW t \in Thread, NEW u \in Thread \ {t},
         g[u] = 0, g[t] = h[t] + h[u], \A v \in Thread \ {t, u} : h[v] = g[v], IsFiniteSet(Owned(g))
  PROVE  IsFiniteSet(Owned(h)) /\ Cardinality(Owned(h)) = Cardinality(Owned(g))
<1> DEFINE f == [p \in Owned(g) |-> IF p[1] = t /\ ~(p[2] < h[t]) THEN <<u, p[2] - h[t]>> ELSE p]
<1>1. ASSUME NEW v \in Thread, NEW i \in Nat, <<v, i>> \in Owned(g)
      PROVE  \/ v = t /\ ~(i < h[t]) /\ f[<<v, i>>] = <<u, i - h[t]>> /\ i - h[t] \in Nat
             \/ ~(v = t /\ ~(i < h[t])) /\ f[<<v, i>>] = <<v, i>> /\ v # u
  <2>1. v # u
    BY <1>1, OwnedPairs
  <2>2. ~(i < h[t]) => i - h[t] \in Nat
    OBVIOUS
  <2>3. <<v, i>>[1] = v /\ <<v, i>>[2] = i
    OBVIOUS
  <2> QED
    BY <1>1, <2>1, <2>2, <2>3
<1>2. \A p \in Owned(g) : \E v \in Thread, i \in Nat : p = <<v, i>>
  BY DEF Owned
<1> HIDE DEF f
<1>3. \A p \in Owned(g) : f[p] \in Owned(h)
  <2> SUFFICES ASSUME NEW p \in Owned(g) PROVE f[p] \in Owned(h)
    OBVIOUS
  <2>1. PICK v \in Thread, i \in Nat : p = <<v, i>>
    BY <1>2
  <2>2. i < g[v]
    BY <2>1, OwnedPairs
  <2>3. CASE v = t /\ ~(i < h[t])
    <3>1. f[p] = <<u, i - h[t]>> /\ i - h[t] \in Nat
      BY <1>1, <2>1, <2>3
    <3>2. i - h[t] < h[u]
      BY <2>2, <2>3
    <3> QED
      BY <3>1, <3>2, OwnedPairs
  <2>4. CASE ~(v = t /\ ~(i < h[t]))
    <3>1. f[p] = <<v, i>> /\ v # u
      BY <1>1, <2>1, <2>4
    <3>2. i < h[v]
      BY <2>2, <2>4, <3>1
    <3> QED
      BY <3>1, <3>2, OwnedPairs
  <2> QED
    BY <2>3, <2>4
<1>4. \A p, q \in Owned(g) : f[p] = f[q] => p = q
  <2> SUFFICES ASSUME NEW p \in Owned(g), NEW q \in Owned(g), f[p] = f[q] PROVE p = q
    OBVIOUS
  <2>1. PICK v \in Thread, i \in Nat : p = <<v, i>>
    BY <1>2
  <2>2. PICK w \in Thread, j \in Nat : q = <<w, j>>
    BY <1>2
  <2>3. \/ v = t /\ f[p] = <<u, i - h[t]>>
        \/ f[p] = <<v, i>> /\ v # u
    BY <1>1, <2>1
  <2>4. \/ w = t /\ f[q] = <<u, j - h[t]>>
        \/ f[q] = <<w, j>> /\ w # u
    BY <1>1, <2>2
  <2>5. i - h[t] = j - h[t] => i = j
    OBVIOUS
  <2> QED
    BY <2>1, <2>2, <2>3, <2>4, <2>5
<1>5. \A q \in Owned(h) : \E p \in Owned(g) : f[p] = q
  <2> SUFFICES ASSUME NEW q \in Owned(h) PROVE \E p \in Owned(g) : f[p] = q
    OBVIOUS
  <2>1. PICK w \in Thread, j \in Nat : q = <<w, j>>
    BY DEF Owned
  <2>2. j < h[w]
    BY <2>1, OwnedPairs
  <2>3. CASE w = u
    <3>1. j + h[t] \in Nat /\ j + h[t] < g[t] /\ ~(j + h[t] < h[t]) /\ (j + h[t]) - h[t] = j
      BY <2>2, <2>3
    <3>2. <<t, j + h[t]>> \in Owned(g)
      BY <3>1, OwnedPairs
    <3>3. f[<<t, j + h[t]>>] = <<u, j>>
      BY <1>1, <3>1, <3>2
    <3> QED
      BY <2>1, <2>3, <3>2, <3>3
  <2>4. CASE w # u
    <3>1. j < g[w] /\ ~(w = t /\ ~(j < h[t]))
      BY <2>2, <2>4
    <3>2. <<w, j>> \in Owned(g)
      BY <3>1, OwnedPairs
    <3>3. f[<<w, j>>] = <<w, j>>
      BY <1>1, <3>1, <3>2
    <3> QED
      BY <2>1, <3>2, <3>3
  <2> QED
    BY <2>3, <2>4
<1>6. f \in [Owned(g) -> Owned(h)]
  BY <1>3 DEF f
<1>7. f \in Bijection(Owned(g), Owned(h))
  BY <1>4, <1>5, <1>6 DEF Bijection, Injection, Surjection, IsInjective
<1> QED
  BY <1>7, FS_Bijection DEF ExistsBijection
-----------------------------------------------------------------------------
(* Who has not begun yet.                                                  *)

LEMMA Places ==
  ASSUME Listed, NEW S
  PROVE  ~Absent(S) <=> \E t \in Thread : \E r \in 1 .. Len(code[t]) : Key(Nth(code[t], r)) \in S
<1>1. ASSUME NEW t \in Thread, NEW i \in 1 .. Len(code[t])
      PROVE  /\ (Len(code[t]) - i) + 1 \in 1 .. Len(code[t])
             /\ Nth(code[t], (Len(code[t]) - i) + 1) = code[t][i]
  <2>1. PICK n : n = Len(code[t])
    OBVIOUS
  <2>2. n \in Nat
    BY <2>1, CallListFacts DEF Listed
  <2>3. (n - i) + 1 \in 1 .. n /\ (n - ((n - i) + 1)) + 1 = i
    BY <1>1, <2>1, <2>2
  <2> QED
    BY <2>1, <2>3 DEF Nth
<1>2. ASSUME NEW t \in Thread, NEW r \in 1 .. Len(code[t])
      PROVE  (Len(code[t]) - r) + 1 \in 1 .. Len(code[t])
  <2>1. Len(code[t]) \in Nat
    BY CallListFacts DEF Listed
  <2> QED
    BY <2>1
<1>3. ASSUME NEW t \in Thread, NEW r \in 1 .. Len(code[t]), Key(Nth(code[t], r)) \in S PROVE ~Absent(S)
  BY <1>2, <1>3 DEF Nth, Absent
<1>4. ASSUME ~Absent(S) PROVE \E t \in Thread : \E r \in 1 .. Len(code[t]) : Key(Nth(code[t], r)) \in S
  <2>1. PICK t \in Thread : \E i \in 1 .. Len(code[t]) : Key(code[t][i]) \in S
    BY <1>4 DEF Absent
  <2>2. PICK i \in 1 .. Len(code[t]) : Key(code[t][i]) \in S
    BY <2>1
  <2> QED
    BY <1>1, <2>2
<1> QED
  BY <1>3, <1>4

\* Nobody is about to start t.
Born(t) == Absent({<<"Spawn", t>>})

\* A thread is started once, by one that ranks before it.
Births(rank) ==
  /\ \A u \in Thread : AtMostOne({<<"Spawn", u>>})
  /\ \A t \in Thread : \A r \in 1 .. Len(code[t]) :
       Nth(code[t], r)[1] = "Spawn" =>
         id[Nth(code[t], r)[2]] = 0 /\ rank[t] < rank[Nth(code[t], r)[2]]

LEMMA Unborn ==
  ASSUME Listed, WellTyped, NEW rank, Births(rank), NEW u \in Thread, ~Born(u)
  PROVE  /\ id[u] = 0
         /\ \E t \in Thread : \E r \in 1 .. Len(code[t]) :
              Nth(code[t], r)[1] = "Spawn" /\ Nth(code[t], r)[2] = u /\ rank[t] < rank[u]
<1>1. PICK S : S = {<<"Spawn", u>>}
  OBVIOUS
<1>2. ~Absent(S)
  BY <1>1 DEF Born
<1>3. PICK t \in Thread : \E r \in 1 .. Len(code[t]) : Key(Nth(code[t], r)) \in S
  BY <1>2, Places
<1>4. PICK r \in 1 .. Len(code[t]) : Key(Nth(code[t], r)) \in S
  BY <1>3
<1>5. Nth(code[t], r)[1] = "Spawn" /\ Nth(code[t], r)[2] = u
  BY <1>1, <1>4, KeyIn
<1> QED
  BY <1>5 DEF Births

\* Who is born when x is called.
BornBy(u, x) ==
  /\ AtMostOne({<<"Spawn", u>>})'
  /\ Born(u)' <=> Born(u) \/ (x[1] = "Spawn" /\ x[2] = u)

LEMMA BornNext ==
  ASSUME NEW rank, Births(rank), NEW t \in Thread, NEW b, Turns(t, b), NEW x, x = code[t][1], Typed(x),
         Expands(x[1], x[2], b), NEW u \in Thread
  PROVE  BornBy(u, x)
<1>1. PICK S : S = {<<"Spawn", u>>}
  OBVIOUS
<1>2. \A i \in 1 .. Len(b) : Key(b[i]) \notin S
  <2>1. ASSUME NEW i \in 1 .. Len(b) PROVE b[i][1] # "Spawn"
    BY KeyBodies
  <2> QED
    BY <1>1, <2>1, KeyIn
<1>3. AtMostOne(S)
  BY <1>1 DEF Births
<1>4. Key(x) \in S <=> x[1] = "Spawn" /\ x[2] = u
  BY <1>1, KeyIn
<1>5. AtMostOne(S)'
  BY <1>2, <1>3, OnceKept
<1>6. Absent(S)' <=> Absent(S) \/ Key(x) \in S
  BY <1>2, <1>3, AbsentKept, LastOne, StillThere
<1> QED
  BY <1>1, <1>4, <1>5, <1>6 DEF Born, BornBy

\* Who is alive but the one that is started was alive before.
LEMMA IdsNext ==
  ASSUME NEW k, Ids(k), NEW t \in Thread, NEW x, ChangesThreads(t, x[1], x[2]), NEW u \in Thread,
         ~(x[1] = "Spawn" /\ x[2] = u)
  PROVE  id'[u] = id[u]
BY DEF Ids, ChangesThreads

LEMMA BirthsKept ==
  ASSUME NEW F, NEW k, Placed(F, k), WellTyped, WellTyped', NEW rank, Births(rank),
         NEW t \in Thread, NEW b, Turn(t, b)
  PROVE  Births(rank)'
<1>1. PICK x, n, m : x = code[t][1] /\ n = Len(code[t]) /\ m = Len(b)
  OBVIOUS
<1>2. /\ Leaves(code[t], code'[t], b, n, m) /\ Turns(t, b) /\ Expands(x[1], x[2], b)
      /\ ChangesThreads(t, x[1], x[2])
      /\ n \in Nat \ {0} /\ n \in 1 .. n /\ x = Nth(code[t], n) /\ \A u \in Thread \ {t} : code'[u] = code[u]
  BY <1>1, TurnFacts DEF Changes
<1>3. Typed(x) /\ Ids(k)
  BY <1>1, <1>2 DEF WellTyped, Placed
<1>4. ASSUME NEW u \in Thread PROVE BornBy(u, x)
  BY <1>1, <1>2, <1>3, BornNext
<1>5. ASSUME NEW v \in Thread, NEW r \in 1 .. Len(code'[v]), Nth(code'[v], r)[1] = "Spawn"
      PROVE  id'[Nth(code'[v], r)[2]] = 0 /\ rank[v] < rank[Nth(code'[v], r)[2]]
  <2>1. PICK u : u = Nth(code'[v], r)[2]
    OBVIOUS
  <2>2. u \in Thread
    BY <1>5, <2>1 DEF WellTyped, Typed, Nth
  <2>3. r \in 1 .. Len(code[v]) /\ Nth(code[v], r) = Nth(code'[v], r)
    <3>1. CASE v # t
      BY <1>2, <3>1
    <3>2. CASE v = t
      <4>1. r \in 1 .. n - 1
        <5>1. ASSUME r \notin 1 .. n - 1 PROVE FALSE
          <6>1. PICK i \in 1 .. Len(b) : Nth(code'[t], r) = b[i]
            BY <1>1, <1>2, <1>5, <3>2, <5>1 DEF Leaves
          <6>2. b[i][1] # "Spawn"
            BY <1>2, <1>3, <6>1, KeyBodies
          <6> QED
            BY <1>5, <3>2, <6>1, <6>2
        <5> QED
          BY <5>1
      <4>2. r \in 1 .. n
        BY <1>2, <4>1
      <4> QED
        BY <1>1, <1>2, <3>2, <4>1, <4>2 DEF Leaves
    <3> QED
      BY <3>1, <3>2
  <2>4. id[u] = 0 /\ rank[v] < rank[u]
    BY <1>5, <2>1, <2>3 DEF Births
  <2>5. ~Born(u)'
    <3>1. PICK S : S = {<<"Spawn", u>>}
      OBVIOUS
    <3>2. Key(Nth(code'[v], r)) \in S
      BY <1>5, <2>1, <3>1, KeyIn
    <3>3. Listed'
      BY <1>2 DEF Turns
    <3>4. ~Absent(S)'
      <4>1. PICK p : p = Len(code'[v])
        OBVIOUS
      <4>2. p \in Nat
        BY <3>3, <4>1, CallListFacts DEF Listed
      <4>3. (p - r) + 1 \in 1 .. p
        BY <1>5, <4>1, <4>2
      <4> QED
        BY <3>2, <4>1, <4>3 DEF Absent, Key, Nth
    <3> QED
      BY <3>1, <3>4 DEF Born
  <2>6. ~(x[1] = "Spawn" /\ x[2] = u)
    BY <1>4, <2>2, <2>5 DEF BornBy
  <2>7. id'[u] = id[u]
    BY <1>2, <1>3, <2>2, <2>6, IdsNext
  <2> QED
    BY <2>1, <2>4, <2>7
<1> QED
  BY <1>4, <1>5 DEF Births, Nth, BornBy
-----------------------------------------------------------------------------
(* The references that each thread has, from its calls.                    *)

\* What the call x adds to the references to d that its thread has, when it starts nobody.
Plus(ds, x, d) ==
  IF x[1] \in {"DictCreate", "NewDict", "DictReference"} /\ x[2] = d THEN 1
  ELSE IF x[1] = "DictCreateSub" /\ x[2][1] = d THEN 1
  ELSE IF x[1] = "DictFree" /\ x[2] = d THEN -1
  ELSE IF x[1] = "SetSub" /\ x[2][2] = d THEN -1
  ELSE IF x[1] = "ReadRefs" /\ x[2][1] = d THEN x[2][2]
  ELSE IF x[1] = "WriteRefs" /\ x[2][1] = d THEN x[2][2] - ds[d].refs
  ELSE 0

\* A thread that starts another gives it what that one has at first.
Gain(s, ds, x, d) == IF x[1] = "Spawn" THEN 0 - s[x[2]][d] ELSE Plus(ds, x, d)

\* H[t][r][d] is how many t has when r of its calls are left.
Has(H) == [u \in Thread |-> H[u][Len(code[u])]]

Ledger(H) ==
  /\ H \in [Thread -> [Nat -> [Dict -> Nat]]]
  /\ \A t \in Thread, d \in Dict : H[t][0][d] = 0
  /\ \A t \in Thread, d \in Dict : \A r \in 1 .. Len(code[t]) :
       H[t][r - 1][d] = H[t][r][d] + Gain(Has(H), dicts, Nth(code[t], r), d)

\* The first call of whoever lives.
AllSure == \A u \in Thread : id[u] # 0 /\ Len(code[u]) > 0 => Sure(Nth(code[u], Len(code[u])))

\* Nobody starts the one that makes a call.
LEMMA StartsAnother ==
  ASSUME WellTyped, NEW rank, Births(rank), NEW t \in Thread, id[t] # 0,
         NEW u \in Thread, NEW r \in 1 .. Len(code[u]), Nth(code[u], r)[1] = "Spawn"
  PROVE  Nth(code[u], r)[2] \in Thread \ {t}
BY DEF WellTyped, Typed, Births

\* What is about to be written was read when the counter had this value.
LEMMA NobodyWrites ==
  ASSUME NEW F, NEW k, Placed(F, k), WellTyped, Locks, Life, AllSure, NEW t \in Thread, NEW b, Turn(t, b),
         NEW x, x = code[t][1], NEW u \in Thread, NEW r \in 1 .. Len(code[u]),
         u = t => r # Len(code[u]), NEW y, y = Nth(code[u], r), y[1] = "WriteRefs"
  PROVE  dicts'[y[2][1]].refs = dicts[y[2][1]].refs
<1>1. PICK n, m : n = Len(code[t]) /\ m = Len(b)
  OBVIOUS
<1>2. /\ Leaves(code[t], code'[t], b, n, m) /\ Turns(t, b) /\ Expands(x[1], x[2], b)
      /\ ChangesDicts(x[1], x[2])
      /\ n \in Nat \ {0} /\ n \in 1 .. n /\ x = Nth(code[t], n)
  BY <1>1, TurnFacts DEF Changes
<1>3. Typed(x) /\ Typed(y) /\ dicts \in [Dict -> [refs : Nat, sub : Dict \cup {NoDict}, freed : BOOLEAN]]
  BY <1>1, <1>2 DEF WellTyped
<1>4. Becomes(x)
  BY <1>2, <1>3, DictChanges
<1>5. r = Len(code[u])
  <2>1. Len(code[u]) \in Nat
    BY <1>2, CallListFacts DEF Turns, Listed
  <2>2. r \in 1 .. Len(code[u]) - 1 => y[1] # "WriteRefs"
    BY DEF Locks, Sequenced, ComesAfter
  <2> QED
    BY <2>1, <2>2
<1>6. u # t /\ Counting(code[u])
  BY <1>5 DEF Counting
<1>7. id[u] # 0 /\ Sure(y)
  BY <1>5, <1>6 DEF Locks, AllSure
<1>8. y[2][1] \in Dict /\ dicts[y[2][1]].refs > 0
  BY <1>3, <1>7 DEF Typed, Sure
<1>9. x[1] # "WriteRefs"
  <2>1. ASSUME x[1] = "WriteRefs" PROVE FALSE
    <3>1. Counting(code[t])
      BY <1>1, <1>2, <2>1 DEF Counting
    <3>2. Ids(k)
      BY DEF Placed
    <3> QED
      BY <1>6, <3>1, <3>2, CountsAlone
  <2> QED
    BY <2>1
<1>10. ~(x[1] = "NewDict" /\ x[2] = y[2][1])
  <2>1. ASSUME x[1] = "NewDict" /\ x[2] = y[2][1] PROVE FALSE
    <3>1. PICK S : S = MakersOf(x[2])
      OBVIOUS
    <3>2. Key(x) \in S
      BY <2>1, <3>1, KeyIn
    <3>3. ~Absent(S)
      BY <1>2, <3>2, HeadThere
    <3>4. dicts[x[2]].refs = 0
      BY <1>8, <2>1, <3>1, <3>3 DEF Life, LifeOf
    <3> QED
      BY <1>8, <2>1, <3>4
  <2> QED
    BY <2>1
<1> QED
  BY <1>4, <1>8, <1>9, <1>10 DEF Becomes

\* b has no calls that start a thread, nor has a call that starts one others to make.
LEMMA NoSpawns ==
  ASSUME NEW x, Typed(x), NEW b, Expands(x[1], x[2], b)
  PROVE  /\ \A i \in 1 .. Len(b) : b[i][1] # "Spawn"
         /\ x[1] = "Spawn" => Len(b) = 0
<1>1. ASSUME NEW i \in 1 .. Len(b) PROVE b[i][1] # "Spawn"
  BY KeyBodies
<1>2. x[1] = "Spawn" => Len(b) = 0
  BY AsideBodies DEF Opening
<1> QED
  BY <1>1, <1>2

\* The list of t from now on: what it was after its first call, and B before.
Booked(H, t, n, B) == [H EXCEPT ![t] = [r \in Nat |-> IF r < n THEN H[t][r] ELSE B[r]]]

BookedTo(G, H, t, n, B) ==
  /\ G \in [Thread -> [Nat -> [Dict -> Nat]]]
  /\ \A u \in Thread \ {t} : G[u] = H[u]
  /\ \A r \in Nat : r < n => G[t][r] = H[t][r]
  /\ \A r \in Nat : ~(r < n) => G[t][r] = B[r]

LEMMA BookedFacts ==
  ASSUME NEW H \in [Thread -> [Nat -> [Dict -> Nat]]], NEW t \in Thread, NEW n \in Nat,
         NEW B \in [Nat -> [Dict -> Nat]]
  PROVE  BookedTo(Booked(H, t, n, B), H, t, n, B)
BY DEF Booked, BookedTo

\* B is what the thread has while it makes the calls b, of which there are m, and then
\* goes on as in h with the n - 1 after them.
Books(B, h, b, n, m) ==
  /\ B \in [Nat -> [Dict -> Nat]]
  /\ m > 0 => B[n - 1] = h[n - 1]
  /\ \A i \in 1 .. m, d \in Dict :
       B[((n + m) - i) - 1][d] = B[(n + m) - i][d] + Plus(dicts', b[i], d)

\* The calls t has, and those it makes instead of the first.
Sizes(t, b, n, m) == n = Len(code[t]) /\ m = Len(b)

LEMMA LedgerStep ==
  ASSUME NEW F, NEW k, Placed(F, k), WellTyped, Locks, Life, AllSure, NEW rank, Births(rank),
         NEW H, Ledger(H), NEW t \in Thread, NEW b, Turn(t, b),
         NEW n, NEW m, Sizes(t, b, n, m),
         NEW B, Books(B, H[t], b, n, m), NEW G, BookedTo(G, H, t, n, B)
  PROVE  Ledger(G)'
<1>1. PICK x : x = code[t][1]
  OBVIOUS
<1>2. /\ Leaves(code[t], code'[t], b, n, m) /\ Turns(t, b) /\ Expands(x[1], x[2], b)
      /\ ChangesThreads(t, x[1], x[2])
      /\ n \in Nat \ {0} /\ n \in 1 .. n /\ x = Nth(code[t], n) /\ \A u \in Thread \ {t} : code'[u] = code[u]
  BY <1>1, TurnFacts DEF Changes, Sizes
<1>3. Typed(x) /\ id[t] # 0
  BY <1>1, <1>2 DEF WellTyped, ChangesThreads, Sizes
<1>5. /\ H \in [Thread -> [Nat -> [Dict -> Nat]]]
      /\ \A u \in Thread, d \in Dict : H[u][0][d] = 0
      /\ \A u \in Thread, d \in Dict : \A r \in 1 .. Len(code[u]) :
           H[u][r - 1][d] = H[u][r][d] + Gain(Has(H), dicts, Nth(code[u], r), d)
  BY DEF Ledger
<1>6. /\ G \in [Thread -> [Nat -> [Dict -> Nat]]]
      /\ \A u \in Thread \ {t} : G[u] = H[u]
      /\ \A r \in Nat : r < n => G[t][r] = H[t][r]
      /\ \A r \in Nat : ~(r < n) => G[t][r] = B[r]
  BY DEF BookedTo
<1>7. \A u \in Thread, d \in Dict : G[u][0][d] = 0
  <2>1. 0 \in Nat /\ 0 < n
    BY <1>2
  <2>2. \A u \in Thread : G[u][0] = H[u][0]
    BY <1>6, <2>1
  <2> QED
    BY <1>5, <2>2
<1> DEFINE s == [u \in Thread |-> G[u][Len(code'[u])]]
<1>8. \A v \in Thread \ {t} : s[v] = Has(H)[v]
  BY <1>2, <1>6 DEF Has
<1> HIDE DEF s
<1>9. ASSUME NEW u \in Thread, NEW r \in 1 .. Len(code[u]), u = t => r # n, NEW d \in Dict
      PROVE  Gain(s, dicts', Nth(code[u], r), d) = Gain(Has(H), dicts, Nth(code[u], r), d)
  <2>1. PICK y : y = Nth(code[u], r)
    OBVIOUS
  <2>2. y[1] = "Spawn" => y[2] \in Thread \ {t}
    BY <1>3, <2>1, StartsAnother
  <2>3. y[1] = "WriteRefs" => dicts'[y[2][1]].refs = dicts[y[2][1]].refs
    <3>1. u = t => r # Len(code[u])
      BY <1>9 DEF Sizes
    <3> QED
      BY <1>1, <2>1, <3>1, NobodyWrites
  <2>4. Plus(dicts', y, d) = Plus(dicts, y, d)
    BY <2>3 DEF Plus
  <2>5. y[1] = "Spawn" => s[y[2]][d] = Has(H)[y[2]][d]
    BY <1>8, <2>2
  <2> QED
    BY <2>1, <2>4, <2>5 DEF Gain
<1>10. ASSUME NEW u \in Thread, NEW d \in Dict, NEW r \in 1 .. Len(code'[u])
       PROVE  G[u][r - 1][d] = G[u][r][d] + Gain(s, dicts', Nth(code'[u], r), d)
  <2>1. CASE u # t
    <3>1. r \in 1 .. Len(code[u]) /\ code'[u] = code[u] /\ G[u] = H[u]
      BY <1>2, <1>6, <1>10, <2>1
    <3>2. Nth(code'[u], r) = Nth(code[u], r)
      BY <3>1
    <3>3. H[u][r - 1][d] = H[u][r][d] + Gain(Has(H), dicts, Nth(code[u], r), d)
      BY <1>5, <3>1
    <3>4. Gain(s, dicts', Nth(code[u], r), d) = Gain(Has(H), dicts, Nth(code[u], r), d)
      BY <1>9, <2>1, <3>1
    <3> QED
      BY <3>1, <3>2, <3>3, <3>4
  <2>2. CASE u = t /\ r \in 1 .. n - 1
    <3>1. r \in 1 .. Len(code[u]) /\ r # n /\ r \in Nat /\ r - 1 \in Nat /\ r < n /\ r - 1 < n
      BY <1>2, <2>2 DEF Sizes
    <3>2. Nth(code'[u], r) = Nth(code[u], r) /\ G[u][r - 1] = H[u][r - 1] /\ G[u][r] = H[u][r]
      BY <1>2, <1>6, <2>2, <3>1 DEF Leaves
    <3>3. H[u][r - 1][d] = H[u][r][d] + Gain(Has(H), dicts, Nth(code[u], r), d)
      BY <1>5, <3>1
    <3>4. Gain(s, dicts', Nth(code[u], r), d) = Gain(Has(H), dicts, Nth(code[u], r), d)
      BY <1>9, <3>1
    <3> QED
      BY <3>2, <3>3, <3>4
  <2>3. CASE u = t /\ r \notin 1 .. n - 1
    <3>1. PICK i \in 1 .. m : r = (n + m) - i /\ Nth(code'[t], r) = b[i]
      BY <1>2, <1>10, <2>3 DEF Leaves
    <3>2. m \in Nat /\ b[i][1] # "Spawn"
      <4>1. m \in Nat /\ m = Len(b)
        BY <1>2 DEF Leaves
      <4>2. i \in 1 .. Len(b)
        BY <3>1, <4>1
      <4>3. b[i][1] # "Spawn"
        <5>1. Expands(x[1], x[2], b) /\ Typed(x)
          BY <1>2, <1>3
        <5> QED
          BY <4>2, <5>1, NoSpawns
      <4> QED
        BY <4>1, <4>3
    <3>3. m > 0 /\ r \in Nat /\ ~(r < n) /\ r - 1 \in Nat /\ (r - 1 < n => r - 1 = n - 1 /\ n - 1 \in Nat /\ n - 1 < n)
      BY <1>2, <3>1, <3>2
    <3>4. G[t][r] = B[r] /\ G[t][r - 1] = B[r - 1]
      <4>1. r - 1 < n => B[r - 1] = G[t][r - 1]
        BY <1>6, <3>3 DEF Books
      <4> QED
        BY <1>6, <3>3, <4>1
    <3>5. B[r - 1][d] = B[r][d] + Plus(dicts', b[i], d)
      BY <3>1 DEF Books
    <3>6. Gain(s, dicts', Nth(code'[t], r), d) = Plus(dicts', b[i], d)
      BY <3>1, <3>2 DEF Gain
    <3> QED
      BY <2>3, <3>4, <3>5, <3>6
  <2> QED
    BY <2>1, <2>2, <2>3
<1> QED
  BY <1>6, <1>7, <1>10 DEF Ledger, Has, s, Gain, Plus, Nth

\* What the call x changes at once of the references to d that its thread has.
Delta(s, x, d) ==
  IF x[1] = "NewDict" /\ x[2] = d THEN 1
  ELSE IF x[1] = "SetSub" /\ x[2][2] = d THEN -1
  ELSE IF x[1] = "WriteRefs" /\ x[2][1] = d THEN x[2][2] - dicts[d].refs
  ELSE IF x[1] = "Spawn" THEN 0 - s[x[2]][d]
  ELSE IF x[1] = "DictGone" /\ dicts[x[2]].sub = d THEN 1
  ELSE 0

\* The thread had h[n] before x and has B after it, for the calls that x makes.
Booking(h, B, b, n, m, s, x) ==
  /\ Books(B, h, b, n, m)
  /\ \A d \in Dict : m > 0 => B[(n - 1) + m][d] = h[n][d] + Delta(s, x, d)
  /\ x[1] = "DictCreateSub" => B[n + 1][x[2][1]] > 0 /\ B[n][x[2][1]] > 0
  /\ x[1] = "DictReference" => B[n + 1] = h[n]
  /\ x[1] = "ReadRefs" => B[n] = h[n]

\* What n calls later is of a list.
Entry(h, n, s, x) ==
  /\ n \in Nat \ {0} /\ h \in [Nat -> [Dict -> Nat]]
  /\ \A d \in Dict : h[n - 1][d] = h[n][d] + Gain(s, dicts, x, d)
  /\ x[1] = "DictCreateSub" => h[n][x[2][2]] > 0

LEMMA BookAside ==
  ASSUME NEW x, Typed(x), NEW b, Expands(x[1], x[2], b), x[1] \notin Opening,
         NEW n, NEW h, NEW s, Entry(h, n, s, x), NEW m, m = Len(b)
  PROVE  \E B : Booking(h, B, b, n, m, s, x)
<1>1. n \in Nat \ {0} /\ n - 1 \in Nat /\ h \in [Nat -> [Dict -> Nat]]
  BY DEF Entry
<1>2. PICK h1 : h1 = h[n - 1]
  OBVIOUS
<1>3. h1 \in [Dict -> Nat]
  BY <1>1, <1>2
<1> DEFINE B == [r \in Nat |-> h1]
<1>4. m \in Nat
  BY DEF Expands, Is1, Is2, Is3, Is4
<1>5. ASSUME NEW i \in 1 .. m, NEW d \in Dict
      PROVE  B[((n + m) - i) - 1][d] = B[(n + m) - i][d] + Plus(dicts', b[i], d)
  <2>1. Aside(b[i])
    BY <1>5, AsideBodies
  <2>2. Plus(dicts', b[i], d) = 0
    BY <2>1 DEF Aside, Plus, DictCalls
  <2>3. (n + m) - i \in Nat /\ ((n + m) - i) - 1 \in Nat
    BY <1>1, <1>4
  <2>4. h1[d] \in Nat
    BY <1>3
  <2> QED
    BY <2>2, <2>3, <2>4
<1>6. ASSUME NEW d \in Dict, m > 0 PROVE B[(n - 1) + m][d] = h[n][d] + Delta(s, x, d)
  <2>1. 1 \in 1 .. m /\ Len(b) # 0
    BY <1>4, <1>6
  <2>2. x[1] \notin DictCalls \cup {"Spawn"}
    BY <2>1, AsideBodies
  <2>3. Gain(s, dicts, x, d) = 0 /\ Delta(s, x, d) = 0
    BY <2>2 DEF Gain, Plus, Delta, DictCalls
  <2>4. h1[d] = h[n][d] + 0
    BY <1>2, <2>3 DEF Entry
  <2>5. (n - 1) + m \in Nat
    BY <1>1, <1>4
  <2> QED
    BY <2>3, <2>4, <2>5
<1>7. B \in [Nat -> [Dict -> Nat]] /\ B[n - 1] = h[n - 1]
  BY <1>1, <1>2, <1>3
<1> HIDE DEF B
<1>8. Books(B, h, b, n, m)
  BY <1>5, <1>7 DEF Books
<1> QED
  BY <1>6, <1>8 DEF Booking, Opening

\* At most four calls, the last of them first.
LEMMA Rows ==
  ASSUME NEW B \in [Nat -> [Dict -> Nat]], NEW h, NEW b, NEW n \in Nat \ {0}, NEW m \in 1 .. 4,
         B[n - 1] = h[n - 1],
         \A d \in Dict :
           /\ B[n - 1][d] = B[n][d] + Plus(dicts', b[m], d)
           /\ m > 1 => B[n][d] = B[n + 1][d] + Plus(dicts', b[m - 1], d)
           /\ m > 2 => B[n + 1][d] = B[n + 2][d] + Plus(dicts', b[m - 2], d)
           /\ m > 3 => B[n + 2][d] = B[n + 3][d] + Plus(dicts', b[m - 3], d)
  PROVE  Books(B, h, b, n, m)
<1>1. ASSUME NEW i \in 1 .. m, NEW d \in Dict
      PROVE  B[((n + m) - i) - 1][d] = B[(n + m) - i][d] + Plus(dicts', b[i], d)
  <2>1. CASE i = m
    <3>1. (n + m) - i = n /\ ((n + m) - i) - 1 = n - 1
      BY <2>1
    <3> QED
      BY <2>1, <3>1
  <2>2. CASE i = m - 1
    <3>1. (n + m) - i = n + 1 /\ ((n + m) - i) - 1 = n /\ m > 1
      BY <2>2
    <3> QED
      BY <2>2, <3>1
  <2>3. CASE i = m - 2
    <3>1. (n + m) - i = n + 2 /\ ((n + m) - i) - 1 = n + 1 /\ m > 2
      BY <2>3
    <3> QED
      BY <2>3, <3>1
  <2>4. CASE i = m - 3
    <3>1. (n + m) - i = n + 3 /\ ((n + m) - i) - 1 = n + 2 /\ m > 3
      BY <2>4
    <3> QED
      BY <2>4, <3>1
  <2> QED
    BY <2>1, <2>2, <2>3, <2>4
<1> QED
  BY <1>1 DEF Books

LEMMA BookOpening ==
  ASSUME dicts \in [Dict -> [refs : Nat, sub : Dict \cup {NoDict}, freed : BOOLEAN]],
         NEW x, Typed(x), Sure(x), NEW b, Expands(x[1], x[2], b), x[1] \in Opening,
         dicts' = dicts,
         NEW n, NEW h, NEW s, Entry(h, n, s, x), NEW m, m = Len(b)
  PROVE  \E B : Booking(h, B, b, n, m, s, x)
<1>1. n \in Nat \ {0} /\ n \in Nat /\ n - 1 \in Nat /\ n + 1 \in Nat /\ n + 2 \in Nat /\ n + 3 \in Nat
  BY DEF Entry
<1>2. PICK h0, h1 : h0 = h[n] /\ h1 = h[n - 1]
  OBVIOUS
<1>3. h0 \in [Dict -> Nat] /\ h1 \in [Dict -> Nat]
  BY <1>1, <1>2 DEF Entry
<1>4. \A d \in Dict : h0[d] \in Nat /\ h1[d] \in Nat /\ h1[d] = h0[d] + Gain(s, dicts, x, d)
  BY <1>2, <1>3 DEF Entry
<1> DEFINE Two(K) == [r \in Nat |-> IF r < n + K THEN h1 ELSE h0]
<1>5. /\ Two(0) \in [Nat -> [Dict -> Nat]] /\ Two(0)[n - 1] = h1 /\ Two(0)[n] = h0 /\ Two(0)[n + 1] = h0
      /\ Two(1) \in [Nat -> [Dict -> Nat]] /\ Two(1)[n - 1] = h1 /\ Two(1)[n] = h1 /\ Two(1)[n + 1] = h0
      /\ Two(1)[n + 2] = h0
      /\ Two(2) \in [Nat -> [Dict -> Nat]] /\ Two(2)[n - 1] = h1 /\ Two(2)[n] = h1 /\ Two(2)[n + 1] = h1
      /\ Two(2)[n + 2] = h0 /\ Two(2)[n + 3] = h0
  BY <1>1, <1>3
<1> HIDE DEF Two
<1>6. \A B \in [Nat -> [Dict -> Nat]] : B[n - 1] = h1 => B[n - 1] = h[n - 1]
  BY <1>2
<1>7. CASE x[1] = "DictCreate"
  <2>1. Is4(b, <<"InitParser">>, <<"NewDict", x[2]>>, Lock("dict"), Unlock("dict"))
    BY <1>7, DictBodies
  <2>2. PICK B : B = Two(2)
    OBVIOUS
  <2>3. /\ B \in [Nat -> [Dict -> Nat]] /\ B[n - 1] = h1 /\ B[n] = h1 /\ B[n + 1] = h1
        /\ B[n + 2] = h0 /\ B[n + 3] = h0
    BY <1>5, <2>2
  <2>4. m = 4 /\ m \in 1 .. 4 /\ m > 1 /\ m - 1 = 3 /\ m - 2 = 2 /\ m - 3 = 1 /\ (n - 1) + m = n + 3
    BY <1>1, <2>1 DEF Is4
  <2>5. \A d \in Dict : Gain(s, dicts, x, d) = Plus(dicts', b[2], d) /\ Delta(s, x, d) = 0
    BY <1>7, <2>1 DEF Is4, Gain, Plus, Delta
  <2>6. \A d \in Dict : Plus(dicts', b[1], d) = 0 /\ Plus(dicts', b[3], d) = 0 /\ Plus(dicts', b[4], d) = 0
    BY <2>1 DEF Is4, Plus, Lock, Unlock
  <2>7. Books(B, h, b, n, m)
    <3>1. \A d \in Dict :
            /\ B[n - 1][d] = B[n][d] + Plus(dicts', b[m], d)
            /\ m > 1 => B[n][d] = B[n + 1][d] + Plus(dicts', b[m - 1], d)
            /\ m > 2 => B[n + 1][d] = B[n + 2][d] + Plus(dicts', b[m - 2], d)
            /\ m > 3 => B[n + 2][d] = B[n + 3][d] + Plus(dicts', b[m - 3], d)
      BY <1>4, <2>3, <2>4, <2>5, <2>6
    <3> QED
      BY <1>1, <1>6, <2>3, <2>4, <3>1, Rows
  <2>9. \A d \in Dict : B[(n - 1) + m][d] = h[n][d] + Delta(s, x, d)
    BY <1>2, <1>4, <2>3, <2>4, <2>5
  <2>10. Booking(h, B, b, n, m, s, x)
    BY <1>2, <1>7, <2>3, <2>4, <2>5, <2>7, <2>9 DEF Booking
  <2> QED
    BY <2>10
<1>8. CASE x[1] \in {"DictReference", "DictFree"}
  <2>0. /\ x[1] = "DictReference" => Is3(b, Lock("dict"), <<"ReadRefs", <<x[2], 1>>>>, Unlock("dict"))
        /\ x[1] = "DictFree" => Is3(b, Lock("dict"), <<"ReadRefs", <<x[2], -1>>>>, <<"IfLast", x[2]>>)
    BY DictBodies
  <2>1. /\ Len(b) = 3 /\ b[1] = Lock("dict")
        /\ b[2] = <<"ReadRefs", <<x[2], IF x[1] = "DictReference" THEN 1 ELSE -1>>>>
        /\ b[3] = IF x[1] = "DictReference" THEN Unlock("dict") ELSE <<"IfLast", x[2]>>
    BY <1>8, <2>0 DEF Is3
  <2>2. PICK B : B = Two(1)
    OBVIOUS
  <2>3. /\ B \in [Nat -> [Dict -> Nat]] /\ B[n - 1] = h1 /\ B[n] = h1 /\ B[n + 1] = h0 /\ B[n + 2] = h0
    BY <1>5, <2>2
  <2>4. m = 3 /\ m \in 1 .. 4 /\ m > 1 /\ ~(m > 3) /\ m - 1 = 2 /\ m - 2 = 1 /\ (n - 1) + m = n + 2
    BY <1>1, <2>1
  <2>5. \A d \in Dict : Gain(s, dicts, x, d) = Plus(dicts', b[2], d) /\ Delta(s, x, d) = 0
    BY <1>8, <2>1 DEF Gain, Plus, Delta
  <2>6. \A d \in Dict : Plus(dicts', b[1], d) = 0 /\ Plus(dicts', b[3], d) = 0
    BY <2>1 DEF Plus, Lock, Unlock
  <2>7. Books(B, h, b, n, m)
    <3>1. \A d \in Dict :
            /\ B[n - 1][d] = B[n][d] + Plus(dicts', b[m], d)
            /\ m > 1 => B[n][d] = B[n + 1][d] + Plus(dicts', b[m - 1], d)
            /\ m > 2 => B[n + 1][d] = B[n + 2][d] + Plus(dicts', b[m - 2], d)
            /\ m > 3 => B[n + 2][d] = B[n + 3][d] + Plus(dicts', b[m - 3], d)
      BY <1>4, <2>3, <2>4, <2>5, <2>6
    <3> QED
      BY <1>1, <1>6, <2>3, <2>4, <3>1, Rows
  <2>9. \A d \in Dict : B[(n - 1) + m][d] = h[n][d] + Delta(s, x, d)
    BY <1>2, <1>4, <2>3, <2>4, <2>5
  <2>10. Booking(h, B, b, n, m, s, x)
    BY <1>2, <1>8, <2>3, <2>4, <2>5, <2>7, <2>9 DEF Booking
  <2> QED
    BY <2>10
<1>9. CASE x[1] = "ReadRefs"
  <2>1. Len(b) = 1 /\ b[1] = <<"WriteRefs", <<x[2][1], dicts[x[2][1]].refs + x[2][2]>>>>
    <3>1. Is1(b, <<"WriteRefs", <<x[2][1], dicts[x[2][1]].refs + x[2][2]>>>>)
      BY <1>9, DictBodies
    <3> QED
      BY <3>1 DEF Is1
  <2>2. PICK B : B = Two(0)
    OBVIOUS
  <2>3. B \in [Nat -> [Dict -> Nat]] /\ B[n - 1] = h1 /\ B[n] = h0
    BY <1>5, <2>2
  <2>4. m = 1 /\ m \in 1 .. 4 /\ ~(m > 1) /\ ~(m > 2) /\ ~(m > 3) /\ (n - 1) + m = n
    BY <1>1, <2>1
  <2>5. \A d \in Dict : Gain(s, dicts, x, d) = Plus(dicts', b[1], d) /\ Delta(s, x, d) = 0
    <3>1. x[2][1] \in Dict /\ x[2][2] \in {1, -1} /\ dicts[x[2][1]].refs \in Nat
      BY <1>9 DEF Typed
    <3>2. (dicts[x[2][1]].refs + x[2][2]) - dicts[x[2][1]].refs = x[2][2]
      BY <3>1
    <3>3. ASSUME NEW d \in Dict PROVE Plus(dicts', b[1], d) = IF x[2][1] = d THEN x[2][2] ELSE 0
      BY <2>1, <3>2 DEF Plus
    <3> QED
      BY <1>9, <3>3 DEF Gain, Plus, Delta
  <2>7. Books(B, h, b, n, m)
    <3>1. \A d \in Dict :
            /\ B[n - 1][d] = B[n][d] + Plus(dicts', b[m], d)
            /\ m > 1 => B[n][d] = B[n + 1][d] + Plus(dicts', b[m - 1], d)
            /\ m > 2 => B[n + 1][d] = B[n + 2][d] + Plus(dicts', b[m - 2], d)
            /\ m > 3 => B[n + 2][d] = B[n + 3][d] + Plus(dicts', b[m - 3], d)
      BY <1>4, <2>3, <2>4, <2>5
    <3> QED
      BY <1>1, <1>6, <2>3, <2>4, <3>1, Rows
  <2>9. \A d \in Dict : B[(n - 1) + m][d] = h[n][d] + Delta(s, x, d)
    BY <1>2, <1>4, <2>3, <2>4, <2>5
  <2>10. Booking(h, B, b, n, m, s, x)
    BY <1>2, <1>9, <2>3, <2>4, <2>5, <2>7, <2>9 DEF Booking
  <2> QED
    BY <2>10
<1>10. CASE x[1] = "IfLast" \/ (x[1] = "DictGone" /\ dicts[x[2]].sub = NoDict)
  <2>1. /\ Len(b) = 1 \/ Len(b) = 2
        /\ \A i \in 1 .. Len(b) : b[i][1] \in {"MutexUnlock", "DictGone", "FreeDict"}
    <3>1. \/ Is1(b, Unlock("dict")) \/ Is2(b, Unlock("dict"), <<"DictGone", x[2]>>)
          \/ Is1(b, <<"FreeDict", x[2]>>)
      BY <1>10, DictBodies
    <3>2. CASE Is1(b, Unlock("dict"))
      BY <3>2, Little DEF Is1, Unlock
    <3>3. CASE Is2(b, Unlock("dict"), <<"DictGone", x[2]>>)
      BY <3>3, Little DEF Is2, Unlock
    <3>4. CASE Is1(b, <<"FreeDict", x[2]>>)
      BY <3>4, Little DEF Is1
    <3> QED
      BY <3>1, <3>2, <3>3, <3>4
  <2>2. PICK B : B = Two(0)
    OBVIOUS
  <2>3. B \in [Nat -> [Dict -> Nat]] /\ B[n - 1] = h1 /\ B[n] = h0 /\ B[n + 1] = h0
    BY <1>5, <2>2
  <2>4. /\ m \in 1 .. 4 /\ ~(m > 2) /\ ~(m > 3) /\ ((n - 1) + m = n \/ (n - 1) + m = n + 1)
        /\ m \in 1 .. m /\ (m > 1 => m - 1 \in 1 .. m)
    BY <1>1, <2>1
  <2>5. \A d \in Dict : Gain(s, dicts, x, d) = 0 /\ Delta(s, x, d) = 0
    <3>1. \A d \in Dict : ~(x[1] = "DictGone" /\ dicts[x[2]].sub = d)
      BY <1>10, LibraryAssumption
    <3> QED
      BY <1>10, <3>1 DEF Gain, Plus, Delta
  <2>6. \A d \in Dict : Plus(dicts', b[m], d) = 0 /\ (m > 1 => Plus(dicts', b[m - 1], d) = 0)
    BY <2>1, <2>4 DEF Plus
  <2>7. Books(B, h, b, n, m)
    <3>1. \A d \in Dict :
            /\ B[n - 1][d] = B[n][d] + Plus(dicts', b[m], d)
            /\ m > 1 => B[n][d] = B[n + 1][d] + Plus(dicts', b[m - 1], d)
            /\ m > 2 => B[n + 1][d] = B[n + 2][d] + Plus(dicts', b[m - 2], d)
            /\ m > 3 => B[n + 2][d] = B[n + 3][d] + Plus(dicts', b[m - 3], d)
      BY <1>4, <2>3, <2>4, <2>5, <2>6
    <3> QED
      BY <1>1, <1>6, <2>3, <2>4, <3>1, Rows
  <2>9. ASSUME NEW d \in Dict PROVE B[(n - 1) + m][d] = h[n][d] + Delta(s, x, d)
    <3>1. h0[d] \in Nat /\ h[n] = h0
      BY <1>2, <1>4
    <3>2. B[(n - 1) + m] = h0
      BY <2>3, <2>4
    <3>3. Delta(s, x, d) = 0
      BY <2>5
    <3> QED
      BY <3>1, <3>2, <3>3
  <2>10. Booking(h, B, b, n, m, s, x)
    BY <1>2, <1>10, <2>3, <2>4, <2>5, <2>7, <2>9 DEF Booking
  <2> QED
    BY <2>10
<1>11. CASE x[1] = "DictGone" /\ dicts[x[2]].sub # NoDict
  <2> PICK e : e = dicts[x[2]].sub
    OBVIOUS
  <2>0. e \in Dict
    BY <1>11 DEF Typed
  <2>1. Len(b) = 2 /\ b[1] = <<"DictFree", e>> /\ b[2] = <<"FreeDict", x[2]>>
    <3>1. Is2(b, <<"DictFree", e>>, <<"FreeDict", x[2]>>)
      BY <1>11, DictBodies
    <3> QED
      BY <3>1 DEF Is2
  <2>2. PICK B : B = [r \in Nat |-> IF r < n THEN h1 ELSE IF r = n THEN h0
                                    ELSE [d \in Dict |-> IF d = e THEN h0[d] + 1 ELSE h0[d]]]
    OBVIOUS
  <2>3. /\ B \in [Nat -> [Dict -> Nat]] /\ B[n - 1] = h1 /\ B[n] = h0
        /\ \A d \in Dict : B[n + 1][d] = IF d = e THEN h0[d] + 1 ELSE h0[d]
    BY <1>1, <1>3, <1>4, <2>2
  <2>4. m = 2 /\ m \in 1 .. 4 /\ m > 1 /\ ~(m > 2) /\ ~(m > 3) /\ m - 1 = 1 /\ (n - 1) + m = n + 1
    BY <1>1, <2>1
  <2>5. \A d \in Dict : Gain(s, dicts, x, d) = 0 /\ Delta(s, x, d) = IF d = e THEN 1 ELSE 0
    BY <1>11 DEF Gain, Plus, Delta
  <2>6. \A d \in Dict : Plus(dicts', b[2], d) = 0 /\ Plus(dicts', b[1], d) = IF d = e THEN -1 ELSE 0
    BY <2>1 DEF Plus
  <2>7. Books(B, h, b, n, m)
    <3>1. \A d \in Dict :
            /\ B[n - 1][d] = B[n][d] + Plus(dicts', b[m], d)
            /\ m > 1 => B[n][d] = B[n + 1][d] + Plus(dicts', b[m - 1], d)
            /\ m > 2 => B[n + 1][d] = B[n + 2][d] + Plus(dicts', b[m - 2], d)
            /\ m > 3 => B[n + 2][d] = B[n + 3][d] + Plus(dicts', b[m - 3], d)
      <4> SUFFICES ASSUME NEW d \in Dict
                   PROVE  /\ B[n - 1][d] = B[n][d] + Plus(dicts', b[m], d)
                          /\ m > 1 => B[n][d] = B[n + 1][d] + Plus(dicts', b[m - 1], d)
                          /\ m > 2 => B[n + 1][d] = B[n + 2][d] + Plus(dicts', b[m - 2], d)
                          /\ m > 3 => B[n + 2][d] = B[n + 3][d] + Plus(dicts', b[m - 3], d)
        OBVIOUS
      <4>1. h0[d] \in Nat /\ h1[d] \in Nat /\ h1[d] = h0[d] + Gain(s, dicts, x, d)
        BY <1>4
      <4>2. h1[d] = h0[d] /\ B[n - 1][d] = h1[d] /\ B[n][d] = h0[d]
        BY <2>3, <2>5, <4>1
      <4>3. /\ B[n + 1][d] = IF d = e THEN h0[d] + 1 ELSE h0[d]
            /\ Plus(dicts', b[2], d) = 0 /\ Plus(dicts', b[1], d) = IF d = e THEN -1 ELSE 0
        BY <2>3, <2>6
      <4>4. CASE d = e
        BY <2>4, <4>1, <4>2, <4>3, <4>4
      <4>5. CASE d # e
        BY <2>4, <4>1, <4>2, <4>3, <4>5
      <4> QED
        BY <4>4, <4>5
    <3> QED
      BY <1>1, <1>6, <2>3, <2>4, <3>1, Rows
  <2>9. ASSUME NEW d \in Dict PROVE B[(n - 1) + m][d] = h[n][d] + Delta(s, x, d)
    <3>1. h0[d] \in Nat /\ B[(n - 1) + m] = B[n + 1] /\ h[n] = h0
      BY <1>2, <1>4, <2>4
    <3>4. /\ B[n + 1][d] = IF d = e THEN h0[d] + 1 ELSE h0[d]
          /\ Delta(s, x, d) = IF d = e THEN 1 ELSE 0
      BY <2>3, <2>5
    <3>2. CASE d = e
      BY <3>1, <3>2, <3>4
    <3>3. CASE d # e
      BY <3>1, <3>3, <3>4
    <3> QED
      BY <3>2, <3>3
  <2>10. Booking(h, B, b, n, m, s, x)
    BY <1>2, <1>11, <2>3, <2>4, <2>5, <2>7, <2>9 DEF Booking
  <2> QED
    BY <2>10
<1>12. CASE x[1] = "DictCreateSub"
  <2> PICK e, f : e = x[2][1] /\ f = x[2][2]
    OBVIOUS
  <2>0. e \in Dict /\ f \in Dict /\ e # f /\ h0[f] > 0
    BY <1>2, <1>12 DEF Typed, Entry
  <2>1. Len(b) = 3 /\ b[1] = <<"DictCreate", e>> /\ b[2] = <<"SetSub", <<e, f>>>> /\ b[3] = <<"DictReference", f>>
    <3>1. Is3(b, <<"DictCreate", e>>, <<"SetSub", <<e, f>>>>, <<"DictReference", f>>)
      BY <1>12, DictBodies
    <3> QED
      BY <3>1 DEF Is3
  <2>2. PICK B : B = [r \in Nat |-> IF r < n THEN h1
                                    ELSE IF r = n THEN [d \in Dict |-> IF d = f THEN h1[d] - 1 ELSE h1[d]]
                                    ELSE IF r = n + 1 THEN h1 ELSE h0]
    OBVIOUS
  <2>5. \A d \in Dict : Gain(s, dicts, x, d) = (IF d = e THEN 1 ELSE 0) /\ Delta(s, x, d) = 0
    BY <1>12 DEF Gain, Plus, Delta
  <2>8. h1[f] > 0 /\ h1[e] > 0
    BY <1>4, <2>0, <2>5
  <2>3. /\ B \in [Nat -> [Dict -> Nat]] /\ B[n - 1] = h1 /\ B[n + 1] = h1 /\ B[n + 2] = h0
        /\ \A d \in Dict : B[n][d] = IF d = f THEN h1[d] - 1 ELSE h1[d]
    BY <1>1, <1>3, <1>4, <2>0, <2>2, <2>8
  <2>4. m = 3 /\ m \in 1 .. 4 /\ m > 1 /\ ~(m > 3) /\ m - 1 = 2 /\ m - 2 = 1 /\ (n - 1) + m = n + 2
    BY <1>1, <2>1
  <2>6. \A d \in Dict : /\ Plus(dicts', b[1], d) = IF d = e THEN 1 ELSE 0
                        /\ Plus(dicts', b[2], d) = IF d = f THEN -1 ELSE 0
                        /\ Plus(dicts', b[3], d) = IF d = f THEN 1 ELSE 0
    BY <2>1 DEF Plus
  <2>7. Books(B, h, b, n, m)
    <3>1. \A d \in Dict :
            /\ B[n - 1][d] = B[n][d] + Plus(dicts', b[m], d)
            /\ m > 1 => B[n][d] = B[n + 1][d] + Plus(dicts', b[m - 1], d)
            /\ m > 2 => B[n + 1][d] = B[n + 2][d] + Plus(dicts', b[m - 2], d)
            /\ m > 3 => B[n + 2][d] = B[n + 3][d] + Plus(dicts', b[m - 3], d)
      <4> SUFFICES ASSUME NEW d \in Dict
                   PROVE  /\ B[n - 1][d] = B[n][d] + Plus(dicts', b[m], d)
                          /\ m > 1 => B[n][d] = B[n + 1][d] + Plus(dicts', b[m - 1], d)
                          /\ m > 2 => B[n + 1][d] = B[n + 2][d] + Plus(dicts', b[m - 2], d)
                          /\ m > 3 => B[n + 2][d] = B[n + 3][d] + Plus(dicts', b[m - 3], d)
        OBVIOUS
      <4>1. h0[d] \in Nat /\ h1[d] \in Nat /\ h1[d] = h0[d] + Gain(s, dicts, x, d)
        BY <1>4
      <4>2. /\ B[n - 1][d] = h1[d] /\ B[n + 1][d] = h1[d] /\ B[n + 2][d] = h0[d]
            /\ B[n][d] = IF d = f THEN h1[d] - 1 ELSE h1[d]
            /\ h1[d] = h0[d] + IF d = e THEN 1 ELSE 0
        BY <2>3, <2>5, <4>1
      <4>3. /\ Plus(dicts', b[1], d) = IF d = e THEN 1 ELSE 0
            /\ Plus(dicts', b[2], d) = IF d = f THEN -1 ELSE 0
            /\ Plus(dicts', b[3], d) = IF d = f THEN 1 ELSE 0
        BY <2>6
      <4>4. CASE d = e
        BY <2>0, <2>4, <4>1, <4>2, <4>3, <4>4
      <4>5. CASE d = f
        BY <2>0, <2>4, <4>1, <4>2, <4>3, <4>5
      <4>6. CASE d # e /\ d # f
        BY <2>4, <4>1, <4>2, <4>3, <4>6
      <4> QED
        BY <4>4, <4>5, <4>6
    <3> QED
      BY <1>1, <1>6, <2>3, <2>4, <3>1, Rows
  <2>9. ASSUME NEW d \in Dict PROVE B[(n - 1) + m][d] = h[n][d] + Delta(s, x, d)
    <3>1. h0[d] \in Nat /\ B[(n - 1) + m] = h0 /\ h[n] = h0
      BY <1>2, <1>4, <2>3, <2>4
    <3>2. Delta(s, x, d) = 0
      BY <2>5
    <3> QED
      BY <3>1, <3>2
  <2>10. Booking(h, B, b, n, m, s, x)
    BY <1>2, <1>12, <2>0, <2>3, <2>4, <2>5, <2>7, <2>8, <2>9 DEF Booking
  <2> QED
    BY <2>10
<1> QED
  BY <1>7, <1>8, <1>9, <1>10, <1>11, <1>12 DEF Opening

\* G is H one turn of t later.
HandedOn(H, G, t, n, m, x) ==
  /\ \A u \in Thread \ {t} : G[u] = H[u]
  /\ \A r \in Nat : r < n => G[t][r] = H[t][r]
  /\ \A d \in Dict : G[t][(n - 1) + m][d] = H[t][n][d] + Delta(Has(H), x, d)
  /\ x[1] = "DictCreateSub" => G[t][n + 1][x[2][1]] > 0 /\ G[t][n][x[2][1]] > 0
  /\ x[1] = "DictReference" => G[t][n + 1] = H[t][n]
  /\ x[1] = "ReadRefs" => G[t][n] = H[t][n]

LEMMA LedgerKept ==
  ASSUME NEW F, NEW k, Placed(F, k), WellTyped, Locks, Life, AllSure, NEW rank, Births(rank),
         NEW H, Ledger(H), NEW t \in Thread, NEW b, Turn(t, b), NEW x, x = code[t][1],
         NEW n, NEW m, Sizes(t, b, n, m), x[1] = "DictCreateSub" => H[t][n][x[2][2]] > 0
  PROVE  \E G : Ledger(G)' /\ HandedOn(H, G, t, n, m, x)
<1>1. /\ Leaves(code[t], code'[t], b, n, m) /\ Expands(x[1], x[2], b)
      /\ ChangesThreads(t, x[1], x[2]) /\ ChangesDicts(x[1], x[2])
      /\ n \in Nat \ {0} /\ n \in 1 .. n /\ x = Nth(code[t], n)
  BY TurnFacts DEF Changes, Sizes
<1>2. n = Len(code[t]) /\ m = Len(b) /\ m \in Nat
  BY <1>1 DEF Sizes, Leaves
<1>3. /\ Typed(x) /\ id[t] # 0
      /\ dicts \in [Dict -> [refs : Nat, sub : Dict \cup {NoDict}, freed : BOOLEAN]]
  BY <1>1, <1>2 DEF WellTyped, ChangesThreads
<1>4. Sure(x)
  BY <1>1, <1>2, <1>3 DEF AllSure
<1>5. PICK h : h = H[t]
  OBVIOUS
<1>6. h \in [Nat -> [Dict -> Nat]] /\ \A d \in Dict : h[n - 1][d] = h[n][d] + Gain(Has(H), dicts, x, d)
  BY <1>1, <1>2, <1>5 DEF Ledger
<1>7. Entry(h, n, Has(H), x)
  BY <1>1, <1>5, <1>6 DEF Entry
<1>8. \E B : Booking(h, B, b, n, m, Has(H), x)
  <2>1. CASE x[1] \in Opening
    <3>1. dicts' = dicts
      BY <1>1, <2>1 DEF ChangesDicts, Opening
    <3> QED
      BY <1>1, <1>2, <1>3, <1>4, <1>7, <2>1, <3>1, BookOpening
  <2>2. CASE x[1] \notin Opening
    BY <1>1, <1>2, <1>3, <1>7, <2>2, BookAside
  <2> QED
    BY <2>1, <2>2
<1>9. PICK B : Booking(h, B, b, n, m, Has(H), x)
  BY <1>8
<1>10. PICK G : G = Booked(H, t, n, B)
  OBVIOUS
<1>11. Books(B, h, b, n, m) /\ B \in [Nat -> [Dict -> Nat]]
  BY <1>9 DEF Booking, Books
<1>12. BookedTo(G, H, t, n, B)
  <2>1. H \in [Thread -> [Nat -> [Dict -> Nat]]] /\ n \in Nat
    BY <1>1 DEF Ledger
  <2> QED
    BY <1>10, <1>11, <2>1, BookedFacts
<1>13. Ledger(G)'
  BY <1>5, <1>11, <1>12, LedgerStep
<1>14. HandedOn(H, G, t, n, m, x)
  <2>1. /\ \A u \in Thread \ {t} : G[u] = H[u]
        /\ \A r \in Nat : r < n => G[t][r] = H[t][r]
        /\ \A r \in Nat : ~(r < n) => G[t][r] = B[r]
    BY <1>12 DEF BookedTo
  <2>2. G[t][n] = B[n] /\ G[t][n + 1] = B[n + 1]
    BY <1>1, <2>1
  <2>3. ASSUME NEW d \in Dict PROVE G[t][(n - 1) + m][d] = H[t][n][d] + Delta(Has(H), x, d)
    <3>1. CASE m > 0
      <4>1. (n - 1) + m \in Nat /\ ~((n - 1) + m < n)
        BY <1>1, <1>2, <3>1
      <4>2. G[t][(n - 1) + m] = B[(n - 1) + m]
        BY <2>1, <4>1
      <4> QED
        BY <1>5, <1>9, <3>1, <4>2 DEF Booking
    <3>2. CASE m = 0
      <4>1. (n - 1) + m = n - 1 /\ n - 1 \in Nat /\ n - 1 < n
        BY <1>1, <3>2
      <4>2. G[t][(n - 1) + m] = h[n - 1]
        BY <1>5, <2>1, <4>1
      <4>3. x[1] \notin Expanding
        BY <1>1, <1>2, <3>2 DEF Expands, Is1, Is2, Is3, Is4
      <4>4. Gain(Has(H), dicts, x, d) = Delta(Has(H), x, d)
        BY <4>3 DEF Gain, Plus, Delta, Expanding
      <4> QED
        BY <1>5, <1>6, <4>2, <4>4
    <3> QED
      BY <1>2, <3>1, <3>2
  <2> QED
    BY <1>5, <1>9, <2>1, <2>2, <2>3 DEF HandedOn, Booking
<1> QED
  BY <1>13, <1>14

-----------------------------------------------------------------------------
(* Who counts on a dictionary.                                             *)

\* e inherits from d and has not begun to give it up.
Heir(e, d) == dicts[e].sub = d /\ ~dicts[e].freed /\ Absent({<<"FreeDict", e>>})

Heirs(d) == {e \in Dict : Heir(e, d)}

\* The references to d of those who have been started.
InHand(H, d) == [u \in Thread |-> IF Born(u) THEN H[u][Len(code[u])][d] ELSE 0]

Counted(H) ==
  \A d \in Dict :
    /\ IsFiniteSet(Owned(InHand(H, d))) /\ IsFiniteSet(Heirs(d))
    /\ dicts[d].refs = Cardinality(Owned(InHand(H, d))) + Cardinality(Heirs(d))

\* Who inherits from d when x is called.
HeirsBy(x, d) ==
  /\ \A e \in Dict : Heir(e, d)' <=> \/ x[1] = "SetSub" /\ x[2] = <<e, d>>
                                     \/ Heir(e, d) /\ ~(x[1] = "DictGone" /\ x[2] = e)
  /\ x[1] = "SetSub" => ~Heir(x[2][1], d)
  /\ x[1] = "DictGone" => (Heir(x[2], d) <=> dicts[x[2]].sub = d)

\* The call that frees e is on its way.
FreeingBy(x, e) ==
  /\ x[1] = "DictGone" /\ x[2] = e => ~Absent({<<"FreeDict", e>>})' /\ Absent({<<"FreeDict", e>>})
  /\ x[1] = "FreeDict" /\ x[2] = e => ~Absent({<<"FreeDict", e>>})
  /\ ~(x[1] \in {"DictGone", "FreeDict"} /\ x[2] = e) =>
       (Absent({<<"FreeDict", e>>})' <=> Absent({<<"FreeDict", e>>}))

LEMMA FreeingNext ==
  ASSUME WellTyped, Life, NEW t \in Thread, NEW b, Turn(t, b), NEW x, x = code[t][1], NEW e \in Dict
  PROVE  FreeingBy(x, e)
<1> PICK S : S = {<<"FreeDict", e>>}
  OBVIOUS
<1> PICK E : E = EndsOf(e)
  OBVIOUS
<1>1. PICK n, m : n = Len(code[t]) /\ m = Len(b)
  OBVIOUS
<1>2. /\ Leaves(code[t], code'[t], b, n, m) /\ Turns(t, b) /\ Expands(x[1], x[2], b)
      /\ n \in Nat \ {0} /\ n \in 1 .. n /\ x = Nth(code[t], n)
  BY <1>1, TurnFacts
<1>3. Typed(x) /\ 1 \in 1 .. Len(code[t])
  BY <1>1, <1>2 DEF WellTyped
<1>4. \A y : /\ Key(y) \in S <=> y[1] = "FreeDict" /\ y[2] = e
             /\ Key(y) \in E <=> y[1] \in {"DictGone", "FreeDict"} /\ y[2] = e
  BY KeyIn
<1>5. AtMostOne(E)
  BY DEF Life, LifeOf, Once
<1>6. ASSUME x[1] = "DictGone" /\ x[2] = e PROVE ~Absent(S)' /\ Absent(S)
  <2>1. Absent(S)
    <3> SUFFICES ASSUME NEW u \in Thread, NEW i \in 1 .. Len(code[u]), Key(code[u][i]) \in S PROVE FALSE
      BY DEF Absent
    <3>1. Key(code[u][i]) \in E /\ Key(code[t][1]) \in E
      BY <1>4, <1>6
    <3>2. u = t /\ i = 1
      BY <1>3, <1>5, <3>1 DEF AtMostOne
    <3> QED
      BY <1>4, <1>6, <3>2
  <2>2. \/ Is1(b, <<"FreeDict", e>>)
        \/ Is2(b, <<"DictFree", dicts[e].sub>>, <<"FreeDict", e>>)
    BY <1>2, <1>6, DictBodies DEF Opening
  <2>3. PICK i \in 1 .. Len(b) : b[i] = <<"FreeDict", e>>
    <3>1. CASE Is1(b, <<"FreeDict", e>>)
      BY <3>1 DEF Is1
    <3>2. CASE Is2(b, <<"DictFree", dicts[e].sub>>, <<"FreeDict", e>>)
      BY <3>2 DEF Is2
    <3> QED
      BY <2>2, <3>1, <3>2
  <2>4. i \in 1 .. Len(code'[t]) /\ code'[t][i] = b[i]
    <3>1. /\ m \in Nat /\ i \in 1 .. m /\ Len(code'[t]) = m + (n - 1)
          /\ \A j \in 1 .. m : code'[t][j] = b[j]
      BY <1>1, <1>2, <2>3 DEF Turns, Replaces
    <3> QED
      BY <1>2, <3>1
  <2>5. Key(code'[t][i]) \in S
    BY <1>4, <2>3, <2>4
  <2>6. ~Absent(S)'
    BY <2>4, <2>5 DEF Absent, Key
  <2> QED
    BY <2>1, <2>6
<1>7. ASSUME x[1] = "FreeDict" /\ x[2] = e PROVE ~Absent(S)
  <2>1. Key(code[t][1]) \in S
    BY <1>4, <1>7
  <2> QED
    BY <1>2, <2>1, HeadThere
<1>8. ASSUME ~(x[1] \in {"DictGone", "FreeDict"} /\ x[2] = e) PROVE Absent(S)' <=> Absent(S)
  <2>1. ASSUME NEW i \in 1 .. Len(b) PROVE Key(b[i]) \notin S
    <3>1. Key(b[i]) \in {<<"FreeDict", e>>} => x[1] = "DictGone" /\ x[2] = e
      BY <1>2, <1>3, KeyBodies
    <3> QED
      BY <1>8, <3>1
  <2>2. Key(code[t][1]) \notin S
    BY <1>4, <1>8
  <2> QED
    BY <1>2, <2>1, <2>2, AbsentKept, StillThere
<1>9. {<<"FreeDict", e>>}' = S
  OBVIOUS
<1> QED
  BY <1>6, <1>7, <1>8, <1>9 DEF FreeingBy

LEMMA HeirsNext ==
  ASSUME WellTyped, Life, NEW t \in Thread, NEW b, Turn(t, b), NEW x, x = code[t][1], Sure(x),
         NEW d \in Dict
  PROVE  HeirsBy(x, d)
<1>1. PICK n, m : n = Len(code[t]) /\ m = Len(b)
  OBVIOUS
<1>2. /\ Leaves(code[t], code'[t], b, n, m) /\ Turns(t, b) /\ ChangesDicts(x[1], x[2])
      /\ n \in Nat \ {0} /\ n \in 1 .. n /\ x = Nth(code[t], n)
  BY <1>1, TurnFacts DEF Changes
<1>3. Typed(x) /\ dicts \in [Dict -> [refs : Nat, sub : Dict \cup {NoDict}, freed : BOOLEAN]]
  BY <1>1, <1>2 DEF WellTyped
<1>4. Becomes(x)
  BY <1>2, <1>3, DictChanges
<1>5. \A e \in Dict : FreeingBy(x, e)
  BY FreeingNext
<1>6. ASSUME NEW e \in Dict
      PROVE  /\ ~Absent(MakersOf(e)) => dicts[e].sub = NoDict
             /\ ~Absent(LinksOf(e)) => dicts[e].sub = NoDict
             /\ ~Absent(EndsOf(e)) => dicts[e].refs = 0 /\ ~dicts[e].freed
             /\ dicts[e].freed => dicts[e].refs = 0
  BY DEF Life, LifeOf
<1>7. ASSUME NEW e \in Dict
      PROVE  /\ x[1] = "NewDict" /\ x[2] = e => dicts[e].sub = NoDict
             /\ x[1] = "SetSub" /\ x[2][1] = e => dicts[e].sub = NoDict
             /\ x[1] \in {"DictGone", "FreeDict"} /\ x[2] = e => ~dicts[e].freed
  <2>1. PICK M, L, E : M = MakersOf(e) /\ L = LinksOf(e) /\ E = EndsOf(e)
    OBVIOUS
  <2>2. /\ x[1] = "NewDict" /\ x[2] = e => Key(x) \in M
        /\ x[1] = "SetSub" /\ x[2] \in {e} \X Dict => Key(x) \in L
        /\ x[1] \in {"DictGone", "FreeDict"} /\ x[2] = e => Key(x) \in E
    BY <2>1, KeyIn
  <2>3. x[1] = "SetSub" /\ x[2][1] = e => x[2] \in {e} \X Dict
    BY <1>3 DEF Typed
  <2>4. \A S : Key(x) \in S => ~Absent(S)
    BY <1>2, HeadThere
  <2> QED
    BY <1>6, <2>1, <2>2, <2>3, <2>4
<1>8. d # NoDict
  BY LibraryAssumption
<1>9. ASSUME x[1] = "SetSub"
      PROVE  /\ x[2][1] \in Dict /\ x[2][2] \in Dict /\ x[2] = <<x[2][1], x[2][2]>>
             /\ ~dicts[x[2][1]].freed /\ Absent({<<"FreeDict", x[2][1]>>})
  <2>1. x[2][1] \in Dict /\ x[2][2] \in Dict /\ x[2] = <<x[2][1], x[2][2]>>
    BY <1>3, <1>9 DEF Typed
  <2>2. PICK e : e = x[2][1]
    OBVIOUS
  <2>3. e \in Dict /\ dicts[e].refs > 0 /\ dicts[e].refs \in Nat
    BY <1>3, <1>9, <2>1, <2>2 DEF Sure
  <2>4. ~(dicts[e].refs = 0)
    BY <2>3
  <2>5. ~dicts[e].freed /\ Absent(EndsOf(e))
    BY <1>6, <2>3, <2>4
  <2>6. Absent({<<"FreeDict", e>>})
    <3>1. \A y : Key(y) \in {<<"FreeDict", e>>} => Key(y) \in EndsOf(e)
      BY KeyIn
    <3> QED
      BY <2>5, <3>1 DEF Absent
  <2> QED
    BY <2>1, <2>2, <2>5, <2>6
<1>10. ASSUME NEW e \in Dict
       PROVE  Heir(e, d)' <=> \/ x[1] = "SetSub" /\ x[2] = <<e, d>>
                              \/ Heir(e, d) /\ ~(x[1] = "DictGone" /\ x[2] = e)
  <2>1. /\ dicts'[e].sub = IF x[1] = "NewDict" /\ x[2] = e THEN NoDict
                           ELSE IF x[1] = "SetSub" /\ x[2][1] = e THEN x[2][2]
                           ELSE dicts[e].sub
        /\ dicts'[e].freed = IF x[1] = "NewDict" /\ x[2] = e THEN FALSE
                             ELSE IF x[1] = "FreeDict" /\ x[2] = e THEN TRUE
                             ELSE dicts[e].freed
    BY <1>4 DEF Becomes
  <2>2. PICK S : S = {<<"FreeDict", e>>}
    OBVIOUS
  <2>3. /\ Heir(e, d) <=> dicts[e].sub = d /\ ~dicts[e].freed /\ Absent(S)
        /\ Heir(e, d)' <=> dicts'[e].sub = d /\ ~dicts'[e].freed /\ Absent(S)'
    BY <2>2 DEF Heir
  <2>4. /\ x[1] = "DictGone" /\ x[2] = e => ~Absent(S)' /\ Absent(S)
        /\ x[1] = "FreeDict" /\ x[2] = e => ~Absent(S)
        /\ ~(x[1] \in {"DictGone", "FreeDict"} /\ x[2] = e) => (Absent(S)' <=> Absent(S))
    <3>1. S' = {<<"FreeDict", e>>}'
      BY <2>2
    <3> QED
      BY <1>5, <2>2, <3>1 DEF FreeingBy
  <2>5. CASE x[1] \notin {"NewDict", "SetSub", "FreeDict", "DictGone"}
    BY <2>1, <2>3, <2>4, <2>5
  <2>6. CASE x[1] = "NewDict"
    BY <1>7, <1>8, <2>1, <2>3, <2>4, <2>6
  <2>7. CASE x[1] = "SetSub"
    <3>1. CASE x[2][1] = e
      <4>1. x[2] = <<e, d>> <=> x[2][2] = d
        BY <1>9, <2>7, <3>1
      <4>2. ~dicts[e].freed /\ Absent(S) /\ dicts[e].sub = NoDict
        BY <1>7, <1>9, <2>2, <2>7, <3>1
      <4> QED
        BY <1>8, <2>1, <2>3, <2>4, <2>7, <3>1, <4>1, <4>2
    <3>2. CASE x[2][1] # e
      BY <2>1, <2>3, <2>4, <2>7, <3>2
    <3> QED
      BY <3>1, <3>2
  <2>8. CASE x[1] = "FreeDict"
    BY <2>1, <2>3, <2>4, <2>8
  <2>9. CASE x[1] = "DictGone"
    BY <2>1, <2>3, <2>4, <2>9
  <2> QED
    BY <2>5, <2>6, <2>7, <2>8, <2>9
<1>11. x[1] = "SetSub" => ~Heir(x[2][1], d)
  BY <1>7, <1>8, <1>9 DEF Heir
<1>12. ASSUME x[1] = "DictGone" PROVE Heir(x[2], d) <=> dicts[x[2]].sub = d
  <2>1. x[2] \in Dict
    BY <1>3, <1>12 DEF Typed
  <2>2. FreeingBy(x, x[2])
    BY <1>5, <2>1
  <2>3. Absent({<<"FreeDict", x[2]>>})
    BY <1>12, <2>2 DEF FreeingBy
  <2>4. ~dicts[x[2]].freed
    BY <1>7, <1>12, <2>1
  <2> QED
    BY <2>3, <2>4 DEF Heir
<1> QED
  BY <1>10, <1>11, <1>12 DEF HeirsBy
-----------------------------------------------------------------------------
(* The counter counts those who have a reference and those who inherit.    *)

\* What the thread t has in hand when it calls x, which was g and is h.
HandBy(g, h, t, s, x, d) ==
  /\ g \in [Thread -> Nat] /\ h \in [Thread -> Nat]
  /\ h[t] = g[t] + Delta(s, x, d)
  /\ \A u \in Thread \ {t} : h[u] = IF x[1] = "Spawn" /\ x[2] = u THEN s[u][d] ELSE g[u]
  /\ x[1] = "Spawn" => x[2] \in Thread \ {t} /\ g[x[2]] = 0

LEMMA HandNext ==
  ASSUME NEW F, NEW k, Placed(F, k), WellTyped, NEW rank, Births(rank),
         NEW H, Ledger(H), NEW t \in Thread, NEW b, Turn(t, b), NEW x, x = code[t][1],
         NEW n, NEW m, Sizes(t, b, n, m), NEW G, Ledger(G)', HandedOn(H, G, t, n, m, x), NEW d \in Dict
  PROVE  HandBy(InHand(H, d), InHand(G, d)', t, Has(H), x, d)
<1>1. PICK g : g = InHand(H, d)
  OBVIOUS
<1>2. PICK h : h = InHand(G, d)'
  OBVIOUS
<1>3. /\ Leaves(code[t], code'[t], b, n, m) /\ Turns(t, b) /\ Expands(x[1], x[2], b)
      /\ ChangesThreads(t, x[1], x[2])
      /\ n \in Nat \ {0} /\ n \in 1 .. n /\ x = Nth(code[t], n) /\ \A u \in Thread \ {t} : code'[u] = code[u]
  BY TurnFacts DEF Changes, Sizes
<1>4. n = Len(code[t]) /\ Len(code'[t]) = (n - 1) + m
  BY <1>3 DEF Sizes, Leaves
<1>5. Typed(x) /\ id[t] # 0
  BY <1>3, <1>4 DEF WellTyped, ChangesThreads
<1>6. \A u \in Thread : Len(code[u]) \in Nat /\ Len(code'[u]) \in Nat
  BY <1>3, CallListFacts DEF Turns, Listed
<1>7. /\ \A u \in Thread : g[u] = IF Born(u) THEN H[u][Len(code[u])][d] ELSE 0
      /\ g \in [Thread -> Nat]
  <2>0. H \in [Thread -> [Nat -> [Dict -> Nat]]]
    BY DEF Ledger
  <2>1. ASSUME NEW u \in Thread PROVE H[u][Len(code[u])][d] \in Nat
    <3>1. Len(code[u]) \in Nat
      BY <1>6
    <3>2. H[u] \in [Nat -> [Dict -> Nat]]
      BY <2>0
    <3> QED
      BY <3>1, <3>2
  <2> QED
    BY <1>1, <2>1 DEF InHand
<1>8. /\ \A u \in Thread : h[u] = IF Born(u)' THEN G[u][Len(code'[u])][d] ELSE 0
      /\ h \in [Thread -> Nat]
  <2>0. G \in [Thread -> [Nat -> [Dict -> Nat]]]
    BY DEF Ledger
  <2>1. ASSUME NEW u \in Thread PROVE G[u][Len(code'[u])][d] \in Nat
    <3>1. Len(code'[u]) \in Nat
      BY <1>6
    <3>2. G[u] \in [Nat -> [Dict -> Nat]]
      BY <2>0
    <3> QED
      BY <3>1, <3>2
  <2> QED
    BY <1>2, <2>1 DEF InHand
<1>9. \A u \in Thread : BornBy(u, x)
  BY <1>3, <1>5, BornNext
<1>10. \A u \in Thread : Born(u)' <=> Born(u) \/ (x[1] = "Spawn" /\ x[2] = u)
  BY <1>9 DEF BornBy
<1>11. Born(t)
  BY <1>3, <1>5, Unborn DEF Turns
<1>12. h[t] = g[t] + Delta(Has(H), x, d)
  <2>1. g[t] = H[t][n][d] /\ h[t] = G[t][(n - 1) + m][d]
    BY <1>4, <1>7, <1>8, <1>10, <1>11
  <2> QED
    BY <2>1 DEF HandedOn
<1>13. ASSUME x[1] = "Spawn" PROVE x[2] \in Thread \ {t} /\ ~Born(x[2])
  <2>1. x[2] \in Thread \ {t}
    BY <1>3, <1>4, <1>5, <1>13, StartsAnother
  <2>2. PICK S : S = {<<"Spawn", x[2]>>}
    OBVIOUS
  <2>3. Key(x) \in S
    BY <1>13, <2>2, KeyIn
  <2>4. ~Absent(S)
    BY <1>3, <2>3, HeadThere
  <2> QED
    BY <2>1, <2>2, <2>4 DEF Born
<1>14. ASSUME NEW u \in Thread \ {t}
       PROVE  h[u] = IF x[1] = "Spawn" /\ x[2] = u THEN Has(H)[u][d] ELSE g[u]
  <2>1. G[u] = H[u] /\ code'[u] = code[u]
    BY <1>3 DEF HandedOn
  <2>2. Has(H)[u][d] = H[u][Len(code[u])][d]
    BY DEF Has
  <2> QED
    BY <1>7, <1>8, <1>10, <2>1, <2>2
<1>15. x[1] = "Spawn" => x[2] \in Thread \ {t} /\ g[x[2]] = 0
  BY <1>7, <1>13
<1> QED
  BY <1>1, <1>2, <1>7, <1>8, <1>12, <1>14, <1>15 DEF HandBy

\* How many references the threads have after x.
LEMMA OwnedNext ==
  ASSUME dicts \in [Dict -> [refs : Nat, sub : Dict \cup {NoDict}, freed : BOOLEAN]],
         NEW x, Typed(x), Sure(x), NEW t \in Thread, NEW d \in Dict,
         NEW s, NEW g, NEW h, HandBy(g, h, t, s, x, d), IsFiniteSet(Owned(g))
  PROVE  /\ IsFiniteSet(Owned(h))
         /\ Cardinality(Owned(h)) = Cardinality(Owned(g))
                                      + (IF x[1] = "Spawn" THEN 0 ELSE Delta(s, x, d))
<1>1. /\ g \in [Thread -> Nat] /\ h \in [Thread -> Nat]
      /\ h[t] = g[t] + Delta(s, x, d)
      /\ \A u \in Thread \ {t} : h[u] = IF x[1] = "Spawn" /\ x[2] = u THEN s[u][d] ELSE g[u]
      /\ x[1] = "Spawn" => x[2] \in Thread \ {t} /\ g[x[2]] = 0
  BY DEF HandBy
<1>2. Cardinality(Owned(g)) \in Nat
  BY FS_CardinalityType
<1>3. CASE x[1] = "Spawn"
  <2>1. PICK u \in Thread \ {t} : u = x[2]
    BY <1>1, <1>3
  <2>2. g[u] = 0 /\ h[u] = s[u][d] /\ h[t] = g[t] + (0 - s[u][d]) /\ \A v \in Thread \ {t, u} : h[v] = g[v]
    BY <1>1, <1>3, <2>1 DEF Delta
  <2>3. g[t] \in Nat /\ h[u] \in Nat /\ h[t] \in Nat
    BY <1>1
  <2>4. g[t] = h[t] + h[u]
    BY <2>2, <2>3
  <2>5. IsFiniteSet(Owned(h)) /\ Cardinality(Owned(h)) = Cardinality(Owned(g))
    BY <1>1, <2>2, <2>4, OwnedMoved
  <2> QED
    BY <1>2, <1>3, <2>5
<1>4. CASE x[1] # "Spawn"
  <2>1. \A u \in Thread \ {t} : h[u] = g[u]
    BY <1>1, <1>4
  <2>2. Delta(s, x, d) \in {-1, 0, 1}
    <3>1. ASSUME x[1] = "WriteRefs", x[2][1] = d PROVE x[2][2] - dicts[d].refs \in {1, -1}
      <4>1. dicts[d].refs \in Nat /\ (x[2][2] = dicts[d].refs + 1 \/ x[2][2] = dicts[d].refs - 1)
        BY <3>1 DEF Sure
      <4> QED
        BY <4>1
    <3> QED
      BY <1>4, <3>1 DEF Delta
  <2>3. CASE Delta(s, x, d) = 0
    <3>1. h = g
      BY <1>1, <2>1, <2>3
    <3> QED
      BY <1>2, <1>4, <2>3, <3>1
  <2>4. CASE Delta(s, x, d) = 1
    <3>1. h[t] = g[t] + 1
      BY <1>1, <2>4
    <3> QED
      BY <1>1, <1>4, <2>1, <2>4, <3>1, OwnedMore
  <2>5. CASE Delta(s, x, d) = -1
    <3>1. h[t] = g[t] - 1
      BY <1>1, <2>5
    <3>2. IsFiniteSet(Owned(h)) /\ Cardinality(Owned(h)) = Cardinality(Owned(g)) - 1
      BY <1>1, <2>1, <3>1, OwnedLess
    <3> QED
      BY <1>2, <1>4, <2>5, <3>2
  <2> QED
    BY <2>2, <2>3, <2>4, <2>5
<1> QED
  BY <1>3, <1>4

\* How many dictionaries inherit from d after x.
LEMMA HeirsCount ==
  ASSUME NEW x, Typed(x), NEW d \in Dict, HeirsBy(x, d), IsFiniteSet(Heirs(d))
  PROVE  /\ IsFiniteSet(Heirs(d)')
         /\ Cardinality(Heirs(d)') = Cardinality(Heirs(d))
              + (IF x[1] = "SetSub" /\ x[2][2] = d THEN 1
                 ELSE IF x[1] = "DictGone" /\ dicts[x[2]].sub = d THEN -1 ELSE 0)
<1>1. PICK A : A = Heirs(d)
  OBVIOUS
<1>2. PICK B : B = Heirs(d)'
  OBVIOUS
<1>3. /\ A \subseteq Dict /\ B \subseteq Dict
      /\ \A e \in Dict : e \in B <=> \/ x[1] = "SetSub" /\ x[2] = <<e, d>>
                                     \/ e \in A /\ ~(x[1] = "DictGone" /\ x[2] = e)
      /\ x[1] = "SetSub" => x[2][1] \notin A
      /\ x[1] = "DictGone" => (x[2] \in A <=> dicts[x[2]].sub = d)
  <2>1. \A e \in Dict : (e \in A <=> Heir(e, d)) /\ (e \in B <=> Heir(e, d)')
    BY <1>1, <1>2 DEF Heirs
  <2>2. A \subseteq Dict /\ B \subseteq Dict
    BY <1>1, <1>2 DEF Heirs
  <2>3. /\ \A e \in Dict : Heir(e, d)' <=> \/ x[1] = "SetSub" /\ x[2] = <<e, d>>
                                           \/ Heir(e, d) /\ ~(x[1] = "DictGone" /\ x[2] = e)
        /\ x[1] = "SetSub" => ~Heir(x[2][1], d)
        /\ x[1] = "DictGone" => (Heir(x[2], d) <=> dicts[x[2]].sub = d)
    BY DEF HeirsBy
  <2>4. (x[1] = "SetSub" => x[2][1] \in Dict) /\ (x[1] = "DictGone" => x[2] \in Dict)
    BY DEF Typed
  <2> QED
    BY <2>1, <2>2, <2>3, <2>4
<1>4. Cardinality(A) \in Nat /\ IsFiniteSet(A)
  BY <1>1, FS_CardinalityType
<1>5. CASE x[1] = "SetSub" /\ x[2][2] = d
  <2>1. x[2][1] \in Dict /\ x[2] = <<x[2][1], d>>
    BY <1>5 DEF Typed
  <2>2. B = A \cup {x[2][1]} /\ x[2][1] \notin A
    BY <1>3, <1>5, <2>1
  <2>3. IsFiniteSet(B) /\ Cardinality(B) = Cardinality(A) + 1
    BY <1>4, <2>2, FS_AddElement
  <2> QED
    BY <1>1, <1>2, <1>5, <2>3
<1>6. CASE x[1] = "DictGone" /\ dicts[x[2]].sub = d
  <2>1. x[2] \in Dict /\ x[2] \in A
    BY <1>3, <1>6 DEF Typed
  <2>2. B = A \ {x[2]}
    BY <1>3, <1>6, <2>1
  <2>3. IsFiniteSet(B) /\ Cardinality(B) = Cardinality(A) - 1
    BY <1>4, <2>1, <2>2, FS_RemoveElement
  <2> QED
    BY <1>1, <1>2, <1>4, <1>6, <2>3
<1>7. CASE ~(x[1] = "SetSub" /\ x[2][2] = d) /\ ~(x[1] = "DictGone" /\ dicts[x[2]].sub = d)
  <2>1. B = A
    <3>1. \A e \in Dict : x[2] = <<e, d>> => x[2][2] = d
      OBVIOUS
    <3> QED
      BY <1>3, <1>7, <3>1
  <2> QED
    BY <1>1, <1>2, <1>4, <1>7, <2>1
<1> QED
  BY <1>5, <1>6, <1>7

LEMMA CountedKept ==
  ASSUME NEW F, NEW k, Placed(F, k), WellTyped, Life, NEW rank, Births(rank),
         NEW H, Ledger(H), Counted(H), NEW t \in Thread, NEW b, Turn(t, b), NEW x, x = code[t][1], Sure(x),
         NEW n, NEW m, Sizes(t, b, n, m), NEW G, Ledger(G)', HandedOn(H, G, t, n, m, x)
  PROVE  Counted(G)'
<1>1. /\ Turns(t, b) /\ ChangesDicts(x[1], x[2])
      /\ n \in Nat \ {0} /\ n \in 1 .. n /\ x = Nth(code[t], n) /\ n = Len(code[t])
  BY TurnFacts DEF Changes, Sizes
<1>2. Typed(x) /\ dicts \in [Dict -> [refs : Nat, sub : Dict \cup {NoDict}, freed : BOOLEAN]]
  BY <1>1 DEF WellTyped
<1>3. Becomes(x)
  BY <1>1, <1>2, DictChanges
<1> SUFFICES ASSUME NEW d \in Dict
             PROVE  /\ IsFiniteSet(Owned(InHand(G, d)')) /\ IsFiniteSet(Heirs(d)')
                    /\ dicts'[d].refs = Cardinality(Owned(InHand(G, d)')) + Cardinality(Heirs(d)')
  BY DEF Counted, Owned
<1>4. PICK g : g = InHand(H, d)
  OBVIOUS
<1>5. PICK h : h = InHand(G, d)'
  OBVIOUS
<1>6. HandBy(g, h, t, Has(H), x, d)
  BY <1>4, <1>5, HandNext
<1>7. HeirsBy(x, d)
  BY HeirsNext
<1>8. PICK a, c : a = Cardinality(Owned(g)) /\ c = Cardinality(Heirs(d))
  OBVIOUS
<1>9. /\ IsFiniteSet(Owned(g)) /\ IsFiniteSet(Heirs(d)) /\ dicts[d].refs = a + c
      /\ a \in Nat /\ c \in Nat
  BY <1>4, <1>8, FS_CardinalityType DEF Counted
<1>10. /\ IsFiniteSet(Owned(h))
       /\ Cardinality(Owned(h)) = a + (IF x[1] = "Spawn" THEN 0 ELSE Delta(Has(H), x, d))
  BY <1>2, <1>6, <1>8, <1>9, OwnedNext
<1>11. /\ IsFiniteSet(Heirs(d)')
       /\ Cardinality(Heirs(d)') = c + (IF x[1] = "SetSub" /\ x[2][2] = d THEN 1
                                        ELSE IF x[1] = "DictGone" /\ dicts[x[2]].sub = d THEN -1 ELSE 0)
  BY <1>2, <1>7, <1>8, <1>9, HeirsCount
<1>12. dicts'[d].refs = IF x[1] = "NewDict" /\ x[2] = d THEN 1
                        ELSE IF x[1] = "WriteRefs" /\ x[2][1] = d THEN x[2][2]
                        ELSE dicts[d].refs
  BY <1>3 DEF Becomes
<1>13. ASSUME x[1] = "NewDict", x[2] = d PROVE dicts[d].refs = 0
  <2>1. PICK S : S = MakersOf(d)
    OBVIOUS
  <2>2. Key(x) \in S
    BY <1>13, <2>1, KeyIn
  <2>3. ~Absent(S)
    BY <1>1, <2>2, HeadThere
  <2> QED
    BY <2>1, <2>3 DEF Life, LifeOf
<1>14. dicts'[d].refs = Cardinality(Owned(h)) + Cardinality(Heirs(d)')
  <2>1. CASE x[1] \notin {"NewDict", "SetSub", "WriteRefs", "Spawn", "DictGone"}
    BY <1>9, <1>10, <1>11, <1>12, <2>1 DEF Delta
  <2>2. CASE x[1] = "NewDict"
    BY <1>9, <1>10, <1>11, <1>12, <1>13, <2>2 DEF Delta
  <2>3. CASE x[1] = "SetSub"
    BY <1>9, <1>10, <1>11, <1>12, <2>3 DEF Delta
  <2>4. CASE x[1] = "WriteRefs"
    <3>1. x[2][2] \in Nat
      BY <1>2, <2>4 DEF Typed
    <3> QED
      BY <1>9, <1>10, <1>11, <1>12, <2>4, <3>1 DEF Delta
  <2>5. CASE x[1] = "Spawn"
    BY <1>9, <1>10, <1>11, <1>12, <2>5
  <2>6. CASE x[1] = "DictGone"
    BY <1>9, <1>10, <1>11, <1>12, <2>6 DEF Delta
  <2> QED
    BY <2>1, <2>2, <2>3, <2>4, <2>5, <2>6
<1> QED
  BY <1>5, <1>10, <1>11, <1>14
-----------------------------------------------------------------------------
(* Whoever takes a reference has one already.                              *)

\* With r calls left t counts on d, or on one that inherits from d or is about to.
Covered(H, t, r, d) ==
  \/ H[t][r][d] > 0
  \/ \E e \in Dict :
       /\ H[t][r][e] > 0
       /\ \/ dicts[e].sub = d
          \/ r < Len(code[t]) /\ Nth(code[t], r + 1)[1] = "SetSub" /\ Nth(code[t], r + 1)[2] = <<e, d>>

\* What t counts on when it calls x with r calls left.
Backed(H, t, r, x) ==
  /\ x[1] = "DictReference" => Covered(H, t, r, x[2])
  /\ x[1] = "ReadRefs" /\ x[2][2] = 1 => Covered(H, t, r, x[2][1])
  /\ x[1] = "WriteRefs" => \/ x[2][2] = dicts[x[2][1]].refs + 1 /\ Covered(H, t, r, x[2][1])
                           \/ x[2][2] = dicts[x[2][1]].refs - 1
  /\ x[1] = "SetSub" => H[t][r][x[2][1]] > 0
  /\ x[1] = "DictCreateSub" => H[t][r][x[2][2]] > 0

Backing(H) == \A t \in Thread : \A r \in 1 .. Len(code[t]) : Backed(H, t, r, Nth(code[t], r))

\* Who inherits goes on to.
LEMMA SubStays ==
  ASSUME WellTyped, Life, NEW t \in Thread, NEW b, Turn(t, b), NEW x, x = code[t][1],
         NEW d \in Dict, NEW e \in Dict
  PROVE  dicts[e].sub = d \/ (x[1] = "SetSub" /\ x[2] = <<e, d>>) => dicts'[e].sub = d
<1>1. PICK n, m : n = Len(code[t]) /\ m = Len(b)
  OBVIOUS
<1>2. /\ Turns(t, b) /\ ChangesDicts(x[1], x[2])
      /\ n \in Nat \ {0} /\ n \in 1 .. n /\ x = Nth(code[t], n)
  BY <1>1, TurnFacts DEF Changes
<1>3. Typed(x) /\ dicts \in [Dict -> [refs : Nat, sub : Dict \cup {NoDict}, freed : BOOLEAN]]
  BY <1>1, <1>2 DEF WellTyped
<1>4. Becomes(x)
  BY <1>2, <1>3, DictChanges
<1>5. dicts'[e].sub = IF x[1] = "NewDict" /\ x[2] = e THEN NoDict
                      ELSE IF x[1] = "SetSub" /\ x[2][1] = e THEN x[2][2]
                      ELSE dicts[e].sub
  BY <1>4 DEF Becomes
<1>6. d # NoDict
  BY LibraryAssumption
<1>7. ASSUME x[1] = "NewDict" /\ x[2] = e PROVE dicts[e].sub = NoDict
  <2>1. PICK S : S = MakersOf(e)
    OBVIOUS
  <2>2. Key(x) \in S
    BY <1>7, <2>1, KeyIn
  <2>3. ~Absent(S)
    BY <1>2, <2>2, HeadThere
  <2> QED
    BY <2>1, <2>3 DEF Life, LifeOf
<1>8. ASSUME x[1] = "SetSub" /\ x[2][1] = e PROVE dicts[e].sub = NoDict
  <2>1. PICK S : S = LinksOf(e)
    OBVIOUS
  <2>2. x[2] \in {e} \X Dict
    BY <1>3, <1>8 DEF Typed
  <2>3. Key(x) \in S
    BY <1>8, <2>1, <2>2, KeyIn
  <2>4. ~Absent(S)
    BY <1>2, <2>3, HeadThere
  <2> QED
    BY <2>1, <2>4 DEF Life, LifeOf
<1>9. CASE x[1] = "SetSub" /\ x[2] = <<e, d>>
  BY <1>5, <1>9
<1>10. CASE dicts[e].sub = d
  BY <1>5, <1>6, <1>7, <1>8, <1>10
<1> QED
  BY <1>9, <1>10

\* The calls that x makes.
LEMMA BackedBodies ==
  ASSUME dicts \in [Dict -> [refs : Nat, sub : Dict \cup {NoDict}, freed : BOOLEAN]],
         NEW H, NEW G, NEW t \in Thread, NEW b, NEW x, Typed(x), Expands(x[1], x[2], b),
         x[1] \in Opening => dicts' = dicts,
         NEW n, NEW m, Leaves(code[t], code'[t], b, n, m), Backed(H, t, n, x),
         HandedOn(H, G, t, n, m, x), NEW i \in 1 .. Len(b), NEW r, r = (n + m) - i
  PROVE  Backed(G, t, r, b[i])'
<1>1. /\ n \in Nat \ {0} /\ m \in Nat /\ Len(code[t]) = n /\ Len(code'[t]) = (n - 1) + m /\ Len(b) = m
      /\ \A j \in 1 .. m : Nth(code'[t], (n + m) - j) = b[j]
  BY DEF Leaves
<1>2. CASE x[1] \notin Opening
  <2>1. Aside(b[i])
    BY <1>2, AsideBodies
  <2> QED
    BY <2>1 DEF Aside, Backed, DictCalls
<1>3. CASE x[1] \in {"DictCreate", "DictFree", "IfLast", "DictGone"}
  <2>1. /\ b[i][1] \notin {"DictReference", "WriteRefs", "SetSub", "DictCreateSub"}
        /\ b[i][1] = "ReadRefs" => b[i][2][2] = -1
    <3>1. CASE x[1] = "DictCreate"
      <4>1. Is4(b, <<"InitParser">>, <<"NewDict", x[2]>>, Lock("dict"), Unlock("dict"))
        BY <3>1, DictBodies DEF Opening
      <4> QED
        BY <4>1, Little DEF Is4, Lock, Unlock
    <3>2. CASE x[1] = "DictFree"
      <4>1. Is3(b, Lock("dict"), <<"ReadRefs", <<x[2], -1>>>>, <<"IfLast", x[2]>>)
        BY <3>2, DictBodies DEF Opening
      <4> QED
        BY <4>1, Little DEF Is3, Lock
    <3>3. CASE x[1] = "IfLast"
      <4>1. Is1(b, Unlock("dict")) \/ Is2(b, Unlock("dict"), <<"DictGone", x[2]>>)
        BY <3>3, DictBodies DEF Opening
      <4> QED
        BY <4>1, Little DEF Is1, Is2, Unlock
    <3>4. CASE x[1] = "DictGone"
      <4>1. Is1(b, <<"FreeDict", x[2]>>) \/ Is2(b, <<"DictFree", dicts[x[2]].sub>>, <<"FreeDict", x[2]>>)
        BY <3>4, DictBodies DEF Opening
      <4> QED
        BY <4>1, Little DEF Is1, Is2
    <3> QED
      BY <1>3, <3>1, <3>2, <3>3, <3>4
  <2> QED
    BY <2>1 DEF Backed
<1>4. CASE x[1] = "DictCreateSub"
  <2>1. PICK e, f : e = x[2][1] /\ f = x[2][2]
    OBVIOUS
  <2>2. Is3(b, <<"DictCreate", e>>, <<"SetSub", <<e, f>>>>, <<"DictReference", f>>)
    BY <1>4, <2>1, DictBodies DEF Opening
  <2>3. m = 3 /\ G[t][n + 1][e] > 0 /\ G[t][n][e] > 0 /\ e \in Dict
    BY <1>1, <1>4, <2>1, <2>2 DEF HandedOn, Is3, Typed
  <2>4. CASE i = 1
    <3>1. b[i] = <<"DictCreate", e>>
      BY <2>2, <2>4 DEF Is3
    <3> QED
      BY <3>1 DEF Backed
  <2>5. CASE i = 2
    <3>1. b[i] = <<"SetSub", <<e, f>>>>
      BY <2>2, <2>5 DEF Is3
    <3>2. r = n + 1
      BY <1>1, <2>3, <2>5
    <3> QED
      BY <2>3, <3>1, <3>2 DEF Backed
  <2>6. CASE i = 3
    <3>1. b[i] = <<"DictReference", f>> /\ b[2] = <<"SetSub", <<e, f>>>>
      BY <2>2, <2>6 DEF Is3
    <3>2. r = n /\ (n + m) - 2 = n + 1 /\ 2 \in 1 .. m /\ n < Len(code'[t])
      BY <1>1, <2>3, <2>6
    <3>3. Nth(code'[t], n + 1) = <<"SetSub", <<e, f>>>>
      BY <1>1, <3>1, <3>2
    <3>4. Covered(G, t, r, f)'
      BY <2>3, <3>2, <3>3 DEF Covered, Nth
    <3> QED
      BY <3>1, <3>4 DEF Backed, Covered
  <2> QED
    BY <1>1, <2>3, <2>4, <2>5, <2>6, Little
<1>5. CASE x[1] = "DictReference"
  <2>1. Is3(b, Lock("dict"), <<"ReadRefs", <<x[2], 1>>>>, Unlock("dict"))
    BY <1>5, DictBodies DEF Opening
  <2>2. CASE i # 2
    <3>1. b[i][1] \in LockCalls
      BY <2>1, <2>2, Little DEF Is3, Lock, Unlock, LockCalls
    <3> QED
      BY <3>1 DEF Backed, LockCalls
  <2>3. CASE i = 2
    <3>1. b[i] = <<"ReadRefs", <<x[2], 1>>>>
      BY <2>1, <2>3 DEF Is3
    <3>2. m = 3 /\ r = n + 1 /\ ~(n < n)
      BY <1>1, <2>1, <2>3 DEF Is3
    <3>3. G[t][r] = H[t][n] /\ Covered(H, t, n, x[2]) /\ dicts' = dicts
      BY <1>5, <3>2 DEF HandedOn, Backed, Opening
    <3>4. Covered(G, t, r, x[2])'
      BY <1>1, <3>2, <3>3 DEF Covered
    <3> QED
      BY <3>1, <3>4 DEF Backed, Covered
  <2> QED
    BY <2>2, <2>3
<1>6. CASE x[1] = "ReadRefs"
  <2>1. PICK d, by : d = x[2][1] /\ by = x[2][2]
    OBVIOUS
  <2>2. Is1(b, <<"WriteRefs", <<d, dicts[d].refs + by>>>>)
    BY <1>6, <2>1, DictBodies DEF Opening
  <2>3. m = 1 /\ r = n /\ b[i] = <<"WriteRefs", <<d, dicts[d].refs + by>>>> /\ ~(n < n)
    BY <1>1, <2>2, Little DEF Is1
  <2>4. G[t][n] = H[t][n] /\ dicts' = dicts /\ d \in Dict /\ by \in {1, -1}
    BY <1>6, <2>1 DEF HandedOn, Opening, Typed
  <2>5. CASE by = 1
    <3>1. Covered(H, t, n, d)
      BY <1>6, <2>1, <2>5 DEF Backed
    <3>2. Covered(G, t, r, d)'
      BY <1>1, <2>3, <2>4, <3>1 DEF Covered
    <3> QED
      BY <2>3, <2>4, <2>5, <3>2 DEF Backed, Covered
  <2>6. CASE by = -1
    <3>1. dicts[d].refs + by = dicts'[d].refs - 1
      BY <2>4, <2>6
    <3> QED
      BY <2>3, <3>1 DEF Backed
  <2> QED
    BY <2>4, <2>5, <2>6
<1> QED
  BY <1>2, <1>3, <1>4, <1>5, <1>6 DEF Opening

LEMMA BackingKept ==
  ASSUME NEW F, NEW k, Placed(F, k), WellTyped, Locks, Life, AllSure,
         NEW H, Backing(H), NEW t \in Thread, NEW b, Turn(t, b), NEW x, x = code[t][1],
         NEW n, NEW m, Sizes(t, b, n, m), NEW G, HandedOn(H, G, t, n, m, x), WellTyped'
  PROVE  Backing(G)'
<1>1. /\ Leaves(code[t], code'[t], b, n, m) /\ Expands(x[1], x[2], b) /\ ChangesDicts(x[1], x[2])
      /\ n \in Nat \ {0} /\ n \in 1 .. n /\ x = Nth(code[t], n) /\ n = Len(code[t])
      /\ \A u \in Thread \ {t} : code'[u] = code[u]
  BY TurnFacts DEF Changes, Sizes
<1>2. Typed(x) /\ dicts \in [Dict -> [refs : Nat, sub : Dict \cup {NoDict}, freed : BOOLEAN]]
  BY <1>1 DEF WellTyped
<1>3. x[1] \in Opening => dicts' = dicts
  BY <1>1 DEF ChangesDicts, Opening
<1>4. Backed(H, t, n, x)
  BY <1>1 DEF Backing
<1>5. \A d, e \in Dict : dicts[e].sub = d \/ (x[1] = "SetSub" /\ x[2] = <<e, d>>) => dicts'[e].sub = d
  BY SubStays
<1>6. /\ \A q \in 1 .. n - 1 : Nth(code'[t], q) = Nth(code[t], q)
      /\ \A q \in Nat : q < n => G[t][q] = H[t][q]
      /\ \A u \in Thread \ {t} : G[u] = H[u]
      /\ m \in Nat /\ Len(code'[t]) = (n - 1) + m
  BY <1>1 DEF Leaves, HandedOn
<1>7. ASSUME NEW u \in Thread, NEW r \in 1 .. Len(code[u]), u = t => r \in 1 .. n - 1
      PROVE  Backed(G, u, r, Nth(code[u], r))'
  <2>1. PICK y : y = Nth(code[u], r)
    OBVIOUS
  <2>2. Backed(H, u, r, y) /\ Typed(y)
    BY <2>1 DEF Backing, WellTyped
  <2>3. G[u][r] = H[u][r]
    <3>1. CASE u = t
      <4>1. r \in Nat /\ r < n
        BY <1>1, <1>7, <3>1
      <4> QED
        BY <1>6, <3>1, <4>1
    <3>2. CASE u # t
      BY <1>6, <3>2
    <3> QED
      BY <3>1, <3>2
  <2>4. r < Len(code[u]) => \/ r < Len(code'[u]) /\ Nth(code'[u], r + 1) = Nth(code[u], r + 1)
                            \/ Nth(code[u], r + 1) = x
    <3>1. CASE u # t
      BY <1>1, <3>1
    <3>2. CASE u = t
      <4>1. r + 1 \in 1 .. n - 1 \/ r + 1 = n
        BY <1>1, <1>7, <3>2
      <4>2. CASE r + 1 = n
        BY <1>1, <3>2, <4>2
      <4>3. CASE r + 1 \in 1 .. n - 1
        <5>1. r < (n - 1) + m
          BY <1>1, <1>6, <1>7, <3>2, <4>3
        <5> QED
          BY <1>6, <3>2, <4>3, <5>1
      <4> QED
        BY <4>1, <4>2, <4>3
    <3> QED
      BY <3>1, <3>2
  <2>5. ASSUME NEW d \in Dict, Covered(H, u, r, d) PROVE Covered(G, u, r, d)'
    <3>1. CASE H[u][r][d] > 0
      BY <2>3, <3>1 DEF Covered
    <3>2. CASE ~(H[u][r][d] > 0)
      <4>1. PICK e \in Dict :
               /\ H[u][r][e] > 0
               /\ \/ dicts[e].sub = d
                  \/ r < Len(code[u]) /\ Nth(code[u], r + 1)[1] = "SetSub" /\ Nth(code[u], r + 1)[2] = <<e, d>>
        BY <2>5, <3>2 DEF Covered
      <4>2. G[u][r][e] > 0
        BY <2>3, <4>1
      <4>3. \/ dicts'[e].sub = d
            \/ r < Len(code'[u]) /\ Nth(code'[u], r + 1)[1] = "SetSub" /\ Nth(code'[u], r + 1)[2] = <<e, d>>
        BY <1>5, <2>4, <4>1
      <4> QED
        BY <4>2, <4>3 DEF Covered, Nth
    <3> QED
      BY <3>1, <3>2
  <2>6. y[1] = "WriteRefs" => dicts'[y[2][1]].refs = dicts[y[2][1]].refs
    <3>1. u = t => r # Len(code[u])
      BY <1>1, <1>7
    <3> QED
      BY <2>1, <3>1, NobodyWrites
  <2>7. /\ y[1] = "DictReference" => y[2] \in Dict
        /\ y[1] \in {"ReadRefs", "WriteRefs"} => y[2][1] \in Dict
    BY <2>2 DEF Typed
  <2>8. Nth(code'[u], r) = y
    BY <1>1, <1>6, <1>7, <2>1
  <2>9. /\ y[1] = "DictReference" => Covered(G, u, r, y[2])'
        /\ y[1] = "ReadRefs" /\ y[2][2] = 1 => Covered(G, u, r, y[2][1])'
        /\ y[1] = "WriteRefs" => \/ y[2][2] = dicts'[y[2][1]].refs + 1 /\ Covered(G, u, r, y[2][1])'
                                 \/ y[2][2] = dicts'[y[2][1]].refs - 1
        /\ y[1] = "SetSub" => G[u][r][y[2][1]] > 0
        /\ y[1] = "DictCreateSub" => G[u][r][y[2][2]] > 0
    BY <2>2, <2>3, <2>5, <2>6, <2>7 DEF Backed
  <2> QED
    BY <2>8, <2>9 DEF Backed, Covered, Nth
<1>8. ASSUME NEW u \in Thread, NEW r \in 1 .. Len(code'[u]) PROVE Backed(G, u, r, Nth(code[u], r))'
  <2>1. CASE u # t \/ r \in 1 .. n - 1
    <3>1. r \in 1 .. Len(code[u]) /\ (u = t => r \in 1 .. n - 1)
      BY <1>1, <1>8, <2>1
    <3> QED
      BY <1>7, <3>1
  <2>2. CASE u = t /\ r \notin 1 .. n - 1
    <3>1. PICK i \in 1 .. m : r = (n + m) - i /\ Nth(code'[t], r) = b[i]
      BY <1>1, <1>8, <2>2 DEF Leaves
    <3>2. i \in 1 .. Len(b)
      BY <3>1 DEF Sizes
    <3>3. Backed(G, t, r, b[i])'
      BY <1>1, <1>2, <1>3, <1>4, <3>1, <3>2, BackedBodies
    <3> QED
      BY <2>2, <3>1, <3>3 DEF Backed, Covered, Nth
  <2> QED
    BY <2>1, <2>2
<1> QED
  BY <1>8 DEF Backing, Backed, Covered, Nth
-----------------------------------------------------------------------------
(* Whoever is about to act on a dictionary is sure of it.                  *)

\* A dictionary is counted on by whom it was handed to, ...
LEMMA HandedThenCounted ==
  ASSUME Listed, NEW H, Ledger(H), Counted(H), NEW u \in Thread, Born(u), NEW d \in Dict, H[u][Len(code[u])][d] > 0
  PROVE  dicts[d].refs > 0
<1>1. PICK g : g = InHand(H, d)
  OBVIOUS
<1>2. \A v \in Thread : Len(code[v]) \in Nat
  BY CallListFacts DEF Listed
<1>3. H \in [Thread -> [Nat -> [Dict -> Nat]]]
  BY DEF Ledger
<1>4. ASSUME NEW v \in Thread PROVE H[v][Len(code[v])][d] \in Nat
  <2>1. Len(code[v]) \in Nat
    BY <1>2
  <2>2. H[v] \in [Nat -> [Dict -> Nat]]
    BY <1>3
  <2> QED
    BY <2>1, <2>2
<1>5. g \in [Thread -> Nat]
  BY <1>1, <1>4 DEF InHand
<1>7. g[u] > 0
  BY <1>1 DEF InHand
<1>8. <<u, 0>> \in Owned(g)
  <2>1. 0 \in Nat /\ 0 < g[u]
    BY <1>5, <1>7
  <2> QED
    BY <1>5, <2>1, OwnedPairs
<1>9. PICK a, c : a = Cardinality(Owned(g)) /\ c = Cardinality(Heirs(d))
  OBVIOUS
<1>10. IsFiniteSet(Owned(g)) /\ IsFiniteSet(Heirs(d)) /\ dicts[d].refs = a + c
  BY <1>1, <1>9 DEF Counted
<1>11. a \in Nat /\ c \in Nat /\ a # 0
  BY <1>8, <1>9, <1>10, FS_CardinalityType, FS_EmptySet
<1> QED
  BY <1>10, <1>11

\* ... and by those that inherit from it.
LEMMA InheritedThenCounted ==
  ASSUME Life, NEW H, Counted(H), WellTyped, NEW e \in Dict, NEW d \in Dict,
         dicts[e].sub = d, dicts[e].refs > 0
  PROVE  dicts[d].refs > 0
<1>1. dicts[e].refs # 0
  BY DEF WellTyped
<1>2. ~dicts[e].freed /\ Absent(EndsOf(e))
  BY <1>1 DEF Life, LifeOf
<1>3. Absent({<<"FreeDict", e>>})
  <2>1. \A y : Key(y) \in {<<"FreeDict", e>>} => Key(y) \in EndsOf(e)
    BY KeyIn
  <2> QED
    BY <1>2, <2>1 DEF Absent
<1>4. e \in Heirs(d)
  BY <1>2, <1>3 DEF Heirs, Heir
<1>5. PICK a, c : a = Cardinality(Owned(InHand(H, d))) /\ c = Cardinality(Heirs(d))
  OBVIOUS
<1>6. IsFiniteSet(Owned(InHand(H, d))) /\ IsFiniteSet(Heirs(d)) /\ dicts[d].refs = a + c
  BY <1>5 DEF Counted
<1>7. a \in Nat /\ c \in Nat /\ c # 0
  BY <1>4, <1>5, <1>6, FS_CardinalityType, FS_EmptySet
<1> QED
  BY <1>6, <1>7

LEMMA EverybodySure ==
  ASSUME Listed, WellTyped, Life, NEW rank, Births(rank), NEW H, Ledger(H), Counted(H), Backing(H)
  PROVE  AllSure
<1> SUFFICES ASSUME NEW u \in Thread, id[u] # 0, Len(code[u]) > 0,
                    NEW x, x = Nth(code[u], Len(code[u]))
             PROVE  Sure(x)
  BY DEF AllSure
<1>1. PICK n : n = Len(code[u])
  OBVIOUS
<1>2. n \in Nat \ {0} /\ n \in 1 .. n /\ n - 1 \in Nat
  <2>1. n \in Nat /\ n > 0
    BY <1>1, CallListFacts DEF Listed
  <2> QED
    BY <2>1
<1>3. Typed(x) /\ Backed(H, u, n, x)
  BY <1>1, <1>2 DEF WellTyped, Backing
<1>4. dicts \in [Dict -> [refs : Nat, sub : Dict \cup {NoDict}, freed : BOOLEAN]]
  BY DEF WellTyped
<1>5. \A d \in Dict : H[u][n][d] > 0 => dicts[d].refs > 0
  BY <1>1, Unborn, HandedThenCounted
<1>6. ASSUME NEW d \in Dict, Covered(H, u, n, d) PROVE dicts[d].refs > 0
  <2>1. CASE H[u][n][d] > 0
    BY <1>5, <2>1
  <2>2. CASE ~(H[u][n][d] > 0)
    <3>1. PICK e \in Dict : H[u][n][e] > 0 /\ dicts[e].sub = d
      BY <1>1, <1>2, <1>6, <2>2 DEF Covered
    <3> QED
      BY <1>5, <3>1, InheritedThenCounted
  <2> QED
    BY <2>1, <2>2
<1>7. ASSUME x[1] = "ReadRefs" PROVE dicts[x[2][1]].refs > 0
  <2>1. PICK d : d = x[2][1]
    OBVIOUS
  <2>2. d \in Dict /\ x[2][2] \in {1, -1}
    BY <1>3, <1>7, <2>1 DEF Typed
  <2>3. CASE x[2][2] = 1
    BY <1>3, <1>6, <1>7, <2>1, <2>2, <2>3 DEF Backed
  <2>4. CASE x[2][2] = -1
    <3>1. H[u][n - 1][d] = H[u][n][d] + Gain(Has(H), dicts, x, d)
      BY <1>1, <1>2, <2>2 DEF Ledger
    <3>2. Gain(Has(H), dicts, x, d) = -1
      BY <1>7, <2>1, <2>4 DEF Gain, Plus
    <3>3. H[u][n - 1][d] \in Nat /\ H[u][n][d] \in Nat
      <4>1. H[u] \in [Nat -> [Dict -> Nat]]
        BY DEF Ledger
      <4> QED
        BY <1>2, <2>2, <4>1
    <3>4. H[u][n][d] > 0
      BY <3>1, <3>2, <3>3
    <3> QED
      BY <1>5, <2>1, <2>2, <3>4
  <2> QED
    BY <2>2, <2>3, <2>4
<1>8. ASSUME x[1] = "WriteRefs"
      PROVE  /\ dicts[x[2][1]].refs > 0
             /\ \/ x[2][2] = dicts[x[2][1]].refs + 1
                \/ x[2][2] = dicts[x[2][1]].refs - 1
  <2>1. PICK d : d = x[2][1]
    OBVIOUS
  <2>2. d \in Dict /\ x[2][2] \in Nat /\ dicts[d].refs \in Nat
    BY <1>3, <1>4, <1>8, <2>1 DEF Typed
  <2>3. \/ x[2][2] = dicts[d].refs + 1 /\ Covered(H, u, n, d)
        \/ x[2][2] = dicts[d].refs - 1
    BY <1>3, <1>8, <2>1 DEF Backed
  <2>4. CASE x[2][2] = dicts[d].refs + 1 /\ Covered(H, u, n, d)
    BY <1>6, <2>1, <2>2, <2>4
  <2>5. CASE x[2][2] = dicts[d].refs - 1
    <3>1. dicts[d].refs > 0
      BY <2>2, <2>5
    <3> QED
      BY <2>1, <2>5, <3>1
  <2> QED
    BY <2>3, <2>4, <2>5
<1>9. ASSUME x[1] = "SetSub" PROVE dicts[x[2][1]].refs > 0
  <2>1. x[2][1] \in Dict /\ H[u][n][x[2][1]] > 0
    BY <1>3, <1>9 DEF Typed, Backed
  <2> QED
    BY <1>5, <2>1
<1> QED
  BY <1>7, <1>8, <1>9 DEF Sure
-----------------------------------------------------------------------------
(* The invariant, kept by every step.                                      *)

\* The references add up, by a list of what each thread has.
Balanced(H, rank) ==
  /\ rank \in [Thread \cup Dict -> Nat] /\ WellTyped /\ Locks /\ Life
  /\ Births(rank) /\ Ledger(H) /\ Counted(H) /\ Backing(H)

DictInv == \E H, rank : Balanced(H, rank)

LEMMA TurnBalanced ==
  ASSUME NEW F, NEW k, Placed(F, k), NEW H, NEW rank, Balanced(H, rank), NEW t \in Thread, NEW b, Turn(t, b)
  PROVE  DictInv'
<1>1. PICK x, n, m : x = code[t][1] /\ n = Len(code[t]) /\ m = Len(b)
  OBVIOUS
<1>2. /\ Turns(t, b) /\ ChangesThreads(t, x[1], x[2])
      /\ n \in Nat \ {0} /\ n \in 1 .. n /\ x = Nth(code[t], n)
  BY <1>1, TurnFacts DEF Changes
<1>3. Sizes(t, b, n, m) /\ Listed
  BY <1>1, <1>2 DEF Sizes, Turns
<1>4. /\ rank \in [Thread \cup Dict -> Nat] /\ WellTyped /\ Locks /\ Life
      /\ Births(rank) /\ Ledger(H) /\ Counted(H) /\ Backing(H)
  BY DEF Balanced
<1>5. AllSure
  BY <1>3, <1>4, EverybodySure
<1>6. Sure(x)
  <2>1. n > 0 /\ id[t] # 0
    BY <1>2 DEF ChangesThreads
  <2> QED
    BY <1>1, <1>2, <1>5, <2>1 DEF AllSure
<1>7. x[1] = "DictCreateSub" => H[t][n][x[2][2]] > 0
  BY <1>1, <1>2, <1>4 DEF Backing, Backed
<1>8. PICK G : Ledger(G)' /\ HandedOn(H, G, t, n, m, x)
  BY <1>1, <1>3, <1>4, <1>5, <1>7, LedgerKept
<1>9. WellTyped'
  BY <1>1, <1>4, <1>6, TypedKept
<1>10. Locks'
  BY <1>4, LocksKept
<1>11. Life'
  BY <1>1, <1>4, <1>6, LifeKept
<1>12. Births(rank)'
  BY <1>4, <1>9, BirthsKept
<1>13. Counted(G)'
  BY <1>1, <1>3, <1>4, <1>6, <1>8, CountedKept
<1>14. Backing(G)'
  BY <1>1, <1>3, <1>4, <1>5, <1>8, <1>9, BackingKept
<1>15. Balanced(G, rank)'
  BY <1>4, <1>8, <1>9, <1>10, <1>11, <1>12, <1>13, <1>14 DEF Balanced
<1> QED
  BY <1>15 DEF DictInv, Balanced

LEMMA RestBalanced ==
  ASSUME Listed, NEW H, NEW rank, Balanced(H, rank), Stays
  PROVE  DictInv'
<1>1. /\ threaded' = threaded /\ code' = code /\ mutex' = mutex /\ lib' = lib /\ dicts' = dicts
      /\ \A t \in Thread : id'[t] = id[t] \/ (code[t] = <<>> /\ id'[t] = 0)
  BY DEF Stays
<1>2. /\ rank \in [Thread \cup Dict -> Nat] /\ WellTyped /\ Locks /\ Life
      /\ Births(rank) /\ Ledger(H) /\ Counted(H) /\ Backing(H)
  BY DEF Balanced
<1>3. WellTyped'
  BY <1>1, <1>2 DEF WellTyped, Typed, Nth
<1>4. Locks'
  <2>1. ASSUME NEW t \in Thread, Counting(code[t])
        PROVE  id'[t] # 0 /\ lib.initialized /\ (threaded => mutex["dict"] = t)
    <3>1. code[t] # <<>>
      <4>1. ~(0 > 0)
        OBVIOUS
      <4> QED
        BY <2>1, <4>1, EmptyList DEF Counting
    <3> QED
      BY <1>1, <1>2, <2>1, <3>1 DEF Locks
  <2>2. \A t \in Thread : Sequenced(lib, code[t])
    BY <1>2 DEF Locks
  <2> QED
    BY <1>1, <2>1, <2>2 DEF Locks
<1>5. Life'
  <2> SUFFICES ASSUME NEW d \in Dict PROVE LifeOf(d)'
    BY DEF Life
  <2>1. PICK M, L, E : M = MakersOf(d) /\ L = LinksOf(d) /\ E = EndsOf(d)
    OBVIOUS
  <2>2. \A S : (Absent(S)' <=> Absent(S)) /\ (AtMostOne(S)' <=> AtMostOne(S))
    BY <1>1 DEF Absent, AtMostOne, Key
  <2>3. M = MakersOf(d)' /\ L = LinksOf(d)' /\ E = EndsOf(d)'
    BY <2>1 DEF MakersOf, LinksOf, EndsOf
  <2>4. LifeOf(d)
    BY <1>2 DEF Life
  <2>5. /\ Once(d)'
        /\ ~Absent(M)' => /\ dicts[d].refs = 0 /\ ~dicts[d].freed /\ dicts[d].sub = NoDict
                          /\ Absent(E)'
        /\ ~Absent(L)' => dicts[d].sub = NoDict
        /\ ~Absent(E)' => dicts[d].refs = 0 /\ ~dicts[d].freed
        /\ dicts[d].freed => dicts[d].refs = 0
    BY <2>1, <2>2, <2>3, <2>4 DEF LifeOf, Once
  <2>6. ASSUME NEW t \in Thread,
               Len(code[t]) > 0, Nth(code[t], Len(code[t]))[1] = "IfLast",
               Nth(code[t], Len(code[t]))[2] = d, dicts[d].refs = 0
        PROVE  ~dicts[d].freed /\ Absent(E)' /\ Absent(M)'
    BY <2>1, <2>2, <2>4, <2>6 DEF LifeOf
  <2> QED
    BY <1>1, <2>3, <2>5, <2>6 DEF LifeOf, Nth
<1>6. Births(rank)'
  <2>1. \A t \in Thread : \A r \in 1 .. Len(code[t]) :
          Nth(code[t], r)[1] = "Spawn" => Nth(code[t], r)[2] \in Thread
    BY <1>2 DEF WellTyped, Typed
  <2>2. \A t \in Thread : id[t] = 0 => id'[t] = 0
    BY <1>1
  <2>3. Births(rank) /\ code' = code
    BY <1>1, <1>2
  <2>4. ASSUME NEW u \in Thread PROVE AtMostOne({<<"Spawn", u>>})'
    BY <2>3 DEF Births, AtMostOne, Key
  <2>5. ASSUME NEW t \in Thread, NEW r \in 1 .. Len(code[t]), Nth(code[t], r)[1] = "Spawn"
        PROVE  id'[Nth(code[t], r)[2]] = 0 /\ rank[t] < rank[Nth(code[t], r)[2]]
    <3>1. PICK u : u = Nth(code[t], r)[2]
      OBVIOUS
    <3>2. u \in Thread /\ id[u] = 0 /\ rank[t] < rank[u]
      BY <2>1, <2>3, <2>5, <3>1 DEF Births
    <3> QED
      BY <2>2, <3>1, <3>2
  <2> QED
    BY <2>3, <2>4, <2>5 DEF Births, Nth
<1>7. Ledger(H)'
  <2>1. /\ H \in [Thread -> [Nat -> [Dict -> Nat]]]
        /\ \A t \in Thread, d \in Dict : H[t][0][d] = 0
        /\ \A t \in Thread, d \in Dict : \A r \in 1 .. Len(code[t]) :
             H[t][r - 1][d] = H[t][r][d] + Gain(Has(H), dicts, Nth(code[t], r), d)
    BY <1>2 DEF Ledger
  <2>2. ASSUME NEW y, NEW d PROVE Gain(Has(H), dicts, y, d)' = Gain(Has(H), dicts, y, d)
    BY <1>1 DEF Gain, Plus, Has
  <2>3. ASSUME NEW t \in Thread, NEW d \in Dict, NEW r \in 1 .. Len(code'[t])
        PROVE  H[t][r - 1][d] = H[t][r][d] + Gain(Has(H), dicts, Nth(code[t], r), d)'
    <3>1. PICK y : y = Nth(code[t], r)
      OBVIOUS
    <3>2. Gain(Has(H), dicts, y, d)' = Gain(Has(H), dicts, y, d)
      BY <2>2
    <3>3. Gain(Has(H), dicts, Nth(code[t], r), d)' = Gain(Has(H), dicts, y, d)'
      BY <1>1, <3>1 DEF Gain, Plus, Has, Nth
    <3>4. r \in 1 .. Len(code[t])
      BY <1>1
    <3> QED
      BY <2>1, <3>1, <3>2, <3>3, <3>4
  <2> QED
    BY <2>1, <2>3 DEF Ledger
<1>8. Counted(H)'
  <2>1. Counted(H) /\ code' = code /\ dicts' = dicts
    BY <1>1, <1>2
  <2> QED
    BY <2>1 DEF Counted, InHand, Owned, Heirs, Heir, Born, Absent, Key
<1>9. Backing(H)'
  <2>1. Backing(H) /\ code' = code /\ dicts' = dicts
    BY <1>1, <1>2
  <2>2. ASSUME NEW t \in Thread, NEW r, NEW d PROVE Covered(H, t, r, d) => Covered(H, t, r, d)'
    BY <2>1 DEF Covered, Nth
  <2>3. ASSUME NEW t \in Thread, NEW r \in 1 .. Len(code'[t]) PROVE Backed(H, t, r, Nth(code[t], r))'
    <3>1. PICK y : y = Nth(code[t], r)
      OBVIOUS
    <3>2. Backed(H, t, r, y)
      BY <2>1, <3>1 DEF Backing
    <3>3. Nth(code'[t], r) = y
      BY <2>1, <3>1
    <3>4. /\ y[1] = "DictReference" => Covered(H, t, r, y[2])'
          /\ y[1] = "ReadRefs" /\ y[2][2] = 1 => Covered(H, t, r, y[2][1])'
          /\ y[1] = "WriteRefs" => \/ y[2][2] = dicts'[y[2][1]].refs + 1 /\ Covered(H, t, r, y[2][1])'
                                   \/ y[2][2] = dicts'[y[2][1]].refs - 1
          /\ y[1] = "SetSub" => H[t][r][y[2][1]] > 0
          /\ y[1] = "DictCreateSub" => H[t][r][y[2][2]] > 0
      BY <2>1, <2>2, <3>2 DEF Backed
    <3> QED
      BY <3>3, <3>4 DEF Backed, Covered, Nth
  <2> QED
    BY <2>3 DEF Backing
<1>10. Balanced(H, rank)'
  BY <1>2, <1>3, <1>4, <1>5, <1>6, <1>7, <1>8, <1>9 DEF Balanced
<1> QED
  BY <1>10 DEF DictInv, Balanced

LEMMA DictInvKept == Somewhere /\ DictInv /\ [LNext]_vars => DictInv'
<1> SUFFICES ASSUME Somewhere, DictInv, [LNext]_vars PROVE DictInv'
  OBVIOUS
<1>1. PICK F, k : Placed(F, k)
  BY DEF Somewhere
<1>2. PICK H, rank : Balanced(H, rank)
  BY DEF DictInv
<1>3. Listed
  BY <1>1 DEF Placed, Shape, Listed
<1> QED
  BY <1>1, <1>2, <1>3, EveryStep, TurnBalanced, RestBalanced
-----------------------------------------------------------------------------
(* Nobody is left to use a dictionary without references.                  *)

\* d is counted on by nobody, and is not about to be made.
Dead(d) == dicts[d].refs = 0 /\ Absent(MakersOf(d))

\* Who has no reference to a dead dictionary does not count on it by another either.
LEMMA NotCovered ==
  ASSUME Life, WellTyped, NEW H, Ledger(H), Counted(H),
         NEW t \in Thread, NEW n, n = Len(code[t]), n \in Nat, NEW r \in 1 .. n,
         \A d \in Dict : Dead(d) => /\ H[t][r][d] = 0
                                    /\ r < n => H[t][r + 1][d] = 0,
         NEW d \in Dict, Dead(d)
  PROVE  ~Covered(H, t, r, d)
<1>10. dicts \in [Dict -> [refs : Nat, sub : Dict \cup {NoDict}, freed : BOOLEAN]] /\ dicts[d].refs = 0
  BY DEF WellTyped, Dead
<1>11. r \in Nat /\ r + 1 \in Nat /\ H[t][r][d] = 0
  OBVIOUS
<1> SUFFICES ASSUME Covered(H, t, r, d) PROVE FALSE
  OBVIOUS
<1>1. PICK e \in Dict :
         /\ H[t][r][e] > 0
         /\ \/ dicts[e].sub = d
            \/ r < n /\ Nth(code[t], r + 1)[1] = "SetSub" /\ Nth(code[t], r + 1)[2] = <<e, d>>
  <2>1. ~(H[t][r][d] > 0)
    BY <1>11
  <2> QED
    BY <2>1 DEF Covered
<1>2. CASE dicts[e].sub = d
  <2>1. ~Dead(e)
    BY <1>1
  <2>2. dicts[e].sub # NoDict
    BY <1>2, LibraryAssumption
  <2>3. Absent(MakersOf(e))
    BY <2>2 DEF Life, LifeOf
  <2>4. dicts[e].refs # 0 /\ dicts[e].refs \in Nat
    BY <1>10, <2>1, <2>3 DEF Dead
  <2>5. dicts[e].refs > 0
    BY <2>4
  <2>6. dicts[d].refs > 0
    BY <1>2, <2>5, InheritedThenCounted
  <2> QED
    BY <1>10, <2>6
<1>3. CASE r < n /\ Nth(code[t], r + 1)[1] = "SetSub" /\ Nth(code[t], r + 1)[2] = <<e, d>>
  <2>1. PICK y : y = Nth(code[t], r + 1)
    OBVIOUS
  <2>2. r + 1 \in 1 .. Len(code[t]) /\ (r + 1) - 1 = r
    BY <1>3
  <2>3. H[t][r][d] = H[t][r + 1][d] + Gain(Has(H), dicts, y, d)
    BY <2>1, <2>2 DEF Ledger
  <2>4. Gain(Has(H), dicts, y, d) = -1
    BY <1>3, <2>1 DEF Gain, Plus
  <2>5. H[t][r + 1][d] = 0
    BY <1>3
  <2> QED
    BY <1>11, <2>3, <2>4, <2>5
<1> QED
  BY <1>1, <1>2, <1>3

\* A call adds nothing to the references to a dead dictionary.
LEMMA NoMore ==
  ASSUME Life, WellTyped, NEW H, Ledger(H), Counted(H), Backing(H),
         NEW t \in Thread, NEW n, n = Len(code[t]), n \in Nat, NEW r \in 1 .. n,
         \A d \in Dict : Dead(d) => /\ H[t][r][d] = 0
                                    /\ r < n => H[t][r + 1][d] = 0,
         NEW d \in Dict, Dead(d)
  PROVE  H[t][r - 1][d] = 0
<1>1. PICK x : x = Nth(code[t], r)
  OBVIOUS
<1>2. Typed(x) /\ Backed(H, t, r, x)
  BY <1>1 DEF WellTyped, Backing
<1>3. dicts \in [Dict -> [refs : Nat, sub : Dict \cup {NoDict}, freed : BOOLEAN]] /\ dicts[d].refs = 0
  BY DEF WellTyped, Dead
<1>4. H[t][r - 1][d] = H[t][r][d] + Gain(Has(H), dicts, x, d)
  BY <1>1 DEF Ledger
<1>5. ASSUME NEW q \in Nat, NEW v \in Thread PROVE H[v][q][d] \in Nat
  <2>1. H[v] \in [Nat -> [Dict -> Nat]]
    BY DEF Ledger
  <2> QED
    BY <2>1
<1>6. r \in Nat /\ r - 1 \in Nat /\ r + 1 \in Nat /\ H[t][r][d] = 0
  OBVIOUS
<1>7. ~Covered(H, t, r, d)
  BY NotCovered
<1>8. ~(x[1] \in {"DictCreate", "NewDict"} /\ x[2] = d) /\ ~(x[1] = "DictCreateSub" /\ x[2][1] = d)
  <2>1. PICK S : S = MakersOf(d)
    OBVIOUS
  <2>2. Absent(S)
    BY <2>1 DEF Dead
  <2>3. (n - r) + 1 \in 1 .. Len(code[t])
    OBVIOUS
  <2>4. Key(x) \notin S
    BY <1>1, <2>2, <2>3 DEF Absent, Nth
  <2>5. x[1] = "DictCreateSub" /\ x[2][1] = d => x[2] \in {d} \X Dict
    BY <1>2 DEF Typed
  <2> QED
    BY <2>1, <2>4, <2>5, KeyIn
<1>9. CASE x[1] = "Spawn"
  <2>1. PICK v \in Thread : v = x[2]
    BY <1>2, <1>9 DEF Typed
  <2>2. Has(H)[v][d] \in Nat
    <3>1. H[v][Len(code[v])][d] \in Nat \/ Len(code[v]) \notin Nat
      BY <1>5
    <3> QED
      BY <3>1 DEF Has
  <2>3. Gain(Has(H), dicts, x, d) = 0 - Has(H)[v][d]
    BY <1>9, <2>1 DEF Gain
  <2> QED
    BY <1>4, <1>5, <1>6, <2>2, <2>3
<1>10. CASE x[1] # "Spawn"
  <2>1. Gain(Has(H), dicts, x, d) = Plus(dicts, x, d)
    BY <1>10 DEF Gain
  <2>2. Plus(dicts, x, d) \in {0, -1}
    <3>1. CASE x[1] \in {"DictCreate", "NewDict", "DictCreateSub"}
      BY <1>8, <3>1 DEF Plus
    <3>2. CASE x[1] = "DictReference"
      BY <1>2, <1>7, <3>2 DEF Plus, Backed
    <3>3. CASE x[1] \in {"DictFree", "SetSub"}
      BY <3>3 DEF Plus
    <3>4. CASE x[1] = "ReadRefs"
      <4>1. x[2][2] \in {1, -1}
        BY <1>2, <3>4 DEF Typed
      <4> QED
        BY <1>2, <1>7, <3>4, <4>1 DEF Plus, Backed
    <3>5. CASE x[1] = "WriteRefs"
      <4>1. CASE x[2][1] = d
        <5>1. x[2][2] = dicts[d].refs - 1
          BY <1>2, <1>7, <3>5, <4>1 DEF Backed
        <5>2. x[2][2] \in Nat
          BY <1>2, <3>5 DEF Typed
        <5> QED
          BY <1>3, <5>1, <5>2
      <4>2. CASE x[2][1] # d
        BY <3>5, <4>2 DEF Plus
      <4> QED
        BY <4>1, <4>2
    <3>6. CASE x[1] \notin {"DictCreate", "NewDict", "DictCreateSub", "DictReference", "DictFree", "SetSub",
                            "ReadRefs", "WriteRefs"}
      BY <3>6 DEF Plus
    <3> QED
      BY <3>1, <3>2, <3>3, <3>4, <3>5, <3>6
  <2> QED
    BY <1>4, <1>5, <1>6, <2>1, <2>2
<1> QED
  BY <1>9, <1>10

\* Who has no reference to a dead dictionary before its first call has none later.
LEMMA NoneLater ==
  ASSUME Life, WellTyped, NEW H, Ledger(H), Counted(H), Backing(H),
         NEW t \in Thread, NEW n, n = Len(code[t]), n \in Nat,
         \A d \in Dict : Dead(d) => H[t][n][d] = 0
  PROVE  \A r \in 0 .. n : \A d \in Dict : Dead(d) => H[t][r][d] = 0
<1> DEFINE None(r) == \A d \in Dict : Dead(d) => H[t][r][d] = 0
           S == {i \in 0 .. n : \A j \in 0 .. i : None(n - j)}
<1>1. 0 \in S
  <2>1. \A j \in 0 .. 0 : n - j = n
    OBVIOUS
  <2> QED
    BY <2>1
<1>2. ASSUME NEW i \in 1 .. n, i - 1 \in S PROVE i \in S
  <2>1. PICK r : r = n - (i - 1)
    OBVIOUS
  <2>2. r \in 1 .. n /\ r - 1 = n - i /\ i - 1 \in 0 .. i - 1 /\ i \in 0 .. n
    BY <2>1
  <2>3. \A j \in 0 .. i - 1 : None(n - j)
    BY <1>2
  <2>4. None(r)
    BY <2>1, <2>2, <2>3
  <2>5. ASSUME r < n PROVE None(r + 1)
    <3>1. i - 2 \in 0 .. i - 1 /\ n - (i - 2) = r + 1
      BY <2>1, <2>5
    <3> QED
      BY <2>3, <3>1
  <2>6. \A d \in Dict : Dead(d) => H[t][r][d] = 0 /\ (r < n => H[t][r + 1][d] = 0)
    BY <2>4, <2>5
  <2>7. ASSUME NEW d \in Dict, Dead(d) PROVE H[t][r - 1][d] = 0
    BY <2>2, <2>6, <2>7, NoMore
  <2>8. None(n - i)
    BY <2>2, <2>7
  <2>9. \A j \in 0 .. i : j \in 0 .. i - 1 \/ j = i
    OBVIOUS
  <2>10. \A j \in 0 .. i : None(n - j)
    BY <2>3, <2>8, <2>9
  <2> QED
    BY <2>2, <2>10
<1> HIDE DEF S, None
<1>3. \A i \in 0 .. n : i \in S
  BY <1>1, <1>2, InductionUpto
<1>4. ASSUME NEW r \in 0 .. n PROVE None(r)
  <2>1. n - r \in 0 .. n /\ n - (n - r) = r /\ n - r \in 0 .. n - r
    OBVIOUS
  <2>2. n - r \in S
    BY <1>3, <2>1
  <2>3. \A j \in 0 .. n - r : None(n - j)
    BY <2>2 DEF S
  <2> QED
    BY <2>1, <2>3
<1> QED
  BY <1>4 DEF None

\* No thread has a reference to a dead dictionary, started or not.
LEMMA NoneAnywhere ==
  ASSUME Listed, NEW H, NEW rank, Balanced(H, rank)
  PROVE  \A t \in Thread : \A r \in 0 .. Len(code[t]) : \A d \in Dict : Dead(d) => H[t][r][d] = 0
<1> DEFINE None(t) == \A r \in 0 .. Len(code[t]) : \A d \in Dict : Dead(d) => H[t][r][d] = 0
           S == {rank[t] : t \in {u \in Thread : ~None(u)}}
<1>1. /\ rank \in [Thread \cup Dict -> Nat] /\ WellTyped /\ Life
      /\ Births(rank) /\ Ledger(H) /\ Counted(H) /\ Backing(H)
  BY DEF Balanced
<1>2. \A t \in Thread : Len(code[t]) \in Nat
  BY CallListFacts DEF Listed
<1>3. \A d \in Dict : Dead(d) => ~(dicts[d].refs > 0)
  BY DEF Dead
<1>4. H \in [Thread -> [Nat -> [Dict -> Nat]]]
  BY <1>1 DEF Ledger
<1> SUFFICES ASSUME S # {} PROVE FALSE
  OBVIOUS
<1>5. S \in SUBSET Nat
  BY <1>1
<1>6. PICK m \in S : \A k \in S : m <= k
  <2> HIDE DEF S
  <2> QED
    BY <1>5, LeastNatural
<1>7. PICK t \in Thread : ~None(t) /\ m = rank[t]
  OBVIOUS
<1>8. ASSUME NEW v \in Thread, rank[v] < rank[t] PROVE None(v)
  <2>1. rank[v] \in Nat /\ rank[t] \in Nat
    BY <1>1
  <2>2. ~(rank[t] <= rank[v])
    BY <1>8, <2>1
  <2> QED
    BY <1>6, <1>7, <2>2
<1> HIDE DEF S, None
<1>9. PICK n : n = Len(code[t]) /\ n \in Nat
  BY <1>2
<1>10. ASSUME NEW d \in Dict, Dead(d) PROVE H[t][n][d] = 0
  <2>1. H[t][n][d] \in Nat
    <3>1. H[t] \in [Nat -> [Dict -> Nat]]
      BY <1>4
    <3> QED
      BY <1>9, <3>1
  <2>2. CASE Born(t)
    <3>1. ~(H[t][n][d] > 0)
      BY <1>1, <1>3, <1>9, <1>10, <2>2, HandedThenCounted
    <3> QED
      BY <2>1, <3>1
  <2>3. CASE ~Born(t)
    <3>1. PICK v \in Thread : \E r \in 1 .. Len(code[v]) :
             Nth(code[v], r)[1] = "Spawn" /\ Nth(code[v], r)[2] = t /\ rank[v] < rank[t]
      BY <1>1, <2>3, Unborn
    <3>2. PICK r \in 1 .. Len(code[v]) :
             Nth(code[v], r)[1] = "Spawn" /\ Nth(code[v], r)[2] = t /\ rank[v] < rank[t]
      BY <3>1
    <3>3. PICK x : x = Nth(code[v], r)
      OBVIOUS
    <3>4. Len(code[v]) \in Nat
      BY <1>2
    <3>5. r \in Nat /\ r - 1 \in Nat /\ r \in 0 .. Len(code[v])
      BY <3>4
    <3>6. H[v][r][d] = 0
      BY <1>8, <1>10, <3>2, <3>5 DEF None
    <3>7. H[v][r - 1][d] = H[v][r][d] + Gain(Has(H), dicts, x, d)
      BY <1>1, <3>3 DEF Ledger
    <3>8. Gain(Has(H), dicts, x, d) = 0 - H[t][n][d]
      BY <1>9, <3>2, <3>3 DEF Gain, Has
    <3>9. H[v][r - 1][d] \in Nat
      <4>1. H[v] \in [Nat -> [Dict -> Nat]]
        BY <1>4
      <4> QED
        BY <3>5, <4>1
    <3> QED
      BY <2>1, <3>6, <3>7, <3>8, <3>9
  <2> QED
    BY <2>2, <2>3
<1>11. None(t)
  BY <1>1, <1>9, <1>10, NoneLater DEF None
<1> QED
  BY <1>7, <1>11

\* The references are what keeps a dictionary.
LEMMA DictKeptNow ==
  ASSUME Listed, NEW H, NEW rank, Balanced(H, rank)
  PROVE  DictKept
<1> SUFFICES ASSUME NEW d \in Dict, dicts[d].freed
             PROVE  /\ \A t \in Thread : ~Mentions(t, d)
                    /\ \A e \in Dict : dicts[e].sub = d => dicts[e].refs = 0
  BY DEF DictKept
<1>1. /\ WellTyped /\ Life /\ Locks
      /\ Ledger(H) /\ Counted(H) /\ Backing(H)
  BY DEF Balanced
<1>2. dicts[d].refs = 0 /\ Absent(MakersOf(d)) /\ Absent(EndsOf(d))
  BY <1>1 DEF Life, LifeOf
<1>3. Dead(d)
  BY <1>2 DEF Dead
<1>4. \A t \in Thread : \A r \in 0 .. Len(code[t]) : \A e \in Dict : Dead(e) => H[t][r][e] = 0
  BY NoneAnywhere
<1>5. dicts \in [Dict -> [refs : Nat, sub : Dict \cup {NoDict}, freed : BOOLEAN]]
  BY <1>1 DEF WellTyped
<1>6. ASSUME NEW t \in Thread, Mentions(t, d) PROVE FALSE
  <2>1. PICK n : n = Len(code[t]) /\ n \in Nat /\ DOMAIN code[t] = 1 .. n
    BY CallListFacts DEF Listed
  <2>2. PICK i \in 1 .. n :
           /\ code[t][i][1] \in {"DictReference", "DictFree", "IfLast", "DictGone", "FreeDict"}
           /\ code[t][i][2] = d
    BY <1>6, <2>1 DEF Mentions
  <2>3. PICK r : r = (n - i) + 1
    OBVIOUS
  <2>4. r \in 1 .. n /\ (n - r) + 1 = i /\ r \in Nat /\ r - 1 \in Nat /\ r - 1 \in 0 .. n
    BY <2>1, <2>3
  <2>5. PICK x : x = code[t][i]
    OBVIOUS
  <2>6. x = Nth(code[t], r) /\ x[2] = d
    BY <2>1, <2>2, <2>4, <2>5 DEF Nth
  <2>7. Typed(x) /\ Backed(H, t, r, x)
    BY <1>1, <2>1, <2>4, <2>6 DEF WellTyped, Backing
  <2>8. ASSUME NEW q \in 1 .. n
        PROVE  /\ q \in Nat /\ q - 1 \in Nat /\ H[t][q][d] = 0 /\ H[t][q - 1][d] = 0
               /\ ~Covered(H, t, q, d)
               /\ Gain(Has(H), dicts, Nth(code[t], q), d) = 0
    <3>1. q \in 0 .. n /\ q - 1 \in 0 .. n /\ q \in Nat /\ q - 1 \in Nat
      BY <2>1
    <3>2. q < n => q + 1 \in 0 .. n
      BY <2>1
    <3>3. \A e \in Dict : Dead(e) => H[t][q][e] = 0 /\ (q < n => H[t][q + 1][e] = 0)
      BY <1>4, <2>1, <3>1, <3>2
    <3>4. ~Covered(H, t, q, d)
      BY <1>1, <1>3, <2>1, <3>3, NotCovered
    <3>5. H[t][q][d] = 0 /\ H[t][q - 1][d] = 0
      BY <1>3, <1>4, <2>1, <3>1
    <3>6. PICK y : y = Gain(Has(H), dicts, Nth(code[t], q), d)
      OBVIOUS
    <3>7. 0 = 0 + y /\ y \in Int
      <4>1. H[t][q - 1][d] = H[t][q][d] + y
        BY <1>1, <2>1, <3>6 DEF Ledger
      <4>2. y \in Int
        <5>1. PICK z : z = Nth(code[t], q)
          OBVIOUS
        <5>2. Typed(z)
          BY <1>1, <2>1, <5>1 DEF WellTyped
        <5>3. \A v \in Thread : Has(H)[v][d] \in Nat
          <6> SUFFICES ASSUME NEW v \in Thread PROVE Has(H)[v][d] \in Nat
            OBVIOUS
          <6>1. Len(code[v]) \in Nat
            BY CallListFacts DEF Listed
          <6>2. H[v] \in [Nat -> [Dict -> Nat]]
            BY <1>1 DEF Ledger
          <6> QED
            BY <6>1, <6>2 DEF Has
        <5>4. CASE z[1] = "Spawn"
          <6>1. Has(H)[z[2]][d] \in Nat
            BY <5>2, <5>3, <5>4 DEF Typed
          <6> QED
            BY <3>6, <5>1, <5>4, <6>1 DEF Gain
        <5>5. CASE z[1] # "Spawn"
          <6>1. y = Plus(dicts, z, d)
            BY <3>6, <5>1, <5>5 DEF Gain
          <6>2. z[1] = "ReadRefs" => z[2][2] \in Int
            BY <5>2 DEF Typed
          <6>3. z[1] = "WriteRefs" => z[2][2] - dicts[d].refs \in Int
            BY <1>5, <5>2 DEF Typed
          <6> QED
            BY <6>1, <6>2, <6>3 DEF Plus
        <5> QED
          BY <5>4, <5>5
      <4> QED
        BY <3>5, <4>1, <4>2
    <3> QED
      BY <3>1, <3>4, <3>5, <3>6, <3>7
  <2>9. x[1] # "DictReference"
    BY <2>4, <2>6, <2>7, <2>8 DEF Backed
  <2>10. x[1] # "DictFree"
    <3>1. x[1] = "DictFree" => Gain(Has(H), dicts, x, d) = -1
      BY <2>6 DEF Gain, Plus
    <3> QED
      BY <2>4, <2>6, <2>8, <3>1
  <2>11. x[1] \notin {"DictGone", "FreeDict"}
    <3>1. PICK S : S = EndsOf(d)
      OBVIOUS
    <3>2. Key(x) \notin S
      BY <1>2, <2>1, <2>5, <3>1 DEF Absent
    <3> QED
      BY <2>6, <3>1, <3>2, KeyIn
  <2>12. ASSUME x[1] = "IfLast" PROVE FALSE
    <3>1. CASE r = n
      <4>1. n > 0
        BY <2>1, <2>4
      <4> QED
        BY <1>1, <1>2, <2>1, <2>6, <2>12, <3>1, <4>1 DEF Life, LifeOf
    <3>2. CASE r # n
      <4>1. r \in 1 .. n - 1 /\ r + 1 \in 1 .. n
        BY <2>1, <2>4, <3>2
      <4>2. PICK y : y = Nth(code[t], r + 1)
        OBVIOUS
      <4>3. \/ y[1] = "ReadRefs" /\ y[2] = <<d, -1>>
            \/ y[1] = "WriteRefs" /\ y[2][1] = d
        BY <1>1, <2>1, <2>6, <2>12, <4>1, <4>2 DEF Locks, Sequenced, ComesAfter
      <4>4. CASE y[1] = "ReadRefs" /\ y[2] = <<d, -1>>
        <5>1. Gain(Has(H), dicts, y, d) = -1
          BY <4>4 DEF Gain, Plus
        <5> QED
          BY <2>8, <4>1, <4>2, <5>1
      <4>5. CASE y[1] = "WriteRefs" /\ y[2][1] = d
        <5>1. Typed(y) /\ Backed(H, t, r + 1, y)
          BY <1>1, <2>1, <4>1, <4>2 DEF WellTyped, Backing
        <5>2. y[2][2] = dicts[d].refs - 1
          BY <2>8, <4>1, <4>5, <5>1 DEF Backed
        <5>3. y[2][2] \in Nat
          BY <4>5, <5>1 DEF Typed
        <5> QED
          BY <1>2, <5>2, <5>3
      <4> QED
        BY <4>3, <4>4, <4>5
    <3> QED
      BY <3>1, <3>2
  <2> QED
    BY <2>2, <2>5, <2>9, <2>10, <2>11, <2>12
<1>7. ASSUME NEW e \in Dict, dicts[e].sub = d PROVE dicts[e].refs = 0
  <2>1. ~(dicts[d].refs > 0)
    BY <1>2
  <2>2. ~(dicts[e].refs > 0)
    BY <1>1, <1>7, <2>1, InheritedThenCounted
  <2>3. dicts[e].refs \in Nat
    BY <1>5
  <2> QED
    BY <2>2, <2>3
<1> QED
  BY <1>6, <1>7
-----------------------------------------------------------------------------
(* The programs begin.                                                     *)

\* The calls of a program.
LEMMA ApiShapes ==
  ASSUME NEW x \in ApiCalls
  PROVE  /\ x[1] \in {"RMutexLock", "RMutexUnlock", "LockLibrary", "InitParser", "RaiseError",
                      "Spawn", "Join", "SetFunc", "SetDefaultFunc", "SwapDefault",
                      "DictCreate", "DictReference", "DictFree", "DictCreateSub"}
         /\ x[1] = "Spawn" => x[2] \in Thread /\ x = <<"Spawn", x[2]>>
         /\ x[1] \in {"DictCreate", "DictReference", "DictFree"} => x[2] \in Dict /\ x = <<x[1], x[2]>>
         /\ x[1] = "DictCreateSub" => x[2] \in Dict \X Dict
<1>1. CASE x \in {<<f>> : f \in {"RMutexLock", "RMutexUnlock", "LockLibrary", "InitParser", "RaiseError"}}
  BY <1>1
<1>2. CASE x \in {"Spawn", "Join"} \X Thread
  BY <1>2
<1>3. CASE x \in {"SetFunc", "SetDefaultFunc", "SwapDefault"} \X (Handler \cup {NoHandler})
  BY <1>3
<1>4. CASE x \in {"DictCreate", "DictReference", "DictFree"} \X Dict
  BY <1>4
<1>5. CASE x \in {"DictCreateSub"} \X (Dict \X Dict)
  BY <1>5
<1> QED
  BY <1>1, <1>2, <1>3, <1>4, <1>5 DEF ApiCalls

\* p's calls, from the end.
LEMMA CallsOf ==
  ASSUME NEW p \in [Thread -> Seq(ApiCalls)], NEW t \in Thread
  PROVE  /\ Len(p[t]) \in Nat /\ DOMAIN p[t] = 1 .. Len(p[t])
         /\ \A i \in 1 .. Len(p[t]) : p[t][i] \in ApiCalls
         /\ \A r \in 1 .. Len(p[t]) : /\ (Len(p[t]) - r) + 1 \in 1 .. Len(p[t])
                                      /\ Nth(p[t], r) = p[t][(Len(p[t]) - r) + 1]
                                      /\ Nth(p[t], r) \in ApiCalls
<1>1. p[t] \in Seq(ApiCalls)
  OBVIOUS
<1>2. Len(p[t]) \in Nat /\ DOMAIN p[t] = 1 .. Len(p[t]) /\ \A i \in 1 .. Len(p[t]) : p[t][i] \in ApiCalls
  BY <1>1
<1>3. ASSUME NEW r \in 1 .. Len(p[t]) PROVE (Len(p[t]) - r) + 1 \in 1 .. Len(p[t])
  BY <1>2
<1> QED
  BY <1>2, <1>3 DEF Nth

\* What the threads of the program p have with r calls left.
FirstOf(p, share) ==
  [t \in Thread |-> [r \in Nat |-> IF r <= Len(p[t]) THEN share[t][(Len(p[t]) - r) + 1]
                                   ELSE [d \in Dict |-> 0]]]

SharedAs(H, p, share) ==
  /\ H \in [Thread -> [Nat -> [Dict -> Nat]]]
  /\ \A t \in Thread : \A r \in Nat : r <= Len(p[t]) => H[t][r] = share[t][(Len(p[t]) - r) + 1]
  /\ \A t \in Thread : H[t][Len(p[t])] = share[t][1]

LEMMA ShareFacts ==
  ASSUME NEW p \in [Thread -> Seq(ApiCalls)], NEW share, SharesAddUp(p, share), NEW H, H = FirstOf(p, share)
  PROVE  SharedAs(H, p, share)
<1>1. ASSUME NEW t \in Thread, NEW r \in Nat, r <= Len(p[t]) PROVE share[t][(Len(p[t]) - r) + 1] \in [Dict -> Nat]
  <2>1. Len(p[t]) \in Nat
    BY CallsOf
  <2>2. share[t] \in Seq([Dict -> Nat]) /\ Len(share[t]) = Len(p[t]) + 1
    BY DEF SharesAddUp
  <2>3. (Len(p[t]) - r) + 1 \in 1 .. Len(share[t])
    BY <1>1, <2>1, <2>2
  <2> QED
    BY <2>2, <2>3
<1>2. H \in [Thread -> [Nat -> [Dict -> Nat]]]
  <2>1. [d \in Dict |-> 0] \in [Dict -> Nat]
    OBVIOUS
  <2>2. \A t \in Thread : \A r \in Nat :
          (IF r <= Len(p[t]) THEN share[t][(Len(p[t]) - r) + 1] ELSE [d \in Dict |-> 0]) \in [Dict -> Nat]
    BY <1>1, <2>1
  <2> QED
    BY <2>2 DEF FirstOf
<1>3. \A t \in Thread : \A r \in Nat : r <= Len(p[t]) => H[t][r] = share[t][(Len(p[t]) - r) + 1]
  BY DEF FirstOf
<1>4. ASSUME NEW t \in Thread PROVE H[t][Len(p[t])] = share[t][1]
  <2>1. Len(p[t]) \in Nat /\ Len(p[t]) <= Len(p[t]) /\ (Len(p[t]) - Len(p[t])) + 1 = 1
    BY CallsOf
  <2>2. H[t][Len(p[t])] = share[t][(Len(p[t]) - Len(p[t])) + 1]
    BY <1>3, <2>1
  <2> QED
    BY <2>1, <2>2
<1> QED
  BY <1>2, <1>3, <1>4 DEF SharedAs

LEMMA ShareNext ==
  ASSUME NEW p, NEW share, SharesAddUp(p, share), NEW t \in Thread, NEW i \in DOMAIN p[t],
         NEW d \in Dict
  PROVE  share[t][i + 1][d] = share[t][i][d] + Earned(share, p[t][i], d)
BY DEF SharesAddUp

LEMMA LedgerAtFirst ==
  ASSUME NEW p \in [Thread -> Seq(ApiCalls)], NEW share, SharesAddUp(p, share), code = p,
         NEW H, H = FirstOf(p, share)
  PROVE  Ledger(H)
<1>1. /\ H \in [Thread -> [Nat -> [Dict -> Nat]]]
      /\ \A t \in Thread : \A r \in Nat : r <= Len(p[t]) => H[t][r] = share[t][(Len(p[t]) - r) + 1]
      /\ \A t \in Thread : H[t][Len(p[t])] = share[t][1]
  <2>1. SharedAs(H, p, share)
    BY ShareFacts
  <2> QED
    BY <2>1 DEF SharedAs
<1>2. ASSUME NEW t \in Thread, NEW d \in Dict PROVE H[t][0][d] = 0
  <2>1. PICK n : n = Len(p[t])
    OBVIOUS
  <2>2. n \in Nat
    BY <2>1, CallsOf
  <2>3. 0 \in Nat /\ 0 <= n /\ (n - 0) + 1 = n + 1
    BY <2>2
  <2>4. H[t][0] = share[t][n + 1]
    BY <1>1, <2>1, <2>3
  <2> QED
    BY <2>1, <2>4 DEF SharesAddUp
<1>3. ASSUME NEW t \in Thread, NEW d \in Dict, NEW r \in 1 .. Len(p[t])
      PROVE  H[t][r - 1][d] = H[t][r][d] + Gain(Has(H), dicts, Nth(p[t], r), d)
  <2>1. PICK n : n = Len(p[t])
    OBVIOUS
  <2>2. n \in Nat
    BY <2>1, CallsOf
  <2>3. PICK i : i = (n - r) + 1
    OBVIOUS
  <2>4. /\ r \in Nat /\ r <= n /\ r - 1 \in Nat /\ r - 1 <= n /\ i \in 1 .. n
        /\ (n - (r - 1)) + 1 = i + 1
    BY <1>3, <2>1, <2>2, <2>3
  <2>5. H[t][r] = share[t][i] /\ H[t][r - 1] = share[t][i + 1]
    BY <1>1, <2>1, <2>3, <2>4
  <2>6. PICK x : x = p[t][i]
    OBVIOUS
  <2>7. x \in ApiCalls /\ x = Nth(p[t], r) /\ i \in DOMAIN p[t]
    BY <1>3, <2>1, <2>3, <2>4, <2>6, CallsOf
  <2>8. share[t][i + 1][d] = share[t][i][d] + Earned(share, x, d)
    <3>1. share[t][i + 1][d] = share[t][i][d] + Earned(share, p[t][i], d)
      BY <2>7, ShareNext
    <3> QED
      BY <2>6, <3>1
  <2>9. PICK y : y = Earned(share, x, d)
    OBVIOUS
  <2>10. y = Gain(Has(H), dicts, x, d)
    <3>1. /\ x[1] = "Spawn" => x[2] \in Thread
          /\ x[1] \in {"DictCreate", "DictReference", "DictFree"} => x = <<x[1], x[2]>>
          /\ x[1] \notin {"NewDict", "SetSub", "ReadRefs", "WriteRefs"}
      BY <2>7, ApiShapes
    <3>2. CASE x[1] = "Spawn"
      <4>1. Has(H)[x[2]] = share[x[2]][1]
        BY <1>1, <3>1, <3>2 DEF Has
      <4>2. share[x[2]][1][d] \in Nat
        <5>1. Len(p[x[2]]) \in Nat /\ H[x[2]] \in [Nat -> [Dict -> Nat]]
          BY <1>1, <3>1, <3>2, CallsOf
        <5>2. H[x[2]][Len(p[x[2]])] = share[x[2]][1]
          BY <1>1, <3>1, <3>2
        <5>3. H[x[2]][Len(p[x[2]])] \in [Dict -> Nat]
          BY <5>1
        <5> QED
          BY <5>2, <5>3
      <4>3. y = -share[x[2]][1][d]
        BY <2>9, <3>2 DEF Makes, Earned
      <4> QED
        BY <3>2, <4>1, <4>2, <4>3 DEF Gain
    <3>3. CASE x[1] = "DictCreateSub"
      <4>1. Makes(x, d) <=> x[2][1] = d
        BY <3>3 DEF Makes
      <4> QED
        BY <2>9, <3>3, <4>1 DEF Gain, Plus, Earned
    <3>4. CASE x[1] \in {"DictCreate", "DictReference", "DictFree"}
      <4>1. \A f : x = <<f, d>> <=> x[1] = f /\ x[2] = d
        BY <3>1, <3>4
      <4>2. Makes(x, d) <=> x[1] = "DictCreate" /\ x[2] = d
        BY <3>4, <4>1 DEF Makes
      <4> QED
        BY <2>9, <3>4, <4>1, <4>2 DEF Gain, Plus, Earned
    <3>5. CASE x[1] \notin {"Spawn", "DictCreateSub", "DictCreate", "DictReference", "DictFree"}
      BY <2>9, <3>1, <3>5 DEF Gain, Plus, Earned, Makes
    <3> QED
      BY <3>2, <3>3, <3>4, <3>5
  <2> QED
    BY <2>5, <2>7, <2>8, <2>9, <2>10
<1> QED
  BY <1>1, <1>2, <1>3 DEF Ledger

LEMMA SpawnedOnce ==
  ASSUME NEW p, NEW share, NEW rank, MadeInOrder(p, share, rank),
         NEW t \in Thread, NEW i \in DOMAIN p[t], NEW u \in Thread, NEW j \in DOMAIN p[u],
         NEW v, p[t][i] = <<"Spawn", v>>, p[u][j] = <<"Spawn", v>>
  PROVE  t = u /\ i = j
<1>1. p[t][i][1] = "Spawn" /\ p[t][i] = p[u][j]
  OBVIOUS
<1> QED
  BY <1>1 DEF MadeInOrder

LEMMA SpawnsOf ==
  ASSUME NEW p \in [Thread -> Seq(ApiCalls)], NEW t \in Thread, NEW i \in 1 .. Len(p[t]), NEW v,
         p[t][i][1] = "Spawn", p[t][i][2] = v
  PROVE  i \in DOMAIN p[t] /\ p[t][i] = <<"Spawn", v>>
<1>1. PICK x : x = p[t][i]
  OBVIOUS
<1>2. x[1] = "Spawn" /\ x[2] = v
  BY <1>1
<1>3. x \in ApiCalls /\ i \in DOMAIN p[t]
  BY <1>1, CallsOf
<1> QED
  BY <1>1, <1>2, <1>3, ApiShapes

LEMMA BirthsAtFirst ==
  ASSUME NEW p \in [Thread -> Seq(ApiCalls)], NEW share, NEW rank, MadeInOrder(p, share, rank), code = p,
         \A u \in Thread \ {First} : id[u] = 0
  PROVE  Births(rank)
<1>2. ASSUME NEW v \in Thread PROVE AtMostOne({<<"Spawn", v>>})
  <2>1. PICK S : S = {<<"Spawn", v>>}
    OBVIOUS
  <2>2. ASSUME NEW t \in Thread, NEW u \in Thread, NEW i \in 1 .. Len(p[t]), NEW j \in 1 .. Len(p[u]),
               Key(p[t][i]) \in S, Key(p[u][j]) \in S
        PROVE  t = u /\ i = j
    <3>0. PICK x, y : x = p[t][i] /\ y = p[u][j]
      OBVIOUS
    <3>1. p[t][i][1] = "Spawn" /\ p[t][i][2] = v /\ p[u][j][1] = "Spawn" /\ p[u][j][2] = v
      <4>1. Key(x) \in S /\ Key(y) \in S
        BY <2>2, <3>0
      <4>2. x[1] = "Spawn" /\ x[2] = v
        BY <2>1, <4>1, KeyIn
      <4>3. y[1] = "Spawn" /\ y[2] = v
        BY <2>1, <4>1, KeyIn
      <4> QED
        BY <3>0, <4>2, <4>3
    <3>2. i \in DOMAIN p[t] /\ p[t][i] = <<"Spawn", v>>
      BY <2>2, <3>1, SpawnsOf
    <3>3. j \in DOMAIN p[u] /\ p[u][j] = <<"Spawn", v>>
      BY <2>2, <3>1, SpawnsOf
    <3> QED
      BY <3>2, <3>3, SpawnedOnce
  <2> QED
    BY <2>1, <2>2 DEF AtMostOne
<1>3. ASSUME NEW t \in Thread, NEW r \in 1 .. Len(p[t]), Nth(p[t], r)[1] = "Spawn"
      PROVE  id[Nth(p[t], r)[2]] = 0 /\ rank[t] < rank[Nth(p[t], r)[2]]
  <2>1. PICK i \in 1 .. Len(p[t]) : Nth(p[t], r) = p[t][i]
    BY CallsOf
  <2>2. i \in DOMAIN p[t] /\ p[t][i] \in ApiCalls
    BY CallsOf
  <2>3. p[t][i][2] \in Thread /\ p[t][i][2] # First /\ rank[t] < rank[p[t][i][2]]
    BY <1>3, <2>1, <2>2, ApiShapes DEF MadeInOrder
  <2> QED
    BY <2>1, <2>3
<1> QED
  BY <1>2, <1>3 DEF Births

\* The program p begins: nothing is made yet.
Begun(p) == code = p /\ dicts = [d \in Dict |-> NoDictionary]

LEMMA NoneAtFirst ==
  ASSUME NEW p, Begun(p), NEW d \in Dict
  PROVE  /\ dicts[d].refs = 0 /\ dicts[d].sub = NoDict /\ dicts[d].freed = FALSE
         /\ dicts[d] = NoDictionary
BY DEF Begun, NoDictionary

LEMMA TypedAtFirst ==
  ASSUME NEW p \in [Thread -> Seq(ApiCalls)], NEW share, NEW rank \in [Thread \cup Dict -> Nat],
         MadeInOrder(p, share, rank), Begun(p)
  PROVE  WellTyped
<1>1. dicts \in [Dict -> [refs : Nat, sub : Dict \cup {NoDict}, freed : BOOLEAN]]
  <2>1. NoDictionary \in [refs : Nat, sub : Dict \cup {NoDict}, freed : BOOLEAN]
    BY DEF NoDictionary
  <2> QED
    BY <2>1 DEF Begun
<1>2. ASSUME NEW t \in Thread, NEW r \in 1 .. Len(p[t]) PROVE Typed(Nth(p[t], r))
  <2>1. PICK i \in 1 .. Len(p[t]) : Nth(p[t], r) = p[t][i]
    BY CallsOf
  <2>2. PICK x : x = p[t][i]
    OBVIOUS
  <2>3. x \in ApiCalls /\ i \in DOMAIN p[t]
    BY <2>2, CallsOf
  <2>4. x[1] = "DictCreateSub" => x[2] \in Dict \X Dict /\ x[2][1] # x[2][2]
    <3> SUFFICES ASSUME x[1] = "DictCreateSub" PROVE x[2] \in Dict \X Dict /\ x[2][1] # x[2][2]
      OBVIOUS
    <3>1. x[2] \in Dict \X Dict
      BY <2>3, ApiShapes
    <3>2. rank[x[2][1]] < rank[x[2][2]]
      BY <2>2, <2>3 DEF MadeInOrder
    <3>3. rank[x[2][1]] \in Nat
      BY <3>1
    <3> QED
      BY <3>1, <3>2, <3>3
  <2>5. /\ x[1] = "Spawn" => x[2] \in Thread
        /\ x[1] \in {"DictCreate", "DictReference", "DictFree"} => x[2] \in Dict
        /\ x[1] \notin {"NewDict", "IfLast", "DictGone", "FreeDict", "SetSub", "ReadRefs", "WriteRefs"}
    BY <2>3, ApiShapes
  <2>6. Typed(x)
    BY <2>4, <2>5 DEF Typed
  <2> QED
    BY <2>1, <2>2, <2>6
<1> QED
  BY <1>1, <1>2 DEF WellTyped, Begun

LEMMA LocksAtFirst ==
  ASSUME NEW p \in [Thread -> Seq(ApiCalls)], Begun(p)
  PROVE  Locks
<1>1. ASSUME NEW t \in Thread, NEW r \in 1 .. Len(p[t])
      PROVE  /\ Nth(p[t], r)[1] \notin {"ReadRefs", "WriteRefs", "IfLast"}
             /\ ~Locking(Nth(p[t], r)) /\ ~Unlocking(Nth(p[t], r))
  <2>1. PICK x : x = Nth(p[t], r)
    OBVIOUS
  <2>2. x \in ApiCalls
    BY <2>1, CallsOf
  <2>3. x[1] \notin {"ReadRefs", "WriteRefs", "IfLast", "MutexLock", "MutexUnlock"}
    BY <2>2, ApiShapes
  <2> QED
    BY <2>1, <2>3 DEF Locking, Unlocking
<1>2. ASSUME NEW t \in Thread PROVE Sequenced(lib, p[t]) /\ ~Counting(p[t])
  <2>1. PICK c, n : c = p[t] /\ n = Len(p[t])
    OBVIOUS
  <2>2. n \in Nat /\ n = Len(c)
    BY <2>1, CallsOf
  <2>3. n > 0 => n \in 1 .. n
    BY <2>2
  <2>4. \A r \in 1 .. n - 1 : r \in 1 .. n
    BY <2>2
  <2>5. \A r \in 1 .. n : /\ Nth(c, r)[1] \notin {"ReadRefs", "WriteRefs", "IfLast"}
                          /\ ~Locking(Nth(c, r)) /\ ~Unlocking(Nth(c, r))
    BY <1>1, <2>1
  <2>6. Len(c) > 0 => Begins(lib, Nth(c, Len(c)))
    BY <2>2, <2>3, <2>5 DEF Begins
  <2>7. \A r \in 1 .. Len(c) - 1 : ComesAfter(lib, Nth(c, r + 1), Nth(c, r))
    BY <2>2, <2>4, <2>5 DEF ComesAfter
  <2>8. ~Counting(c)
    BY <2>2, <2>3, <2>5 DEF Counting
  <2> QED
    BY <2>1, <2>6, <2>7, <2>8 DEF Sequenced
<1> QED
  BY <1>2 DEF Locks, Begun

LEMMA MadeOnce ==
  ASSUME NEW p, NEW share, NEW rank, MadeInOrder(p, share, rank), NEW d \in Dict,
         NEW t \in Thread, NEW i \in DOMAIN p[t], NEW u \in Thread, NEW j \in DOMAIN p[u],
         Makes(p[t][i], d), Makes(p[u][j], d)
  PROVE  t = u /\ i = j
BY DEF MadeInOrder

LEMMA MakersAtFirst ==
  ASSUME NEW x \in ApiCalls, NEW d \in Dict
  PROVE  /\ Key(x) \in MakersOf(d) => Makes(x, d)
         /\ Key(x) \in LinksOf(d) => Makes(x, d)
         /\ Key(x) \notin EndsOf(d)
<1>1. /\ x[1] \notin {"NewDict", "SetSub", "DictGone", "FreeDict"}
      /\ x[1] = "DictCreate" => x = <<"DictCreate", x[2]>>
  BY ApiShapes
<1>2. Key(x) \in MakersOf(d) => Makes(x, d)
  <2> SUFFICES ASSUME Key(x) \in MakersOf(d) PROVE Makes(x, d)
    OBVIOUS
  <2>1. \/ x[1] \in {"DictCreate", "NewDict"} /\ x[2] = d
        \/ x[1] = "DictCreateSub" /\ x[2] \in {d} \X Dict
    BY KeyIn
  <2> QED
    BY <1>1, <2>1 DEF Makes
<1>3. Key(x) \in LinksOf(d) => Makes(x, d)
  <2> SUFFICES ASSUME Key(x) \in LinksOf(d) PROVE Makes(x, d)
    OBVIOUS
  <2>1. x[1] \in {"DictCreateSub", "SetSub"} /\ x[2] \in {d} \X Dict
    BY KeyIn
  <2> QED
    BY <1>1, <2>1 DEF Makes
<1>4. Key(x) \notin EndsOf(d)
  BY <1>1, KeyIn
<1> QED
  BY <1>2, <1>3, <1>4

LEMMA LifeAtFirst ==
  ASSUME NEW p \in [Thread -> Seq(ApiCalls)], NEW share, NEW rank,
         MadeInOrder(p, share, rank), Begun(p)
  PROVE  Life
<1> SUFFICES ASSUME NEW d \in Dict PROVE LifeOf(d)
  BY DEF Life
<1>1. PICK M, L, E : M = MakersOf(d) /\ L = LinksOf(d) /\ E = EndsOf(d)
  OBVIOUS
<1>2. ASSUME NEW t \in Thread, NEW i \in 1 .. Len(p[t])
      PROVE  /\ i \in DOMAIN p[t]
             /\ Key(p[t][i]) \in M => Makes(p[t][i], d)
             /\ Key(p[t][i]) \in L => Makes(p[t][i], d)
             /\ Key(p[t][i]) \notin E
  <2>1. PICK x : x = p[t][i]
    OBVIOUS
  <2>2. x \in ApiCalls /\ i \in DOMAIN p[t]
    BY <2>1, CallsOf
  <2> QED
    BY <1>1, <2>1, <2>2, MakersAtFirst
<1>3. ASSUME NEW t \in Thread, NEW u \in Thread, NEW i \in 1 .. Len(p[t]), NEW j \in 1 .. Len(p[u]),
             Makes(p[t][i], d), Makes(p[u][j], d)
      PROVE  t = u /\ i = j
  BY <1>2, <1>3, MadeOnce
<1>4. AtMostOne(M) /\ AtMostOne(L)
  BY <1>2, <1>3 DEF AtMostOne, Begun
<1>5. AtMostOne(E) /\ Absent(E)
  BY <1>2 DEF AtMostOne, Absent, Begun
<1>6. ASSUME NEW t \in Thread, Len(code[t]) > 0 PROVE Nth(code[t], Len(code[t]))[1] # "IfLast"
  <2>1. Len(p[t]) \in Nat /\ code[t] = p[t]
    BY CallsOf DEF Begun
  <2>2. Len(p[t]) \in 1 .. Len(p[t])
    BY <1>6, <2>1
  <2>3. Nth(p[t], Len(p[t])) \in ApiCalls
    BY <2>2, CallsOf
  <2> QED
    BY <2>1, <2>3, ApiShapes
<1>7. dicts[d].refs = 0 /\ dicts[d].sub = NoDict /\ dicts[d].freed = FALSE
  BY NoneAtFirst
<1> QED
  BY <1>1, <1>4, <1>5, <1>6, <1>7 DEF LifeOf, Once

LEMMA CountedAtFirst ==
  ASSUME LibraryAssumption, NEW p \in [Thread -> Seq(ApiCalls)], NEW share, NEW rank,
         SharesAddUp(p, share), MadeInOrder(p, share, rank), Begun(p), NEW H, H = FirstOf(p, share)
  PROVE  Counted(H)
<1> SUFFICES ASSUME NEW d \in Dict
             PROVE  /\ IsFiniteSet(Owned(InHand(H, d))) /\ IsFiniteSet(Heirs(d))
                    /\ dicts[d].refs = Cardinality(Owned(InHand(H, d))) + Cardinality(Heirs(d))
  BY DEF Counted
<1>1. ASSUME NEW u \in Thread PROVE InHand(H, d)[u] = 0
  <2>1. CASE Born(u)
    <3>1. H[u][Len(code[u])] = share[u][1] /\ H[u][Len(code[u])] \in [Dict -> Nat]
      <4>1. SharedAs(H, p, share)
        BY ShareFacts
      <4>2. H[u] \in [Nat -> [Dict -> Nat]] /\ H[u][Len(p[u])] = share[u][1]
        BY <4>1 DEF SharedAs
      <4>3. Len(p[u]) \in Nat /\ code[u] = p[u]
        BY CallsOf DEF Begun
      <4> QED
        BY <4>2, <4>3
    <3>2. ~(share[u][1][d] > 0)
      <4> SUFFICES ASSUME share[u][1][d] > 0 PROVE FALSE
        OBVIOUS
      <4>1. PICK t \in Thread : \E i \in DOMAIN p[t] : p[t][i] = <<"Spawn", u>>
        BY DEF MadeInOrder
      <4>2. PICK i \in DOMAIN p[t] : p[t][i] = <<"Spawn", u>>
        BY <4>1
      <4>3. i \in 1 .. Len(code[t]) /\ code[t] = p[t]
        BY CallsOf DEF Begun
      <4>4. Key(code[t][i]) \in {<<"Spawn", u>>}
        <5>1. PICK y : y = code[t][i]
          OBVIOUS
        <5>2. y[1] = "Spawn" /\ y[2] = u
          BY <4>2, <4>3, <5>1
        <5> QED
          BY <5>1, <5>2 DEF Key
      <4> QED
        BY <2>1, <4>3, <4>4 DEF Born, Absent
    <3>3. H[u][Len(code[u])][d] \in Nat
      BY <3>1
    <3> QED
      BY <2>1, <3>1, <3>2, <3>3 DEF InHand
  <2>2. CASE ~Born(u)
    BY <2>2 DEF InHand
  <2> QED
    BY <2>1, <2>2
<1>2. Owned(InHand(H, d)) = {}
  <2>1. PICK g : g = InHand(H, d)
    OBVIOUS
  <2>2. ASSUME NEW q \in Owned(g) PROVE FALSE
    <3>1. q[1] \in Thread /\ q[2] \in Nat /\ q[2] < g[q[1]]
      BY DEF Owned
    <3>2. g[q[1]] = 0
      BY <1>1, <2>1, <3>1
    <3> QED
      BY <3>1, <3>2
  <2> QED
    BY <2>1, <2>2
<1>3. Heirs(d) = {}
  <2>1. ASSUME NEW e \in Dict PROVE dicts[e].sub # d
    BY NoneAtFirst DEF LibraryAssumption
  <2> QED
    BY <2>1 DEF Heirs, Heir
<1>4. dicts[d].refs = 0
  BY NoneAtFirst
<1> QED
  BY <1>2, <1>3, <1>4, FS_EmptySet

LEMMA BackingAtFirst ==
  ASSUME NEW p \in [Thread -> Seq(ApiCalls)], NEW share, SharesAddUp(p, share), Begun(p),
         NEW H, H = FirstOf(p, share)
  PROVE  Backing(H)
<1> SUFFICES ASSUME NEW t \in Thread, NEW r \in 1 .. Len(p[t]) PROVE Backed(H, t, r, Nth(p[t], r))
  BY DEF Backing, Begun
<1>1. PICK n : n = Len(p[t])
  OBVIOUS
<1>2. n \in Nat
  BY <1>1, CallsOf
<1>3. PICK i : i = (n - r) + 1
  OBVIOUS
<1>4. r \in Nat /\ r <= n
  BY <1>1, <1>2
<1>5. H[t][r] = share[t][i]
  <2>1. SharedAs(H, p, share)
    BY ShareFacts
  <2> QED
    BY <1>1, <1>3, <1>4, <2>1 DEF SharedAs
<1>6. PICK x : x = p[t][i]
  OBVIOUS
<1>7. x \in ApiCalls /\ x = Nth(p[t], r) /\ i \in DOMAIN p[t]
  BY <1>1, <1>3, <1>6, CallsOf
<1>8. ASSUME NEW d \in Dict, Uses(x, d) PROVE H[t][r][d] > 0
  BY <1>5, <1>6, <1>7, <1>8 DEF SharesAddUp
<1>9. /\ x[1] = "DictReference" => x[2] \in Dict /\ x = <<"DictReference", x[2]>>
      /\ x[1] = "DictCreateSub" => x[2] \in Dict \X Dict
      /\ x[1] \notin {"ReadRefs", "WriteRefs", "SetSub"}
  BY <1>7, ApiShapes
<1>10. x[1] = "DictReference" => Covered(H, t, r, x[2])
  <2> SUFFICES ASSUME x[1] = "DictReference" PROVE Covered(H, t, r, x[2])
    OBVIOUS
  <2>1. Uses(x, x[2])
    BY <1>9 DEF Uses
  <2> QED
    BY <1>8, <1>9, <2>1 DEF Covered
<1>11. x[1] = "DictCreateSub" => H[t][r][x[2][2]] > 0
  <2> SUFFICES ASSUME x[1] = "DictCreateSub" PROVE H[t][r][x[2][2]] > 0
    OBVIOUS
  <2>1. x[2][2] \in Dict /\ Uses(x, x[2][2])
    BY <1>9 DEF Uses
  <2> QED
    BY <1>8, <2>1
<1> QED
  BY <1>7, <1>9, <1>10, <1>11 DEF Backed

LEMMA DictInvAtFirst ==
  ASSUME ReferencesGivenBack, LInit
  PROVE  DictInv
<1>1. code \in Programs /\ dicts = [d \in Dict |-> NoDictionary]
  BY DEF LInit
<1>2. PICK p : p = code
  OBVIOUS
<1>3. p \in [Thread -> Seq(ApiCalls)] /\ Begun(p)
  BY <1>1, <1>2, LibraryAssumption DEF LibraryAssumption, Begun
<1>4. \A u \in Thread \ {First} : id[u] = 0
  BY DEF LInit
<1>5. PICK share, rank : rank \in [Thread \cup Dict -> Nat] /\ SharesAddUp(p, share) /\ MadeInOrder(p, share, rank)
  BY <1>1, <1>2 DEF ReferencesGivenBack
<1>6. PICK H : H = FirstOf(p, share)
  OBVIOUS
<1>7. WellTyped
  BY <1>3, <1>5, TypedAtFirst
<1>8. Locks
  BY <1>3, LocksAtFirst
<1>9. Life
  BY <1>3, <1>5, LifeAtFirst
<1>10. Births(rank)
  BY <1>2, <1>3, <1>4, <1>5, BirthsAtFirst
<1>11. Ledger(H)
  BY <1>2, <1>3, <1>5, <1>6, LedgerAtFirst
<1>12. Counted(H)
  BY <1>3, <1>5, <1>6, CountedAtFirst, LibraryAssumption
<1>13. Backing(H)
  BY <1>3, <1>5, <1>6, BackingAtFirst
<1>14. Balanced(H, rank)
  BY <1>5, <1>7, <1>8, <1>9, <1>10, <1>11, <1>12, <1>13 DEF Balanced
<1> QED
  BY <1>14 DEF DictInv

\* No dictionary is freed while someone still counts on it (nl_xmlDictFree, xml_dict.c:774),
\* whatever the programs, when their references add up.
THEOREM DictionariesKept ==
  ASSUME ReferencesGivenBack
  PROVE  LSpec => []DictKept
<1> DEFINE Inv == Somewhere /\ DictInv
<1>1. LInit => Inv
  BY PlacedAtFirst, DictInvAtFirst
<1>2. Inv /\ [LNext]_vars => Inv'
  BY StillSomewhere, DictInvKept
<1>3. Inv => DictKept
  <2> SUFFICES ASSUME Somewhere, DictInv PROVE DictKept
    OBVIOUS
  <2>1. PICK F, k : Placed(F, k)
    BY DEF Somewhere
  <2>2. Listed
    BY <2>1 DEF Placed, Shape, Listed
  <2>3. PICK H, rank : Balanced(H, rank)
    BY DEF DictInv
  <2> QED
    BY <2>2, <2>3, DictKeptNow
<1> QED
  BY <1>1, <1>2, <1>3, PTL DEF LSpec
=============================================================================
