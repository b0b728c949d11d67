-------------------------- MODULE MCLibraryThreads --------------------------
(* LibraryThreads with three threads and the calls of four scenarios.       *)
EXTENDS LibraryThreads, TLC

CONSTANTS t1, t2, t3, h1, h2, d1, d2

Call(f) == <<<<f>>>>

On(f, x) == <<<<f, x>>>>

SpawnBoth == On("Spawn", t2) \o On("Spawn", t3)

JoinBoth == On("Join", t2) \o On("Join", t3)

Twice(f, g) == Call(f) \o Call(f) \o Call(g) \o Call(g)

Lists(first, second, third) == t1 :> first @@ t2 :> second @@ t3 :> third

\* What nl_xpath_context_evaluate does around an evaluation that fails.
Evaluate(h) == On("SetFunc", h) \o Call("RaiseError") \o On("SetFunc", NoHandler)

\* The lock, taken before there are other threads and by all of them after.
Locking ==
  Lists(Twice("RMutexLock", "RMutexUnlock") \o SpawnBoth \o Call("LockLibrary")
          \o Twice("RMutexLock", "RMutexUnlock") \o JoinBoth,
        Twice("RMutexLock", "RMutexUnlock") \o Call("RMutexLock") \o Call("RMutexUnlock"),
        Call("RMutexLock") \o Call("RMutexUnlock"))

\* Everyone is the first to use the library.
Starting == Lists(SpawnBoth \o Evaluate(h1) \o JoinBoth,
                  Evaluate(h2), Call("RaiseError"))

\* A thread begins the library and ends; the next one has its pthread_t.
Succeeding == Lists(On("Spawn", t2) \o On("Join", t2) \o On("Spawn", t3)
                      \o Evaluate(h2) \o On("Join", t3),
                    Evaluate(h1), Call("RaiseError") \o Evaluate(h1))

\* The defaults change while other threads make their states.
Defaulting == Lists(Call("InitParser") \o SpawnBoth \o On("SetDefaultFunc", h1)
                      \o On("SetDefaultFunc", h2) \o JoinBoth,
                    On("SwapDefault", h2) \o Call("RaiseError"),
                    Evaluate(h1) \o On("SwapDefault", h1))

\* Two threads are handed a reference each; one of them makes a dictionary that
\* inherits from the shared one.
Counting ==
  Lists(On("DictCreate", d1) \o On("DictReference", d1) \o On("DictReference", d1)
          \o SpawnBoth \o On("DictFree", d1) \o JoinBoth,
        On("DictCreateSub", <<d2, d1>>) \o On("DictFree", d1) \o On("DictFree", d2),
        On("DictFree", d1))

MCPrograms == {Locking, Starting, Succeeding, Defaulting, Counting}

MCId == 1 .. 3

\* What the theorem on defaults supposes of the programs.
ASSUME MCDefaultsDiffer == DefaultsDiffer

\* What the one on dictionaries supposes of them: the references that each thread has before
\* each call are found from its last call on, and here is who begins before whom.
MCLongest == 20

ShareOf(p) ==
  LET share[t \in Thread, i \in 1 .. MCLongest, d \in Dict] ==
        IF i > Len(p[t]) THEN 0
        ELSE LET x == p[t][i]
             IN share[t, i + 1, d]
                  - (IF Makes(x, d) \/ x = <<"DictReference", d>> THEN 1
                     ELSE IF x = <<"DictFree", d>> THEN -1
                     ELSE IF x[1] = "Spawn" THEN -share[x[2], 1, d]
                     ELSE 0)
  IN [t \in Thread |-> [i \in 1 .. Len(p[t]) + 1 |-> [d \in Dict |-> share[t, i, d]]]]

RankOf == [x \in Thread \cup Dict |-> IF x \in {t1, d2} THEN 0 ELSE 1]

ASSUME MCReferencesGivenBack ==
  \A p \in Programs :
    /\ RankOf \in [Thread \cup Dict -> Nat]
    /\ SharesAddUp(p, ShareOf(p)) /\ MadeInOrder(p, ShareOf(p), RankOf)
-----------------------------------------------------------------------------
\* The lock is a re-entrant lock with one owner (xml_threads.c:306-361): every
\* step of it takes it, gives it back, or changes nothing an owner can see.
Abstract == INSTANCE ReentrantLock WITH owner <- tid, count <- held

ImplementsLock == Abstract!Spec

\* Every thread gets to the end of what it has to do, unless waiting threads are
\* woken for no reason for ever: no wake-up is lost (xml_threads.c:353-355) and
\* no mutex stays closed.
EveryoneReturns ==
  \/ []<><<\E t \in Thread : Spurious(t)>>_vars
  \/ <>(\A t \in Thread : code[t] = <<>> /\ pc[t] = "idle")
=============================================================================
