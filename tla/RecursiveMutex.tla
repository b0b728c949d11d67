--------------------------- MODULE RecursiveMutex ---------------------------
(***************************************************************************)
(* xmlRMutex (xml_threads.c): a lock that its holder may take again, made  *)
(* of a pthread mutex, a condition variable and three fields.              *)
(*                                                                         *)
(* The functions do nothing as long as the process has one thread          *)
(* (XML_IS_THREADED): a thread that took the lock then and started another *)
(* one before giving it back would hold nothing.  Here threads are started *)
(* while nobody holds the lock, which is what its users have to see to.    *)
(***************************************************************************)
EXTENDS Naturals, FiniteSets

CONSTANTS
  Thread,
  First,         \* the thread the process starts with
  Nobody,        \* no thread: a cleared tid, a free mutex
  MaxHeld        \* bound: how often a thread takes the lock before it gives it back

ASSUME ThreadAssumption ==
  IsFiniteSet(Thread) /\ First \in Thread /\ Nobody \notin Thread

ASSUME HeldAssumption == MaxHeld \in Nat

VARIABLES
  threaded,  \* ! __libc_single_threaded
  lock,      \* tok->lock: the thread inside, or Nobody
  held,      \* tok->held
  waiters,   \* tok->waiters
  tid,       \* tok->tid
  asleep,    \* the threads in pthread_cond_wait that nobody has woken
  pc,        \* where each thread is in lock or unlock
  depth      \* history: the locks each thread has returned from and not undone

mutexVars == <<lock, held, waiters, tid, asleep, pc, depth>>

rvars == <<threaded, mutexVars>>

Pcs == {"idle", "lock", "locked", "wait", "sleep", "unlock", "release", "leave"}

\* Where a thread is between pthread_mutex_lock and pthread_mutex_unlock.
Inside == {"locked", "wait", "release", "leave"}

RInit ==
  /\ threaded = FALSE
  /\ lock = Nobody /\ held = 0 /\ waiters = 0 /\ tid = Nobody
  /\ asleep = {}
  /\ pc = [t \in Thread |-> "idle"]
  /\ depth = [t \in Thread |-> 0]
-----------------------------------------------------------------------------
Goto(t, where) == pc' = [pc EXCEPT ![t] = where]

\* Another thread is started.
BecomeThreaded ==
  /\ \A t \in Thread : depth[t] = 0
  /\ threaded' = TRUE
  /\ UNCHANGED mutexVars

\* nl_xmlRMutexLock is called; with one thread it returns at once.
LockCall(t) ==
  /\ pc[t] = "idle" /\ depth[t] < MaxHeld
  /\ threaded \/ t = First
  /\ IF threaded THEN Goto(t, "lock") /\ UNCHANGED depth
     ELSE depth' = [depth EXCEPT ![t] = @ + 1] /\ UNCHANGED pc
  /\ UNCHANGED <<threaded, lock, held, waiters, tid, asleep>>

\* pthread_mutex_lock, for both functions
Enter(t) ==
  /\ pc[t] \in {"lock", "unlock"} /\ lock = Nobody
  /\ lock' = t
  /\ Goto(t, IF pc[t] = "lock" THEN "locked" ELSE "release")
  /\ UNCHANGED <<threaded, held, waiters, tid, asleep, depth>>

\* Variant of Reenter: any thread counts as the holder.
ReenterAnyone(t) ==
  /\ pc[t] = "locked" /\ held > 0
  /\ held' = held + 1
  /\ depth' = [depth EXCEPT ![t] = @ + 1]
  /\ Goto(t, "leave")
  /\ UNCHANGED <<threaded, lock, waiters, tid, asleep>>

Reenter(t) ==
  /\ pc[t] = "locked" /\ held > 0 /\ tid = t
  /\ held' = held + 1
  /\ depth' = [depth EXCEPT ![t] = @ + 1]
  /\ Goto(t, "leave")
  /\ UNCHANGED <<threaded, lock, waiters, tid, asleep>>

Queue(t) ==
  /\ pc[t] = "locked" /\ held > 0 /\ tid # t
  /\ waiters' = waiters + 1
  /\ Goto(t, "wait")
  /\ UNCHANGED <<threaded, lock, held, tid, asleep, depth>>

\* pthread_cond_wait gives the mutex up and sleeps, in one step.
Sleep(t) ==
  /\ pc[t] = "wait" /\ held > 0
  /\ lock' = Nobody
  /\ asleep' = asleep \cup {t}
  /\ Goto(t, "sleep")
  /\ UNCHANGED <<threaded, held, waiters, tid, depth>>

Own(t) ==
  /\ tid' = t /\ held' = 1
  /\ depth' = [depth EXCEPT ![t] = @ + 1]
  /\ Goto(t, "leave")

\* Variant of Wake: "if (tok->held)" where the code has while.
WakeOwning(t) ==
  /\ pc[t] = "sleep" /\ t \notin asleep /\ lock = Nobody
  /\ lock' = t
  /\ waiters' = waiters - 1
  /\ Own(t)
  /\ UNCHANGED <<threaded, asleep>>

\* It returns with the mutex, after a signal or for no reason.
Wake(t) ==
  /\ pc[t] = "sleep" /\ t \notin asleep /\ lock = Nobody
  /\ lock' = t
  /\ Goto(t, "wait")
  /\ UNCHANGED <<threaded, held, waiters, tid, asleep, depth>>

SpuriousWakeup(t) ==
  /\ t \in asleep
  /\ asleep' = asleep \ {t}
  /\ UNCHANGED <<threaded, lock, held, waiters, tid, pc, depth>>

StopWaiting(t) ==
  /\ pc[t] = "wait" /\ held = 0
  /\ waiters' = waiters - 1
  /\ Own(t)
  /\ UNCHANGED <<threaded, lock, asleep>>

Take(t) ==
  /\ pc[t] = "locked" /\ held = 0
  /\ Own(t)
  /\ UNCHANGED <<threaded, lock, waiters, asleep>>

\* nl_xmlRMutexUnlock is called by a thread that holds the lock.
UnlockCall(t) ==
  /\ pc[t] = "idle" /\ depth[t] > 0
  /\ IF threaded THEN Goto(t, "unlock") /\ UNCHANGED depth
     ELSE depth' = [depth EXCEPT ![t] = @ - 1] /\ UNCHANGED pc
  /\ UNCHANGED <<threaded, lock, held, waiters, tid, asleep>>

\* pthread_cond_signal wakes one of the threads that sleep, if any does.
Signal ==
  \/ asleep = {} /\ asleep' = asleep
  \/ \E u \in asleep : asleep' = asleep \ {u}

\* Variant of Release: nobody is woken for a single waiter.
ReleaseSilent(t) ==
  /\ pc[t] = "release"
  /\ held' = held - 1
  /\ depth' = [depth EXCEPT ![t] = @ - 1]
  /\ IF held' = 0 /\ waiters > 1 THEN Signal ELSE UNCHANGED asleep
  /\ tid' = IF held' = 0 THEN Nobody ELSE tid
  /\ Goto(t, "leave")
  /\ UNCHANGED <<threaded, lock, waiters>>

Release(t) ==
  /\ pc[t] = "release"
  /\ held' = held - 1
  /\ depth' = [depth EXCEPT ![t] = @ - 1]
  /\ IF held' = 0 /\ waiters > 0 THEN Signal ELSE UNCHANGED asleep
  /\ tid' = IF held' = 0 THEN Nobody ELSE tid
  /\ Goto(t, "leave")
  /\ UNCHANGED <<threaded, lock, waiters>>

\* pthread_mutex_unlock, and return
Leave(t) ==
  /\ pc[t] = "leave"
  /\ lock' = Nobody
  /\ Goto(t, "idle")
  /\ UNCHANGED <<threaded, held, waiters, tid, asleep, depth>>

\* What a call does on its own once it has begun.
MutexStep(t) ==
  \/ Enter(t) \/ Reenter(t) \/ Queue(t) \/ Sleep(t) \/ Wake(t)
  \/ StopWaiting(t) \/ Take(t) \/ Release(t) \/ Leave(t)

RNext == \/ BecomeThreaded
         \/ \E t \in Thread : LockCall(t) \/ UnlockCall(t)
                              \/ MutexStep(t) \/ SpuriousWakeup(t)

RSpec == RInit /\ [][RNext]_rvars
-----------------------------------------------------------------------------
RTypeOK ==
  /\ threaded \in BOOLEAN
  /\ lock \in Thread \cup {Nobody} /\ tid \in Thread \cup {Nobody}
  /\ held \in Nat /\ waiters \in Nat
  /\ asleep \subseteq Thread
  /\ pc \in [Thread -> Pcs]
  /\ depth \in [Thread -> Nat]

\* "xmlRMutex are reentrant mutual exception locks" (xml_threads.c:87): no two
\* threads hold it, whatever was woken by whom (xml_threads.c:322).
MutualExclusion ==
  \A t, u \in Thread : depth[t] > 0 /\ depth[u] > 0 => t = u
=============================================================================
