--------------------------- MODULE LibraryThreads ---------------------------
(***************************************************************************)
(* What the threads of a process share in the C library: the one-time      *)
(* initialisation (xml_parser.c), the per-thread global state and its      *)
(* defaults (xml_threads.c, xml_globals.c, xml_error.c), the counted       *)
(* dictionaries (xml_dict.c) and a recursive lock.                         *)
(*                                                                         *)
(* A thread has a list of calls still to make.  An action takes the first  *)
(* of them and does what the function does up to its next call, or puts    *)
(* the calls that the function makes in its place.                         *)
(***************************************************************************)
EXTENDS RecursiveMutex, Integers, Sequences

CONSTANTS
  Id,         \* the values of pthread_t, used again when a thread is gone
  Handler,    \* the structured error handlers, each with a context of its own
  NoHandler,  \* NULL
  Dict,       \* the dictionaries
  NoDict,     \* NULL
  Programs    \* the calls that each thread makes, one such list per scenario

\* The calls that a program makes; the functions make others.
ApiCalls ==
  {<<f>> : f \in {"RMutexLock", "RMutexUnlock", "LockLibrary", "InitParser", "RaiseError"}}
    \cup ({"Spawn", "Join"} \X Thread)
    \cup ({"SetFunc", "SetDefaultFunc", "SwapDefault"} \X (Handler \cup {NoHandler}))
    \cup ({"DictCreate", "DictReference", "DictFree"} \X Dict)
    \cup ({"DictCreateSub"} \X (Dict \X Dict))

ASSUME LibraryAssumption ==
  /\ NoHandler \notin Handler /\ NoDict \notin Dict /\ 0 \notin Id
  /\ \A p \in Programs : p \in [Thread -> Seq(ApiCalls)]

VARIABLES
  code,      \* the calls each thread has still to make
  id,        \* the pthread_t of each thread that lives, and 0
  mutex,     \* who is inside each of the simple mutexes
  lib,       \* the initialisation and what it sets
  defaults,  \* the handler and the context that new threads begin with
  globals,   \* the state of the main thread
  tls,       \* the state of each other thread, or NoState
  dicts,     \* the dictionaries
  told,      \* history: the handler each thread set, the one it last reached, and
             \* the default it put in the place of another
  sight,     \* history: the threads that are sure to see what the initialisation wrote (it
             \* happens before what they do now), the mutexes that they gave back, and
             \* whether it was over before there was a second thread
  born       \* history: the dictionaries that were made

libVars == <<code, id, mutex, lib, defaults, globals, tls, dicts, told, sight, born>>

vars == <<rvars, libVars>>

\* global_init_lock, xmlThrDefMutex, xmlDictMutex
Mutexes == {"init", "defaults", "dict"}

\* What nl_xmlInitParser initialises, in this order.
Subsystems == <<"threads", "globals", "memory", "dict", "encoding", "xpath">>

Pair == [handler : Handler \cup {NoHandler}, context : Handler \cup {NoHandler}]

NoPair == [handler |-> NoHandler, context |-> NoHandler]

NoDefaults == [handler |-> NoHandler, context |-> NoHandler, setting |-> NoHandler]

NoState == [there |-> FALSE, pair |-> NoPair]

NoDictionary == [refs |-> 0, sub |-> NoDict, freed |-> FALSE]

Alive == {t \in Thread : id[t] # 0}

\* What each thread begins with: only the first one runs.
LInit ==
  /\ RInit
  /\ code \in Programs
  /\ \E i \in Id : id = [t \in Thread |-> IF t = First THEN i ELSE 0]
  /\ mutex = [m \in Mutexes |-> Nobody]
  /\ lib = [initialized |-> FALSE, main |-> 0,
            made |-> [s \in {Subsystems[k] : k \in DOMAIN Subsystems} |-> 0]]
  /\ defaults = NoDefaults /\ globals = NoPair
  /\ tls = [t \in Thread |-> NoState]
  /\ dicts = [d \in Dict |-> NoDictionary]
  /\ told = [t \in Thread |-> [set |-> NoHandler, reached |-> NoPair, own |-> TRUE,
                               new |-> NoHandler, old |-> NoHandler]]
  /\ sight = [threads |-> {}, mutexes |-> {}, early |-> FALSE] /\ born = {}
-----------------------------------------------------------------------------
(* Calls.                                                                  *)

\* t, which is in no mutex, is about to call f.
At(t, f) == /\ id[t] # 0 /\ pc[t] = "idle"
            /\ code[t] # <<>> /\ Head(code[t])[1] = f

Arg(t) == Head(code[t])[2]

Calls(t, body) == code' = [code EXCEPT ![t] = body \o Tail(@)]

Returns(t) == Calls(t, <<>>)

\* body between nl_xmlMutexLock and nl_xmlMutexUnlock
Locked(m, body) == <<<<"MutexLock", m>>>> \o body \o <<<<"MutexUnlock", m>>>>

\* nl_xmlMutexLock, __xmlGlobalInitMutexLock
MutexLock(t) ==
  /\ At(t, "MutexLock")
  /\ IF threaded THEN mutex[Arg(t)] = Nobody /\ mutex' = [mutex EXCEPT ![Arg(t)] = t]
     ELSE UNCHANGED mutex
  /\ sight' = IF threaded /\ Arg(t) \in sight.mutexes
              THEN [sight EXCEPT !.threads = @ \cup {t}] ELSE sight
  /\ Returns(t)
  /\ UNCHANGED <<rvars, id, lib, defaults, globals, tls, dicts, told, born>>

\* nl_xmlMutexUnlock, __xmlGlobalInitMutexUnlock
MutexUnlock(t) ==
  /\ At(t, "MutexUnlock")
  /\ mutex' = IF threaded THEN [mutex EXCEPT ![Arg(t)] = Nobody] ELSE mutex
  /\ sight' = IF threaded /\ t \in sight.threads
              THEN [sight EXCEPT !.mutexes = @ \cup {Arg(t)}] ELSE sight
  /\ Returns(t)
  /\ UNCHANGED <<rvars, id, lib, defaults, globals, tls, dicts, told, born>>

\* nl_xmlRMutexLock and nl_xmlRMutexUnlock on one mutex of nl_xmlNewRMutex
TakeRecursive(t) ==
  /\ At(t, "RMutexLock") /\ LockCall(t) /\ Returns(t)
  /\ UNCHANGED <<id, mutex, lib, defaults, globals, tls, dicts, told, sight, born>>

GiveRecursive(t) ==
  /\ At(t, "RMutexUnlock") /\ UnlockCall(t) /\ Returns(t)
  /\ UNCHANGED <<id, mutex, lib, defaults, globals, tls, dicts, told, sight, born>>

\* nl_xmlLockLibrary, nl_xmlUnlockLibrary: xmlLibraryLock is never set.
LockLibrary(t) ==
  /\ At(t, "LockLibrary") /\ Returns(t)
  /\ UNCHANGED <<rvars, id, mutex, lib, defaults, globals, tls, dicts, told, sight, born>>
-----------------------------------------------------------------------------
(* Threads of the process.                                                 *)

\* u sees what t sees: what t did so far happens before what u does from now on.
Sees(u, t) ==
  sight' = IF t \in sight.threads THEN [sight EXCEPT !.threads = @ \cup {u}]
           ELSE [sight EXCEPT !.threads = @ \ {u}]

\* The new thread gets a pthread_t that no living thread has.
Spawn(t) ==
  /\ At(t, "Spawn") /\ id[Arg(t)] = 0 /\ BecomeThreaded
  /\ \E i \in Id \ {id[u] : u \in Alive} : id' = [id EXCEPT ![Arg(t)] = i]
  /\ Sees(Arg(t), t)
  /\ Returns(t)
  /\ UNCHANGED <<mutex, lib, defaults, globals, tls, dicts, told, born>>

\* The thread ends: pthread calls xmlFreeGlobalState with what it has stored.
Exit(t) ==
  /\ id[t] # 0 /\ pc[t] = "idle" /\ code[t] = <<>> /\ t # First
  /\ id' = [id EXCEPT ![t] = 0]
  /\ tls' = [tls EXCEPT ![t] = NoState]
  /\ UNCHANGED <<rvars, code, mutex, lib, defaults, globals, dicts, told, sight, born>>

Join(t) ==
  /\ At(t, "Join") /\ id[Arg(t)] = 0
  /\ IF t \in sight.threads THEN UNCHANGED sight ELSE Sees(t, Arg(t))
  /\ Returns(t)
  /\ UNCHANGED <<rvars, id, mutex, lib, defaults, globals, tls, dicts, told, born>>
-----------------------------------------------------------------------------
(* Initialisation.                                                         *)

\* What t can read of the flag outside the lock, where another thread may be writing
\* it: its value, or the one it began with.
FlagRead(t) == {lib.initialized} \cup (IF t \in sight.threads THEN {} ELSE {FALSE})

\* Variant of InitParser: the flag is only looked at outside the lock.
InitParserUnchecked(t) ==
  /\ At(t, "InitParser")
  /\ \E initialized \in FlagRead(t) :
       Calls(t, IF initialized THEN <<>>
                ELSE Locked("init", [k \in DOMAIN Subsystems |-> <<"Init", Subsystems[k]>>]
                                    \o <<<<"SetInitialized">>>>))
  /\ UNCHANGED <<rvars, id, mutex, lib, defaults, globals, tls, dicts, told, sight, born>>

\* nl_xmlInitParser looks at the flag without the lock first.
InitParser(t) ==
  /\ At(t, "InitParser")
  /\ \E initialized \in FlagRead(t) :
       Calls(t, IF initialized THEN <<>> ELSE Locked("init", <<<<"InitOnce">>>>))
  /\ UNCHANGED <<rvars, id, mutex, lib, defaults, globals, tls, dicts, told, sight, born>>

\* ... and again with it.
InitOnce(t) ==
  /\ At(t, "InitOnce")
  /\ Calls(t, IF lib.initialized THEN <<>>
              ELSE [k \in DOMAIN Subsystems |-> <<"Init", Subsystems[k]>>]
                   \o <<<<"SetInitialized">>>>)
  /\ UNCHANGED <<rvars, id, mutex, lib, defaults, globals, tls, dicts, told, sight, born>>

\* xmlInitThreadsInternal, which makes the caller the main thread, and the
\* others, which initialise a mutex or a constant each.
Initialise(t) ==
  /\ At(t, "Init")
  /\ lib' = [lib EXCEPT !.made[Arg(t)] = @ + 1,
                        !.main = IF Arg(t) = "threads" THEN id[t] ELSE @]
  /\ mutex' = CASE Arg(t) = "globals" -> [mutex EXCEPT !["defaults"] = Nobody]
                [] Arg(t) = "dict"    -> [mutex EXCEPT !["dict"] = Nobody]
                [] OTHER              -> mutex
  /\ Returns(t)
  /\ UNCHANGED <<rvars, id, defaults, globals, tls, dicts, told, sight, born>>

SetInitialized(t) ==
  /\ At(t, "SetInitialized")
  /\ lib' = [lib EXCEPT !.initialized = TRUE]
  /\ sight' = [sight EXCEPT !.threads = @ \cup {t}, !.early = ~threaded]
  /\ Returns(t)
  /\ UNCHANGED <<rvars, id, mutex, defaults, globals, tls, dicts, told, born>>
-----------------------------------------------------------------------------
(* The state of a thread: where its errors go.                             *)

\* nl_xmlIsMainThread, when the library is initialised
IsMain(t) == ~threaded \/ lib.main = id[t]

\* Every accessor __nl_xmlX: the process's own variable for the main thread, a
\* field of nl_xmlGetGlobalState for another, which is made at the first use.
GetState(t) ==
  /\ At(t, "GetState")
  /\ Calls(t, IF IsMain(t) \/ tls[t].there THEN <<>>
              ELSE Locked("defaults", <<<<"CopyHandler">>, <<"CopyContext">>>>))
  /\ UNCHANGED <<rvars, id, mutex, lib, defaults, globals, tls, dicts, told, sight, born>>

\* nl_xmlInitializeGlobalState copies the defaults one by one.
CopyHandler(t) ==
  /\ At(t, "CopyHandler")
  /\ tls' = [tls EXCEPT ![t].pair.handler = defaults.handler]
  /\ Returns(t)
  /\ UNCHANGED <<rvars, id, mutex, lib, defaults, globals, dicts, told, sight, born>>

CopyContext(t) ==
  /\ At(t, "CopyContext")
  /\ tls' = [tls EXCEPT ![t].pair.context = defaults.context, ![t].there = TRUE]
  /\ Returns(t)
  /\ UNCHANGED <<rvars, id, mutex, lib, defaults, globals, dicts, told, sight, born>>

\* nl_xmlThrDefSetStructuredErrorFunc: the context, then the handler.  It does not
\* initialise the library, and neither do its like: they are called when
\* there is a mutex.
SetDefaultFunc(t) ==
  /\ At(t, "SetDefaultFunc") /\ lib.initialized
  /\ Calls(t, Locked("defaults", <<<<"DefaultContext", Arg(t)>>, <<"DefaultHandler", Arg(t)>>>>))
  /\ UNCHANGED <<rvars, id, mutex, lib, defaults, globals, tls, dicts, told, sight, born>>

DefaultContext(t) ==
  /\ At(t, "DefaultContext")
  /\ defaults' = [defaults EXCEPT !.context = Arg(t)]
  /\ Returns(t)
  /\ UNCHANGED <<rvars, id, mutex, lib, globals, tls, dicts, told, sight, born>>

DefaultHandler(t) ==
  /\ At(t, "DefaultHandler")
  /\ defaults' = [defaults EXCEPT !.handler = Arg(t)]
  /\ Returns(t)
  /\ UNCHANGED <<rvars, id, mutex, lib, globals, tls, dicts, told, sight, born>>

\* Variant of SwapDefault: without the mutex.
SwapDefaultUnlocked(t) ==
  /\ At(t, "SwapDefault") /\ lib.initialized
  /\ Calls(t, <<<<"ReadSetting", Arg(t)>>>>)
  /\ UNCHANGED <<rvars, id, mutex, lib, defaults, globals, tls, dicts, told, sight, born>>

\* The other nl_xmlThrDefX put a value in the place of the one they return.
SwapDefault(t) ==
  /\ At(t, "SwapDefault") /\ lib.initialized
  /\ Calls(t, Locked("defaults", <<<<"ReadSetting", Arg(t)>>>>))
  /\ UNCHANGED <<rvars, id, mutex, lib, defaults, globals, tls, dicts, told, sight, born>>

ReadSetting(t) ==
  /\ At(t, "ReadSetting")
  /\ told' = [told EXCEPT ![t].old = defaults.setting, ![t].new = Arg(t)]
  /\ Calls(t, <<<<"WriteSetting", Arg(t)>>>>)
  /\ UNCHANGED <<rvars, id, mutex, lib, defaults, globals, tls, dicts, sight, born>>

WriteSetting(t) ==
  /\ At(t, "WriteSetting")
  /\ defaults' = [defaults EXCEPT !.setting = Arg(t)]
  /\ Returns(t)
  /\ UNCHANGED <<rvars, id, mutex, lib, globals, tls, dicts, told, sight, born>>

\* nl_xmlSetStructuredErrorFunc, through two accessors.
SetFunc(t) ==
  /\ At(t, "SetFunc")
  /\ Calls(t, <<<<"InitParser">>, <<"GetState">>, <<"Store", Arg(t)>>>>)
  /\ UNCHANGED <<rvars, id, mutex, lib, defaults, globals, tls, dicts, told, sight, born>>

\* Variant of Store: the variables of the process are taken for the thread's.
StoreGlobal(t) ==
  /\ At(t, "Store")
  /\ globals' = [handler |-> Arg(t), context |-> Arg(t)]
  /\ told' = [told EXCEPT ![t].set = Arg(t)]
  /\ Returns(t)
  /\ UNCHANGED <<rvars, id, mutex, lib, defaults, tls, dicts, sight, born>>

Store(t) ==
  /\ At(t, "Store")
  /\ LET p == [handler |-> Arg(t), context |-> Arg(t)]
     IN IF IsMain(t) THEN globals' = p /\ UNCHANGED tls
        ELSE tls' = [tls EXCEPT ![t].pair = p] /\ UNCHANGED globals
  /\ told' = [told EXCEPT ![t].set = Arg(t)]
  /\ Returns(t)
  /\ UNCHANGED <<rvars, id, mutex, lib, defaults, dicts, sight, born>>

\* __nl_xmlRaiseError finds the handler through an accessor and calls it with
\* the context.
RaiseError(t) ==
  /\ At(t, "RaiseError")
  /\ Calls(t, <<<<"InitParser">>, <<"GetState">>, <<"Deliver">>>>)
  /\ UNCHANGED <<rvars, id, mutex, lib, defaults, globals, tls, dicts, told, sight, born>>

Deliver(t) ==
  /\ At(t, "Deliver")
  /\ LET p == IF IsMain(t) THEN globals ELSE tls[t].pair
     IN told' = [told EXCEPT ![t].reached = p,
                             ![t].own = told[t].set \in {p.handler, NoHandler}]
  /\ Returns(t)
  /\ UNCHANGED <<rvars, id, mutex, lib, defaults, globals, tls, dicts, sight, born>>
-----------------------------------------------------------------------------
(* Dictionaries.                                                           *)

\* nl_xmlDictCreate; __xmlRandom takes the mutex for a moment.
DictCreate(t) ==
  /\ At(t, "DictCreate")
  /\ Calls(t, <<<<"InitParser">>, <<"NewDict", Arg(t)>>>> \o Locked("dict", <<>>))
  /\ UNCHANGED <<rvars, id, mutex, lib, defaults, globals, tls, dicts, told, sight, born>>

NewDict(t) ==
  /\ At(t, "NewDict")
  /\ dicts' = [dicts EXCEPT ![Arg(t)] = [NoDictionary EXCEPT !.refs = 1]]
  /\ born' = born \cup {Arg(t)}
  /\ Returns(t)
  /\ UNCHANGED <<rvars, id, mutex, lib, defaults, globals, tls, told, sight>>

\* Variant of DictCreateSub: the other dictionary is not counted.
DictCreateSubUncounted(t) ==
  /\ At(t, "DictCreateSub")
  /\ LET d == Arg(t)[1]  sub == Arg(t)[2]
     IN Calls(t, <<<<"DictCreate", d>>, <<"SetSub", <<d, sub>>>>>>)
  /\ UNCHANGED <<rvars, id, mutex, lib, defaults, globals, tls, dicts, told, sight, born>>

\* nl_xmlDictCreateSub
DictCreateSub(t) ==
  /\ At(t, "DictCreateSub")
  /\ LET d == Arg(t)[1]  sub == Arg(t)[2]
     IN Calls(t, <<<<"DictCreate", d>>, <<"SetSub", <<d, sub>>>>, <<"DictReference", sub>>>>)
  /\ UNCHANGED <<rvars, id, mutex, lib, defaults, globals, tls, dicts, told, sight, born>>

SetSub(t) ==
  /\ At(t, "SetSub")
  /\ dicts' = [dicts EXCEPT ![Arg(t)[1]].sub = Arg(t)[2]]
  /\ Returns(t)
  /\ UNCHANGED <<rvars, id, mutex, lib, defaults, globals, tls, told, sight, born>>

\* The dictionaries that someone counts on: no other can be passed.
InUse == {d \in Dict : dicts[d].refs > 0}

\* Variant of DictReference: the counter is changed without the mutex.
DictReferenceUnlocked(t) ==
  /\ At(t, "DictReference") /\ Arg(t) \in InUse
  /\ Calls(t, <<<<"ReadRefs", <<Arg(t), 1>>>>>>)
  /\ UNCHANGED <<rvars, id, mutex, lib, defaults, globals, tls, dicts, told, sight, born>>

\* ref_counter++ reads the counter and then writes it.
DictReference(t) ==
  /\ At(t, "DictReference") /\ Arg(t) \in InUse
  /\ Calls(t, Locked("dict", <<<<"ReadRefs", <<Arg(t), 1>>>>>>))
  /\ UNCHANGED <<rvars, id, mutex, lib, defaults, globals, tls, dicts, told, sight, born>>

ReadRefs(t) ==
  /\ At(t, "ReadRefs")
  /\ LET d == Arg(t)[1]  by == Arg(t)[2]
     IN Calls(t, <<<<"WriteRefs", <<d, dicts[d].refs + by>>>>>>)
  /\ UNCHANGED <<rvars, id, mutex, lib, defaults, globals, tls, dicts, told, sight, born>>

WriteRefs(t) ==
  /\ At(t, "WriteRefs")
  /\ dicts' = [dicts EXCEPT ![Arg(t)[1]].refs = Arg(t)[2]]
  /\ Returns(t)
  /\ UNCHANGED <<rvars, id, mutex, lib, defaults, globals, tls, told, sight, born>>

\* nl_xmlDictFree: --ref_counter, and what it is compared with, under the mutex.
DictFree(t) ==
  /\ At(t, "DictFree") /\ Arg(t) \in InUse
  /\ Calls(t, <<<<"MutexLock", "dict">>, <<"ReadRefs", <<Arg(t), -1>>>>, <<"IfLast", Arg(t)>>>>)
  /\ UNCHANGED <<rvars, id, mutex, lib, defaults, globals, tls, dicts, told, sight, born>>

IfLast(t) ==
  /\ At(t, "IfLast")
  /\ Calls(t, IF dicts[Arg(t)].refs > 0 THEN <<<<"MutexUnlock", "dict">>>>
              ELSE <<<<"MutexUnlock", "dict">>, <<"DictGone", Arg(t)>>>>)
  /\ UNCHANGED <<rvars, id, mutex, lib, defaults, globals, tls, dicts, told, sight, born>>

\* The other dictionary is given up first, then this one is freed.
DictGone(t) ==
  /\ At(t, "DictGone")
  /\ Calls(t, (IF dicts[Arg(t)].sub = NoDict THEN <<>>
               ELSE <<<<"DictFree", dicts[Arg(t)].sub>>>>)
              \o <<<<"FreeDict", Arg(t)>>>>)
  /\ UNCHANGED <<rvars, id, mutex, lib, defaults, globals, tls, dicts, told, sight, born>>

FreeDict(t) ==
  /\ At(t, "FreeDict")
  /\ dicts' = [dicts EXCEPT ![Arg(t)].freed = TRUE]
  /\ Returns(t)
  /\ UNCHANGED <<rvars, id, mutex, lib, defaults, globals, tls, told, sight, born>>
-----------------------------------------------------------------------------
RecursiveStep(t) ==
  /\ MutexStep(t)
  /\ UNCHANGED libVars

LibraryStep(t) ==
  \/ RecursiveStep(t) \/ TakeRecursive(t) \/ GiveRecursive(t) \/ LockLibrary(t)
  \/ MutexLock(t) \/ MutexUnlock(t)
  \/ Spawn(t) \/ Exit(t) \/ Join(t)
  \/ InitParser(t) \/ InitOnce(t) \/ Initialise(t) \/ SetInitialized(t)
  \/ GetState(t) \/ CopyHandler(t) \/ CopyContext(t)
  \/ SetDefaultFunc(t) \/ DefaultContext(t) \/ DefaultHandler(t)
  \/ SwapDefault(t) \/ ReadSetting(t) \/ WriteSetting(t)
  \/ SetFunc(t) \/ Store(t) \/ RaiseError(t) \/ Deliver(t)
  \/ DictCreate(t) \/ NewDict(t) \/ DictCreateSub(t) \/ SetSub(t)
  \/ DictReference(t) \/ ReadRefs(t) \/ WriteRefs(t)
  \/ DictFree(t) \/ IfLast(t) \/ DictGone(t) \/ FreeDict(t)

Spurious(t) == SpuriousWakeup(t) /\ UNCHANGED libVars

LNext == \E t \in Thread : LibraryStep(t) \/ Spurious(t)

\* The operating system runs every thread that can run.
LSpec == LInit /\ [][LNext]_vars /\ \A t \in Thread : WF_vars(LibraryStep(t))
-----------------------------------------------------------------------------
Mentions(t, d) ==
  \E k \in DOMAIN code[t] :
    /\ Len(code[t][k]) = 2
    /\ code[t][k][1] \in {"DictReference", "DictFree", "IfLast", "DictGone", "FreeDict"}
    /\ code[t][k][2] = d

\* What was initialised before there was a second thread is seen by every thread.
InSight == sight.early => \A t \in Alive : t \in sight.threads

\* "Call once before processing in case of use in multithreaded programs"
\* (xml_parser.c:89): a program that does has its threads see what was initialised,
\* though they look at the flag without a lock (xml_parser.c:98).  And the mutex gives
\* all programs, those that the comment warns included, that each subsystem is
\* initialised once, and all of them before any thread goes on (xml_parser.c:102-103);
\* but a thread that comes to the flag while another sets it may go on without
\* seeing what that one wrote.
InitialisedOnce ==
  /\ InSight
  /\ \A s \in DOMAIN lib.made : lib.made[s] <= 1
  /\ \/ \A s \in DOMAIN lib.made : lib.made[s] = 1
     \/ /\ ~lib.initialized
        /\ \A t \in Thread : /\ ~tls[t].there /\ told[t].set = NoHandler
                             /\ \A d \in Dict : dicts[d].refs = 0

\* An error of a thread reaches the handler that this thread has set, if it has
\* set one, and a handler is called with the context it was set with, whoever
\* changes the defaults meanwhile ("must be set separately for each thread",
\* xml_error.c:306).
ErrorsReachTheirHandler ==
  \A t \in Thread : /\ told[t].own
                    /\ told[t].reached.handler = told[t].reached.context

\* No default that was set is lost: no two threads are given the same old value
\* when they put a new one in its place (nl_xmlThrDefX, xml_globals.c:789).
DefaultsHandedOver ==
  \A t, u \in Thread : t # u /\ NoHandler \notin {told[t].new, told[u].new}
                     => told[t].old # told[u].old

\* No dictionary is freed while a thread, or a dictionary that inherits from it,
\* still counts on it (nl_xmlDictFree, xml_dict.c:774).
DictKept ==
  \A d \in Dict : dicts[d].freed =>
    /\ \A t \in Thread : ~Mentions(t, d)
    /\ \A e \in Dict : dicts[e].sub = d => dicts[e].refs = 0

\* When every thread has done what it had to, nothing is left: no lock is held,
\* no thread state outlives its thread, and every dictionary that was made has been
\* freed (and not twice: DictKept) with its last count (nl_xmlDictReference,
\* xml_dict.c:623, nl_xmlDictFree, xml_dict.c:774).
NothingLeft ==
  (\A t \in Thread : code[t] = <<>> /\ pc[t] = "idle") =>
    /\ \A m \in Mutexes : mutex[m] = Nobody
    /\ held = 0 /\ waiters = 0
    /\ \A t \in Thread : tls[t].there => t \in Alive
    /\ \A d \in Dict : dicts[d].refs = 0 /\ (d \in born => dicts[d].freed)
-----------------------------------------------------------------------------
(* What the programs have to see to, for what their calls alone decide.    *)

\* Who sets a default can be told from its value: no two calls of a program set
\* it to the same one.
DefaultsDiffer ==
  \A p \in Programs, t, u \in Thread : \A i \in DOMAIN p[t], j \in DOMAIN p[u] :
    p[t][i][1] = "SwapDefault" =>
      /\ p[t][i][2] # NoHandler
      /\ p[u][j] = p[t][i] => t = u /\ i = j

\* x makes the dictionary d.
Makes(x, d) == x = <<"DictCreate", d>> \/ (x[1] = "DictCreateSub" /\ x[2][1] = d)

\* x is called by a thread that has a reference to d.
Uses(x, d) ==
  x \in {<<"DictReference", d>>, <<"DictFree", d>>} \/ (x[1] = "DictCreateSub" /\ x[2][2] = d)

\* What the call x adds to the references to d of the thread that makes it: it hands a
\* thread that it starts what that one begins with.
Earned(share, x, d) ==
  IF Makes(x, d) \/ x = <<"DictReference", d>> THEN 1
  ELSE IF x = <<"DictFree", d>> THEN -1
  ELSE IF x[1] = "Spawn" THEN -share[x[2]][1][d]
  ELSE 0

\* share[t][i][d] references to d are t's before its i-th call.  It makes them, takes
\* more of what it has, gives them back, and hands some to a thread that it starts.
SharesAddUp(p, share) ==
  \A t \in Thread :
    /\ share[t] \in Seq([Dict -> Nat]) /\ Len(share[t]) = Len(p[t]) + 1
    /\ \A d \in Dict : share[t][Len(p[t]) + 1][d] = 0
    /\ \A i \in DOMAIN p[t], d \in Dict :
         LET x == p[t][i]
         IN /\ Uses(x, d) => share[t][i][d] > 0
            /\ share[t][i + 1][d] = share[t][i][d] + Earned(share, x, d)

\* Threads and dictionaries are made once.  A thread ranks before those that it starts, a
\* dictionary before the one that it inherits from.
MadeInOrder(p, share, rank) ==
  /\ \A t, u \in Thread : \A i \in DOMAIN p[t], j \in DOMAIN p[u] :
       (\/ p[t][i][1] = "Spawn" /\ p[t][i] = p[u][j]
        \/ \E d \in Dict : Makes(p[t][i], d) /\ Makes(p[u][j], d)) => t = u /\ i = j
  /\ \A t \in Thread : \A i \in DOMAIN p[t] :
       LET x == p[t][i]
       IN /\ x[1] = "Spawn" => x[2] # First /\ rank[t] < rank[x[2]]
          /\ x[1] = "DictCreateSub" => rank[x[2][1]] < rank[x[2][2]]
  /\ \A u \in Thread, d \in Dict : share[u][1][d] > 0 =>
       \E t \in Thread : \E i \in DOMAIN p[t] : p[t][i] = <<"Spawn", u>>

\* Every reference is given back, once, by a thread that has it.
ReferencesGivenBack ==
  \A p \in Programs :
    \E share \in [Thread -> Seq([Dict -> Nat])], rank \in [Thread \cup Dict -> Nat] :
      SharesAddUp(p, share) /\ MadeInOrder(p, share, rank)
=============================================================================
