---------------------------- MODULE GTestThreads ----------------------------
(***************************************************************************)
(* googletest's threads and thread-local values on Windows: a static Mutex *)
(* that is initialised by the first to lock it, ThreadWithParam, and the   *)
(* registry of the ThreadLocals' values, by thread id.  A watcher thread   *)
(* per thread with values waits for the end of that thread and destroys    *)
(* its values.                                                             *)
(*                                                                         *)
(* Windows gives an id to a new thread once the thread that had it has     *)
(* ended and no handle on it is open.                                      *)
(***************************************************************************)
EXTENDS Integers

CONSTANTS
  MaxThread,   \* the threads a program creates, the main thread being 1
  Ids,         \* thread ids
  Local        \* the ThreadLocal objects

ASSUME ThreadsAssumption == MaxThread \in Nat \ {0}

Thread == 1 .. MaxThread
Main   == <<"thread", 1>>
Actor  == {"thread", "watcher"} \X Thread
Value  == Thread \X Local     \* a thread's value of a ThreadLocal

VARIABLES
  phase, section, owner,   \* mutex_: critical_section_init_phase_, who is in the
                           \* critical section, owner_thread_id_
  step,                    \* of an actor
  local,                   \* the ThreadLocal that a thread's call is about
  id,                      \* of a thread that was created
  handles,                 \* the open ones: who has one, and on which thread
  notified,                \* thread_can_start
  registered,              \* the ids in the map, and
  values,                  \* whose value it has by id and ThreadLocal, 0 if none
  got,                     \* whose value a thread's last get() returned
  doomed,                  \* value_holders, in each actor
  destroyed, gone          \* values, and ThreadLocals

mutexVars  == <<phase, section, owner>>
threadVars == <<id, handles, notified>>
valueVars  == <<registered, values, got>>
endVars    == <<doomed, destroyed, gone>>
threadsVars == <<mutexVars, step, local, threadVars, valueVars, endVars>>

NoActor == <<"none", 0>>
Goes(a, s) == step' = [step EXCEPT ![a] = s]
At(a, s)   == step[a] = s

-----------------------------------------------------------------------------
(* Mutex                                                                   *)

\* ThreadSafeLazyInit
Exchange(a) ==
  /\ At(a, "exchange")
  /\ phase' = IF phase = 0 THEN 1 ELSE phase
  /\ Goes(a, CASE phase = 0 -> "create" [] phase = 1 -> "spin" [] phase = 2 -> "enter")
  /\ UNCHANGED <<section, owner, local, threadVars, valueVars, endVars>>

\* new CRITICAL_SECTION; InitializeCriticalSection
CreateSection(a) ==
  /\ At(a, "create")
  /\ owner' = NoActor /\ section' = NoActor
  /\ Goes(a, "publish")
  /\ UNCHANGED <<phase, local, threadVars, valueVars, endVars>>

Publish(a) ==
  /\ At(a, "publish") /\ phase = 1
  /\ phase' = 2
  /\ Goes(a, "enter")
  /\ UNCHANGED <<section, owner, local, threadVars, valueVars, endVars>>

Spin(a) ==
  /\ At(a, "spin") /\ phase = 2
  /\ Goes(a, "enter")
  /\ UNCHANGED <<mutexVars, local, threadVars, valueVars, endVars>>

\* EnterCriticalSection
Enter(a) ==
  /\ At(a, "enter") /\ section = NoActor
  /\ section' = a /\ owner' = a
  /\ Goes(a, "held")
  /\ UNCHANGED <<phase, local, threadVars, valueVars, endVars>>

\* What comes after the lock is released.
Released(a) == IF a[1] = "watcher" \/ local[a[2]] \in gone THEN "destroy" ELSE "idle"

\* Mutant: the critical section is left before it is disowned.
UnlockLate(a) ==
  /\ \/ At(a, "unlock") /\ section' = NoActor /\ UNCHANGED owner /\ Goes(a, "leave")
     \/ At(a, "leave") /\ owner' = NoActor /\ UNCHANGED section /\ Goes(a, Released(a))
  /\ UNCHANGED <<phase, local, threadVars, valueVars, endVars>>

Unlock(a) ==
  /\ \/ At(a, "unlock") /\ owner' = NoActor /\ UNCHANGED section /\ Goes(a, "leave")
     \/ At(a, "leave") /\ section' = NoActor /\ UNCHANGED owner /\ Goes(a, Released(a))
  /\ UNCHANGED <<phase, local, threadVars, valueVars, endVars>>

-----------------------------------------------------------------------------
(* ThreadWithParam and Notification                                        *)

Alive(k) == step[<<"thread", k>>] \notin {"none", "exited"}
InUse(i) == \E k \in Thread : id[k] = i /\ (Alive(k) \/ \E who \in {"parent", "watcher"} :
                                                          <<who, k>> \in handles)

\* Threads are created in order, by the main thread.
CreateThread(k) ==
  /\ At(Main, "idle")
  /\ At(<<"thread", k>>, "none")
  /\ \A j \in 1 .. k - 1 : ~At(<<"thread", j>>, "none")
  /\ \E i \in Ids : ~InUse(i) /\ id' = [id EXCEPT ![k] = i]
  /\ handles' = handles \cup {<<"parent", k>>}
  /\ Goes(<<"thread", k>>, "ready")
  /\ UNCHANGED <<mutexVars, local, notified, valueVars, endVars>>

Notify ==
  /\ At(Main, "idle")
  /\ notified' = TRUE
  /\ UNCHANGED <<mutexVars, step, local, id, handles, valueVars, endVars>>

ThreadMain(k) ==
  /\ At(<<"thread", k>>, "ready") /\ notified
  /\ Goes(<<"thread", k>>, "idle")
  /\ UNCHANGED <<mutexVars, local, threadVars, valueVars, endVars>>

Exit(k) ==
  /\ k # 1 /\ At(<<"thread", k>>, "idle")
  /\ Goes(<<"thread", k>>, "exited")
  /\ UNCHANGED <<mutexVars, local, threadVars, valueVars, endVars>>

\* Join, and the end of thread_.
Join(k) ==
  /\ At(Main, "idle") /\ At(<<"thread", k>>, "exited")
  /\ <<"parent", k>> \in handles
  /\ handles' = handles \ {<<"parent", k>>}
  /\ UNCHANGED <<mutexVars, step, local, id, notified, valueVars, endVars>>

-----------------------------------------------------------------------------
(* ThreadLocal and its registry                                            *)

\* ThreadLocal::pointer, get, set
Get(k, l) ==
  /\ At(<<"thread", k>>, "idle") /\ l \notin gone
  /\ local' = [local EXCEPT ![k] = l]
  /\ Goes(<<"thread", k>>, "exchange")
  /\ UNCHANGED <<mutexVars, threadVars, valueVars, endVars>>

\* ~ThreadLocal, when "all but one threads ... have exited".
DestroyLocal(l) ==
  /\ At(Main, "idle") /\ l \notin gone
  /\ \A k \in Thread \ {1} : ~Alive(k)
  /\ gone' = gone \cup {l}
  /\ local' = [local EXCEPT ![1] = l]
  /\ Goes(Main, "exchange")
  /\ UNCHANGED <<mutexVars, threadVars, valueVars, doomed, destroyed>>

\* GetValueOnCurrentThread: an id that is not in the map gets a watcher, which
\* is waited for.
StartWatcher(k) ==
  /\ At(<<"thread", k>>, "held") /\ local[k] \notin gone
  /\ IF id[k] \in registered
       THEN /\ Goes(<<"thread", k>>, "value")
            /\ UNCHANGED <<registered, handles>>
       ELSE /\ registered' = registered \cup {id[k]}
            /\ handles' = handles \cup {<<"watcher", k>>}
            /\ step' = [step EXCEPT ![<<"thread", k>>] = "wait", ![<<"watcher", k>>] = "start"]
  /\ UNCHANGED <<mutexVars, local, id, notified, values, got, endVars>>

WatcherStarted(k) ==
  /\ At(<<"thread", k>>, "wait") /\ ~At(<<"watcher", k>>, "start")
  /\ Goes(<<"thread", k>>, "value")
  /\ UNCHANGED <<mutexVars, local, threadVars, valueVars, endVars>>

GetValue(k) ==
  /\ At(<<"thread", k>>, "value")
  /\ LET found == values[id[k]][local[k]]
         value == IF found = 0 THEN k ELSE found
     IN  /\ values' = [values EXCEPT ![id[k]][local[k]] = value]
         /\ got' = [got EXCEPT ![k][local[k]] = value]
  /\ Goes(<<"thread", k>>, "unlock")
  /\ UNCHANGED <<mutexVars, local, threadVars, registered, endVars>>

\* WatcherThreadFunc: Notify, WaitForSingleObject, OnThreadExit, CloseHandle.
WatcherNotify(k) ==
  /\ At(<<"watcher", k>>, "start")
  /\ Goes(<<"watcher", k>>, "watch")
  /\ UNCHANGED <<mutexVars, local, threadVars, valueVars, endVars>>

\* Mutant: CloseHandle comes before OnThreadExit.
WaitAndClose(k) ==
  /\ At(<<"watcher", k>>, "watch") /\ At(<<"thread", k>>, "exited")
  /\ handles' = handles \ {<<"watcher", k>>}
  /\ Goes(<<"watcher", k>>, "exchange")
  /\ UNCHANGED <<mutexVars, local, id, notified, valueVars, endVars>>

WaitForSingleObject(k) ==
  /\ At(<<"watcher", k>>, "watch") /\ At(<<"thread", k>>, "exited")
  /\ Goes(<<"watcher", k>>, "exchange")
  /\ UNCHANGED <<mutexVars, local, threadVars, valueVars, endVars>>

OnThreadExit(k) ==
  /\ At(<<"watcher", k>>, "held")
  /\ doomed' = [doomed EXCEPT ![<<"watcher", k>>] =
                  {v \in Value : values[id[k]][v[2]] = v[1]}]
  /\ values' = [values EXCEPT ![id[k]] = [l \in Local |-> 0]]
  /\ registered' = registered \ {id[k]}
  /\ Goes(<<"watcher", k>>, "unlock")
  /\ UNCHANGED <<mutexVars, local, threadVars, got, destroyed, gone>>

OnThreadLocalDestroyed ==
  /\ At(Main, "held") /\ local[1] \in gone
  /\ doomed' = [doomed EXCEPT ![Main] =
                  {v \in Value : v[2] = local[1] /\ \E i \in Ids : values[i][v[2]] = v[1]}]
  /\ values' = [i \in Ids |-> [values[i] EXCEPT ![local[1]] = 0]]
  /\ Goes(Main, "unlock")
  /\ UNCHANGED <<mutexVars, local, threadVars, registered, got, destroyed, gone>>

\* The destructor of value_holders, outside the lock.
DestroyValues(a) ==
  /\ At(a, "destroy")
  /\ destroyed' = destroyed \cup doomed[a]
  /\ doomed' = [doomed EXCEPT ![a] = {}]
  /\ Goes(a, IF a = Main THEN "idle" ELSE "close")
  /\ UNCHANGED <<mutexVars, local, threadVars, valueVars, gone>>

CloseHandle(k) ==
  /\ At(<<"watcher", k>>, "close")
  /\ handles' = handles \ {<<"watcher", k>>}
  /\ Goes(<<"watcher", k>>, "over")
  /\ UNCHANGED <<mutexVars, local, id, notified, valueVars, endVars>>

-----------------------------------------------------------------------------
ThreadsInit ==
  /\ phase = 0 /\ section = NoActor /\ owner = NoActor
  /\ step = [a \in Actor |-> IF a = Main THEN "idle" ELSE "none"]
  /\ local \in [Thread -> Local] /\ id \in [Thread -> Ids]
  /\ handles = {} /\ notified = FALSE
  /\ registered = {} /\ values = [i \in Ids |-> [l \in Local |-> 0]]
  /\ got = [k \in Thread |-> [l \in Local |-> 0]]
  /\ doomed = [a \in Actor |-> {}] /\ destroyed = {} /\ gone = {}

ThreadsNext ==
  \/ \E a \in Actor :
       \/ Exchange(a) \/ CreateSection(a) \/ Publish(a) \/ Spin(a) \/ Enter(a)
       \/ Unlock(a) \/ DestroyValues(a)
  \/ \E k \in Thread :
       \/ CreateThread(k) \/ ThreadMain(k) \/ Exit(k) \/ Join(k)
       \/ StartWatcher(k) \/ WatcherStarted(k) \/ GetValue(k)
       \/ WatcherNotify(k) \/ WaitForSingleObject(k) \/ OnThreadExit(k) \/ CloseHandle(k)
       \/ \E l \in Local : Get(k, l)
  \/ Notify
  \/ \E l \in Local : DestroyLocal(l)
  \/ OnThreadLocalDestroyed

ThreadsSpec == ThreadsInit /\ [][ThreadsNext]_threadsVars

ThreadsTypeOK ==
  /\ phase \in 0 .. 2
  /\ section \in Actor \cup {NoActor} /\ owner \in Actor \cup {NoActor}
  /\ step \in [Actor -> {"none", "ready", "idle", "exited", "exchange", "create", "publish",
                        "spin", "enter", "held", "wait", "value", "unlock", "leave",
                        "destroy", "start", "watch", "close", "over"}]
  /\ local \in [Thread -> Local] /\ id \in [Thread -> Ids]
  /\ handles \subseteq {"parent", "watcher"} \X Thread /\ notified \in BOOLEAN
  /\ registered \subseteq Ids
  /\ values \in [Ids -> [Local -> Thread \cup {0}]]
  /\ got \in [Thread -> [Local -> Thread \cup {0}]]
  /\ doomed \in [Actor -> SUBSET Value]
  /\ destroyed \subseteq Value /\ gone \subseteq Local

-----------------------------------------------------------------------------
(* Properties                                                              *)

\* AssertHeld holds where it is called, although the mutex is initialised while
\* it is being locked: one actor is past Lock at a time, and owns the mutex.
Held ==
  \A a \in Actor :
    /\ step[a] \in {"held", "wait", "value", "unlock"} => section = a /\ owner = a
    /\ step[a] = "leave" => section = a

InMap(v) == \E i \in Ids : values[i][v[2]] = v[1]

\* A thread's values are its own: get() never returns the value of an earlier
\* thread that had the same id, and what it has returned lives as long as the
\* thread and the ThreadLocal.
OwnValues ==
  \A v \in Value :
    LET mine == got[v[1]][v[2]]
    IN  /\ mine \in {0, v[1]}
        /\ mine # 0 /\ Alive(v[1]) /\ v[2] \notin gone =>
              values[id[v[1]]][v[2]] = v[1] /\ v \notin destroyed

\* A value is destroyed once and is never lost, whether its thread ends first or
\* its ThreadLocal, or both at the same time: it is in the map, is about to be
\* destroyed by one actor, or is destroyed; its thread's watcher, when it is
\* over, and the end of its ThreadLocal leave none in the map.
DestroyedOnce ==
  /\ \A v \in Value :
       /\ got[v[1]][v[2]] # 0 =>
            v \in destroyed \/ InMap(v) \/ \E a \in Actor : v \in doomed[a]
       /\ \A a \in Actor : v \in doomed[a] =>
            v \notin destroyed /\ ~InMap(v) /\ \A b \in Actor \ {a} : v \notin doomed[b]
       /\ v \in destroyed => ~InMap(v)
       /\ At(<<"watcher", v[1]>>, "over") => ~InMap(v)
       /\ v[2] \in gone /\ At(Main, "idle") => ~InMap(v)

ThreadValues == Held /\ OwnValues /\ DestroyedOnce
=============================================================================
