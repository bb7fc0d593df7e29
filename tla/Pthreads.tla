------------------------------ MODULE Pthreads ------------------------------
(***************************************************************************)
(* How pthreads get a tracing slot and give it back                        *)
(* (tracer/wrappers/pthread/pthread_wrapper.c and the registry of pthreads *)
(* in tracer/wrappers/API/wrapper.c): the pthread_create wrapper and the   *)
(* hook the new thread starts in, threads that announce themselves, the    *)
(* flush of a thread that ends, and the mutex wrappers, which do nothing   *)
(* for a thread the registry takes for finished.                           *)
(*                                                                         *)
(* A step is what a thread does between two accesses to shared state.      *)
(***************************************************************************)
EXTENDS Integers, FiniteSets

CONSTANTS
    MaxSlots,   \* bound: tracing slots ever allocated
    main,       \* the initial thread
    Child,      \* threads a program creates with pthread_create
    Foreign,    \* threads that call Extrae_notify_new_pthread
    Handle,     \* values of pthread_t
    h1,         \* the one of the initial thread
    Setups      \* the programs and systems to consider: records of
                \*   children, foreign: the threads of the program
                \*   spurious: pthread_cond_wait may return without a signal
                \*   locks: Extrae_get_pthread_instrument_locks; when it is off the
                \*     mutex wrappers only call the real routines and are left out

Thread == {main} \cup Child \cup Foreign
None == 0                          \* pThreads[u] of a finished thread
Junk == -1                         \* any other value of memory never written
nobody == 0                        \* no thread (holds the lock, is being made)

ASSUME PthreadsAssumption ==
    /\ IsFiniteSet(Child) /\ IsFiniteSet(Foreign) /\ main \notin Child \cup Foreign
    /\ nobody \notin Thread
    /\ Child \cap Foreign = {}
    /\ None \notin Handle /\ Junk \notin Handle /\ h1 \in Handle
    /\ MaxSlots \in Nat
    /\ \A s \in Setups :
          /\ s.children \subseteq Child /\ s.foreign \subseteq Foreign
          /\ s.spurious \in BOOLEAN /\ s.locks \in BOOLEAN

VARIABLES
    setup,       \* the program that runs: it does not change
    pc,          \* where each thread is
    id,          \* THREADID: its thread-specific value, 0 until it is set
    handle,      \* its pthread_t
    making,      \* the thread a creator is creating, or nobody
    slot,        \* the number of threads a creator or a new thread has read
    info,        \* the pthread_create_info of a new thread: "valid" on its creator's
                 \* stack, or "gone"
    num,         \* maximum_NumOfThreads and current_NumOfThreads
    pThreads,    \* the registry
    buffer,      \* TRACING_BUFFER(u): "live" or "freed"
    createLock,  \* holder of extrae_pthread_create_mutex
    notifyLock,  \* holder of pThreadIdentifier_mtx
    mutex,       \* holder of one mutex of the program
    inside,      \* the threads between its lock and its unlock
    wild         \* accesses to a pthread_create_info, or a buffer, that is gone

vars == <<setup, pc, id, handle, making, slot, info, num, pThreads, buffer, createLock,
          notifyLock, mutex, inside, wild>>
registry == <<num, pThreads, buffer>>
creation == <<making, slot, info, createLock>>
program == <<mutex, inside>>

At(t, where) == pc[t] = where
Goes(t, where) == pc' = [pc EXCEPT ![t] = where]
CreatorOf(c) == CHOOSE t \in Thread : making[t] = c

Init ==
    /\ setup \in Setups
    /\ pc = [t \in Thread |-> IF t = main THEN "app" ELSE "unborn"]
    /\ id = [t \in Thread |-> 0]
    /\ handle = [t \in Thread |-> IF t = main THEN h1 ELSE None]
    /\ pThreads = [u \in {0} |-> h1]
    /\ making = [t \in Thread |-> nobody]
    /\ slot = [t \in Thread |-> 0]
    /\ info = [t \in Thread |-> "gone"]
    /\ num = 1
    /\ buffer = [u \in {0} |-> "live"]
    /\ createLock = nobody
    /\ notifyLock = nobody
    /\ mutex = nobody
    /\ inside = {}
    /\ wild = {}

\* A pthread_t that belongs to no thread that has not been joined.
FreeHandles == Handle \ {handle[t] : t \in {u \in Thread : ~At(u, "unborn") /\ ~At(u, "joined")}}

-----------------------------------------------------------------------------
(* pthread_create, in the creating thread                                   *)

\* Mutant: creations are not serialised.
CreateBeginsUnlocked(t) ==
    /\ At(t, "app") /\ num < MaxSlots
    /\ \E c \in setup.children : /\ At(c, "unborn")
                        /\ \A u \in Thread : making[u] # c
                        /\ making' = [making EXCEPT ![t] = c]
    /\ Goes(t, "create_read")
    /\ UNCHANGED <<id, handle, slot, info, registry, createLock, notifyLock, program, wild>>

CreateBegins(t) ==
    /\ At(t, "app") /\ num < MaxSlots
    /\ createLock = nobody
    /\ createLock' = t
    /\ \E c \in setup.children : At(c, "unborn") /\ making' = [making EXCEPT ![t] = c]
    /\ Goes(t, "create_read")
    /\ UNCHANGED <<id, handle, slot, info, registry, notifyLock, program, wild>>

CreateReads(t) ==
    /\ At(t, "create_read")
    /\ slot' = [slot EXCEPT ![t] = num]
    /\ Goes(t, "create_grow")
    /\ UNCHANGED <<id, handle, making, info, registry, createLock, notifyLock, program, wild>>

\* An array with a slot for each of n threads, of which the new ones have this content.
WithSlots(array, n, content) ==
    [u \in 0..(n - 1) |-> IF u < num THEN array[u] ELSE content]

\* Mutant: the registry is not reallocated with the buffers.
ChangeNumberOfThreadsShort(n) ==
    IF n > num
    THEN /\ num' = n
         /\ buffer' = WithSlots(buffer, n, "live")
         /\ UNCHANGED pThreads
    ELSE UNCHANGED registry

\* Backend_ChangeNumberOfThreads (n): a buffer for each new slot; its entry in the
\* registry is reallocated memory nobody has written yet.
ChangeNumberOfThreads(n) ==
    IF n > num
    THEN /\ num' = n
         /\ \E u \in {None, Junk} : pThreads' = WithSlots(pThreads, n, u)
         /\ buffer' = WithSlots(buffer, n, "live")
    ELSE UNCHANGED registry

CreateGrows(t) ==
    /\ At(t, "create_grow")
    /\ ChangeNumberOfThreads(slot[t] + 1)
    /\ Goes(t, "create_spawn")
    /\ UNCHANGED <<id, handle, creation, notifyLock, program, wild>>

CreateSpawns(t) ==
    /\ At(t, "create_spawn")
    /\ \E h \in FreeHandles : handle' = [handle EXCEPT ![making[t]] = h]
    /\ info' = [info EXCEPT ![making[t]] = "valid"]
    /\ pc' = [pc EXCEPT ![t] = "create_spawned", ![making[t]] = "hook"]
    /\ UNCHANGED <<id, making, slot, registry, createLock, notifyLock, program, wild>>

CreateFails(t) ==
    /\ At(t, "create_spawn")
    /\ Goes(t, "create_done")
    /\ UNCHANGED <<id, handle, creation, registry, notifyLock, program, wild>>

\* Mutant: the creator does not wait for the new thread.
CreateWaitsNot(t) ==
    /\ At(t, "create_spawned")
    /\ Goes(t, "create_set")
    /\ UNCHANGED <<id, handle, creation, registry, notifyLock, program, wild>>

\* pthread_cond_wait: until now the creator held the lock of the info.
CreateWaits(t) ==
    /\ At(t, "create_spawned")
    /\ Goes(t, "create_wait")
    /\ UNCHANGED <<id, handle, creation, registry, notifyLock, program, wild>>

WakesSpuriously(t) ==
    /\ setup.spurious
    /\ At(t, "create_wait")
    /\ Goes(t, "create_set")
    /\ UNCHANGED <<id, handle, creation, registry, notifyLock, program, wild>>

\* Mutant: the handle goes to the slot before the new thread's.
CreateSetsBefore(t) ==
    /\ At(t, "create_set")
    /\ pThreads' = [pThreads EXCEPT ![slot[t] - 1] = handle[making[t]]]
    /\ Goes(t, "create_done")
    /\ UNCHANGED <<id, handle, creation, num, buffer, notifyLock, program, wild>>

\* Backend_SetpThreadID.
CreateSets(t) ==
    /\ At(t, "create_set")
    /\ pThreads' = [pThreads EXCEPT ![slot[t]] = handle[making[t]]]
    /\ Goes(t, "create_done")
    /\ UNCHANGED <<id, handle, creation, num, buffer, notifyLock, program, wild>>

\* The info goes with the stack frame of pthread_create.
CreateReturns(t) ==
    /\ At(t, "create_done")
    /\ info' = [info EXCEPT ![making[t]] = "gone"]
    /\ making' = [making EXCEPT ![t] = nobody]
    /\ slot' = [slot EXCEPT ![t] = 0]
    /\ createLock' = nobody
    /\ Goes(t, "app")
    /\ UNCHANGED <<id, handle, registry, notifyLock, program, wild>>

-----------------------------------------------------------------------------
(* pthread_create_hook, in the new thread                                   *)

\* It reads the info and stores its identifier.
HookReads(c) ==
    /\ At(c, "hook")
    /\ IF info[c] = "valid"
       THEN id' = [id EXCEPT ![c] = slot[CreatorOf(c)]] /\ UNCHANGED wild
       ELSE wild' = wild \cup {"info"} /\ UNCHANGED id
    /\ Goes(c, "hook_signal")
    /\ UNCHANGED <<handle, creation, registry, notifyLock, program>>

\* Mutant: the new thread signals without the lock.
HookSignalsUnlocked(c) ==
    /\ At(c, "hook_signal")
    /\ info[c] = "valid"
    /\ IF At(CreatorOf(c), "create_wait")
       THEN pc' = [pc EXCEPT ![c] = "app", ![CreatorOf(c)] = "create_set"]
       ELSE Goes(c, "app")
    /\ UNCHANGED <<id, handle, creation, registry, notifyLock, program, wild>>

\* It wakes its creator, under the lock the creator gives up only while it waits.
HookSignals(c) ==
    /\ At(c, "hook_signal")
    /\ info[c] = "valid"
    /\ At(CreatorOf(c), "create_wait")
    /\ pc' = [pc EXCEPT ![c] = "app", ![CreatorOf(c)] = "create_set"]
    /\ UNCHANGED <<id, handle, creation, registry, notifyLock, program, wild>>

\* The same on an info that is gone.
HookSignalsWild(c) ==
    /\ At(c, "hook_signal")
    /\ info[c] = "gone"
    /\ wild' = wild \cup {"info"}
    /\ Goes(c, "app")
    /\ UNCHANGED <<id, handle, creation, registry, notifyLock, program>>

-----------------------------------------------------------------------------
(* Backend_NotifyNewPthread                                                 *)

NotifyReads(f) ==
    /\ At(f, "unborn") /\ num < MaxSlots
    /\ notifyLock = nobody
    /\ notifyLock' = f
    /\ \E h \in FreeHandles : handle' = [handle EXCEPT ![f] = h]
    /\ slot' = [slot EXCEPT ![f] = num]
    /\ id' = [id EXCEPT ![f] = num]
    /\ Goes(f, "notify_grow")
    /\ UNCHANGED <<making, info, createLock, registry, program, wild>>

\* Its locks are the wrapped ones: the unlock does nothing when the new slot of the
\* registry happens to hold 0.
NotifyGrows(f) ==
    /\ At(f, "notify_grow")
    /\ ChangeNumberOfThreads(slot[f] + 1)
    /\ notifyLock' = IF setup.locks /\ pThreads'[id[f]] = None THEN notifyLock ELSE nobody
    /\ slot' = [slot EXCEPT ![f] = 0]
    /\ Goes(f, "app")
    /\ UNCHANGED <<id, handle, making, info, createLock, program, wild>>

-----------------------------------------------------------------------------
(* The end of a thread                                                      *)

\* Mutant: the registry keeps the handle of a flushed thread.
FlushedStale(u) == pThreads

Flushed(u) == [pThreads EXCEPT ![u] = None]

\* Backend_Flush_pThread: the first slot with the handle of the thread.
Flush_pThread(t) ==
    LET mine == {u \in 0..(num - 1) : pThreads[u] = handle[t]}
    IN  \/ /\ mine = {}
           /\ UNCHANGED <<registry, wild>>
        \/ \E u \in mine :
              /\ \A v \in mine : u <= v
              /\ wild' = IF buffer[u] = "freed" THEN wild \cup {"buffer"} ELSE wild
              /\ buffer' = [buffer EXCEPT ![u] = "freed"]
              /\ pThreads' = Flushed(u)
              /\ UNCHANGED num

\* Backend_ispThreadFinished.
ispThreadFinished(u) == pThreads[u] = None

\* The routine of the thread returns to the hook.
Ends(c) ==
    /\ At(c, "app") /\ c \notin inside
    /\ Flush_pThread(c)
    /\ Goes(c, "destructors")
    /\ UNCHANGED <<id, handle, creation, notifyLock, program>>

\* pthread_exit.
Exits(c) ==
    /\ At(c, "app") /\ c \notin inside
    /\ IF ispThreadFinished(id[c]) THEN UNCHANGED <<registry, wild>> ELSE Flush_pThread(c)
    /\ Goes(c, "destructors")
    /\ UNCHANGED <<id, handle, creation, notifyLock, program>>

\* The thread is joined: its handle may be given to another one.
Joined(c) ==
    /\ At(c, "destructors") /\ c \notin inside
    /\ Goes(c, "joined")
    /\ UNCHANGED <<id, handle, creation, registry, notifyLock, program, wild>>

-----------------------------------------------------------------------------
(* The mutex wrappers, in the program and in the destructors of its data    *)

Skips(t) == ispThreadFinished(id[t])

LocksMutex(t) ==
    /\ setup.locks
    /\ At(t, "app") \/ At(t, "destructors")
    /\ t \notin inside
    /\ IF Skips(t) THEN UNCHANGED mutex ELSE mutex = nobody /\ mutex' = t
    /\ inside' = inside \cup {t}
    /\ UNCHANGED <<pc, id, handle, creation, registry, notifyLock, wild>>

UnlocksMutex(t) ==
    /\ t \in inside
    /\ IF Skips(t) THEN UNCHANGED mutex ELSE mutex' = nobody
    /\ inside' = inside \ {t}
    /\ UNCHANGED <<pc, id, handle, creation, registry, notifyLock, wild>>

Creates(t) ==
    \/ CreateReads(t) \/ CreateGrows(t) \/ CreateSpawns(t) \/ CreateFails(t)
    \/ CreateWaits(t) \/ WakesSpuriously(t) \/ CreateSets(t) \/ CreateReturns(t)

Hook(c) == HookReads(c) \/ HookSignals(c) \/ HookSignalsWild(c)

Next ==
    /\ \/ \E t \in Thread : CreateBegins(t) \/ Creates(t) \/ LocksMutex(t) \/ UnlocksMutex(t)
       \/ \E c \in Child : Hook(c) \/ Ends(c) \/ Exits(c) \/ Joined(c)
       \/ \E f \in setup.foreign : NotifyReads(f) \/ NotifyGrows(f)
    /\ UNCHANGED setup

Spec == Init /\ [][Next]_vars

\* The scheduler runs a thread that can go on.
FairSpec ==
    /\ Spec
    /\ \A t \in Thread : WF_vars(Creates(t) /\ UNCHANGED setup)
    /\ \A c \in Child : WF_vars(Hook(c) /\ UNCHANGED setup)
-----------------------------------------------------------------------------
(* Every variable keeps its type, and the registry has an entry for each    *)
(* slot.                                                                    *)
TypeOK ==
    /\ id \in [Thread -> 0..num]
    /\ \A t \in Thread : ~At(t, "notify_grow") => id[t] < num
    /\ DOMAIN pThreads = 0..(num - 1) /\ DOMAIN buffer = 0..(num - 1)
    /\ \A u \in 0..(num - 1) : pThreads[u] \in Handle \cup {None, Junk}
    /\ handle \in [Thread -> Handle \cup {None}]
    /\ inside \subseteq Thread /\ wild \subseteq {"info", "buffer"}

(* Two threads that emit events never have the same THREADID: each writes   *)
(* to a buffer of its own.                                                  *)
UniqueIds ==
    \A t, u \in Thread :
      t # u /\ At(t, "app") /\ At(u, "app") => id[t] # id[u]

(* In a program whose threads all come from pthread_create, two threads     *)
(* that emit events never have the same THREADID, unless pthread_cond_wait  *)
(* has returned without a signal; and threads that announce themselves      *)
(* never get the same one.                                                  *)
IdsDistinctByKind ==
    /\ setup.foreign = {} /\ ~setup.spurious => UniqueIds
    /\ \A f, g \in Foreign :
          f # g /\ At(f, "app") /\ At(g, "app") => id[f] # id[g]

(* A new thread never reads the pthread_create_info of a creator that has   *)
(* left pthread_create, unless pthread_cond_wait has returned without a     *)
(* signal.                                                                  *)
HookReadsLive == ~setup.spurious => "info" \notin wild

(* No thread flushes a buffer that another one has freed.                   *)
NoFreedFlush == "buffer" \notin wild

(* In a program whose threads all come from pthread_create, the buffer of a *)
(* thread that is still running is never freed, although the slot to free   *)
(* is looked up by a handle that may have been reused.                      *)
RunningKeepsBuffer ==
    setup.foreign = {} =>
        \A t \in Thread : At(t, "app") => buffer[id[t]] = "live"

(* The program's mutex still excludes: two threads are never both between   *)
(* its lock and its unlock.                                                 *)
MutexExcludes == Cardinality(inside) <= 1

(* pthread_create returns: the wake-up of the new thread is never lost.     *)
CreateCompletes ==
    \A t \in Thread : At(t, "create_spawned") ~> At(t, "app")
=============================================================================
