---------------------------- MODULE PthreadsProofs ----------------------------
(***************************************************************************)
(* Proofs about Pthreads, for any number of threads, handles and slots,    *)
(* and any programs: threads keep their numbers and their buffers apart,   *)
(* and a new thread finds the pthread_create_info it was given.            *)
(***************************************************************************)
EXTENDS Pthreads, TLAPS

-----------------------------------------------------------------------------
(* The inductive invariant, in parts                                        *)

\* Where a thread is while it is in pthread_create; Before is the part of it
\* in which the slot it has read is not yet the new thread's in the registry.
Before == {"create_grow", "create_spawn", "create_spawned", "create_wait", "create_set"}
Creating == Before \cup {"create_read", "create_done"}
Places == Creating \cup
    {"unborn", "app", "hook", "hook_signal", "destructors", "joined", "notify_grow"}

Types ==
    /\ setup \in Setups
    /\ pc \in [Thread -> Places]
    /\ id \in [Thread -> Nat]
    /\ handle \in [Thread -> Handle \cup {None}]
    /\ making \in [Thread -> Child \cup {nobody}]
    /\ slot \in [Thread -> Nat]
    /\ info \in [Thread -> {"valid", "gone"}]
    /\ num \in Nat \ {0}
    /\ pThreads \in [0..(num - 1) -> Handle \cup {None, Junk}]
    /\ buffer \in [0..(num - 1) -> {"live", "freed"}]
    /\ inside \subseteq Thread
    /\ wild \subseteq {"info", "buffer"}

\* The two locks exclude: one creator at a time, one new slot for a thread that
\* announces itself at a time.  Only pthread_create makes children.
Locks ==
    /\ \A t \in Thread :
          /\ pc[t] \in Creating => createLock = t
          /\ pc[t] \in Creating <=> making[t] # nobody
          /\ making[t] # t
          /\ pc[t] = "notify_grow" => notifyLock = t /\ t \in Foreign
          /\ pc[t] \in {"hook", "hook_signal", "destructors", "joined"} => t \in Child
    /\ \A f \in Foreign : setup.foreign = {} => pc[f] = "unborn"
    /\ \A t \in Thread : pc[t] \in {"create_read", "create_grow", "create_spawn"}
          => pc[making[t]] = "unborn"

\* Who looks at whose pthread_create_info: a creator that waits has a new thread that
\* will look at it, and only it.
Spawned == {"create_spawned", "create_wait"}
InfoUsed ==
    \A t \in Thread : pc[t] \in Spawned =>
          pc[making[t]] \in {"hook", "hook_signal"} /\ info[making[t]] = "valid"
InfoHeld ==
    \A c \in Child : info[c] = "valid" =>
          \E t \in Thread : /\ making[t] = c
                            /\ pc[t] \in Spawned \cup {"create_set", "create_done"}
HookAwaited ==
    ~setup.spurious =>
          /\ \A c \in Child : pc[c] \in {"hook", "hook_signal"} =>
                \E t \in Thread : making[t] = c /\ pc[t] \in Spawned
          /\ "info" \notin wild

Infos == InfoUsed /\ InfoHeld /\ HookAwaited

\* Numbers are those of slots that exist, once they are in use; until then they are 0.
Slots ==
    /\ \A t \in Thread :
          /\ pc[t] \in {"unborn", "hook"} => id[t] = 0
          /\ pc[t] = "notify_grow" => slot[t] = id[t] /\ id[t] <= num
          /\ pc[t] # "notify_grow" => id[t] < num
          /\ pc[t] \in Before \cup {"create_done"} => slot[t] > 0 /\ slot[t] <= num
          /\ pc[t] \in Before \cup {"create_done"} /\ pc[t] # "create_grow" => slot[t] < num

\* A thread that is not joined has a handle of its own.
Handles ==
    /\ \A t \in Thread : pc[t] # "unborn" => handle[t] \in Handle
    /\ \A t, u \in Thread :
          t # u /\ pc[t] \notin {"unborn", "joined"} /\ pc[u] \notin {"unborn", "joined"}
             => handle[t] # handle[u]
    /\ pc[main] # "unborn" /\ handle[main] = h1

\* A buffer that was freed is not in the registry, nor is the slot of a new thread.
Freed ==
    /\ \A u \in 0..(num - 1) : buffer[u] = "freed" => pThreads[u] = None
    /\ \A t \in Thread : pc[t] \in Before /\ slot[t] < num =>
          pThreads[slot[t]] \in {None, Junk} /\ buffer[slot[t]] = "live"
    /\ "buffer" \notin wild

\* Threads that announce themselves have numbers of their own.
Announced ==
    \A f, g \in Foreign : f # g /\ pc[f] # "unborn" /\ pc[g] # "unborn" => id[f] # id[g]

\* So have created ones, where nobody announces itself and no wake-up is spurious.
Numbered(t) == pc[t] \notin {"unborn", "hook"}
Numbers == setup.foreign = {} =>
    /\ \A t \in Thread : pc[t] = "create_grow" => slot[t] = num
    /\ \A t, u \in Thread :
          pc[t] \in Before \cup {"create_done"} /\ u # making[t] => id[u] # slot[t]
    /\ ~setup.spurious =>
          \A t, u \in Thread : t # u /\ Numbered(t) /\ Numbered(u) => id[t] # id[u]

\* The registry has no other thread's handle at the number of one that runs.
Running == Creating \cup {"app", "hook_signal"}
Registered == setup.foreign = {} =>
    /\ pThreads[0] = h1
    /\ \A t \in Thread : pc[t] \in Running =>
          /\ id[t] # 0 => pThreads[id[t]] \in {handle[t], None, Junk}
          /\ buffer[id[t]] = "live"
    /\ \A t \in Thread : pc[t] = "create_done" /\ pc[making[t]] = "hook" =>
          pThreads[slot[t]] = handle[making[t]] /\ buffer[slot[t]] = "live"

IInv ==
    /\ Types
    /\ Locks
    /\ Infos
    /\ Slots
    /\ Handles
    /\ Freed
    /\ Announced
    /\ Numbers
    /\ Registered

-----------------------------------------------------------------------------
(* What the shared operations do                                            *)

\* Backend_ChangeNumberOfThreads keeps the slots there are and adds new ones.
LEMMA GrowthKeepsSlots ==
    ASSUME Types, NEW n \in Nat, n <= num + 1, ChangeNumberOfThreads(n)
    PROVE  /\ num' \in {num, num + 1} /\ n <= num'
           /\ pThreads' \in [0..(num' - 1) -> Handle \cup {None, Junk}]
           /\ buffer' \in [0..(num' - 1) -> {"live", "freed"}]
           /\ \A u \in 0..(num - 1) : pThreads'[u] = pThreads[u] /\ buffer'[u] = buffer[u]
           /\ num' # num => pThreads'[num] \in {None, Junk} /\ buffer'[num] = "live" /\ num' = n
  <1> USE DEF Types
  <1>1. CASE n > num
    <2>1. num' = num + 1 /\ n = num + 1
      BY <1>1 DEF ChangeNumberOfThreads
    <2>2. PICK w \in {None, Junk} : pThreads' = WithSlots(pThreads, n, w)
      BY <1>1 DEF ChangeNumberOfThreads
    <2>3. buffer' = WithSlots(buffer, n, "live")
      BY <1>1 DEF ChangeNumberOfThreads
    <2> QED
      BY <2>1, <2>2, <2>3 DEF WithSlots
  <1>2. CASE ~(n > num)
    BY <1>2 DEF ChangeNumberOfThreads, registry
  <1> QED
    BY <1>1, <1>2

\* The slots after a growth: those before, or the new one.
LEMMA LastSlot ==
    ASSUME NEW n \in Nat, NEW m \in {n, n + 1}, NEW u \in 0..(m - 1)
    PROVE  u \in 0..(n - 1) \/ (u = n /\ m # n)
  OBVIOUS

\* The numbers in use are those of slots.
LEMMA SlotsInRange ==
    ASSUME Types, Slots, NEW t \in Thread
    PROVE  /\ num \in Nat
           /\ pc[t] # "notify_grow" => id[t] \in 0..(num - 1)
           /\ pc[t] \in Before \cup {"create_done"} =>
                 /\ slot[t] \in Nat /\ slot[t] # 0
                 /\ slot[t] < num => slot[t] \in 0..(num - 1)
                 /\ pc[t] # "create_grow" => slot[t] \in 0..(num - 1)
  BY DEF Types, Slots

\* There is one creator at a time, and the new thread finds it.
LEMMA OneCreator ==
    ASSUME Types, Locks, NEW t \in Thread, pc[t] \in Creating
    PROVE  /\ making[t] \in Child /\ making[t] # t /\ createLock = t
           /\ \A u \in Thread : u # t => pc[u] \notin Creating /\ making[u] = nobody
           /\ CreatorOf(making[t]) = t
  <1>1. /\ making[t] \in Child /\ making[t] # t /\ createLock = t
        /\ \A u \in Thread : u # t => pc[u] \notin Creating /\ making[u] = nobody
    BY DEF Types, Locks
  <1>2. making[t] # nobody
    BY <1>1, PthreadsAssumption DEF Thread
  <1> QED
    BY <1>1 DEF CreatorOf

\* A thread that ends frees at most the buffer of one slot that has its handle.
LEMMA EndFreesOwn ==
    ASSUME Types, Handles, Freed, NEW c \in Child, Ends(c) \/ Exits(c)
    PROVE  /\ pc[c] = "app" /\ pc' = [pc EXCEPT ![c] = "destructors"]
           /\ UNCHANGED <<id, handle, making, slot, info, createLock, notifyLock, mutex, inside,
                          wild, num>>
           /\ \/ UNCHANGED <<pThreads, buffer>>
              \/ \E u \in 0..(num - 1) :
                    /\ pThreads[u] = handle[c]
                    /\ pThreads' = [pThreads EXCEPT ![u] = None]
                    /\ buffer' = [buffer EXCEPT ![u] = "freed"]
  <1>1. /\ pc[c] = "app" /\ pc' = [pc EXCEPT ![c] = "destructors"]
        /\ UNCHANGED <<id, handle, making, slot, info, createLock, notifyLock, mutex, inside>>
    BY DEF Ends, Exits, At, Goes, creation, program
  <1>2. handle[c] \in Handle
    BY <1>1 DEF Handles, Thread
  <1>3. CASE UNCHANGED <<registry, wild>>
    BY <1>1, <1>3 DEF registry
  <1>4. CASE Flush_pThread(c)
    <2>1. CASE \E u \in 0..(num - 1) :
                 /\ pThreads[u] = handle[c]
                 /\ wild' = IF buffer[u] = "freed" THEN wild \cup {"buffer"} ELSE wild
                 /\ buffer' = [buffer EXCEPT ![u] = "freed"]
                 /\ pThreads' = Flushed(u)
                 /\ UNCHANGED num
      <3>1. PICK u \in 0..(num - 1) :
                 /\ pThreads[u] = handle[c]
                 /\ wild' = IF buffer[u] = "freed" THEN wild \cup {"buffer"} ELSE wild
                 /\ buffer' = [buffer EXCEPT ![u] = "freed"]
                 /\ pThreads' = Flushed(u)
                 /\ UNCHANGED num
        BY <2>1
      <3>2. buffer[u] # "freed"
        BY <1>2, <3>1, PthreadsAssumption DEF Freed
      <3> QED
        BY <1>1, <3>1, <3>2 DEF Flushed
    <2> QED
      BY <1>3, <1>4, <2>1 DEF Flush_pThread
  <1> QED
    BY <1>3, <1>4 DEF Ends, Exits

-----------------------------------------------------------------------------
(* Every action keeps the invariant                                         *)

\* pthread_create takes extrae_pthread_create_mutex and a thread to create.
LEMMA CreateBeginsKeeps ==
    ASSUME IInv, NEW t \in Thread, CreateBegins(t), UNCHANGED setup
    PROVE  IInv'
  <1> USE DEF IInv
  <1>1. PICK c \in setup.children : pc[c] = "unborn" /\ making' = [making EXCEPT ![t] = c]
    BY DEF CreateBegins, At
  <1>2. /\ pc[t] = "app" /\ createLock = nobody /\ createLock' = t
        /\ pc' = [pc EXCEPT ![t] = "create_read"]
        /\ UNCHANGED <<id, handle, slot, info, num, pThreads, buffer, notifyLock, mutex, inside, wild>>
    BY DEF CreateBegins, At, Goes, registry, program
  <1>3. c \in Child /\ c # t /\ c # nobody
    BY <1>1, <1>2, PthreadsAssumption DEF Types, Thread
  <1>4. \A u \in Thread : pc[u] \notin Creating /\ making[u] = nobody
    BY <1>2, PthreadsAssumption DEF Locks
  <1>5. Types'
    BY <1>1, <1>2, PthreadsAssumption DEF Types, Places, Creating
  <1>6. Locks'
    BY <1>1, <1>2, <1>3, <1>4, PthreadsAssumption
       DEF Types, Locks, Places, Creating, Before, Thread
  <1>7. Infos'
    <2>1. InfoUsed'
      BY <1>2, PthreadsAssumption DEF Locks, InfoUsed, Creating, Before, Spawned
    <2>2. InfoHeld'
      BY <1>2, <1>4 DEF Infos, InfoHeld, Creating, Before, Spawned
    <2>3. HookAwaited'
      BY <1>2, PthreadsAssumption DEF Locks, Infos, HookAwaited, Thread
    <2> QED
      BY <2>1, <2>2, <2>3 DEF Infos
  <1>8. Slots'
    BY <1>2 DEF Slots, Before
  <1>9. Handles'
    BY <1>2 DEF Handles
  <1>10. Freed'
    BY <1>2 DEF Freed, Before
  <1>11. Announced'
    BY <1>2 DEF Announced
  <1>12. Numbers'
    BY <1>2, PthreadsAssumption DEF Locks, Numbers, Numbered, Before
  <1>13. Registered'
    BY <1>2, PthreadsAssumption DEF Locks, Registered, Running, Creating
  <1> QED
    BY <1>5, <1>6, <1>7, <1>8, <1>9, <1>10, <1>11, <1>12, <1>13

\* The creator reads the number of threads: the slot of the new one.
LEMMA CreateReadsKeeps ==
    ASSUME IInv, NEW t \in Thread, CreateReads(t), UNCHANGED setup
    PROVE  IInv'
  <1> USE DEF IInv
  <1>1. /\ pc[t] = "create_read" /\ pc' = [pc EXCEPT ![t] = "create_grow"]
        /\ slot' = [slot EXCEPT ![t] = num]
        /\ UNCHANGED <<id, handle, making, info, num, pThreads, buffer, createLock, notifyLock, mutex, inside, wild>>
    BY DEF CreateReads, At, Goes, registry, program
  <1>2. /\ (\A u \in Thread : u # t => pc[u] \notin Creating /\ making[u] = nobody)
        /\ making[t] \in Child /\ making[t] # t /\ createLock = t
    BY OneCreator, <1>1 DEF Creating
  <1>3. Types'
    BY <1>1 DEF Types, Places, Creating, Before
  <1>4. Locks'
    BY <1>1 DEF Locks, Creating, Before
  <1>5. Infos'
    <2>1. InfoUsed'
      BY <1>1 DEF Infos, InfoUsed, Spawned
    <2>2. InfoHeld'
      BY ZenonT(60), <1>1, <1>2, PthreadsAssumption
         DEF Types, Locks, Infos, InfoHeld, Creating, Before, Spawned, Thread
    <2>3. HookAwaited'
      BY <1>1 DEF Infos, HookAwaited, Spawned
    <2> QED
      BY <2>1, <2>2, <2>3 DEF Infos
  <1>6. Slots'
    BY <1>1 DEF Types, Slots
  <1>7. Handles'
    BY <1>1 DEF Handles
  <1>8. Freed'
    BY <1>1 DEF Types, Freed
  <1>9. Announced'
    BY <1>1 DEF Announced
  <1>10. Numbers'
    BY <1>1 DEF Types, Locks, Numbers, Numbered, Slots
  <1>11. Registered'
    BY <1>1 DEF Registered, Running, Creating
  <1> QED
    BY <1>3, <1>4, <1>5, <1>6, <1>7, <1>8, <1>9, <1>10, <1>11

\* The creator has the arrays reallocated.
LEMMA CreateGrowsKeeps ==
    ASSUME IInv, NEW t \in Thread, CreateGrows(t), UNCHANGED setup
    PROVE  IInv'
  <1> USE DEF IInv
  <1>1. /\ pc[t] = "create_grow" /\ pc' = [pc EXCEPT ![t] = "create_spawn"]
        /\ UNCHANGED <<id, handle, making, slot, info, createLock, notifyLock, mutex, inside, wild>>
    BY DEF CreateGrows, At, Goes, creation, program
  <1>2. /\ (\A u \in Thread : u # t => pc[u] \notin Creating /\ making[u] = nobody)
        /\ making[t] \in Child /\ making[t] # t /\ createLock = t
    BY OneCreator, <1>1 DEF Creating, Before
  <1>3. slot[t] \in Nat /\ slot[t] > 0 /\ slot[t] <= num /\ num \in Nat
    BY <1>1 DEF Types, Slots, Before
  <1>4. /\ num' \in {num, num + 1} /\ slot[t] + 1 <= num'
        /\ pThreads' \in [0..(num' - 1) -> Handle \cup {None, Junk}]
        /\ buffer' \in [0..(num' - 1) -> {"live", "freed"}]
        /\ \A u \in 0..(num - 1) : pThreads'[u] = pThreads[u] /\ buffer'[u] = buffer[u]
        /\ num' # num => pThreads'[num] \in {None, Junk} /\ buffer'[num] = "live" /\ num' = slot[t] + 1
    BY <1>3, GrowthKeepsSlots DEF CreateGrows
  <1>5. Types'
    <2>1. num' \in Nat \ {0} /\ pc' \in [Thread -> Places] /\ slot' \in [Thread -> Nat]
      BY <1>1, <1>4 DEF Types, Places, Creating, Before
    <2> QED
      BY <1>1, <1>4, <2>1 DEF Types
  <1>6. Locks'
    BY ZenonT(60), <1>1, <1>2, <1>3, <1>4, PthreadsAssumption
       DEF Types, Locks, Places, Creating, Before, Thread
  <1>7. Infos'
    <2>1. InfoUsed'
      BY <1>1 DEF Infos, InfoUsed, Spawned
    <2>2. InfoHeld'
      BY <1>1, <1>2, <1>3, <1>4, PthreadsAssumption
         DEF Types, Locks, Infos, InfoHeld, Creating, Before, Spawned, Thread
    <2>3. HookAwaited'
      BY <1>1 DEF Infos, HookAwaited, Spawned
    <2> QED
      BY <2>1, <2>2, <2>3 DEF Infos
  <1>8. Slots'
    BY <1>1, <1>4 DEF Types, Slots, Before
  <1>9. Handles'
    BY <1>1 DEF Handles
  <1>10. Freed'
    <2>1. ASSUME NEW u \in 0..(num' - 1), buffer'[u] = "freed"  PROVE pThreads'[u] = None
      <3>1. u \in 0..(num - 1)
        BY <1>3, <1>4, <2>1, LastSlot
      <3> QED
        BY <1>4, <2>1, <3>1 DEF Freed
    <2>2. ASSUME NEW u \in Thread, pc'[u] \in Before, slot'[u] < num'
          PROVE  pThreads'[slot'[u]] \in {None, Junk} /\ buffer'[slot'[u]] = "live"
      <3>1. u = t /\ slot'[u] = slot[t]
        BY <1>1, <1>2, <2>2 DEF Creating
      <3>2. CASE slot[t] < num
        BY <1>1, <1>4, <3>1, SlotsInRange DEF Freed, Before
      <3>3. CASE slot[t] = num
        BY <1>3, <1>4, <3>1, <3>3
      <3> QED
        BY <1>3, <3>2, <3>3
    <2> QED
      BY <1>1, <2>1, <2>2 DEF Freed
  <1>11. Announced'
    BY <1>1 DEF Announced
  <1>12. Numbers'
    BY <1>1 DEF Types, Locks, Numbers, Numbered, Creating, Before
  <1>13. Registered'
    <2> SUFFICES ASSUME setup.foreign = {}  PROVE Registered'
      BY DEF Registered
    <2>1. pThreads'[0] = h1
      BY <1>3, <1>4 DEF Registered
    <2>2. ASSUME NEW u \in Thread, pc'[u] \in Running
          PROVE  /\ id'[u] # 0 => pThreads'[id'[u]] \in {handle'[u], None, Junk}
                 /\ buffer'[id'[u]] = "live"
      <3>1. pc[u] \in Running /\ id[u] \in 0..(num - 1)
        BY <1>1, <2>2, SlotsInRange DEF Running, Creating, Before
      <3> QED
        BY <1>1, <1>4, <3>1 DEF Registered
    <2>3. \A u \in Thread : pc'[u] # "create_done"
      BY <1>1, <1>2 DEF Creating
    <2> QED
      BY <2>1, <2>2, <2>3 DEF Registered
  <1> QED
    BY <1>5, <1>6, <1>7, <1>8, <1>9, <1>10, <1>11, <1>12, <1>13

\* The real pthread_create succeeds: the new thread is in the hook.
LEMMA CreateSpawnsKeeps ==
    ASSUME IInv, NEW t \in Thread, CreateSpawns(t), UNCHANGED setup
    PROVE  IInv'
  <1> USE DEF IInv
  <1>1. PICK h \in FreeHandles : handle' = [handle EXCEPT ![making[t]] = h]
    BY DEF CreateSpawns
  <1>2. /\ pc[t] = "create_spawn" /\ pc' = [pc EXCEPT ![t] = "create_spawned", ![making[t]] = "hook"]
        /\ info' = [info EXCEPT ![making[t]] = "valid"]
        /\ UNCHANGED <<id, making, slot, num, pThreads, buffer, createLock, notifyLock, mutex, inside, wild>>
    BY DEF CreateSpawns, At, registry, program
  <1>3. /\ (\A u \in Thread : u # t => pc[u] \notin Creating /\ making[u] = nobody)
        /\ making[t] \in Child /\ making[t] # t /\ createLock = t
    BY OneCreator, <1>2 DEF Creating, Before
  <1>4. pc[making[t]] = "unborn" /\ making[t] \in Thread
    BY <1>2, <1>3 DEF Locks, Thread
  <1>5. h \in Handle /\ \A u \in Thread : pc[u] \notin {"unborn", "joined"} => handle[u] # h
    BY DEF FreeHandles, At
  <1>6. Types'
    BY <1>1, <1>2, <1>3, <1>5, PthreadsAssumption
       DEF Types, Places, Creating, Before, Thread
  <1>7. Locks'
    BY SMTT(40), <1>1, <1>2, <1>3, <1>4, <1>5, PthreadsAssumption
       DEF Types, Locks, Places, Creating, Before, Thread
  <1>8. Infos'
    <2>1. InfoUsed'
      BY <1>2 DEF Types, Locks, InfoUsed, Creating, Before, Spawned, Thread
    <2>2. InfoHeld'
      BY <1>2 DEF Types, Locks, Infos, InfoHeld, Creating, Before, Spawned, Thread
    <2>3. HookAwaited'
      BY <1>1, <1>2 DEF Types, Locks, Infos, HookAwaited, Creating, Before, Spawned, Thread
    <2> QED
      BY <2>1, <2>2, <2>3 DEF Infos
  <1>9. Slots'
    BY <1>2, <1>4 DEF Types, Slots, Before
  <1>10. Handles'
    <2>1. handle' \in [Thread -> Handle \cup {None}] /\ \A u \in Thread \ {making[t]} : handle'[u] = handle[u]
      BY <1>1, <1>4, <1>5 DEF Types
    <2>2. handle'[making[t]] = h
      BY <1>1, <1>4 DEF Types
    <2>3. \A u \in Thread \ {making[t]} :
             /\ pc'[u] = "unborn" <=> pc[u] = "unborn"
             /\ pc'[u] = "joined" <=> pc[u] = "joined"
      BY <1>2 DEF Types
    <2>4. making[t] # main
      BY PthreadsAssumption DEF Thread, Types
    <2>5. main \in Thread
      BY DEF Thread
    <2> QED
      BY <1>5, <2>1, <2>2, <2>3, <2>4, <2>5 DEF Handles
  <1>11. Freed'
    BY <1>2 DEF Types, Freed, Before
  <1>12. Announced'
    <2>1. making[t] \notin Foreign
      BY <1>3, PthreadsAssumption
    <2>2. \A u \in Thread : u # making[t] => (pc'[u] # "unborn" => pc[u] # "unborn")
      BY <1>2 DEF Types
    <2>3. \A f \in Foreign : pc'[f] # "unborn" => pc[f] # "unborn"
      BY <2>1, <2>2 DEF Thread
    <2> QED
      BY <1>2, <2>3 DEF Announced
  <1>13. Numbers'
    <2>1. \A u \in Thread : /\ pc'[u] = "create_grow" <=> pc[u] = "create_grow"
                            /\ pc'[u] \in Before \cup {"create_done"} <=> pc[u] \in Before \cup {"create_done"}
                            /\ Numbered(u)' <=> Numbered(u)
      BY <1>2, <1>4 DEF Types, Before, Numbered
    <2> QED
      BY <1>2, <2>1 DEF Numbers
  <1>14. Registered'
    BY <1>1, <1>2 DEF Types, Locks, Registered, Running, Creating, Before
  <1> QED
    BY <1>6, <1>7, <1>8, <1>9, <1>10, <1>11, <1>12, <1>13, <1>14

\* The real pthread_create fails.
LEMMA CreateFailsKeeps ==
    ASSUME IInv, NEW t \in Thread, CreateFails(t), UNCHANGED setup
    PROVE  IInv'
  <1> USE DEF IInv
  <1>1. /\ pc[t] = "create_spawn" /\ pc' = [pc EXCEPT ![t] = "create_done"]
        /\ UNCHANGED <<id, handle, making, slot, info, num, pThreads, buffer, createLock, notifyLock, mutex, inside, wild>>
    BY DEF CreateFails, At, Goes, registry, creation, program
  <1>2. /\ (\A u \in Thread : u # t => pc[u] \notin Creating /\ making[u] = nobody)
        /\ making[t] \in Child /\ making[t] # t /\ createLock = t
    BY OneCreator, <1>1 DEF Creating, Before
  <1>3. Types'
    BY <1>1 DEF Types, Places, Creating
  <1>4. Locks'
    BY <1>1, <1>2, PthreadsAssumption DEF Types, Locks, Places, Creating, Before, Thread
  <1>5. Infos'
    <2>1. InfoUsed'
      BY <1>1 DEF Infos, InfoUsed, Spawned
    <2>2. InfoHeld'
      BY <1>1 DEF Infos, InfoHeld
    <2>3. HookAwaited'
      BY <1>1 DEF Infos, HookAwaited, Spawned
    <2> QED
      BY <2>1, <2>2, <2>3 DEF Infos
  <1>6. Slots'
    BY <1>1 DEF Slots, Before
  <1>7. Handles'
    BY <1>1 DEF Handles
  <1>8. Freed'
    BY <1>1 DEF Freed, Before
  <1>9. Announced'
    BY <1>1 DEF Announced
  <1>10. Numbers'
    BY <1>1 DEF Numbers, Numbered, Before
  <1>11. Registered'
    BY <1>1 DEF Locks, Registered, Running, Creating, Before
  <1> QED
    BY <1>3, <1>4, <1>5, <1>6, <1>7, <1>8, <1>9, <1>10, <1>11

\* The creator waits for the new thread.
LEMMA CreateWaitsKeeps ==
    ASSUME IInv, NEW t \in Thread, CreateWaits(t), UNCHANGED setup
    PROVE  IInv'
  <1> USE DEF IInv
  <1>1. /\ pc[t] = "create_spawned" /\ pc' = [pc EXCEPT ![t] = "create_wait"]
        /\ UNCHANGED <<id, handle, making, slot, info, num, pThreads, buffer, createLock, notifyLock, mutex, inside, wild>>
    BY DEF CreateWaits, At, Goes, registry, creation, program
  <1>2. /\ (\A u \in Thread : u # t => pc[u] \notin Creating /\ making[u] = nobody)
        /\ making[t] \in Child /\ making[t] # t /\ createLock = t
    BY OneCreator, <1>1 DEF Creating, Before
  <1>3. Types'
    BY <1>1 DEF Types, Places, Creating, Before
  <1>4. Locks'
    BY <1>1, <1>2, PthreadsAssumption DEF Types, Locks, Places, Creating, Before, Thread
  <1>5. Infos'
    <2>1. InfoUsed'
      BY <1>1 DEF Infos, InfoUsed, Spawned
    <2>2. InfoHeld'
      BY <1>1 DEF Infos, InfoHeld, Spawned
    <2>3. HookAwaited'
      BY <1>1 DEF Infos, HookAwaited, Spawned
    <2> QED
      BY <2>1, <2>2, <2>3 DEF Infos
  <1>6. Slots'
    BY <1>1 DEF Slots, Before
  <1>7. Handles'
    BY <1>1 DEF Handles
  <1>8. Freed'
    BY <1>1 DEF Freed, Before
  <1>9. Announced'
    BY <1>1 DEF Announced
  <1>10. Numbers'
    BY <1>1 DEF Numbers, Numbered, Before
  <1>11. Registered'
    BY <1>1 DEF Registered, Running, Creating, Before
  <1> QED
    BY <1>3, <1>4, <1>5, <1>6, <1>7, <1>8, <1>9, <1>10, <1>11

\* The creator's wait returns without a signal.
LEMMA WakesSpuriouslyKeeps ==
    ASSUME IInv, NEW t \in Thread, WakesSpuriously(t), UNCHANGED setup
    PROVE  IInv'
  <1> USE DEF IInv
  <1>1. /\ pc[t] = "create_wait" /\ pc' = [pc EXCEPT ![t] = "create_set"]
        /\ setup.spurious
        /\ UNCHANGED <<id, handle, making, slot, info, num, pThreads, buffer, createLock, notifyLock, mutex, inside, wild>>
    BY DEF WakesSpuriously, At, Goes, registry, creation, program
  <1>2. /\ (\A u \in Thread : u # t => pc[u] \notin Creating /\ making[u] = nobody)
        /\ making[t] \in Child /\ making[t] # t /\ createLock = t
    BY OneCreator, <1>1 DEF Creating, Before
  <1>3. Types'
    BY <1>1 DEF Types, Places, Creating, Before
  <1>4. Locks'
    BY <1>1, <1>2, PthreadsAssumption DEF Types, Locks, Places, Creating, Before, Thread
  <1>5. Infos'
    <2>1. InfoUsed'
      BY <1>1 DEF Infos, InfoUsed, Spawned
    <2>2. InfoHeld'
      BY <1>1 DEF Infos, InfoHeld
    <2>3. HookAwaited'
      BY <1>1 DEF HookAwaited
    <2> QED
      BY <2>1, <2>2, <2>3 DEF Infos
  <1>6. Slots'
    BY <1>1 DEF Slots, Before
  <1>7. Handles'
    BY <1>1 DEF Handles
  <1>8. Freed'
    BY <1>1 DEF Freed, Before
  <1>9. Announced'
    BY <1>1 DEF Announced
  <1>10. Numbers'
    BY <1>1 DEF Numbers, Before
  <1>11. Registered'
    BY <1>1 DEF Registered, Running, Creating, Before
  <1> QED
    BY <1>3, <1>4, <1>5, <1>6, <1>7, <1>8, <1>9, <1>10, <1>11

\* The creator registers the handle of the new thread in its slot.
LEMMA CreateSetsKeeps ==
    ASSUME IInv, NEW t \in Thread, CreateSets(t), UNCHANGED setup
    PROVE  IInv'
  <1> USE DEF IInv
  <1>1. /\ pc[t] = "create_set" /\ pc' = [pc EXCEPT ![t] = "create_done"]
        /\ pThreads' = [pThreads EXCEPT ![slot[t]] = handle[making[t]]]
        /\ UNCHANGED <<id, handle, making, slot, info, num, buffer, createLock, notifyLock, mutex, inside, wild>>
    BY DEF CreateSets, At, Goes, creation, program
  <1>2. /\ (\A u \in Thread : u # t => pc[u] \notin Creating /\ making[u] = nobody)
        /\ making[t] \in Child /\ making[t] # t /\ createLock = t
    BY OneCreator, <1>1 DEF Creating, Before
  <1>3. slot[t] \in 0..(num - 1) /\ slot[t] # 0 /\ making[t] \in Thread
    BY <1>1, <1>2, SlotsInRange DEF Before, Thread
  <1>4. Types'
    BY <1>1, <1>3 DEF Types, Places, Creating
  <1>5. Locks'
    BY <1>1, <1>2, <1>3, PthreadsAssumption
       DEF Types, Locks, Places, Creating, Before, Thread
  <1>6. Infos'
    <2>1. InfoUsed'
      BY <1>1 DEF Infos, InfoUsed, Spawned
    <2>2. InfoHeld'
      BY <1>1 DEF Infos, InfoHeld
    <2>3. HookAwaited'
      BY SMTT(40), <1>1, <1>2, <1>3, PthreadsAssumption
         DEF Types, Locks, Infos, HookAwaited, Creating, Before, Spawned, Thread
    <2> QED
      BY <2>1, <2>2, <2>3 DEF Infos
  <1>7. Slots'
    BY <1>1 DEF Slots, Before
  <1>8. Handles'
    BY <1>1 DEF Handles
  <1>9. Freed'
    <2>1. buffer[slot[t]] = "live"
      BY <1>1, SlotsInRange DEF Freed, Before
    <2>2. \A u \in 0..(num - 1) : u # slot[t] => pThreads'[u] = pThreads[u]
      BY <1>1
    <2>3. \A u \in Thread : pc'[u] \notin Before
      BY <1>1, <1>2 DEF Types, Creating, Before
    <2> QED
      BY <1>1, <2>1, <2>3 DEF Freed
  <1>10. Announced'
    BY <1>1 DEF Announced
  <1>11. Numbers'
    BY <1>1 DEF Numbers, Numbered, Before
  <1>12. Registered'
    BY <1>1 DEF Types, Locks, Slots, Freed, Numbers, Registered, Running, Creating, Before
  <1> QED
    BY <1>4, <1>5, <1>6, <1>7, <1>8, <1>9, <1>10, <1>11, <1>12

\* pthread_create returns.
LEMMA CreateReturnsKeeps ==
    ASSUME IInv, NEW t \in Thread, CreateReturns(t), UNCHANGED setup
    PROVE  IInv'
  <1> USE DEF IInv
  <1>1. /\ pc[t] = "create_done" /\ pc' = [pc EXCEPT ![t] = "app"]
        /\ info' = [info EXCEPT ![making[t]] = "gone"]
        /\ making' = [making EXCEPT ![t] = nobody]
        /\ slot' = [slot EXCEPT ![t] = 0] /\ createLock' = nobody
        /\ UNCHANGED <<id, handle, num, pThreads, buffer, notifyLock, mutex, inside, wild>>
    BY DEF CreateReturns, At, Goes, registry, program
  <1>2. /\ (\A u \in Thread : u # t => pc[u] \notin Creating /\ making[u] = nobody)
        /\ making[t] \in Child /\ making[t] # t /\ createLock = t
    BY OneCreator, <1>1 DEF Creating
  <1>3. Types'
    BY <1>1, <1>2 DEF Types, Places, Thread
  <1>4. Locks'
    BY SMTT(40), <1>1, <1>2, PthreadsAssumption DEF Types, Locks, Places, Creating, Before, Thread
  <1>5. Infos'
    <2>1. InfoUsed'
      BY <1>1 DEF Locks, InfoUsed, Creating, Before, Spawned
    <2>2. InfoHeld'
      BY <1>1 DEF Types, Infos, InfoHeld, Thread
    <2>3. HookAwaited'
      BY ZenonT(60), <1>1, <1>2, PthreadsAssumption
         DEF Types, Locks, Infos, HookAwaited, Creating, Before, Spawned, Thread
    <2> QED
      BY <2>1, <2>2, <2>3 DEF Infos
  <1>6. Slots'
    BY <1>1 DEF Types, Slots, Before
  <1>7. Handles'
    BY <1>1 DEF Handles
  <1>8. Freed'
    BY <1>1 DEF Freed, Before
  <1>9. Announced'
    BY <1>1 DEF Announced
  <1>10. Numbers'
    BY <1>1 DEF Types, Numbers, Numbered, Before
  <1>11. Registered'
    BY <1>1 DEF Types, Freed, Numbers, Registered, Running, Creating
  <1> QED
    BY <1>3, <1>4, <1>5, <1>6, <1>7, <1>8, <1>9, <1>10, <1>11

\* The new thread takes its number from the info.
LEMMA HookReadsKeeps ==
    ASSUME IInv, NEW c \in Child, HookReads(c), UNCHANGED setup
    PROVE  IInv'
  <1> USE DEF IInv
  <1>1. /\ pc[c] = "hook" /\ pc' = [pc EXCEPT ![c] = "hook_signal"]
        /\ UNCHANGED <<handle, making, slot, info, num, pThreads, buffer, createLock, notifyLock, mutex, inside>>
    BY DEF HookReads, At, Goes, registry, creation, program
  <1>2. \/ /\ info[c] # "valid" /\ id' = id /\ wild' = wild \cup {"info"} /\ setup.spurious
        \/ /\ info[c] = "valid" /\ wild' = wild
           /\ \E t \in Thread :
                 /\ making[t] = c /\ id' = [id EXCEPT ![c] = slot[t]]
                 /\ pc[t] \in Spawned \cup {"create_set", "create_done"}
    <2>1. CASE info[c] = "valid"
      <3>1. PICK t \in Thread :
                  /\ making[t] = c
                  /\ pc[t] \in Spawned \cup {"create_set", "create_done"}
        BY <2>1 DEF Infos, InfoHeld
      <3>2. CreatorOf(c) = t
        BY <3>1, OneCreator DEF Creating, Before, Spawned
      <3> QED
        BY <2>1, <3>1, <3>2 DEF HookReads
    <2>2. CASE info[c] # "valid"
      BY <1>1, <2>2 DEF HookReads, Infos, HookAwaited, InfoUsed
    <2> QED
      BY <2>1, <2>2
  <1>3. c \in Thread
    BY DEF Thread
  <1>4. Types'
    <2>1. id' \in [Thread -> Nat] /\ wild' \subseteq {"info", "buffer"}
      BY <1>2, <1>3 DEF Types
    <2> QED
      BY <1>1, <1>3, <2>1 DEF Types, Places
  <1>5. Locks'
    <2>1. ASSUME NEW u \in Thread
          PROVE  /\ pc'[u] \in Creating => createLock' = u
                 /\ pc'[u] \in Creating <=> making'[u] # nobody
                 /\ making'[u] # u
                 /\ pc'[u] = "notify_grow" => notifyLock' = u /\ u \in Foreign
                 /\ pc'[u] \in {"hook", "hook_signal", "destructors", "joined"} => u \in Child
      BY <1>1 DEF Locks, Creating, Before
    <2>2. ASSUME NEW f \in Foreign, setup.foreign = {}  PROVE pc'[f] = "unborn"
      BY <1>1, <2>2 DEF Locks
    <2>3. ASSUME NEW u \in Thread, pc'[u] \in {"create_read", "create_grow", "create_spawn"}
          PROVE  pc'[making'[u]] = "unborn"
      <3>1. pc[u] = pc'[u] /\ making'[u] = making[u] /\ making[u] \in Thread
        BY <1>1, <2>3 DEF Types, Locks, Creating, Before, Thread
      <3> QED
        BY <1>1, <2>3 DEF Locks
    <2> QED
      BY <2>1, <2>2, <2>3 DEF Locks
  <1>6. Infos'
    <2>1. InfoUsed'
      BY <1>1 DEF Infos, InfoUsed, Spawned
    <2>2. InfoHeld'
      BY <1>1, <1>2 DEF Infos, InfoHeld, Spawned
    <2>3. HookAwaited'
      BY <1>1, <1>2 DEF Infos, HookAwaited, Spawned
    <2> QED
      BY <2>1, <2>2, <2>3 DEF Infos
  <1>7. Slots'
    <2>1. id'[c] < num /\ \A u \in Thread \ {c} : id'[u] = id[u]
      BY <1>1, <1>2, <1>3 DEF Types, Slots, Spawned, Before
    <2> QED
      BY <1>1, <2>1 DEF Types, Slots, Before
  <1>8. Handles'
    BY <1>1 DEF Handles
  <1>9. Freed'
    BY <1>1, <1>2 DEF Freed, Before
  <1>10. Announced'
    BY <1>1, <1>2, PthreadsAssumption DEF Types, Announced, Thread
  <1>11. Numbers'
    BY <1>1, <1>2 DEF Types, Locks, Spawned, Numbers, Numbered, Creating, Before
  <1>12. Registered'
    <2> SUFFICES ASSUME setup.foreign = {}  PROVE Registered'
      BY DEF Registered
    <2>1. CASE info[c] # "valid"
      <3>1. id' = id
        BY <1>2, <2>1
      <3>2. id[c] = 0
        BY <1>1, <1>3 DEF Slots
      <3>3. buffer[0] = "live"
        <4>1. 0 \in 0..(num - 1) /\ pThreads[0] = h1
          BY DEF Types, Registered
        <4> QED
          BY <4>1, PthreadsAssumption DEF Types, Freed
      <3> QED
        BY <1>1, <3>1, <3>2, <3>3 DEF Registered
    <2>2. CASE info[c] = "valid"
      <3>1. PICK t \in Thread :
                  /\ making[t] = c /\ id' = [id EXCEPT ![c] = slot[t]]
                  /\ pc[t] \in Spawned \cup {"create_set", "create_done"}
        BY <1>2, <2>2
      <3>2. slot[t] \in 0..(num - 1) /\ slot[t] < num
        BY <3>1 DEF Types, Slots, Spawned, Before
      <3>3. pThreads[slot[t]] \in {handle[c], None, Junk} /\ buffer[slot[t]] = "live"
        BY <1>1, <3>1, <3>2 DEF Freed, Registered, Spawned, Before
      <3>4. id'[c] = slot[t] /\ \A u \in Thread \ {c} : id'[u] = id[u] /\ pc'[u] = pc[u]
        BY <1>1, <1>3, <3>1 DEF Types
      <3>5. ASSUME NEW u \in Thread, pc'[u] \in Running
            PROVE  /\ id'[u] # 0 => pThreads'[id'[u]] \in {handle'[u], None, Junk}
                   /\ buffer'[id'[u]] = "live"
        BY <1>1, <3>3, <3>4, <3>5 DEF Registered
      <3>6. ASSUME NEW u \in Thread, pc'[u] = "create_done", pc'[making'[u]] = "hook"
            PROVE  pThreads'[slot'[u]] = handle'[making'[u]] /\ buffer'[slot'[u]] = "live"
        BY <1>1, <3>6 DEF Registered
      <3> QED
        BY <1>1, <3>5 DEF Registered
    <2> QED
      BY <2>1, <2>2
  <1> QED
    BY <1>4, <1>5, <1>6, <1>7, <1>8, <1>9, <1>10, <1>11, <1>12

\* The new thread wakes its creator.
LEMMA HookSignalsKeeps ==
    ASSUME IInv, NEW c \in Child, HookSignals(c), UNCHANGED setup
    PROVE  IInv'
  <1> USE DEF IInv
  <1>1. PICK t \in Thread : /\ making[t] = c /\ CreatorOf(c) = t
                             /\ pc[t] \in Spawned \cup {"create_set", "create_done"}
    <2>1. info[c] = "valid"
      BY DEF HookSignals
    <2>2. PICK t \in Thread :
                /\ making[t] = c
                /\ pc[t] \in Spawned \cup {"create_set", "create_done"}
      BY <2>1 DEF Infos, InfoHeld
    <2> QED
      BY <2>2, OneCreator DEF Creating, Before, Spawned
  <1>2. /\ pc[c] = "hook_signal" /\ pc[t] = "create_wait"
        /\ pc' = [pc EXCEPT ![c] = "app", ![t] = "create_set"]
        /\ UNCHANGED <<id, handle, making, slot, info, num, pThreads, buffer, createLock, notifyLock, mutex, inside, wild>>
    BY <1>1 DEF HookSignals, At, registry, creation, program
  <1>3. c \in Thread /\ c # t
    BY <1>2 DEF Thread
  <1>4. \A u \in Thread : u # t => pc[u] \notin Creating /\ making[u] = nobody
    BY OneCreator, <1>2 DEF Creating, Before
  <1>5. Types'
    BY <1>2, <1>3, <1>4, PthreadsAssumption DEF Types, Places, Creating, Before, Thread
  <1>6. Locks'
    BY <1>1, <1>2, <1>3, <1>4, PthreadsAssumption
       DEF Types, Locks, Places, Creating, Before, Thread
  <1>7. Infos'
    <2>1. InfoUsed'
      BY <1>2 DEF Types, Locks, InfoUsed, Creating, Before, Spawned
    <2>2. InfoHeld'
      BY <1>2 DEF Types, Locks, Infos, InfoHeld, Creating, Before, Spawned
    <2>3. HookAwaited'
      BY <1>1, <1>2, <1>3, <1>4 DEF Types, Locks, Infos, HookAwaited, Spawned, Thread
    <2> QED
      BY <2>1, <2>2, <2>3 DEF Infos
  <1>8. Slots'
    BY <1>2 DEF Types, Slots, Before
  <1>9. Handles'
    <2>1. \A u \in Thread : /\ pc'[u] = "unborn" <=> pc[u] = "unborn"
                            /\ pc'[u] = "joined" <=> pc[u] = "joined"
      BY <1>2 DEF Types
    <2> QED
      BY <1>2, <2>1 DEF Handles, Thread
  <1>10. Freed'
    BY <1>2 DEF Types, Freed, Before
  <1>11. Announced'
    BY <1>2, <1>4 DEF Types, Announced, Thread
  <1>12. Numbers'
    <2>1. \A u \in Thread : /\ pc'[u] = "create_grow" <=> pc[u] = "create_grow"
                            /\ pc'[u] \in Before \cup {"create_done"} <=> pc[u] \in Before \cup {"create_done"}
                            /\ Numbered(u)' <=> Numbered(u)
      BY <1>2 DEF Types, Before, Numbered
    <2> QED
      BY <1>2, <2>1 DEF Numbers
  <1>13. Registered'
    BY <1>2 DEF Types, Locks, Infos, InfoHeld, Registered, Running, Creating, Before
  <1> QED
    BY <1>5, <1>6, <1>7, <1>8, <1>9, <1>10, <1>11, <1>12, <1>13

\* The new thread signals on an info that is gone.
LEMMA HookSignalsWildKeeps ==
    ASSUME IInv, NEW c \in Child, HookSignalsWild(c), UNCHANGED setup
    PROVE  IInv'
  <1> USE DEF IInv
  <1>1. /\ pc[c] = "hook_signal" /\ pc' = [pc EXCEPT ![c] = "app"] /\ info[c] = "gone" /\ wild' = wild \cup {"info"}
        /\ UNCHANGED <<id, handle, making, slot, info, num, pThreads, buffer, createLock, notifyLock, mutex, inside>>
    BY DEF HookSignalsWild, At, Goes, registry, creation, program
  <1>2. c \in Thread
    BY DEF Thread
  <1>3. setup.spurious /\ \A t \in Thread : making[t] = c => pc[t] \notin Spawned
    BY <1>1 DEF Infos, InfoUsed, HookAwaited
  <1>4. Types'
    BY <1>1 DEF Types, Places, Thread
  <1>5. Locks'
    BY ZenonT(60), <1>1, <1>2, <1>3, PthreadsAssumption
       DEF Types, Locks, Places, Creating, Before, Thread
  <1>6. Infos'
    <2>1. InfoUsed'
      BY <1>1 DEF Infos, InfoUsed, Spawned
    <2>2. InfoHeld'
      <3>1. \A t \in Thread : pc[t] \in Spawned \cup {"create_set", "create_done"} => pc'[t] = pc[t]
        BY <1>1 DEF Types, Spawned
      <3> QED
        BY <1>1, <3>1 DEF Infos, InfoHeld
    <2>3. HookAwaited'
      BY <1>3 DEF HookAwaited
    <2> QED
      BY <2>1, <2>2, <2>3 DEF Infos
  <1>7. Slots'
    BY <1>1 DEF Slots, Before
  <1>8. Handles'
    BY <1>1 DEF Handles
  <1>9. Freed'
    BY <1>1 DEF Freed, Before
  <1>10. Announced'
    BY <1>1 DEF Announced
  <1>11. Numbers'
    BY <1>1 DEF Numbers, Numbered, Before
  <1>12. Registered'
    BY <1>1 DEF Registered, Running
  <1> QED
    BY <1>4, <1>5, <1>6, <1>7, <1>8, <1>9, <1>10, <1>11, <1>12

\* A thread that announces itself reads the number of threads: its slot.
LEMMA NotifyReadsKeeps ==
    ASSUME IInv, NEW f \in setup.foreign, NotifyReads(f), UNCHANGED setup
    PROVE  IInv'
  <1> USE DEF IInv
  <1>1. PICK h \in FreeHandles : handle' = [handle EXCEPT ![f] = h]
    BY DEF NotifyReads
  <1>2. /\ pc[f] = "unborn" /\ pc' = [pc EXCEPT ![f] = "notify_grow"]
        /\ notifyLock = nobody /\ notifyLock' = f
        /\ slot' = [slot EXCEPT ![f] = num] /\ id' = [id EXCEPT ![f] = num]
        /\ UNCHANGED <<making, info, createLock, num, pThreads, buffer, mutex, inside, wild>>
    BY DEF NotifyReads, At, Goes, registry, program
  <1>3. f \in Foreign /\ f \in Thread /\ f \notin Child /\ setup.foreign # {}
    BY PthreadsAssumption DEF Types, Thread
  <1>4. \A u \in Thread : pc[u] # "notify_grow" /\ making[u] # f
    BY <1>2, PthreadsAssumption DEF Types, Locks, Thread
  <1>5. h \in Handle /\ \A u \in Thread : pc[u] \notin {"unborn", "joined"} => handle[u] # h
    BY DEF FreeHandles, At
  <1>6. Types'
    BY <1>1, <1>2, <1>5, PthreadsAssumption DEF Types, Places, Thread
  <1>7. Locks'
    BY <1>2, <1>3 DEF Types, Locks, Creating, Before
  <1>8. Infos'
    <2>1. InfoUsed'
      BY <1>2 DEF Infos, InfoUsed, Spawned
    <2>2. InfoHeld'
      BY ZenonT(60), <1>1, <1>2, <1>3, <1>4, <1>5, PthreadsAssumption
         DEF Types, Locks, Infos, InfoHeld, Creating, Before, Spawned, Thread
    <2>3. HookAwaited'
      BY ZenonT(60), <1>1, <1>2, <1>3, <1>4, <1>5, PthreadsAssumption
         DEF Types, Locks, Infos, HookAwaited, Creating, Before, Spawned, Thread
    <2> QED
      BY <2>1, <2>2, <2>3 DEF Infos
  <1>9. Slots'
    BY <1>2 DEF Types, Slots, Before
  <1>10. Handles'
    <2>1. handle' \in [Thread -> Handle \cup {None}] /\ \A u \in Thread \ {f} : handle'[u] = handle[u]
      BY <1>1, <1>3, <1>5 DEF Types
    <2>2. handle'[f] = h
      BY <1>1, <1>3 DEF Types
    <2>3. \A u \in Thread \ {f} :
             /\ pc'[u] = "unborn" <=> pc[u] = "unborn"
             /\ pc'[u] = "joined" <=> pc[u] = "joined"
      BY <1>2
    <2>4. f # main
      BY PthreadsAssumption DEF Types
    <2>5. main \in Thread
      BY DEF Thread
    <2> QED
      BY <1>5, <2>1, <2>2, <2>3, <2>4, <2>5 DEF Handles
  <1>11. Freed'
    BY <1>2 DEF Freed, Before
  <1>12. Announced'
    BY <1>2, <1>4 DEF Types, Announced, Slots, Thread
  <1>13. Numbers'
    BY DEF Numbers
  <1>14. Registered'
    BY DEF Registered
  <1> QED
    BY <1>6, <1>7, <1>8, <1>9, <1>10, <1>11, <1>12, <1>13, <1>14

\* It has the arrays reallocated.
LEMMA NotifyGrowsKeeps ==
    ASSUME IInv, NEW f \in setup.foreign, NotifyGrows(f), UNCHANGED setup
    PROVE  IInv'
  <1> USE DEF IInv
  <1>1. /\ pc[f] = "notify_grow" /\ pc' = [pc EXCEPT ![f] = "app"]
        /\ slot' = [slot EXCEPT ![f] = 0]
        /\ UNCHANGED <<id, handle, making, info, createLock, mutex, inside, wild>>
    BY DEF NotifyGrows, At, Goes, program
  <1>2. f \in Foreign /\ f \in Thread /\ f \notin Child /\ setup.foreign # {}
    BY PthreadsAssumption DEF Types, Thread
  <1>3. slot[f] \in Nat /\ slot[f] = id[f] /\ slot[f] <= num /\ num \in Nat
    BY <1>1, <1>2 DEF Types, Slots
  <1>4. /\ num' \in {num, num + 1} /\ slot[f] + 1 <= num'
        /\ pThreads' \in [0..(num' - 1) -> Handle \cup {None, Junk}]
        /\ buffer' \in [0..(num' - 1) -> {"live", "freed"}]
        /\ \A u \in 0..(num - 1) : pThreads'[u] = pThreads[u] /\ buffer'[u] = buffer[u]
        /\ num' # num => pThreads'[num] \in {None, Junk} /\ buffer'[num] = "live" /\ num' = slot[f] + 1
    BY <1>3, GrowthKeepsSlots DEF NotifyGrows
  <1>5. \A u \in Thread : pc[u] = "notify_grow" => u = f
    BY <1>1, <1>2 DEF Locks
  <1>6. making[f] = nobody
    BY <1>1, <1>2 DEF Locks, Creating, Before
  <1>7. Types'
    <2>1. num' \in Nat \ {0} /\ pc' \in [Thread -> Places] /\ slot' \in [Thread -> Nat]
      BY <1>1, <1>2, <1>4 DEF Types, Places
    <2> QED
      BY <1>1, <1>2, <1>3, <1>4, <2>1 DEF Types
  <1>8. Locks'
    BY <1>1, <1>6, PthreadsAssumption DEF Types, Locks, Creating, Before, Thread
  <1>9. Infos'
    <2>1. InfoUsed'
      BY <1>1 DEF Infos, InfoUsed, Spawned
    <2>2. InfoHeld'
      BY <1>1, <1>6 DEF Infos, InfoHeld, Spawned
    <2>3. HookAwaited'
      BY <1>1, PthreadsAssumption DEF Infos, HookAwaited, Spawned
    <2> QED
      BY <2>1, <2>2, <2>3 DEF Infos
  <1>10. Slots'
    BY <1>1, <1>4 DEF Types, Slots, Before
  <1>11. Handles'
    BY <1>1 DEF Handles
  <1>12. Freed'
    <2>1. ASSUME NEW u \in 0..(num' - 1), buffer'[u] = "freed"  PROVE pThreads'[u] = None
      <3>1. u \in 0..(num - 1)
        BY <1>3, <1>4, <2>1, LastSlot
      <3> QED
        BY <1>4, <2>1, <3>1 DEF Freed
    <2>2. ASSUME NEW u \in Thread, pc'[u] \in Before, slot'[u] < num'
          PROVE  pThreads'[slot'[u]] \in {None, Junk} /\ buffer'[slot'[u]] = "live"
      <3>1. u # f /\ pc[u] \in Before /\ slot'[u] = slot[u]
        BY <1>1, <2>2 DEF Before
      <3>2. slot[u] \in Nat /\ slot[u] <= num
        BY <3>1 DEF Types, Slots
      <3>3. CASE slot[u] < num
        BY <1>4, <3>1, <3>3, SlotsInRange DEF Freed
      <3>4. CASE slot[u] = num
        <4>1. num' # num
          BY <1>3, <2>2, <3>1, <3>4
        <4> QED
          BY <1>4, <3>1, <3>4, <4>1
      <3> QED
        BY <1>3, <3>2, <3>3, <3>4
    <2> QED
      BY <1>1, <2>1, <2>2 DEF Freed
  <1>13. Announced'
    BY <1>1 DEF Announced
  <1>14. Numbers'
    BY DEF Numbers
  <1>15. Registered'
    BY DEF Registered
  <1> QED
    BY <1>7, <1>8, <1>9, <1>10, <1>11, <1>12, <1>13, <1>14, <1>15

\* A thread ends, by returning or by pthread_exit, and is flushed.
LEMMA EndKeeps ==
    ASSUME IInv, NEW c \in Child, Ends(c) \/ Exits(c), UNCHANGED setup
    PROVE  IInv'
  <1> USE DEF IInv
  <1>1. /\ pc[c] = "app" /\ pc' = [pc EXCEPT ![c] = "destructors"]
        /\ UNCHANGED <<id, handle, making, slot, info, createLock, notifyLock, mutex, inside,
                       wild, num>>
    BY EndFreesOwn
  <1>2. \/ UNCHANGED <<pThreads, buffer>>
        \/ \E u \in 0..(num - 1) :
              /\ pThreads[u] = handle[c]
              /\ pThreads' = [pThreads EXCEPT ![u] = None]
              /\ buffer' = [buffer EXCEPT ![u] = "freed"]
    BY EndFreesOwn
  <1>3. c \in Thread /\ c # main /\ main \in Thread /\ handle[c] \in Handle /\ handle[c] # handle[main]
    BY <1>1, PthreadsAssumption DEF Locks, Handles, Thread
  <1>4. Types'
    BY ZenonT(60), <1>1, <1>2, <1>3, PthreadsAssumption DEF Types, Places, Creating, Before, Thread
  <1>5. Locks'
    <2>1. ASSUME NEW u \in Thread
          PROVE  /\ pc'[u] \in Creating => createLock' = u
                 /\ pc'[u] \in Creating <=> making'[u] # nobody
                 /\ making'[u] # u
                 /\ pc'[u] = "notify_grow" => notifyLock' = u /\ u \in Foreign
                 /\ pc'[u] \in {"hook", "hook_signal", "destructors", "joined"} => u \in Child
      BY <1>1 DEF Locks, Creating, Before
    <2>2. ASSUME NEW f \in Foreign, setup.foreign = {}  PROVE pc'[f] = "unborn"
      BY <1>1, <2>2 DEF Locks
    <2>3. ASSUME NEW u \in Thread, pc'[u] \in {"create_read", "create_grow", "create_spawn"}
          PROVE  pc'[making'[u]] = "unborn"
      <3>1. pc[u] = pc'[u] /\ making'[u] = making[u] /\ making[u] \in Thread
        BY <1>1, <2>3 DEF Types, Locks, Creating, Before, Thread
      <3> QED
        BY <1>1, <2>3 DEF Locks
    <2> QED
      BY <2>1, <2>2, <2>3 DEF Locks
  <1>6. Infos'
    <2>1. InfoUsed'
      BY <1>1 DEF Infos, InfoUsed, Spawned
    <2>2. InfoHeld'
      BY ZenonT(60), <1>1, <1>2, <1>3, PthreadsAssumption
         DEF Types, Locks, Infos, InfoHeld, Creating, Before, Spawned, Thread
    <2>3. HookAwaited'
      BY <1>1, <1>2, <1>3, PthreadsAssumption
         DEF Types, Locks, Infos, HookAwaited, Creating, Before, Spawned, Thread
    <2> QED
      BY <2>1, <2>2, <2>3 DEF Infos
  <1>7. Slots'
    BY <1>1 DEF Slots, Before
  <1>8. Handles'
    BY <1>1 DEF Handles
  <1>9. Freed'
    <2>1. \A u \in 0..(num - 1) : buffer'[u] = "freed" => pThreads'[u] = None
      BY <1>2 DEF Types, Freed
    <2>2. ASSUME NEW u \in Thread, pc'[u] \in Before, slot'[u] < num'
          PROVE  pThreads'[slot'[u]] \in {None, Junk} /\ buffer'[slot'[u]] = "live"
      <3>1. pc[u] \in Before /\ slot[u] \in 0..(num - 1) /\ slot'[u] = slot[u] /\ slot[u] < num
        BY <1>1, <2>2 DEF Types, Before
      <3>2. pThreads[slot[u]] \in {None, Junk} /\ buffer[slot[u]] = "live"
        BY <3>1 DEF Freed
      <3> QED
        BY <1>2, <1>3, <3>1, <3>2, PthreadsAssumption DEF Types
    <2> QED
      BY <1>1, <2>1, <2>2 DEF Freed
  <1>10. Announced'
    BY <1>1 DEF Announced
  <1>11. Numbers'
    BY <1>1 DEF Numbers, Numbered, Before
  <1>12. Registered'
    <2> SUFFICES ASSUME setup.foreign = {}  PROVE Registered'
      BY DEF Registered
    <2>1. CASE UNCHANGED <<pThreads, buffer>>
      BY <1>1, <2>1 DEF Registered, Running
    <2>2. ASSUME NEW v \in 0..(num - 1), pThreads[v] = handle[c],
                 pThreads' = [pThreads EXCEPT ![v] = None],
                 buffer' = [buffer EXCEPT ![v] = "freed"]
          PROVE  Registered'
      <3>1. v # 0
        BY <1>3, <2>2 DEF Registered, Handles
      <3>2. /\ pThreads'[v] = None
            /\ \A u \in 0..(num - 1) : u # v => pThreads'[u] = pThreads[u] /\ buffer'[u] = buffer[u]
        BY <2>2 DEF Types
      <3>3. ASSUME NEW u \in Thread, pc'[u] \in Running
            PROVE  /\ id'[u] # 0 => pThreads'[id'[u]] \in {handle'[u], None, Junk}
                   /\ buffer'[id'[u]] = "live"
        <4>1. u # c /\ pc[u] \in Running /\ id[u] \in 0..(num - 1)
          BY <1>1, <3>3, SlotsInRange DEF Types, Running, Creating, Before
        <4>2. handle[u] # handle[c]
          BY <1>1, <1>3, <4>1 DEF Handles, Running, Creating, Before
        <4>3. id[u] # v
          BY <1>3, <2>2, <3>1, <4>1, <4>2, PthreadsAssumption DEF Registered
        <4> QED
          BY <1>1, <3>2, <4>1, <4>3 DEF Registered
      <3>4. ASSUME NEW u \in Thread, pc'[u] = "create_done", pc'[making'[u]] = "hook"
            PROVE  pThreads'[slot'[u]] = handle'[making'[u]] /\ buffer'[slot'[u]] = "live"
        <4>1. pc[u] = "create_done" /\ pc[making[u]] = "hook" /\ making[u] \in Thread /\ making[u] # c
          BY <1>1, <3>4 DEF Types, Locks, Creating, Thread
        <4>2. handle[making[u]] # handle[c] /\ slot[u] \in 0..(num - 1)
          BY <1>1, <1>3, <4>1, SlotsInRange DEF Types, Handles
        <4>3. pThreads[slot[u]] = handle[making[u]] /\ buffer[slot[u]] = "live" /\ slot[u] # v
          BY <2>2, <4>1, <4>2 DEF Registered
        <4> QED
          BY <1>1, <3>2, <4>2, <4>3
      <3>5. pThreads'[0] = h1
        BY <3>1, <3>2 DEF Types, Registered
      <3> QED
        BY <3>3, <3>4, <3>5 DEF Registered
    <2> QED
      BY <1>2, <2>1, <2>2
  <1> QED
    BY <1>4, <1>5, <1>6, <1>7, <1>8, <1>9, <1>10, <1>11, <1>12

\* A thread is joined.
LEMMA JoinedKeeps ==
    ASSUME IInv, NEW c \in Child, Joined(c), UNCHANGED setup
    PROVE  IInv'
  <1> USE DEF IInv
  <1>1. /\ pc[c] = "destructors" /\ pc' = [pc EXCEPT ![c] = "joined"]
        /\ UNCHANGED <<id, handle, making, slot, info, num, pThreads, buffer, createLock, notifyLock, mutex, inside, wild>>
    BY DEF Joined, At, Goes, registry, creation, program
  <1>2. c \in Thread
    BY DEF Thread
  <1>3. Types'
    BY <1>1 DEF Types, Places, Thread
  <1>4. Locks'
    <2>1. ASSUME NEW u \in Thread
          PROVE  /\ pc'[u] \in Creating => createLock' = u
                 /\ pc'[u] \in Creating <=> making'[u] # nobody
                 /\ making'[u] # u
                 /\ pc'[u] = "notify_grow" => notifyLock' = u /\ u \in Foreign
                 /\ pc'[u] \in {"hook", "hook_signal", "destructors", "joined"} => u \in Child
      BY <1>1 DEF Locks, Creating, Before
    <2>2. ASSUME NEW f \in Foreign, setup.foreign = {}  PROVE pc'[f] = "unborn"
      BY <1>1, <2>2 DEF Locks
    <2>3. ASSUME NEW u \in Thread, pc'[u] \in {"create_read", "create_grow", "create_spawn"}
          PROVE  pc'[making'[u]] = "unborn"
      <3>1. pc[u] = pc'[u] /\ making'[u] = making[u] /\ making[u] \in Thread
        BY <1>1, <2>3 DEF Types, Locks, Creating, Before, Thread
      <3> QED
        BY <1>1, <2>3 DEF Locks
    <2> QED
      BY <2>1, <2>2, <2>3 DEF Locks
  <1>5. Infos'
    <2>1. InfoUsed'
      BY <1>1 DEF Infos, InfoUsed, Spawned
    <2>2. InfoHeld'
      BY ZenonT(60), <1>1, <1>2, PthreadsAssumption
         DEF Types, Locks, Infos, InfoHeld, Creating, Before, Spawned, Thread
    <2>3. HookAwaited'
      BY <1>1, <1>2, PthreadsAssumption
         DEF Types, Locks, Infos, HookAwaited, Creating, Before, Spawned, Thread
    <2> QED
      BY <2>1, <2>2, <2>3 DEF Infos
  <1>6. Slots'
    BY <1>1 DEF Slots, Before
  <1>7. Handles'
    BY <1>1 DEF Handles
  <1>8. Freed'
    BY <1>1 DEF Freed, Before
  <1>9. Announced'
    BY <1>1 DEF Announced
  <1>10. Numbers'
    BY <1>1 DEF Numbers, Numbered, Before
  <1>11. Registered'
    BY <1>1 DEF Registered, Running, Creating, Before
  <1> QED
    BY <1>3, <1>4, <1>5, <1>6, <1>7, <1>8, <1>9, <1>10, <1>11

\* A mutex of the program is taken.
LEMMA LocksMutexKeeps ==
    ASSUME IInv, NEW t \in Thread, LocksMutex(t), UNCHANGED setup
    PROVE  IInv'
  <1> USE DEF IInv
  <1>1. /\ inside' = inside \cup {t}
        /\ UNCHANGED <<pc, id, handle, making, slot, info, num, pThreads, buffer, createLock, notifyLock, wild>>
    BY DEF LocksMutex, registry, creation
  <1>2. Types'
    BY <1>1 DEF Types
  <1>3. Locks'
    BY <1>1, PthreadsAssumption DEF Types, Locks, Places, Creating, Before, Thread
  <1>4. Infos'
    <2>1. InfoUsed'
      BY <1>1 DEF Infos, InfoUsed
    <2>2. InfoHeld'
      BY <1>1 DEF Infos, InfoHeld
    <2>3. HookAwaited'
      BY <1>1 DEF Infos, HookAwaited
    <2> QED
      BY <2>1, <2>2, <2>3 DEF Infos
  <1>5. Slots'
    BY <1>1 DEF Slots
  <1>6. Handles'
    BY <1>1 DEF Handles
  <1>7. Freed'
    BY <1>1 DEF Freed
  <1>8. Announced'
    BY <1>1 DEF Announced
  <1>9. Numbers'
    BY <1>1 DEF Numbers, Numbered
  <1>10. Registered'
    BY <1>1 DEF Registered
  <1> QED
    BY <1>2, <1>3, <1>4, <1>5, <1>6, <1>7, <1>8, <1>9, <1>10

\* A mutex of the program is given back.
LEMMA UnlocksMutexKeeps ==
    ASSUME IInv, NEW t \in Thread, UnlocksMutex(t), UNCHANGED setup
    PROVE  IInv'
  <1> USE DEF IInv
  <1>1. /\ inside' = inside \ {t}
        /\ UNCHANGED <<pc, id, handle, making, slot, info, num, pThreads, buffer, createLock, notifyLock, wild>>
    BY DEF UnlocksMutex, registry, creation
  <1>2. Types'
    BY <1>1 DEF Types
  <1>3. Locks'
    BY <1>1, PthreadsAssumption DEF Types, Locks, Places, Creating, Before, Thread
  <1>4. Infos'
    <2>1. InfoUsed'
      BY <1>1 DEF Infos, InfoUsed
    <2>2. InfoHeld'
      BY <1>1 DEF Infos, InfoHeld
    <2>3. HookAwaited'
      BY <1>1 DEF Infos, HookAwaited
    <2> QED
      BY <2>1, <2>2, <2>3 DEF Infos
  <1>5. Slots'
    BY <1>1 DEF Slots
  <1>6. Handles'
    BY <1>1 DEF Handles
  <1>7. Freed'
    BY <1>1 DEF Freed
  <1>8. Announced'
    BY <1>1 DEF Announced
  <1>9. Numbers'
    BY <1>1 DEF Numbers, Numbered
  <1>10. Registered'
    BY <1>1 DEF Registered
  <1> QED
    BY <1>2, <1>3, <1>4, <1>5, <1>6, <1>7, <1>8, <1>9, <1>10

-----------------------------------------------------------------------------
(* The invariant, and what it gives                                         *)

LEMMA InitIInv == Init => IInv
  <1> SUFFICES ASSUME Init  PROVE IInv
    OBVIOUS
  <1> USE PthreadsAssumption DEF Init
  <1>1. Types
    BY DEF Types, Places
  <1>2. Locks
    BY DEF Locks, Creating, Before, Thread
  <1>3. Infos
    BY DEF Infos, InfoUsed, InfoHeld, HookAwaited, Spawned, Thread
  <1>4. Slots
    BY DEF Slots, Before
  <1>5. Handles
    BY DEF Handles, Thread
  <1>6. Freed
    BY DEF Freed, Before
  <1>7. Announced
    BY DEF Announced, Thread
  <1>8. Numbers
    BY DEF Numbers, Numbered, Before
  <1>9. Registered
    BY DEF Registered
  <1> QED
    BY <1>1, <1>2, <1>3, <1>4, <1>5, <1>6, <1>7, <1>8, <1>9 DEF IInv

LEMMA StutterKeeps == IInv /\ UNCHANGED vars => IInv'
  <1> SUFFICES ASSUME IInv, UNCHANGED vars  PROVE IInv'
    OBVIOUS
  <1> USE DEF IInv, vars
  <1>1. Types' /\ Locks' /\ Slots'
    BY DEF Types, Locks, Slots
  <1>2. Infos' /\ Handles' /\ Freed'
    BY DEF Infos, InfoUsed, InfoHeld, HookAwaited, Handles, Freed
  <1>3. Announced' /\ Numbers' /\ Registered'
    BY DEF Announced, Numbers, Numbered, Registered
  <1> QED
    BY <1>1, <1>2, <1>3

\* Whatever the threads do, and whatever the program and the system are.
THEOREM Invariance == Spec => []IInv
  <1>1. IInv /\ [Next]_vars => IInv'
    <2> SUFFICES ASSUME IInv, Next  PROVE IInv'
      BY StutterKeeps
    <2>0. UNCHANGED setup
      BY DEF Next
    <2>1. ASSUME NEW t \in Thread,
                 CreateBegins(t) \/ Creates(t) \/ LocksMutex(t) \/ UnlocksMutex(t)
          PROVE  IInv'
      BY <2>0, <2>1, CreateBeginsKeeps, CreateReadsKeeps, CreateGrowsKeeps,
         CreateSpawnsKeeps, CreateFailsKeeps, CreateWaitsKeeps, WakesSpuriouslyKeeps,
         CreateSetsKeeps, CreateReturnsKeeps, LocksMutexKeeps, UnlocksMutexKeeps
         DEF Creates
    <2>2. ASSUME NEW c \in Child, Hook(c) \/ Ends(c) \/ Exits(c) \/ Joined(c)  PROVE IInv'
      BY <2>0, <2>2, HookReadsKeeps, HookSignalsKeeps, HookSignalsWildKeeps, EndKeeps,
         JoinedKeeps
         DEF Hook
    <2>3. ASSUME NEW f \in setup.foreign, NotifyReads(f) \/ NotifyGrows(f)  PROVE IInv'
      BY <2>0, <2>3, NotifyReadsKeeps, NotifyGrowsKeeps
    <2> QED
      BY <2>1, <2>2, <2>3 DEF Next
  <1> QED
    BY <1>1, InitIInv, PTL DEF Spec

\* TypeOK: whatever the threads do, the registry and the buffers have an entry for each
\* slot (Backend_ChangeNumberOfThreads), and a thread that emits has the number of one.
THEOREM TypeCorrect == Spec => []TypeOK
  <1>1. IInv => TypeOK
    <2> SUFFICES ASSUME IInv  PROVE TypeOK
      OBVIOUS
    <2> USE DEF IInv
    <2>1. id \in [Thread -> 0..num] /\ \A t \in Thread : ~At(t, "notify_grow") => id[t] < num
      BY DEF Types, Slots, At
    <2> QED
      BY <2>1 DEF Types, TypeOK
  <1> QED
    BY <1>1, Invariance, PTL

\* IdsDistinctByKind: two threads that emit never have the same THREADID, in a program
\* all of whose threads come from pthread_create and whose waits never return without a
\* signal; nor do two that call Extrae_notify_new_pthread, in any program.  Each writes
\* to a buffer of its own.
THEOREM IdsDistinct == Spec => []IdsDistinctByKind
  <1>1. IInv => IdsDistinctByKind
    BY DEF IInv, Numbers, Numbered, Announced, IdsDistinctByKind, UniqueIds, At
  <1> QED
    BY <1>1, Invariance, PTL

\* HookReadsLive: the hook of a new thread never reads the pthread_create_info after
\* pthread_create has returned, if pthread_cond_wait only returns when it is signalled.
THEOREM HookFindsInfo == Spec => []HookReadsLive
  <1>1. IInv => HookReadsLive
    BY DEF IInv, Infos, HookAwaited, HookReadsLive
  <1> QED
    BY <1>1, Invariance, PTL

\* NoFreedFlush: Backend_Flush_pThread, which looks the slot up by handle, never finds
\* one whose buffer it has freed, although handles are given out again.
THEOREM FlushesOnce == Spec => []NoFreedFlush
  <1>1. IInv => NoFreedFlush
    BY DEF IInv, Freed, NoFreedFlush
  <1> QED
    BY <1>1, Invariance, PTL

\* RunningKeepsBuffer: and in a program all of whose threads come from pthread_create it
\* never frees the buffer of a thread that still runs, even when waits return without
\* a signal.
THEOREM BuffersKept == Spec => []RunningKeepsBuffer
  <1>1. IInv => RunningKeepsBuffer
    BY DEF IInv, Registered, Running, RunningKeepsBuffer, At
  <1> QED
    BY <1>1, Invariance, PTL
=============================================================================
