--------------------------- MODULE OnlineControl ---------------------------
(***************************************************************************)
(* The on-line analysis (tracer/online, in builds with HAVE_ONLINE): a     *)
(* thread of its own pauses the application by locking every tracing       *)
(* buffer, masks the events not worth keeping, flushes the others and      *)
(* unlocks the buffers; when the analysis ends it closes them.             *)
(*                                                                         *)
(* The lock is taken by insertions, and not by the flush an application    *)
(* thread makes when it enters a wrapper with little room left.            *)
(*                                                                         *)
(* Each thread keeps the operations it has still to make in todo, the      *)
(* next one first; a step makes it, or puts the operations it consists of  *)
(* in its place.                                                           *)
(***************************************************************************)
EXTENDS Integers, Sequences, SequencesExt

CONSTANTS
    Order,        \* the application threads, one buffer each, in the order of their numbers
    BE_thread,    \* the thread of the analysis
    Nobody,       \* holder of a free lock
    MaxEvents,    \* size of each ring
    Calls,        \* the numbers of events of a wrapper call
    MaxCalls,     \* bound of the model: calls made by each thread
    MaxAnalyses   \* bound of the model: protocols run by the analysis

Threads == Range(Order)
Actors == Threads \cup {BE_thread}
Slots == 0..(MaxEvents - 1)
FlushEvents == 4   \* begin, end, and the processor at each of them

\* A wrapper asks Backend_Enter_Instrumentation for the room it needs, and
\* the events of a flush fit beside it.
ASSUME OnlineAssumption ==
    /\ MaxEvents \in Nat /\ MaxEvents > FlushEvents
    /\ Calls \subseteq 1..(MaxEvents - FlushEvents)
    /\ Order \in Seq(Threads) /\ IsInjective(Order)
    /\ Threads \cap {BE_thread, Nobody} = {} /\ BE_thread # Nobody
    /\ MaxCalls \in [Threads -> Nat] /\ MaxAnalyses \in Nat

VARIABLES
    ring,       \* the Buffer_t of each thread
    lock,       \* the holder of its Lock
    file,       \* the events in its file: each thread numbers its own
    todo,       \* the operations each thread has still to make
    at,         \* the local variables of its Buffer_Flush
    over,       \* the back-end has left its loop
    exited,     \* dump_buffer has ended the program
    calls,      \* calls made, by thread
    analyses,   \* protocols run
    made,       \* history: events inserted, by thread
    unselected, \* history: events the analysis masked and did not unmask
    overlapped  \* history: the analysis worked on a buffer its thread was flushing

vars == <<ring, lock, file, todo, at, over, exited, calls, analyses, made, unselected, overlapped>>
bounds == <<over, calls, analyses>>
history == <<made, unselected>>
-----------------------------------------------------------------------------
(* Positions in a ring. The loops of the code over a region are do-while:   *)
(* from a position to itself they go round the whole ring.                  *)

\* Mutant: the end of the ring is not looked at.
GetNextPast(i) == i + 1

GetNext(i) == (i + 1) % MaxEvents

Distance(i, j) == IF i = j THEN MaxEvents ELSE (j - i) % MaxEvents

\* The slots from i up to j, j left out.
Path(i, j) == [k \in 1..Distance(i, j) |-> (i + k - 1) % MaxEvents]

\* The slots Mask_ChangeRegion changes: "both range limits included".
Region(i, j) == Range(Path(i, j)) \cup {j}

RemainingEvents(b) == MaxEvents - b.fill
IsFull(b) == b.fill = MaxEvents
IsEmpty(b) == b.fill = 0

\* The events a ring holds, oldest first.
Contents(b) == [k \in 1..b.fill |-> b.slots[(b.head + k - 1) % MaxEvents]]

\* Mutant: the masks are not looked at.
FilteredNot(b, head, tail) ==
    LET path == Path(head, tail)
    IN  [k \in DOMAIN path |-> b.slots[path[k]]]

\* Filter_Buffer from head up to tail: the events not masked, in order.
Filtered(b, head, tail) ==
    LET path == Path(head, tail)
        kept[k \in 0..Len(path)] ==
            IF k = 0 THEN <<>>
            ELSE IF path[k] \in b.masked THEN kept[k - 1]
            ELSE Append(kept[k - 1], b.slots[path[k]])
    IN  kept[Len(path)]
-----------------------------------------------------------------------------
(* Operations                                                               *)

Operation == [do : {"Buffer_Lock", "Buffer_Unlock", "Buffer_InsertSingle", "Store",
                    "Extrae_Flush_Wrapper", "Buffer_Flush", "Dump", "Take", "Buffer_Close",
                    "MaskAll", "UnmaskAll"},
              buf : Threads]

Op(name, t) == [do |-> name, buf |-> t]

ForEach(name) == [i \in DOMAIN Order |-> Op(name, Order[i])]

Times(n, op) == [i \in 1..n |-> op]

PauseApp == ForEach("Buffer_Lock")

\* Mutant: the buffers are not unlocked.
ResumeAppLocked == ForEach("Buffer_Flush")

ResumeApp == ForEach("Buffer_Flush") \o ForEach("Buffer_Unlock")

\* A protocol that selects what to keep, and one that does not.
Protocols == {<<>>, ForEach("MaskAll") \o ForEach("UnmaskAll")}

Flush == PauseApp \o ForEach("Buffer_Close") \o ResumeApp

NextOp(a) == Head(todo[a])
Buf(a) == NextOp(a).buf
Makes(a, name) == todo[a] # <<>> /\ NextOp(a).do = name

\* Goes on with ops in place of the operation made.
Becomes(a, ops) == todo' = [todo EXCEPT ![a] = ops \o Tail(@)]
Done(a) == Becomes(a, <<>>)

EmptyRing == [slots |-> [i \in Slots |-> 0], masked |-> {}, head |-> 0, cur |-> 0,
              fill |-> 0, open |-> TRUE]

Init ==
    /\ ring = [t \in Threads |-> EmptyRing]
    /\ lock = [t \in Threads |-> Nobody]
    /\ file = [t \in Threads |-> <<>>]
    /\ todo = [a \in Actors |-> <<>>]
    /\ at = [a \in Actors |-> [head |-> 0, num |-> 0, fill |-> 0]]
    /\ over = FALSE
    /\ exited = FALSE
    /\ calls = [t \in Threads |-> 0]
    /\ analyses = 0
    /\ made = [t \in Threads |-> 0]
    /\ unselected = [t \in Threads |-> {}]
    /\ overlapped = FALSE
-----------------------------------------------------------------------------
(* What begins in the application and in the analysis                       *)

NeedsFlush(t, n) == RemainingEvents(ring[t]) <= n

\* A wrapper call of thread t, from Backend_Enter_Instrumentation on.
Call(t) ==
    /\ todo[t] = <<>>
    /\ calls[t] < MaxCalls[t]
    /\ calls' = [calls EXCEPT ![t] = @ + 1]
    /\ \E n \in Calls :
          todo' = [todo EXCEPT ![t] =
              (IF NeedsFlush(t, n) THEN <<Op("Extrae_Flush_Wrapper", t)>> ELSE <<>>)
                \o Times(n, Op("Buffer_InsertSingle", t))]
    /\ UNCHANGED <<ring, lock, file, at, over, analyses, exited, history>>

\* The front-end has the back-end run a protocol.
Analyse ==
    /\ todo[BE_thread] = <<>> /\ ~over
    /\ analyses < MaxAnalyses
    /\ analyses' = analyses + 1
    /\ \E p \in Protocols : todo' = [todo EXCEPT ![BE_thread] = PauseApp \o p \o ResumeApp]
    /\ UNCHANGED <<ring, lock, file, at, over, calls, exited, history>>

\* The front-end shuts the network down, at any time: the loop ends.
Stop_BE ==
    /\ todo[BE_thread] = <<>> /\ ~over
    /\ over' = TRUE
    /\ todo' = [todo EXCEPT ![BE_thread] = Flush]
    /\ UNCHANGED <<ring, lock, file, at, calls, analyses, exited, history>>
-----------------------------------------------------------------------------
(* The operations on a buffer                                               *)

Buffer_Lock(a) ==
    /\ Makes(a, "Buffer_Lock")
    /\ lock[Buf(a)] = Nobody
    /\ lock' = [lock EXCEPT ![Buf(a)] = a]
    /\ Done(a)
    /\ UNCHANGED <<ring, file, at, bounds, exited, history>>

Buffer_Unlock(a) ==
    /\ Makes(a, "Buffer_Unlock")
    /\ lock' = [lock EXCEPT ![Buf(a)] = Nobody]
    /\ Done(a)
    /\ UNCHANGED <<ring, file, at, bounds, exited, history>>

\* The lock is kept while the callback of a full ring runs.
Buffer_InsertSingle(a) ==
    /\ Makes(a, "Buffer_InsertSingle")
    /\ lock[Buf(a)] = Nobody
    /\ lock' = [lock EXCEPT ![Buf(a)] = a]
    /\ Becomes(a, (IF IsFull(ring[Buf(a)]) THEN <<Op("Extrae_Flush_Wrapper", Buf(a))>> ELSE <<>>)
                    \o <<Op("Store", Buf(a))>>)
    /\ UNCHANGED <<ring, file, at, bounds, exited, history>>

\* Mutant: the mask of the slot is not cleared.
StoreMasked(a) ==
    LET t == Buf(a)  b == ring[t] IN
    /\ Makes(a, "Store")
    /\ made' = [made EXCEPT ![t] = @ + 1]
    /\ ring' = [ring EXCEPT ![t].slots[b.cur] = made[t] + 1,
                            ![t].cur = GetNext(@), ![t].fill = @ + 1]
    /\ lock' = [lock EXCEPT ![t] = Nobody]
    /\ Done(a)
    /\ UNCHANGED <<file, at, bounds, exited, unselected>>

\* Mutant: the lock is kept.
StoreLocked(a) ==
    LET t == Buf(a)  b == ring[t] IN
    /\ Makes(a, "Store")
    /\ made' = [made EXCEPT ![t] = @ + 1]
    /\ ring' = [ring EXCEPT ![t].slots[b.cur] = made[t] + 1, ![t].masked = @ \ {b.cur},
                            ![t].cur = GetNext(@), ![t].fill = @ + 1]
    /\ Done(a)
    /\ UNCHANGED <<lock, file, at, bounds, exited, unselected>>

\* The rest of Buffer_InsertSingle.
Store(a) ==
    LET t == Buf(a)  b == ring[t] IN
    /\ Makes(a, "Store")
    /\ made' = [made EXCEPT ![t] = @ + 1]
    /\ ring' = [ring EXCEPT ![t].slots[b.cur] = made[t] + 1, ![t].masked = @ \ {b.cur},
                            ![t].cur = GetNext(@), ![t].fill = @ + 1]
    /\ lock' = [lock EXCEPT ![t] = Nobody]
    /\ Done(a)
    /\ UNCHANGED <<file, at, bounds, exited, unselected>>

\* Mutant: the marks are inserted before the ring is flushed.
Extrae_Flush_WrapperEarly(a) ==
    /\ Makes(a, "Extrae_Flush_Wrapper")
    /\ Becomes(a, IF ring[Buf(a)].open
                  THEN Times(FlushEvents, Op("Buffer_InsertSingle", Buf(a)))
                         \o <<Op("Buffer_Flush", Buf(a))>>
                  ELSE <<>>)
    /\ UNCHANGED <<ring, lock, file, at, bounds, exited, history>>

\* Flushes, and marks that in the ring; nothing if the buffer is closed.
Extrae_Flush_Wrapper(a) ==
    /\ Makes(a, "Extrae_Flush_Wrapper")
    /\ Becomes(a, IF ring[Buf(a)].open
                  THEN <<Op("Buffer_Flush", Buf(a))>>
                         \o Times(FlushEvents, Op("Buffer_InsertSingle", Buf(a)))
                  ELSE <<>>)
    /\ UNCHANGED <<ring, lock, file, at, bounds, exited, history>>

SkipsFlush(b) == IsEmpty(b) \/ ~b.open

\* Buffer_Flush takes no lock. It reads what to flush ...
Buffer_Flush(a) ==
    LET b == ring[Buf(a)] IN
    /\ Makes(a, "Buffer_Flush")
    /\ IF SkipsFlush(b) THEN /\ Done(a)
                             /\ UNCHANGED at
                        ELSE /\ Becomes(a, <<Op("Dump", Buf(a))>>)
                             /\ at' = [at EXCEPT ![a] = [head |-> b.head, num |-> b.fill, fill |-> 0]]
    /\ UNCHANGED <<ring, lock, file, bounds, exited, history>>

\* ... writes what is not masked to the end of the file, ending the program
\* if it cannot, and reads FillCount again to decrease it ...
Dump(a) ==
    LET t == Buf(a)
        b == ring[t]
        l == at[a]
        events == Filtered(b, l.head, (l.head + l.num) % MaxEvents)
    IN  /\ Makes(a, "Dump")
        /\ file' = IF b.open THEN [file EXCEPT ![t] = @ \o events] ELSE file
        /\ exited' = (~b.open /\ events # <<>>)
        /\ at' = [at EXCEPT ![a].fill = b.fill]
        /\ Becomes(a, <<Op("Take", t)>>)
        /\ UNCHANGED <<ring, lock, bounds, history>>

\* ... and takes it out of the ring.
Take(a) ==
    LET t == Buf(a)  l == at[a] IN
    /\ Makes(a, "Take")
    /\ ring' = [ring EXCEPT ![t].fill = l.fill - l.num,
                            ![t].head = (l.head + l.num) % MaxEvents]
    /\ Done(a)
    /\ UNCHANGED <<lock, file, at, bounds, exited, history>>

\* There is no victim cache here to flush.
Buffer_Close(a) ==
    /\ Makes(a, "Buffer_Close")
    /\ ring' = [ring EXCEPT ![Buf(a)].open = FALSE]
    /\ Done(a)
    /\ UNCHANGED <<lock, file, at, bounds, exited, history>>

\* Chopper::MaskAll for one buffer, from its head to its tail.
MaskAll(a) ==
    LET t == Buf(a)  b == ring[t] IN
    /\ Makes(a, "MaskAll")
    /\ ring' = [ring EXCEPT ![t].masked = @ \cup Region(b.head, b.cur)]
    /\ unselected' = [unselected EXCEPT ![t] = @ \cup Range(Contents(b))]
    /\ Done(a)
    /\ UNCHANGED <<lock, file, at, bounds, exited, made>>

\* The events a selection from one event of the ring to another stands for; one
\* that ends before it begins goes round the ring.
Selected(b, i, j) ==
    LET from == b.slots[i]  to == b.slots[j]
    IN  {e \in Range(Contents(b)) : IF from < to THEN e \in from..to
                                                 ELSE e >= from \/ e <= to}

\* Chopper::UnmaskAll for one buffer: the bursts next to the limits of the period, if
\* the ring has both.
UnmaskAll(a) ==
    LET t == Buf(a)
        b == ring[t]
        held == {(b.head + k) % MaxEvents : k \in 0..(b.fill - 1)}
    IN  /\ Makes(a, "UnmaskAll")
        /\ \/ UNCHANGED <<ring, unselected>>
           \/ \E i, j \in held :
                 /\ i # j
                 /\ ring' = [ring EXCEPT ![t].masked = @ \ Region(i, j)]
                 /\ unselected' = [unselected EXCEPT ![t] = @ \ Selected(b, i, j)]
        /\ Done(a)
        /\ UNCHANGED <<lock, file, at, bounds, exited, made>>

Step(a) ==
    \/ Buffer_Lock(a)
    \/ Buffer_Unlock(a)
    \/ Buffer_InsertSingle(a)
    \/ Store(a)
    \/ Extrae_Flush_Wrapper(a)
    \/ Buffer_Flush(a)
    \/ Dump(a)
    \/ Take(a)
    \/ Buffer_Close(a)
    \/ MaskAll(a)
    \/ UnmaskAll(a)

\* A thread has read what to flush of its buffer, and the analysis works on that buffer.
Flushes(a, t) == (Makes(a, "Dump") \/ Makes(a, "Take")) /\ Buf(a) = t
WorksOn(t) ==
    \/ Flushes(BE_thread, t)
    \/ \E name \in {"MaskAll", "UnmaskAll", "Buffer_Close"} :
          Makes(BE_thread, name) /\ Buf(BE_thread) = t
Overlap == \E t \in Threads : Flushes(t, t) /\ WorksOn(t)

Begins == (\E t \in Threads : Call(t)) \/ Analyse \/ Stop_BE
Watches == overlapped' = (overlapped \/ Overlap')
Runs(a) == ~exited /\ Step(a) /\ Watches

Next ==
    \/ ~exited /\ Begins /\ Watches
    \/ \E a \in Actors : Runs(a)

Fairness == \A a \in Actors : WF_vars(Runs(a))

Spec == Init /\ [][Next]_vars /\ Fairness
-----------------------------------------------------------------------------
(* Properties                                                               *)

TypeOK ==
    /\ ring \in [Threads -> [slots : [Slots -> Nat], masked : SUBSET Slots, head : Slots,
                             cur : Slots, fill : Int, open : BOOLEAN]]
    /\ lock \in [Threads -> Actors \cup {Nobody}]
    /\ file \in [Threads -> Seq(Nat)]
    /\ todo \in [Actors -> Seq(Operation)]
    /\ at \in [Actors -> [head : Slots, num : Int, fill : Int]]
    /\ calls \in [Threads -> Nat] /\ analyses \in Nat
    /\ made \in [Threads -> Nat]
    /\ unselected \in [Threads -> SUBSET Nat]
    /\ {over, exited, overlapped} \subseteq BOOLEAN

Between(t) == \A a \in Actors : ~(Makes(a, "Take") /\ Buf(a) = t)
Increasing(s) == \A i \in 1..(Len(s) - 1) : s[i] < s[i + 1]

\* As long as the analysis has not worked on a buffer that its thread was flushing, each
\* event of an open buffer is once in its file or in its ring, in the order of insertion,
\* or was masked, and no write to a closed file has ended the program.
EventsAccounted ==
    ~overlapped =>
        /\ ~exited
        /\ \A t \in Threads : ring[t].open /\ Between(t) =>
              LET all == file[t] \o Contents(ring[t])
              IN  Increasing(all) /\ Range(all) \cup unselected[t] = 1..made[t]

\* What the analysis leaves masked never reaches a file, and the files stay in order.
SelectionKept ==
    ~overlapped => \A t \in Threads :
        Increasing(file[t]) /\ Range(file[t]) \cap unselected[t] = {}

\* No thread, the one of the analysis included, waits for a lock it holds, nor
\* has nothing left to do while it holds one.
NeverLocksItself ==
    \A a \in Actors, t \in Threads : lock[t] = a =>
        /\ todo[a] # <<>>
        /\ NextOp(a) \notin {Op("Buffer_InsertSingle", t), Op("Buffer_Lock", t)}

\* A pause comes to its end: the analysis gets all the locks, and gives them back.
PauseEnds == todo[BE_thread] # <<>> ~> (todo[BE_thread] = <<>> \/ exited)

\* A wrapper call returns, however the analysis pauses the thread.
CallsReturn == \A t \in Threads : todo[t] # <<>> ~> (todo[t] = <<>> \/ exited)
=============================================================================
