---------------------------- MODULE TraceBuffer ----------------------------
(***************************************************************************)
(* The per-thread trace buffer of the Extrae tracer                        *)
(* (tracer/wrappers/API/buffers.c): a ring of MaxEvents events, a victim   *)
(* cache (a second, smaller ring) for the event types that must survive    *)
(* when the oldest events are overwritten, and the one file both rings     *)
(* write to, each through a descriptor of its own.                         *)
(*                                                                         *)
(* One thread uses the buffer here.                                        *)
(***************************************************************************)
EXTENDS Integers, Sequences, SequencesExt

CONSTANTS
    EventType,    \* the event types the program emits
    CachedTypes,  \* those registered with Buffer_AddCachedEvent
    MaxEvents,    \* MaxEvents of the tracing buffer (buffer_size)
    CacheSize,    \* MaxEvents of the victim cache (BUFFER_CACHE_SIZE)
    BatchSizes,   \* sizes of the lists given to Buffer_InsertMultiple
    Reserve,      \* arguments of Backend_Enter_Instrumentation
    MaxMade       \* bound of the model: events the program emits

ASSUME BufferAssumption ==
    /\ CachedTypes \subseteq EventType
    /\ MaxEvents \in Nat \ {0}
    /\ CacheSize \in Nat \ {0}
    /\ BatchSizes \subseteq 1..MaxEvents
    /\ Reserve \subseteq 0..(MaxEvents - 1)
    /\ MaxMade \in Nat

VARIABLES
    overwrite, \* its FlushCallback: Buffer_DiscardOldest if TRUE, else Buffer_Flush
    main,    \* the tracing ring
    cache,   \* its VictimCache
    open,    \* fd # -1 for the tracing ring (the cache's fd is never closed)
    file,    \* the events in the intermediate file, in file order
    op,      \* where a Buffer_InsertMultiple in progress is, or "idle"
    todo,    \* the events it has still to insert
    retry,   \* its remaining calls of the flush callback
    made,    \* number of events emitted: the next event's id is made + 1
    log,     \* history: every event accepted into the ring, oldest first
    lost     \* history: the events overwritten without being cached

vars == <<overwrite, main, cache, open, file, op, todo, retry, made, log, lost>>

Event == [id : Nat \ {0}, type : EventType]
NoEvent == [id |-> 0, type |-> "uninitialized"]

-----------------------------------------------------------------------------
(* The ring (Buffer_t) and its pure operations. Pointers are offsets from   *)
(* FirstEvt; LastEvt is the offset max.                                     *)

Ring(n) == [max : {n}, slot : [0..(n - 1) -> Event \cup {NoEvent}],
            head : 0..(n - 1), cur : 0..(n - 1), fill : 0..n, pos : Nat]

new_Buffer(n) == [max |-> n, slot |-> [s \in 0..(n - 1) |-> NoEvent],
                  head |-> 0, cur |-> 0, fill |-> 0, pos |-> 0]

IsEmpty(b) == b.fill = 0
IsFull(b) == b.fill = b.max
RemainingEvents(b) == b.max - b.fill
EnoughSpace(b, n) == RemainingEvents(b) >= n

GetNext(b, s) == IF s + 1 = b.max THEN 0 ELSE s + 1

\* Mutant: CIRCULAR_STEP wraps one offset too late.
CircularStepLate(b, s, step) ==
    IF s + step > b.max THEN s + step - b.max
    ELSE IF s + step < 0 THEN b.max + (s + step)
    ELSE s + step

\* CIRCULAR_STEP: an offset moved by step, wrapped once at either end.
CircularStep(b, s, step) ==
    IF s + step >= b.max THEN s + step - b.max
    ELSE IF s + step < 0 THEN b.max + (s + step)
    ELSE s + step

Stored(b, e) ==
    [b EXCEPT !.slot = [@ EXCEPT ![b.cur] = e],
              !.cur = GetNext(b, b.cur),
              !.fill = @ + 1]

\* Mutant: the fill count is not taken down.
DiscardedNoCount(b) == [b EXCEPT !.head = GetNext(b, b.head)]

Discarded(b) == [b EXCEPT !.head = GetNext(b, b.head), !.fill = @ - 1]

\* The events the ring holds, oldest first.
Contents(b) == [i \in 1..b.fill |-> b.slot[CircularStep(b, b.head, i - 1)]]

-----------------------------------------------------------------------------
(* Writing to the file                                                      *)

Offsets(from, to) == [i \in 1..(to - from) |-> from + i - 1]

\* Mutant: the two blocks of a wrapped region are added in address order.
DataBlocksSwapped(b, ini, end) ==
    IF ini < end THEN Offsets(ini, end)
                 ELSE Offsets(0, end) \o Offsets(ini, b.max)

\* DataBlocks_Add: one block, or two when the region wraps or is the whole ring.
DataBlocks(b, ini, end) ==
    IF ini < end THEN Offsets(ini, end)
                 ELSE Offsets(ini, b.max) \o Offsets(0, end)

\* The offset after the newest event, FillCount steps from the head.
EndOfData(b) == CircularStep(b, b.head, b.fill)

\* The events Buffer_Flush hands to dump_buffer, block after block.
FlushSelection(b) ==
    LET all == DataBlocks(b, b.head, EndOfData(b))
    IN  [i \in 1..Len(all) |-> b.slot[all[i]]]

\* write(2) at an offset of the file: what was there is overwritten.
WriteAt(f, p, data) ==
    SubSeq(f, 1, p) \o data \o SubSeq(f, p + Len(data) + 1, Len(f))

\* Mutant: no lseek, the descriptor writes where it last stopped.
SeekNowhere(b, f) == b.pos

\* lseek (fd, 0, SEEK_END): the offset the next write starts from.
SeekEnd(b, f) == Len(f)

FlushedFile(b, f) == WriteAt(f, SeekEnd(b, f), FlushSelection(b))

\* Mutant: the head is left where it was.
FlushedRingOldHead(b, f) ==
    [b EXCEPT !.pos = SeekEnd(b, f) + Len(FlushSelection(b)),
              !.fill = @ - b.fill]

FlushedRing(b, f) ==
    [b EXCEPT !.pos = SeekEnd(b, f) + Len(FlushSelection(b)),
              !.fill = @ - b.fill,
              !.head = EndOfData(b)]

-----------------------------------------------------------------------------
(* Steps shared by the operations: each says what becomes of main, cache,   *)
(* file and lost.                                                           *)

\* Buffer_Flush of the tracing ring, when it is neither empty nor closed.
FlushMain ==
    /\ main' = FlushedRing(main, file)
    /\ file' = FlushedFile(main, file)
    /\ UNCHANGED <<overwrite, cache, lost>>

\* Mutant: a full victim cache is overwritten instead of flushed.
CacheInsertNoFlush(e) ==
    /\ cache' = IF IsFull(cache) THEN Stored(Discarded(cache), e) ELSE Stored(cache, e)
    /\ UNCHANGED file

\* Buffer_InsertSingle on the victim cache, whose callback is Buffer_Flush.
CacheInsert(e) ==
    IF IsFull(cache)
    THEN /\ file' = FlushedFile(cache, file)
         /\ cache' = Stored(FlushedRing(cache, file), e)
    ELSE /\ cache' = Stored(cache, e)
         /\ UNCHANGED file

\* Buffer_CacheEvent: the event about to be overwritten is cached if its type is.
CacheEvent(e) ==
    IF e.type \in CachedTypes
    THEN CacheInsert(e) /\ UNCHANGED <<overwrite, lost>>
    ELSE lost' = lost \cup {e} /\ UNCHANGED <<overwrite, cache, file>>

Oldest(b) == b.slot[b.head]

\* Buffer_DiscardOldest.
DiscardOldest == main' = Discarded(main) /\ CacheEvent(Oldest(main))

\* Buffer_InsertSingle on the tracing ring, after the event was made.
InsertSingle(e) ==
    \/ /\ ~IsFull(main)
       /\ main' = Stored(main, e)
       /\ log' = Append(log, e)
       /\ UNCHANGED <<overwrite, cache, file, lost>>
    \/ /\ IsFull(main)
       /\ ~overwrite
       /\ open
       /\ main' = Stored(FlushedRing(main, file), e)
       /\ file' = FlushedFile(main, file)
       /\ log' = Append(log, e)
       /\ UNCHANGED <<overwrite, cache, lost>>
    \/ \* the callback returns 0: the event is dropped
       /\ IsFull(main)
       /\ ~overwrite
       /\ ~open
       /\ UNCHANGED <<overwrite, main, cache, file, lost, log>>
    \/ /\ IsFull(main)
       /\ overwrite
       /\ CacheEvent(Oldest(main))
       /\ main' = Stored(Discarded(main), e)
       /\ log' = Append(log, e)

-----------------------------------------------------------------------------
(* The operations                                                           *)

Init ==
    /\ overwrite \in BOOLEAN
    /\ main = new_Buffer(MaxEvents)
    /\ cache = new_Buffer(CacheSize)
    /\ open = TRUE
    /\ file = <<>>
    /\ op = "idle"
    /\ todo = <<>>
    /\ retry = 0
    /\ made = 0
    /\ log = <<>>
    /\ lost = {}

\* TRACE_EVENT: one event through BUFFER_INSERT.
Insert ==
    /\ op = "idle"
    /\ made < MaxMade
    /\ \E t \in EventType : InsertSingle([id |-> made + 1, type |-> t])
    /\ made' = made + 1
    /\ UNCHANGED <<open, op, todo, retry>>

\* Mutant: one retry too few.
RetriesShort(n) == n - 1

\* Buffer_InsertMultiple calls the flush callback at most num_events times.
Retries(n) == n

\* TRACE_N_MISCEVENT: a list of events through Buffer_InsertMultiple.
BeginInsertMultiple ==
    /\ op = "idle"
    /\ \E n \in BatchSizes : \E ts \in [1..n -> EventType] :
          /\ made + n <= MaxMade
          /\ todo' = [i \in 1..n |-> [id |-> made + i, type |-> ts[i]]]
          /\ retry' = Retries(n)
          /\ made' = made + n
    /\ op' = "reserve"
    /\ UNCHANGED <<overwrite, main, cache, open, file, log, lost>>

MustMakeRoom == retry > 0 /\ ~EnoughSpace(main, Len(todo))

\* One turn of its while loop.
ReserveCallback ==
    /\ op = "reserve"
    /\ MustMakeRoom
    /\ IF overwrite THEN DiscardOldest ELSE open /\ ~IsEmpty(main) /\ FlushMain
    /\ retry' = retry - 1
    /\ UNCHANGED <<open, op, todo, made, log>>

\* Mutant: the callback's return value is ignored and the turn not counted.
ReserveFailsSpins ==
    /\ op = "reserve"
    /\ MustMakeRoom
    /\ ~overwrite
    /\ ~open \/ IsEmpty(main)
    /\ UNCHANGED vars

\* The callback returned 0: the whole list is dropped.
ReserveFails ==
    /\ op = "reserve"
    /\ MustMakeRoom
    /\ ~overwrite
    /\ ~open \/ IsEmpty(main)
    /\ op' = "idle"
    /\ todo' = <<>>
    /\ UNCHANGED <<overwrite, main, cache, open, file, retry, made, log, lost>>

\* The loop ends: the list is inserted, or the program exits for lack of room.
ReserveDone ==
    /\ op = "reserve"
    /\ ~MustMakeRoom
    /\ op' = IF EnoughSpace(main, Len(todo)) THEN "insert" ELSE "exit"
    /\ UNCHANGED <<overwrite, main, cache, open, file, todo, retry, made, log, lost>>

InsertNext ==
    /\ op = "insert"
    /\ todo # <<>>
    /\ InsertSingle(Head(todo))
    /\ todo' = Tail(todo)
    /\ op' = IF Len(todo) = 1 THEN "idle" ELSE "insert"
    /\ UNCHANGED <<open, retry, made>>

\* Buffer_Flush called directly (Backend_postInitialize, Backend_Flush_pThread,
\* Online_ResumeApp, the append path of Backend_Finalize).
Flush ==
    /\ op = "idle"
    /\ open
    /\ ~IsEmpty(main)
    /\ FlushMain
    /\ UNCHANGED <<open, op, todo, retry, made, log>>

\* Backend_Enter_Instrumentation: the callback runs when the ring is about to fill.
EnterInstrumentation ==
    /\ op = "idle"
    /\ \E n \in Reserve : RemainingEvents(main) <= n
    /\ IF overwrite THEN DiscardOldest ELSE open /\ FlushMain
    /\ UNCHANGED <<open, op, todo, retry, made, log>>

\* Buffer_Close: the victim cache is flushed, the ring itself is not.
Close ==
    /\ op = "idle"
    /\ open
    /\ open' = FALSE
    /\ IF IsEmpty(cache)
       THEN UNCHANGED <<cache, file>>
       ELSE /\ cache' = FlushedRing(cache, file)
            /\ file' = FlushedFile(cache, file)
    /\ UNCHANGED <<overwrite, main, op, todo, retry, made, log, lost>>

BatchStep == ReserveCallback \/ ReserveFails \/ ReserveDone \/ InsertNext

Next ==
    \/ Insert
    \/ BeginInsertMultiple
    \/ ReserveCallback
    \/ ReserveFails
    \/ ReserveDone
    \/ InsertNext
    \/ Flush
    \/ EnterInstrumentation
    \/ Close

Spec == Init /\ [][Next]_vars

\* The thread that started an operation runs it to its end.
FairSpec == Spec /\ WF_vars(BatchStep)

-----------------------------------------------------------------------------
(* Properties                                                               *)

(* Every variable keeps its type: the offsets stay inside the rings and the *)
(* fill counts inside 0..max.                                               *)
TypeOK ==
    /\ overwrite \in BOOLEAN
    /\ main \in Ring(MaxEvents)
    /\ cache \in Ring(CacheSize)
    /\ open \in BOOLEAN
    /\ file \in Seq(Event)
    /\ op \in {"idle", "reserve", "insert", "exit"}
    /\ todo \in Seq(Event)
    /\ retry \in Nat
    /\ made \in Nat
    /\ log \in Seq(Event)
    /\ lost \in SUBSET Event

(* The three cursors of a ring agree: the next free slot is FillCount steps *)
(* after the oldest event, and every slot in between holds an event.        *)
RingConsistent(b) ==
    /\ b.cur = EndOfData(b)
    /\ \A i \in 1..b.fill : b.slot[CircularStep(b, b.head, i - 1)] \in Event

(* Both rings are consistent: a flush never writes a slot nobody filled.    *)
CursorsAgree == RingConsistent(main) /\ RingConsistent(cache)

(* The ring holds exactly the newest FillCount events the program recorded, *)
(* in the order it recorded them: no wrap-around, flush or discard ever     *)
(* shows a stale or a reordered slot.                                       *)
RingHoldsNewest ==
    Contents(main) = SubSeq(log, Len(log) - main.fill + 1, Len(log))

(* When the callback is Buffer_Flush, the file followed by the ring is the  *)
(* exact sequence of recorded events: none lost, doubled or reordered.      *)
FileThenRing == ~overwrite => file \o Contents(main) = log

(* When the oldest events are overwritten, those of a cached type reach the *)
(* file in the order they were recorded, for as long as the ring itself has *)
(* not been flushed (its descriptor has not moved).                         *)
CachedInOrder ==
    overwrite /\ main.pos = 0
      => LET all == file \o Contents(cache)
         IN  \A i, j \in DOMAIN all : i < j => all[i].id < all[j].id

(* A list that fits the buffer never makes Buffer_InsertMultiple exit the   *)
(* traced program.                                                          *)
BatchNeverExits == op # "exit"

(* The callbacks still allowed are enough to make room for the list.        *)
RoomWithinReach ==
    op = "reserve" => retry + RemainingEvents(main) >= Len(todo)

(* The inductive invariant behind the safety properties.                    *)
IndInv ==
    /\ TypeOK
    /\ CursorsAgree
    /\ Len(todo) <= MaxEvents
    /\ main.fill <= Len(log)
    /\ RingHoldsNewest
    /\ ~overwrite => cache.fill = 0
    /\ FileThenRing
    /\ RoomWithinReach
    /\ BatchNeverExits

(* What is on disk is never altered: the file only grows at its end.        *)
FileAppendOnly == [][IsPrefix(file, file')]_file

(* The buffer is a recorder of events: its contents are the recent ones,    *)
(* those of the victim cache the precious ones kept aside. Every operation  *)
(* is one step of the recorder or none.                                     *)
Recorder == INSTANCE EventRecorder WITH
    Event <- Event,
    Precious <- {e \in Event : e.type \in CachedTypes},
    Capacity <- MaxEvents,
    KeptCapacity <- CacheSize,
    lossy <- overwrite,
    recent <- Contents(main),
    kept <- Contents(cache),
    disk <- file,
    accepted <- log

(* The rings implement the recorder: the flush writes exactly the contents, *)
(* and an event of a cached type that is overwritten is kept or written.    *)
ImplementsRecorder == Recorder!Spec

(* An event of a cached type is never lost: it is on disk, in the victim    *)
(* cache or still in the ring, however often the ring was overwritten.      *)
CachedSurvive == Recorder!PreciousSurvive

(* A batch is inserted or dropped as a whole: it always comes to an end.    *)
BatchEnds == op = "reserve" ~> op = "idle"
=============================================================================
