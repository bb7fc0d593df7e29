------------------------------ MODULE Backend ------------------------------
(***************************************************************************)
(* From the first probe to the end of the trace: the insertion of events,  *)
(* the flush callback that itself emits events, the file size limit, the   *)
(* signal that ends the tracing, the exit of a thread and Backend_Finalize *)
(* (tracer/wrappers/API/wrapper.c, tracer/signals.c, trace_buffers.h).     *)
(*                                                                         *)
(* These functions call one another: a flush inserts, an insertion         *)
(* flushes, runs a deferred signal, which finalizes, which inserts.  The   *)
(* model therefore keeps the calls still to be made in a control stack;    *)
(* a step takes the call on its top and puts what it calls in its place.   *)
(* One thread runs at a time: a top-level call ends before the next one    *)
(* starts, but a signal may arrive between any two steps.                  *)
(*                                                                         *)
(* A buffer is the sequence of the events its ring holds (TraceBuffer      *)
(* shows that it is one) and the sequence of those in its file.            *)
(***************************************************************************)
EXTENDS Integers, Sequences, FiniteSets, SequencesExt

CONSTANTS
    Threads,    \* 0..n-1, one buffer each; 0 is the initial thread
    MaxEvents,  \* buffer_size
    Options,    \* what to consider: records of the configuration (circular, limit) and of
                \*   what happens, which bounds the model: the events of each thread
                \*   (probes) and the flush-and-terminate signals (signals)
    MaxStack    \* bound of the model: calls pending when the thread's stack is exhausted

\* A flush inserts up to four events into its own buffer, and one into each of the
\* finalizing thread's for every other buffer it flushes: they must fit.
ASSUME BackendAssumption ==
    /\ IsFiniteSet(Threads) /\ Threads = 0..(Cardinality(Threads) - 1) /\ 0 \in Threads
    /\ MaxEvents \in Nat /\ MaxEvents >= 2 + 5 * Cardinality(Threads)
    /\ Options \subseteq
          [circular : BOOLEAN, limit : Nat, probes : [Threads -> Nat], signals : Nat]
    /\ MaxStack \in Nat

VARIABLES
    options,    \* the one of this behaviour: it does not change
    stack,      \* the calls still to be made, the next one first
    me,         \* THREADID of the thread that makes them
    ring,       \* the events in each tracing buffer, oldest first
    file,       \* the events in each intermediate file
    owed,       \* how far DiscardOldest took each FillCount below zero
    open,       \* fd # -1, by buffer
    live,       \* TracingBuffer[t] # NULL, by buffer
    table,      \* "live", or "freed" once the arrays of buffers are
    mpitrace_on,
    initialized,\* Extrae_is_initialized is not EXTRAE_NOT_INITIALIZED
    inhibited,  \* sigInhibited
    deferred,   \* Deferred_Signal_FlushAndTerminate
    blocked,    \* the signal is blocked: its handler has not returned
    signals,    \* number of signals received
    probes,     \* history: number of program events accepted, by thread
    finalizing, \* history: Backend_Finalize calls begun and not ended
    finalized,  \* history: Backend_Finalize calls ended
    handled,    \* history: Backend_Finalize calls made by the signal handler
    crashed     \* freed memory was accessed

vars == <<options, stack, me, ring, owed, file, open, live, table, mpitrace_on, initialized,
          inhibited, deferred, blocked, signals, probes, finalizing, finalized, handled, crashed>>

buffers == <<ring, owed, file, open, live>>
control == <<options, me, table, mpitrace_on, initialized>>
signalling == <<inhibited, deferred, blocked, signals>>
history == <<probes, finalizing, finalized, handled>>

Circular == options.circular  \* circular_buffering: the callback is Buffer_DiscardOldest
FileLimit == options.limit    \* file_size, in events; 0 for no limit

Kinds == {"user", "flush", "cpu", "end"}
-----------------------------------------------------------------------------
(* Calls                                                                    *)

Call(name, t) == [do |-> name, buf |-> t, ev |-> "none"]
InsertSingle(t, e) == [do |-> "InsertSingle", buf |-> t, ev |-> e]
Store(t, e) == [do |-> "Store", buf |-> t, ev |-> e]

\* Mutant: no call runs with signals inhibited.
BUFFER_INSERT_uninhibited(t, e) ==
    <<InsertSingle(t, e), Call("Signals_Desinhibit", t), Call("Signals_ExecuteDeferred", t)>>

BUFFER_INSERT(t, e) ==
    <<Call("Signals_Inhibit", t), InsertSingle(t, e),
      Call("Signals_Desinhibit", t), Call("Signals_ExecuteDeferred", t)>>

\* TRACE_EVENT of sched_getcpu, into the buffer of the calling thread.
Extrae_AnnotateTopology == BUFFER_INSERT(me, "cpu")

\* Mutant: the flush begin event is inserted before the ring is flushed.
Extrae_Flush_Wrapper_early(t) ==
    BUFFER_INSERT(t, "flush") \o <<Call("Buffer_Flush", t)>> \o Extrae_AnnotateTopology
      \o BUFFER_INSERT(t, "flush") \o Extrae_AnnotateTopology \o <<Call("CheckFileSize", t)>>

Extrae_Flush_Wrapper(t) ==
    <<Call("Buffer_Flush", t)>> \o BUFFER_INSERT(t, "flush") \o Extrae_AnnotateTopology
      \o BUFFER_INSERT(t, "flush") \o Extrae_AnnotateTopology \o <<Call("CheckFileSize", t)>>

\* One call for each buffer, in their order.
InThreadOrder(name) == [i \in 1..Cardinality(Threads) |-> Call(name, i - 1)]

\* Mutant: the buffers are freed before the second loop.
FinalizeCallsFreeFirst ==
    Extrae_AnnotateTopology
      \o InThreadOrder("FlushIfAny")
      \o <<Call("Free", 0)>>
      \o InThreadOrder("FinishIfAny")
      \o <<Call("TurnOff", 0), Call("FinalizeEnds", 0)>>

\* What Backend_Finalize does, in order, when it does not append to another trace.
FinalizeCalls ==
    Extrae_AnnotateTopology
      \o InThreadOrder("FlushIfAny")
      \o InThreadOrder("FinishIfAny")
      \o <<Call("Free", 0), Call("TurnOff", 0), Call("FinalizeEnds", 0)>>

-----------------------------------------------------------------------------
Init ==
    /\ options \in Options
    /\ stack = <<>>
    /\ me = 0
    /\ ring = [t \in Threads |-> <<>>]
    /\ owed = [t \in Threads |-> 0]
    /\ file = [t \in Threads |-> <<>>]
    /\ open = [t \in Threads |-> TRUE]
    /\ live = [t \in Threads |-> TRUE]
    /\ table = "live"
    /\ mpitrace_on = TRUE
    /\ initialized = TRUE
    /\ inhibited = FALSE
    /\ deferred = FALSE
    /\ blocked = FALSE
    /\ signals = 0
    /\ probes = [t \in Threads |-> 0]
    /\ finalizing = 0
    /\ finalized = 0
    /\ handled = 0
    /\ crashed = FALSE

Idle == stack = <<>> /\ ~crashed
Executes(name) == stack # <<>> /\ ~crashed /\ Head(stack).do = name
Top == Head(stack).buf
Return(calls) == stack' = calls \o Tail(stack)

\* Neither the buffer on top nor the array that holds it has been freed.
Accessible == table = "live" /\ live[Top]

-----------------------------------------------------------------------------
(* Where calls begin: the program, the end of a thread, the end of the      *)
(* program, a signal.                                                       *)

\* A probe in thread t: Backend_Enter_Instrumentation, then one event.
Probe ==
    /\ Idle
    /\ mpitrace_on
    /\ \E t \in {u \in Threads : live[u] /\ probes[u] < options.probes[u]} :
          /\ me' = t
          /\ stack' = <<Call("Enter", t)>> \o BUFFER_INSERT(t, "user")
    /\ UNCHANGED <<options, buffers, table, mpitrace_on, initialized, signalling, history, crashed>>

\* Mutant: the buffer of a thread that ends is closed without a flush.
FlushThreadUnflushed(t) == <<Call("close_mpits", t), Call("Buffer_Free", t)>>

FlushThread(t) == <<Call("Buffer_Flush", t), Call("close_mpits", t), Call("Buffer_Free", t)>>

\* Backend_Flush_pThread, called by a thread other than the initial one as it ends.
ThreadEnds ==
    /\ Idle
    /\ table = "live"
    /\ \E t \in {u \in Threads \ {0} : live[u]} :
          /\ me' = t
          /\ stack' = FlushThread(t)
    /\ UNCHANGED <<options, buffers, table, mpitrace_on, initialized, signalling, history, crashed>>

\* Extrae_fini_Wrapper: Extrae_fini in the program.
Extrae_fini ==
    /\ Idle
    /\ initialized
    /\ initialized' = FALSE
    /\ me' = 0
    /\ stack' = <<Call("Backend_Finalize", 0)>>
    /\ UNCHANGED <<options, buffers, table, mpitrace_on, signalling, history, crashed>>

\* Extrae_fini_last_chance_Wrapper: the exit handler of the program.
ProgramExits ==
    /\ Idle
    /\ initialized
    /\ me' = 0
    /\ stack' = <<Call("Backend_Finalize", 0), Call("SetNotInitialized", 0)>>
    /\ UNCHANGED <<options, buffers, table, mpitrace_on, initialized, signalling, history, crashed>>

\* The signal is delivered between two steps of a thread (to any one if none is inside
\* the library) and blocked until its handler returns.
Signal ==
    /\ ~crashed
    /\ ~blocked
    /\ signals < options.signals
    /\ IF stack = <<>> THEN me' \in {t \in Threads : live[t] \/ t = 0} ELSE UNCHANGED me
    /\ stack' = <<Call("SigHandler", 0), Call("SignalReturns", 0)>> \o stack
    /\ blocked' = TRUE
    /\ signals' = signals + 1
    /\ UNCHANGED <<options, buffers, table, mpitrace_on, initialized, inhibited, deferred, history,
                   crashed>>

-----------------------------------------------------------------------------
(* The calls                                                                *)

Inhibit ==
    /\ Executes("Signals_Inhibit")
    /\ inhibited' = TRUE
    /\ Return(<<>>)
    /\ UNCHANGED <<buffers, control, deferred, blocked, signals, history, crashed>>

Desinhibit ==
    /\ Executes("Signals_Desinhibit")
    /\ inhibited' = FALSE
    /\ Return(<<>>)
    /\ UNCHANGED <<buffers, control, deferred, blocked, signals, history, crashed>>

ExecuteDeferred ==
    /\ Executes("Signals_ExecuteDeferred")
    /\ Return(IF deferred THEN <<Call("SigHandler", 0)>> ELSE <<>>)
    /\ crashed' = (deferred /\ Len(stack) > MaxStack)
    /\ UNCHANGED <<buffers, control, signalling, history>>

SigHandler_FlushAndTerminate ==
    /\ Executes("SigHandler")
    /\ IF inhibited
       THEN deferred' = TRUE /\ Return(<<>>) /\ UNCHANGED handled
       ELSE /\ Return(<<Call("Backend_Finalize", 0), Call("TurnOff", 0)>>)
            /\ handled' = handled + 1
            /\ UNCHANGED deferred
    /\ UNCHANGED <<buffers, control, inhibited, blocked, signals, probes, finalizing, finalized,
                   crashed>>

SignalReturns ==
    /\ Executes("SignalReturns")
    /\ blocked' = FALSE
    /\ Return(<<>>)
    /\ UNCHANGED <<buffers, control, inhibited, deferred, signals, history, crashed>>

\* Backend_Enter_Instrumentation (1), when the ring is about to fill.
Enter ==
    /\ Executes("Enter")
    /\ Accessible
    /\ Return(IF MaxEvents - Len(ring[Top]) <= 1 THEN <<Call("FlushCallback", Top)>> ELSE <<>>)
    /\ UNCHANGED <<buffers, control, signalling, history, crashed>>

Buffer_InsertSingle ==
    /\ Executes("InsertSingle")
    /\ Accessible
    /\ Return((IF Len(ring[Top]) - owed[Top] = MaxEvents
                 THEN <<Call("FlushCallback", Top)>> ELSE <<>>)
               \o <<Store(Top, Head(stack).ev)>>)
    /\ UNCHANGED <<buffers, control, signalling, history, crashed>>

\* The rest of Buffer_InsertSingle. An event stored while FillCount is negative is not
\* between head and tail.
StoreEvent ==
    /\ Executes("Store")
    /\ Accessible
    /\ IF owed[Top] > 0
       THEN owed' = [owed EXCEPT ![Top] = @ - 1] /\ UNCHANGED ring
       ELSE ring' = [ring EXCEPT ![Top] = Append(@, Head(stack).ev)] /\ UNCHANGED owed
    /\ probes' = IF Head(stack).ev = "user" THEN [probes EXCEPT ![Top] = @ + 1] ELSE probes
    /\ Return(<<>>)
    /\ UNCHANGED <<file, open, live, control, signalling, finalizing, finalized, handled, crashed>>

\* Extrae_Flush_Wrapper does nothing on a closed buffer, and succeeds.
FlushCallback ==
    /\ Executes("FlushCallback")
    /\ Accessible
    /\ ~Circular
    /\ Return(IF open[Top] THEN Extrae_Flush_Wrapper(Top) ELSE <<>>)
    /\ UNCHANGED <<buffers, control, signalling, history, crashed>>

\* Buffer_DiscardOldest does not look whether there is an event to discard.
DiscardOldest ==
    /\ Executes("FlushCallback")
    /\ Accessible
    /\ Circular
    /\ IF ring[Top] = <<>>
       THEN owed' = [owed EXCEPT ![Top] = @ + 1] /\ UNCHANGED ring
       ELSE ring' = [ring EXCEPT ![Top] = Tail(@)] /\ UNCHANGED owed
    /\ Return(<<>>)
    /\ UNCHANGED <<file, open, live, control, signalling, history, crashed>>

Buffer_Flush ==
    /\ Executes("Buffer_Flush")
    /\ Accessible
    /\ IF open[Top]
       THEN /\ file' = [file EXCEPT ![Top] = @ \o ring[Top]]
            /\ ring' = [ring EXCEPT ![Top] = <<>>]
       ELSE UNCHANGED <<file, ring>>
    /\ Return(<<>>)
    /\ UNCHANGED <<owed, open, live, control, signalling, history, crashed>>

\* Mutant: the limit is never reached.
LimitReachedNever(t) == FALSE

LimitReached(t) == FileLimit > 0 /\ Len(file[t]) >= FileLimit

\* The end of Extrae_Flush_Wrapper: it is the calling thread's file that is closed.
\* Buffer_GetFileSize is 0 for a closed buffer.
CheckFileSize ==
    /\ Executes("CheckFileSize")
    /\ Accessible
    /\ Return(IF open[Top] /\ LimitReached(Top) THEN <<Call("close_mpits", me), Call("TurnOff", 0)>> ELSE <<>>)
    /\ UNCHANGED <<buffers, control, signalling, history, crashed>>

\* Backend_Finalize_close_mpits; the file is renamed, its contents are not touched.
Close_mpits ==
    /\ Executes("close_mpits")
    /\ Accessible
    /\ open' = [open EXCEPT ![Top] = FALSE]
    /\ Return(<<>>)
    /\ UNCHANGED <<ring, owed, file, live, control, signalling, history, crashed>>

Buffer_Free ==
    /\ Executes("Buffer_Free")
    /\ Accessible
    /\ live' = [live EXCEPT ![Top] = FALSE]
    /\ Return(<<>>)
    /\ UNCHANGED <<ring, owed, file, open, control, signalling, history, crashed>>

TurnOff ==
    /\ Executes("TurnOff")
    /\ mpitrace_on' = FALSE
    /\ Return(<<>>)
    /\ UNCHANGED <<options, buffers, me, table, initialized, signalling, history, crashed>>

SetNotInitialized ==
    /\ Executes("SetNotInitialized")
    /\ initialized' = FALSE
    /\ Return(<<>>)
    /\ UNCHANGED <<options, buffers, me, table, mpitrace_on, signalling, history, crashed>>

Backend_Finalize ==
    /\ Executes("Backend_Finalize")
    /\ finalizing' = finalizing + 1
    /\ Return(FinalizeCalls)
    /\ UNCHANGED <<buffers, control, signalling, probes, finalized, handled, crashed>>

\* Mutant: the first loop stays at a buffer that was freed.
FlushIfAnyStuck ==
    /\ Executes("FlushIfAny")
    /\ table = "live"
    /\ Return(IF live[Top] THEN <<Call("FlushCallback", Top)>> ELSE <<Head(stack)>>)
    /\ UNCHANGED <<buffers, control, signalling, history, crashed>>

\* One turn of its first loop.
FlushIfAny ==
    /\ Executes("FlushIfAny")
    /\ table = "live"
    /\ Return(IF live[Top] THEN <<Call("FlushCallback", Top)>> ELSE <<>>)
    /\ UNCHANGED <<buffers, control, signalling, history, crashed>>

\* Mutant: the second loop flushes the next buffer.
FinishNext(t) ==
    BUFFER_INSERT(me, "end") \o <<Call("FlushCallback", t + 1), Call("close_mpits", t)>>

\* Mutant: the second loop closes the buffer without flushing it again.
FinishUnflushed(t) == BUFFER_INSERT(me, "end") \o <<Call("close_mpits", t)>>

Finish(t) ==
    BUFFER_INSERT(me, "end") \o <<Call("FlushCallback", t), Call("close_mpits", t)>>

\* One turn of its second loop.
FinishIfAny ==
    /\ Executes("FinishIfAny")
    /\ table = "live"
    /\ Return(IF live[Top] THEN Finish(Top) ELSE <<>>)
    /\ UNCHANGED <<buffers, control, signalling, history, crashed>>

Free ==
    /\ Executes("Free")
    /\ live' = [t \in Threads |-> FALSE]
    /\ table' = "freed"
    /\ Return(<<>>)
    /\ UNCHANGED <<options, ring, owed, file, open, me, mpitrace_on, initialized, signalling, history,
                   crashed>>

FinalizeEnds ==
    /\ Executes("FinalizeEnds")
    /\ finalizing' = finalizing - 1
    /\ finalized' = finalized + 1
    /\ Return(<<>>)
    /\ UNCHANGED <<buffers, control, signalling, probes, handled, crashed>>

\* A call that looks at a buffer, or at the array of them, after it was freed.
Crash ==
    /\ \/ /\ \E name \in {"Enter", "InsertSingle", "Store", "FlushCallback", "Buffer_Flush",
                         "CheckFileSize", "close_mpits", "Buffer_Free"} : Executes(name)
          /\ ~Accessible
       \/ (Executes("FlushIfAny") \/ Executes("FinishIfAny")) /\ table = "freed"
    /\ crashed' = TRUE
    /\ UNCHANGED <<stack, buffers, control, signalling, history>>

Step ==
    \/ Inhibit \/ Desinhibit \/ ExecuteDeferred \/ SigHandler_FlushAndTerminate
    \/ SignalReturns \/ Enter \/ Buffer_InsertSingle \/ StoreEvent \/ FlushCallback
    \/ DiscardOldest \/ Buffer_Flush \/ CheckFileSize \/ Close_mpits \/ Buffer_Free
    \/ TurnOff \/ SetNotInitialized \/ Backend_Finalize \/ FlushIfAny \/ FinishIfAny
    \/ Free \/ FinalizeEnds \/ Crash

Next == Probe \/ ThreadEnds \/ Extrae_fini \/ ProgramExits \/ Signal \/ Step

Spec == Init /\ [][Next]_vars

\* A thread inside the library goes on.
FairSpec == Spec /\ WF_vars(Step)
-----------------------------------------------------------------------------
Calls ==
    [do : {"Enter", "Signals_Inhibit", "Signals_Desinhibit", "Signals_ExecuteDeferred",
           "FlushCallback", "Buffer_Flush", "CheckFileSize", "close_mpits", "Buffer_Free",
           "Backend_Finalize", "FlushIfAny", "FinishIfAny", "Free", "FinalizeEnds", "TurnOff",
           "SetNotInitialized", "SigHandler", "SignalReturns"},
     buf : Threads, ev : {"none"}]
      \cup [do : {"InsertSingle", "Store"}, buf : Threads, ev : Kinds]

Count(s, e) == Cardinality({i \in DOMAIN s : s[i] = e})

(* Every variable keeps its type.                                           *)
TypeOK ==
    /\ stack \in Seq(Calls)
    /\ options \in Options /\ me \in Threads
    /\ ring \in [Threads -> Seq(Kinds)] /\ file \in [Threads -> Seq(Kinds)]
    /\ owed \in [Threads -> Nat]
    /\ open \in [Threads -> BOOLEAN] /\ live \in [Threads -> BOOLEAN]
    /\ table \in {"live", "freed"}
    /\ {mpitrace_on, initialized, inhibited, deferred, blocked, crashed} \subseteq BOOLEAN
    /\ probes \in [Threads -> Nat]
    /\ signals \in 0..options.signals /\ {finalizing, finalized, handled} \subseteq Nat

(* No call ever reads or writes a buffer that was freed.                    *)
NoUseAfterFree == ~crashed

(* Nor does any call in a program that gets no signal.                      *)
NoUseAfterFreeUnsignalled == signals = 0 => NoUseAfterFree

(* The flush callback emits events while the ring it empties may be full:   *)
(* unless a signal arrives, it never ends up flushing the same ring inside  *)
(* itself, and the ring never holds more events than it has slots.          *)
FlushNeverNests ==
    signals = 0 => \A t \in Threads :
      /\ Cardinality({i \in DOMAIN stack : stack[i] = Call("CheckFileSize", t)}) <= 1
      /\ Len(ring[t]) <= MaxEvents

(* When tracing has ended every event of the program is in a file, in the   *)
(* files of threads that ended before as in the others.                     *)
ProbesOnDisk ==
    finalized > 0 /\ ~Circular /\ FileLimit = 0
      => \A t \in Threads : Count(file[t], "user") = probes[t]

(* On disk a flush begin is followed by its end: a file never holds an odd  *)
(* number of flush marks.  And the end of the application is marked exactly *)
(* once in the whole trace, although Backend_Finalize emits it once for     *)
(* every buffer, unless a signal makes it run again.                        *)
MarksPaired ==
    /\ (\A i \in DOMAIN stack : stack[i].ev # "flush")
         => \A t \in Threads : Count(file[t], "flush") % 2 = 0
    /\ signals = 0 /\ finalized > 0 /\ ~Circular /\ FileLimit = 0
         => Count(FlattenSeq([i \in 1..Cardinality(Threads) |-> file[i - 1]]), "end") = 1

(* Unless a signal finalizes in the middle of a flush, a file outgrows the  *)
(* limit by less than one full ring and the marks of the flush that filled  *)
(* it.                                                                      *)
SizeBounded ==
    signals = 0 /\ FileLimit > 0
        => \A t \in Threads : Len(file[t]) < FileLimit + MaxEvents + 2

(* The circular buffer is dumped when tracing ends.                         *)
CircularIsDumped ==
    finalized > 0 /\ Circular
      => \A t \in Threads : probes[t] > 0 => Count(file[t], "user") > 0

(* The signal never finalizes the trace in the middle of an insertion, but  *)
(* for one that is flushing the ring: the events the flush itself inserts   *)
(* lift the inhibition.                                                     *)
InsertionNotInterrupted ==
    [][handled' # handled /\ (\E i \in DOMAIN stack : stack[i].do = "Store")
         => \E i \in DOMAIN stack : stack[i].do = "CheckFileSize"]_handled

(* Once begun, Backend_Finalize comes to its end, unless a signal arrives.  *)
FinalizeTerminates ==
    finalizing > 0 /\ signals = 0 ~> finalized > 0 \/ signals > 0
=============================================================================
