------------------------------ MODULE MpiTrace ------------------------------
(***************************************************************************)
(* The intermediate traces of an MPI program: what the point-to-point      *)
(* wrappers (mpi_wrapper_p2p_c.c, mpi_wrapper.c) record of the messages    *)
(* its tasks exchange, and which of it Extrae_set_tracing_tasks keeps.     *)
(* Buffers are flushed when full, so no event is overwritten.              *)
(*                                                                         *)
(* MPI itself is external: sends are buffered, messages of one sender do   *)
(* not overtake each other, and an arriving message goes to the first      *)
(* posted receive that accepts it.  A wrapper and the MPI call it makes    *)
(* are one step, except MPI_Sendrecv, which sends before it waits.         *)
(***************************************************************************)
EXTENDS Integers, Sequences, FiniteSets, SequencesExt

CONSTANTS
    Task,        \* the MPI tasks
    Calls,       \* what each task may call: records of task, kind, partner, tag;
                 \* the partner given to Extrae_set_tracing_tasks is a set of tasks
    MaxCalls,    \* bound of the model: calls of each task
    Request,     \* the values of MPI_Request
    AnySource,   \* MPI_ANY_SOURCE
    AnyTag,      \* MPI_ANY_TAG
    none         \* no message, no receive, no request

Kinds == {"SEND", "ISEND", "RECV", "IRECV", "SENDRECV", "START_SEND",
          "START_RECV", "BARRIER", "TRACING_TASKS"}

SendKinds == {"SEND", "ISEND", "SENDRECV", "START_SEND"}
ReceiveKinds == {"RECV", "IRECV", "START_RECV"}

\* The name of a message is history that the code does not have.
Messages == [from : Task, tag : {c.tag : c \in Calls}, id : Nat]

ASSUME MpiTraceAssumption ==
    /\ AnySource \notin Task
    /\ none \notin Request \cup Task \cup Calls \cup Messages \cup {"BEGIN", "END"}
    /\ \A c \in Calls :
          /\ c.task \in Task /\ c.kind \in Kinds
          /\ c.kind \in SendKinds => c.partner \in Task /\ c.tag # AnyTag
          /\ c.kind \in ReceiveKinds => c.partner \in Task \cup {AnySource}
          /\ c.kind = "TRACING_TASKS" => c.partner \subseteq Task
    /\ MaxCalls \in Nat

VARIABLES
    trace,    \* the events recorded of each task
    bitmap,   \* TracingBitmap of each task
    arrived,  \* MPI: the messages that wait for a receive, by task
    posted,   \* MPI: the receives posted and not completed, by task
    inCall,   \* the Sendrecv a task is blocked in, or none
    calls,    \* how many calls each task has made
    sends,    \* how many messages each task has sent
    received, \* history: the messages a completed receive has taken
    finished  \* whether the program has ended

mpiVars == <<arrived, posted, inCall, calls, sends, received>>
traceVars == <<trace, bitmap, finished, mpiVars>>

\* The message of an event is history too.
Event(type, value, target, tag, aux, msg) ==
    [type |-> type, value |-> value, target |-> target, tag |-> tag,
     aux |-> aux, msg |-> msg]
Plain(type, value) == Event(type, value, none, none, none, none)

TraceInit ==
    /\ trace = [t \in Task |-> <<Plain("TRACING_MODE", "DETAIL")>>]
    /\ bitmap = [t \in Task |-> Task]
    /\ arrived = [t \in Task |-> <<>>]
    /\ posted = [t \in Task |-> <<>>]
    /\ inCall = [t \in Task |-> none]
    /\ calls = [t \in Task |-> 0]
    /\ sends = [t \in Task |-> 0]
    /\ received = {}
    /\ finished = FALSE

-----------------------------------------------------------------------------
(* Recording                                                                *)

\* TRACING_BITMAP_VALID_EVTYPE; a valid target is a task.
BitmapTypes == {"SEND", "RECV", "IRECVED"}

Traced(t, e) ==
    \/ t \in bitmap[t]
    \/ e.type \in BitmapTypes /\ e.target \in bitmap[t]

\* A wrapper records three events at most.
Recorded(t, events) ==
    LET Adds(i, s) == IF i <= Len(events) /\ Traced(t, events[i])
                      THEN Append(s, events[i]) ELSE s
    IN Adds(3, Adds(2, Adds(1, trace[t])))

TRACE_EVENTs(t, events) == trace' = [trace EXCEPT ![t] = Recorded(t, events)]

-----------------------------------------------------------------------------
(* Messages                                                                 *)

Message(t, tag) == [from |-> t, tag |-> tag, id |-> sends[t] + 1]

Accepts(source, tag, m) ==
    /\ source \in {m.from, AnySource}
    /\ tag \in {m.tag, AnyTag}

\* The first of some positions in a queue, if there is one.
FirstOf(positions) ==
    {i \in positions : \A j \in positions : i <= j}

Waiting(to, m) ==
    {i \in DOMAIN posted[to] :
        /\ posted[to][i].got = none
        /\ Accepts(posted[to][i].source, posted[to][i].tag, m)}

Deliver(t, to, m) ==
    /\ sends' = [sends EXCEPT ![t] = @ + 1]
    /\ \/ /\ Waiting(to, m) = {}
          /\ arrived' = [arrived EXCEPT ![to] = Append(@, m)]
          /\ UNCHANGED posted
       \/ \E i \in FirstOf(Waiting(to, m)) :
              /\ posted' = [posted EXCEPT ![to][i].got = m]
              /\ UNCHANGED arrived

Available(t, source, tag) ==
    {i \in DOMAIN arrived[t] : Accepts(source, tag, arrived[t][i])}

\* A receive takes the first message that has arrived for it.
Take(t, i) ==
    /\ arrived' = [arrived EXCEPT ![t] = RemoveAt(@, i)]
    /\ received' = received \cup {arrived[t][i]}

\* A receive that MPI completes later.
Post(t, source, tag, req) ==
    LET receive(m) == [source |-> source, tag |-> tag, req |-> req, got |-> m]
        available == Available(t, source, tag)
    IN \/ /\ available = {}
          /\ posted' = [posted EXCEPT ![t] = Append(@, receive(none))]
          /\ UNCHANGED arrived
       \/ \E i \in FirstOf(available) :
              /\ posted' = [posted EXCEPT ![t] = Append(@, receive(arrived[t][i]))]
              /\ arrived' = [arrived EXCEPT ![t] = RemoveAt(@, i)]

FreeRequests(t) == Request \ {posted[t][i].req : i \in DOMAIN posted[t]}

Enters(c, kinds) ==
    /\ ~finished
    /\ c.kind \in kinds
    /\ inCall[c.task] = none
    /\ calls[c.task] < MaxCalls
    /\ calls' = [calls EXCEPT ![c.task] = @ + 1]
    /\ UNCHANGED finished

-----------------------------------------------------------------------------
(* The calls of the program                                                 *)

MPI_Send(c) ==
    LET t == c.task
        m == Message(t, c.tag)
    IN /\ Enters(c, {"SEND", "ISEND"})
       /\ Deliver(t, c.partner, m)
       /\ TRACE_EVENTs(t, << Event(c.kind, "BEGIN", c.partner, c.tag, none, m),
                                Event(c.kind, "END", c.partner, c.tag, none, m) >>)
       /\ UNCHANGED <<inCall, received, bitmap>>

\* The end of a receive carries the actual sender and tag.
MPI_Recv(c) ==
    LET t == c.task
    IN /\ Enters(c, {"RECV"})
       /\ \E i \in FirstOf(Available(t, c.partner, c.tag)) :
             LET m == arrived[t][i]
             IN /\ Take(t, i)
                /\ TRACE_EVENTs(t,
                      << Event("RECV", "BEGIN", c.partner, c.tag, none, none),
                         Event("RECV", "END", m.from, m.tag, none, m) >>)
       /\ UNCHANGED <<posted, inCall, sends, bitmap>>

MPI_Irecv(c) ==
    LET t == c.task
    IN /\ Enters(c, {"IRECV"})
       /\ \E req \in FreeRequests(t) :
             /\ Post(t, c.partner, c.tag, req)
             /\ TRACE_EVENTs(t,
                   << Event("IRECV", "BEGIN", c.partner, c.tag, none, none),
                      Event("IRECV", "END", c.partner, c.tag, req, none) >>)
       /\ UNCHANGED <<inCall, sends, received, bitmap>>

\* The completed receive has the tag it was posted with.
MPI_Wait(t) ==
    /\ ~finished
    /\ inCall[t] = none
    /\ \E i \in DOMAIN posted[t] :
          LET r == posted[t][i]
          IN /\ r.got # none
             /\ posted' = [posted EXCEPT ![t] = RemoveAt(@, i)]
             /\ received' = received \cup {r.got}
             /\ TRACE_EVENTs(t,
                   << Plain("WAIT", "BEGIN"),
                      Event("IRECVED", none, r.got.from, r.tag, r.req, r.got),
                      Plain("WAIT", "END") >>)
    /\ UNCHANGED <<arrived, inCall, calls, sends, bitmap, finished>>

MPI_Sendrecv(c) ==
    LET t == c.task
        m == Message(t, c.tag)
    IN /\ Enters(c, {"SENDRECV"})
       /\ c.partner # t
       /\ Deliver(t, c.partner, m)
       /\ inCall' = [inCall EXCEPT ![t] = c]
       /\ TRACE_EVENTs(t, <<Event("SENDRECV", "BEGIN", c.partner, c.tag, none, m)>>)
       /\ UNCHANGED <<received, bitmap>>

SendrecvReturns(t) ==
    /\ inCall[t] # none
    /\ \E i \in FirstOf(Available(t, inCall[t].partner, inCall[t].tag)) :
          LET m == arrived[t][i]
          IN /\ Take(t, i)
             /\ TRACE_EVENTs(t, <<Event("SENDRECV", "END", m.from, m.tag, none, m)>>)
    /\ inCall' = [inCall EXCEPT ![t] = none]
    /\ UNCHANGED <<posted, calls, sends, bitmap, finished>>

\* Traceja_Persistent_Request records the partner and the tag of the request.
Started(value, c, req, m) ==
    << Plain("START", "BEGIN"),
       Event("PERSIST_REQ", value, c.partner, c.tag, req, m),
       Plain("START", "END") >>

StartSend(c) ==
    LET m == Message(c.task, c.tag)
    IN /\ Enters(c, {"START_SEND"})
       /\ Deliver(c.task, c.partner, m)
       /\ TRACE_EVENTs(c.task, Started("ISEND", c, none, m))
       /\ UNCHANGED <<inCall, received, bitmap>>

StartReceive(c) ==
    /\ Enters(c, {"START_RECV"})
    /\ \E req \in FreeRequests(c.task) :
          /\ Post(c.task, c.partner, c.tag, req)
          /\ TRACE_EVENTs(c.task, Started("IRECV", c, req, none))
    /\ UNCHANGED <<inCall, sends, received, bitmap>>

\* A collective of the world.
MPI_Barrier(c) ==
    /\ ~finished
    /\ c.kind = "BARRIER"
    /\ \A t \in Task : inCall[t] = none /\ calls[t] < MaxCalls
    /\ calls' = [t \in Task |-> calls[t] + 1]
    /\ trace' = [t \in Task |->
          Recorded(t, <<Plain("BARRIER", "BEGIN"), Plain("BARRIER", "END")>>)]
    /\ UNCHANGED <<arrived, posted, inCall, sends, received, bitmap, finished>>

\* The event is recorded, as any, only if the task is traced until now.
Extrae_set_tracing_tasks(c) ==
    LET t == c.task
    IN /\ Enters(c, {"TRACING_TASKS"})
       /\ TRACE_EVENTs(t, <<Plain("SET_TRACE", IF t \in c.partner THEN "ON" ELSE "OFF")>>)
       /\ bitmap' = [bitmap EXCEPT ![t] = c.partner]
       /\ UNCHANGED <<arrived, posted, inCall, sends, received>>

Finish ==
    /\ ~finished
    /\ \A t \in Task : inCall[t] = none /\ posted[t] = <<>> /\ arrived[t] = <<>>
    /\ trace' = [t \in Task |-> Recorded(t, <<Plain("APPL", "END")>>)]
    /\ finished' = TRUE
    /\ UNCHANGED <<bitmap, mpiVars>>

TraceNext ==
    \/ \E c \in Calls :
          \/ MPI_Send(c) \/ MPI_Recv(c) \/ MPI_Irecv(c) \/ MPI_Sendrecv(c)
          \/ StartSend(c) \/ StartReceive(c) \/ MPI_Barrier(c)
          \/ Extrae_set_tracing_tasks(c)
    \/ \E t \in Task : MPI_Wait(t) \/ SendrecvReturns(t)
    \/ Finish
=============================================================================
