------------------------------- MODULE Mpi2prv -------------------------------
(***************************************************************************)
(* The Paraver merger, mpi2prv and its parallel form mpimpi2prv: the       *)
(* handlers that translate the events of every task into states, events    *)
(* and communications (merger/paraver/mpi_prv_semantics.c,                 *)
(* misc_prv_semantics.c, paraver_generator.c), the queues in which the     *)
(* halves of a message wait for each other (communication_queues.c), the   *)
(* stack of states (paraver_state.c), and the pending communications of    *)
(* tasks merged by different processors (parallel_merge_aux.c).            *)
(*                                                                         *)
(* The clocks of the tasks are synchronised only so well, so the events of *)
(* two tasks are read in any order.  A time is the index of an event in    *)
(* the trace of its task, and an event_t pointer likewise.                 *)
(***************************************************************************)
EXTENDS MpiTrace, WriteFileBuffer

CONSTANT Parallel   \* the mergers to consider: {FALSE}, {TRUE} or BOOLEAN

ASSUME ParallelAssumption == Parallel \subseteq BOOLEAN

VARIABLES
    phase,    \* "merge", "join" of the files, "done", or "aborted" by exit(-1)
    parallel, \* whether each task has a processor of the merger of its own
    cursor,   \* how many events of each task have been translated
    thread,   \* thread_t, one for each task: its temporary file wfb, its State_Stack,
              \* its open state record, Send_Rec and Recv_Rec
    enabled,  \* EnabledTasks
    send_queue, recv_queue, \* of each task
    foreign,  \* ForeignRecvs, by sender
    joined    \* what became of the pending communications of each file

queues == <<send_queue, recv_queue, foreign>>
mergeVars == <<phase, parallel, cursor, thread, enabled, queues, joined>>
vars == <<traceVars, mergeVars>>

-----------------------------------------------------------------------------
(* The stack of states                                                      *)

Top_State(stack) == IF stack = <<>> THEN "STATE_IDLE" ELSE Last(stack)

\* The first event removes STATE_NOT_TRACING.
Tracing(stack) ==
    IF Top_State(stack) = "STATE_NOT_TRACING" THEN Front(stack) ELSE stack

Push_State(state, stack) == Append(Tracing(stack), state)

Pop_State(state, stack) ==
    LET now == Tracing(stack)
    IN IF now # <<>> /\ state \in {"STATE_ANY", Top_State(now)}
       THEN Front(now) ELSE now

Switch_State(state, value, stack) ==
    IF value = "BEGIN" THEN Push_State(state, stack) ELSE Pop_State(state, stack)

State_Excluded(state) == state = "STATE_IDLE"

StateOf == [SEND |-> "STATE_SEND", ISEND |-> "STATE_ISEND",
            RECV |-> "STATE_WAITMESS", IRECV |-> "STATE_IWAITMESS",
            SENDRECV |-> "STATE_SENDRECVOP", WAIT |-> "STATE_TWRECV",
            START |-> "STATE_MIXED", BARRIER |-> "STATE_BARRIER"]

-----------------------------------------------------------------------------
(* Records of the temporary file of a task                                  *)

UnfinishedState == [type |-> "UNFINISHED_STATE"]
StateRecord(open, now) ==
    [type |-> "STATE", value |-> open.value, time |-> open.time, end_time |-> now]
EventRecord(now) == [type |-> "EVENT", time |-> now]
Unmatched(begin, end, to) ==
    [type |-> "UNMATCHED_COMMUNICATION", begin |-> begin, end |-> end, to |-> to]
Pending(begin, end, to, tag) ==
    [type |-> "PENDING_COMMUNICATION", begin |-> begin, end |-> end, to |-> to,
     tag |-> tag]
Communication(begin, end, to, rbegin, rend) ==
    [type |-> "COMMUNICATION", begin |-> begin, end |-> end, to |-> to,
     rbegin |-> rbegin, rend |-> rend]

NoSlot == -1

\* Mutant: the last state is not completed when it goes on to the end.
trace_paraver_state_open(th, now, last) ==
    LET value == Top_State(th.stack)
        first == th.open.at = NoSlot
        completed ==
            IF first \/ State_Excluded(th.open.value) THEN th.wfb
            ELSE WriteAt(th.wfb, StateRecord(th.open, now), th.open.at)
    IN IF ~first /\ th.open.value = value THEN th
       ELSE [th EXCEPT !.wfb = Write(completed, UnfinishedState),
                       !.open = [at |-> Position(completed), value |-> value, time |-> now]]

\* The open state is completed in its slot, unless it goes on, and a slot is
\* kept for the next one.
trace_paraver_state(th, now, last) ==
    LET value == Top_State(th.stack)
        first == th.open.at = NoSlot
        completed ==
            IF first \/ State_Excluded(th.open.value) THEN th.wfb
            ELSE WriteAt(th.wfb, StateRecord(th.open, now), th.open.at)
    IN IF ~first /\ ~last /\ th.open.value = value THEN th
       ELSE IF State_Excluded(value)
       THEN [th EXCEPT !.wfb = completed, !.open = [@ EXCEPT !.value = value, !.time = now]]
       ELSE [th EXCEPT !.wfb = Write(completed, UnfinishedState),
                       !.open = [at |-> Position(completed), value |-> value, time |-> now]]

trace_paraver_event(th, on, now) ==
    IF on THEN [th EXCEPT !.wfb = Write(@, EventRecord(now))] ELSE th

\* Initialize_States: the first state is STATE_STOPPED, from time 0.
FirstThread ==
    trace_paraver_state(
        [wfb |-> EmptyWfb, stack |-> Push_State("STATE_STOPPED", <<>>),
         open |-> [at |-> NoSlot, value |-> "STATE_IDLE", time |-> 0],
         Send_Rec |-> 0, Recv_Rec |-> 0],
        0, FALSE)

Init ==
    /\ TraceInit
    /\ phase = "merge"
    /\ parallel \in Parallel
    /\ cursor = [t \in Task |-> 0]
    /\ thread = [t \in Task |-> FirstThread]
    /\ enabled = [t \in Task |-> TRUE]
    /\ send_queue = [t \in Task |-> <<>>]
    /\ recv_queue = [t \in Task |-> <<>>]
    /\ foreign = [t \in Task |-> <<>>]
    /\ joined = [t \in Task |-> <<>>]

-----------------------------------------------------------------------------
(* Reading events                                                           *)

Now(t) == cursor[t] + 1
Current(t) == trace[t][Now(t)]

Reads(t, types) ==
    /\ finished
    /\ phase = "merge"
    /\ cursor[t] < Len(trace[t])
    /\ Current(t).type \in types
    /\ cursor' = [cursor EXCEPT ![t] = @ + 1]
    /\ UNCHANGED <<traceVars, parallel, joined>>

isTaskInMyGroup(t, partner) == parallel => t = partner

\* The new state and the event, as nearly every handler writes them.
Shown(t, th, stack) ==
    trace_paraver_event(trace_paraver_state([th EXCEPT !.stack = stack], Now(t), FALSE),
                        enabled[t], Now(t))

Marked(t, th) ==
    Shown(t, th, Switch_State(StateOf[Current(t).type], Current(t).value, th.stack))

MatchingUnchanged == UNCHANGED <<phase, enabled, queues>>

-----------------------------------------------------------------------------
(* Matching the halves of a message                                         *)

\* Queued sends for a receive with this tag: CompareSend_cbk.
SendsFor(from, to, tag) ==
    {i \in DOMAIN send_queue[from] :
        /\ send_queue[from][i].partner = to
        /\ tag \in {send_queue[from][i].tag, AnyTag}}

\* Mutant: the tags are not compared.
RecvsForPartner(to, from, tag) ==
    {i \in DOMAIN recv_queue[to] : recv_queue[to][i].partner = from}

\* Queued receives for a send with this tag: CompareRecv_cbk.
RecvsFor(to, from, tag) ==
    {i \in DOMAIN recv_queue[to] :
        /\ recv_queue[to][i].partner = from
        /\ \/ recv_queue[to][i].tag = tag
           \/ trace[to][recv_queue[to][i].end].tag = AnyTag}

OneEnabled(from, to) == enabled[from] \/ enabled[to]

Appends(th, on, record) ==
    IF on THEN [th EXCEPT !.wfb = Write(@, record)] ELSE th

\* A send of thread th of task t, from event begin to event end.
SendHalf(t, th, begin, end) ==
    LET to == trace[t][end].target
        tag == trace[t][end].tag
        found == FirstOf(RecvsFor(to, t, tag))
        queued == [begin |-> begin, end |-> end, position |-> Position(th.wfb),
                   partner |-> to, tag |-> tag]
        Becomes(record, on) == thread' = [thread EXCEPT ![t] = Appends(th, on, record)]
    IN \/ /\ isTaskInMyGroup(t, to)
          /\ found = {}
          /\ send_queue' = [send_queue EXCEPT ![t] = Append(@, queued)]
          /\ Becomes(Unmatched(begin, end, to), enabled[t])
          /\ UNCHANGED <<recv_queue, foreign>>
       \/ /\ isTaskInMyGroup(t, to)
          /\ \E i \in found :
                LET r == recv_queue[to][i]
                IN /\ recv_queue' = [recv_queue EXCEPT ![to] = RemoveAt(@, i)]
                   /\ Becomes(Communication(begin, end, to, r.begin, r.end),
                              OneEnabled(t, to))
          /\ UNCHANGED <<send_queue, foreign>>
       \/ /\ ~isTaskInMyGroup(t, to)
          /\ Becomes(Pending(begin, end, to, tag), OneEnabled(t, to))
          /\ UNCHANGED queues

\* The place of the queued send for a receive of task t with last event end.
Matches(t, end) ==
    LET from == trace[t][end].target
    IN {i \in FirstOf(SendsFor(from, t, trace[t][end].tag)) : isTaskInMyGroup(t, from)}

WritesAt(from, to, s) == OneEnabled(from, to) /\ CanWriteAt(thread[from].wfb, s.position)

\* The threads once the communication of such a receive is written, which goes where
\* the queued send has its record.
Communicated(t, begin, end) ==
    LET from == trace[t][end].target
        matches == {i \in Matches(t, end) : WritesAt(from, t, send_queue[from][i])}
        s == send_queue[from][CHOOSE i \in matches : TRUE]
        record == Communication(s.begin, s.end, t, begin, end)
    IN IF matches = {} THEN thread
       ELSE [thread EXCEPT ![from].wfb = WriteAt(@, record, s.position)]

\* That place may be beyond the file.
ReceiveHalf(t, begin, end, target, tag) ==
    LET from == trace[t][end].target
        queued == [begin |-> begin, end |-> end, partner |-> target, tag |-> tag]
        pendingRecv == [begin |-> begin, end |-> end, recver |-> t, tag |-> trace[t][end].tag]
    IN \/ /\ isTaskInMyGroup(t, from)
          /\ Matches(t, end) = {}
          /\ recv_queue' = [recv_queue EXCEPT ![t] = Append(@, queued)]
          /\ UNCHANGED <<send_queue, foreign, phase>>
       \/ /\ \E i \in Matches(t, end) :
                /\ send_queue' = [send_queue EXCEPT ![from] = RemoveAt(@, i)]
                /\ phase' = IF OneEnabled(from, t) /\ ~WritesAt(from, t, send_queue[from][i])
                            THEN "aborted" ELSE phase
          /\ UNCHANGED <<recv_queue, foreign>>
       \/ /\ ~isTaskInMyGroup(t, from)
          /\ foreign' = [foreign EXCEPT ![from] = Append(@, pendingRecv)]
          /\ UNCHANGED <<send_queue, recv_queue, phase>>

\* The receive that a request will be: the next IRECVED event with it.
Search_MPI_IRECVED(t) ==
    FirstOf({i \in Now(t) .. Len(trace[t]) :
        trace[t][i].type = "IRECVED" /\ trace[t][i].aux = Current(t).aux})

-----------------------------------------------------------------------------
(* The handlers                                                             *)

Any_Send_Event(t) ==
    /\ Reads(t, {"SEND", "ISEND"})
    /\ \/ /\ Current(t).value = "BEGIN"
          /\ thread' = [thread EXCEPT ![t] = [Marked(t, @) EXCEPT !.Send_Rec = Now(t)]]
          /\ UNCHANGED queues
       \/ /\ Current(t).value = "END"
          /\ SendHalf(t, Marked(t, thread[t]), thread[t].Send_Rec, Now(t))
    /\ UNCHANGED <<phase, enabled>>

SendRecv_Event(t) ==
    /\ Reads(t, {"SENDRECV"})
    /\ \/ /\ Current(t).value = "BEGIN"
          /\ SendHalf(t, [Marked(t, thread[t]) EXCEPT !.Send_Rec = Now(t)], Now(t), Now(t))
          /\ UNCHANGED phase
       \/ /\ Current(t).value = "END"
          /\ thread' = [Communicated(t, thread[t].Send_Rec, Now(t)) EXCEPT
                           ![t] = [Marked(t, @) EXCEPT !.Recv_Rec = Now(t)]]
          /\ ReceiveHalf(t, thread[t].Send_Rec, Now(t), Current(t).target, Current(t).tag)
    /\ UNCHANGED enabled

Recv_Event(t) ==
    /\ Reads(t, {"RECV"})
    /\ \/ /\ Current(t).value = "BEGIN"
          /\ thread' = [thread EXCEPT ![t] = [Marked(t, @) EXCEPT !.Recv_Rec = Now(t)]]
          /\ UNCHANGED <<phase, queues>>
       \/ /\ Current(t).value = "END"
          /\ thread' = [Communicated(t, thread[t].Recv_Rec, Now(t)) EXCEPT ![t] = Marked(t, @)]
          /\ ReceiveHalf(t, thread[t].Recv_Rec, Now(t), Current(t).target, Current(t).tag)
    /\ UNCHANGED enabled

IRecv_Event(t) ==
    LET completed == Search_MPI_IRECVED(t)
    IN /\ Reads(t, {"IRECV"})
       /\ \/ /\ Current(t).value = "BEGIN" \/ completed = {}
             /\ thread' = [thread EXCEPT ![t] = Marked(t, @)]
             /\ UNCHANGED <<phase, queues>>
          \/ /\ Current(t).value = "END"
             /\ \E r \in completed :
                   /\ thread' = [Communicated(t, Now(t), r) EXCEPT ![t] = Marked(t, @)]
                   /\ ReceiveHalf(t, Now(t), r, trace[t][r].target, trace[t][r].tag)
       /\ UNCHANGED enabled

\* A receive not found is queued with what the request says, not the receive.
MPI_PersistentRequest_Event(t) ==
    LET th == trace_paraver_state(thread[t], Now(t), FALSE)
        completed == Search_MPI_IRECVED(t)
        started(r) == [trace_paraver_state(r, Now(t), FALSE) EXCEPT !.Recv_Rec = Now(t)]
    IN /\ Reads(t, {"PERSIST_REQ"})
       /\ \/ /\ Current(t).value = "ISEND"
             /\ SendHalf(t, [th EXCEPT !.Send_Rec = Now(t)], Now(t), Now(t))
             /\ UNCHANGED phase
          \/ /\ Current(t).value = "IRECV"
             /\ completed = {}
             /\ thread' = [thread EXCEPT ![t] = started(@)]
             /\ UNCHANGED <<phase, queues>>
          \/ /\ Current(t).value = "IRECV"
             /\ \E r \in completed :
                   /\ thread' = [Communicated(t, Now(t), r) EXCEPT ![t] = started(@)]
                   /\ ReceiveHalf(t, Now(t), r, Current(t).target, Current(t).tag)
       /\ UNCHANGED enabled

\* The type of request is not known yet, so both pointers are kept.
MPI_Start_Event(t) ==
    LET kept(th) == IF Current(t).value = "BEGIN"
                    THEN [th EXCEPT !.Send_Rec = Now(t), !.Recv_Rec = Now(t)] ELSE th
    IN /\ Reads(t, {"START"})
       /\ thread' = [thread EXCEPT ![t] = kept(Marked(t, @))]
       /\ MatchingUnchanged

\* trace_enter_global_op adds the sizes and the communicator.
GlobalOP_event(t) ==
    LET Shows(th) == trace_paraver_event(th, enabled[t], Now(t))
        entered(th) == IF Current(t).value = "BEGIN" THEN Shows(Shows(Shows(th))) ELSE th
    IN /\ Reads(t, {"BARRIER"})
       /\ thread' = [thread EXCEPT ![t] = entered(Marked(t, @))]
       /\ MatchingUnchanged

Other_MPI_Event(t) ==
    /\ Reads(t, {"WAIT"})
    /\ thread' = [thread EXCEPT ![t] = Marked(t, @)]
    /\ MatchingUnchanged

SkipHandler(t) ==
    /\ Reads(t, {"IRECVED"})
    /\ UNCHANGED thread
    /\ MatchingUnchanged

\* Initialize_Trace_Mode_States wipes the stack.
Tracing_Mode_Event(t) ==
    /\ Reads(t, {"TRACING_MODE"})
    /\ thread' = [thread EXCEPT ![t] = Shown(t, @, <<"STATE_RUNNING">>)]
    /\ MatchingUnchanged

Appl_Event(t) ==
    /\ Reads(t, {"APPL"})
    /\ thread' = [thread EXCEPT ![t] = Shown(t, @, Pop_State("STATE_ANY", @.stack))]
    /\ MatchingUnchanged

SetTracing_Event(t) ==
    LET on == Current(t).value = "ON"
        stopped(th) == trace_paraver_state(
            [th EXCEPT !.stack = Push_State("STATE_NOT_TRACING", @)], Now(t), FALSE)
        resumed(th) == [th EXCEPT !.stack = Pop_State("STATE_NOT_TRACING", @)]
    IN /\ Reads(t, {"SET_TRACE"})
       /\ thread' = [thread EXCEPT ![t] = IF on THEN resumed(@) ELSE stopped(@)]
       /\ enabled' = [enabled EXCEPT ![t] = on]
       /\ UNCHANGED <<phase, queues>>

\* Finalize_States completes every open state, and Flush_FS writes the files.
Paraver_ProcessTraceFiles ==
    /\ finished
    /\ phase = "merge"
    /\ \A t \in Task : cursor[t] = Len(trace[t])
    /\ thread' = [t \in Task |->
          LET final == trace_paraver_state(thread[t], Now(t), TRUE)
          IN [final EXCEPT !.wfb = Flushed(@)]]
    /\ phase' = "join"
    /\ UNCHANGED <<traceVars, parallel, cursor, enabled, queues, joined>>

-----------------------------------------------------------------------------
(* Joining the files                                                        *)

PendingOf(t) ==
    LET records == Records(thread[t].wfb)
    IN {i \in DOMAIN records : records[i].type = "PENDING_COMMUNICATION"}

\* The first record that has not been looked at.
NextPending(t) ==
    {i \in PendingOf(t) : Cardinality({j \in PendingOf(t) : j < i}) = Len(joined[t])}

\* Mutant: MPI_ANY_TAG is compared like any tag.
SearchForeignRecvTag(t, p) ==
    {i \in DOMAIN foreign[t] :
        foreign[t][i].recver = p.to /\ foreign[t][i].tag = p.tag}

SearchForeignRecv(t, p) ==
    {i \in DOMAIN foreign[t] :
        /\ foreign[t][i].recver = p.to
        /\ foreign[t][i].tag \in {p.tag, AnyTag}}

\* The next pending communication of a file takes the first receive for it.
FixPendingCommunication(t) ==
    /\ phase = "join"
    /\ \E n \in NextPending(t) :
       LET p == Records(thread[t].wfb)[n]
           found == FirstOf(SearchForeignRecv(t, p))
       IN \/ /\ found = {}
             /\ joined' = [joined EXCEPT ![t] = Append(@, p)]
             /\ UNCHANGED foreign
          \/ \E i \in found :
                /\ joined' = [joined EXCEPT ![t] = Append(@,
                      Communication(p.begin, p.end, p.to,
                                    foreign[t][i].begin, foreign[t][i].end))]
                /\ foreign' = [foreign EXCEPT ![t] = RemoveAt(@, i)]
    /\ UNCHANGED <<traceVars, phase, parallel, cursor, thread, enabled,
                   send_queue, recv_queue>>

Paraver_JoinFiles ==
    /\ phase = "join"
    /\ \A t \in Task : Len(joined[t]) = Cardinality(PendingOf(t))
    /\ phase' = "done"
    /\ UNCHANGED <<traceVars, parallel, cursor, thread, enabled,
                   queues, joined>>

Merge(t) ==
    \/ Any_Send_Event(t) \/ SendRecv_Event(t) \/ Recv_Event(t) \/ IRecv_Event(t)
    \/ MPI_PersistentRequest_Event(t) \/ MPI_Start_Event(t)
    \/ GlobalOP_event(t) \/ Other_MPI_Event(t) \/ SkipHandler(t)
    \/ Tracing_Mode_Event(t) \/ Appl_Event(t) \/ SetTracing_Event(t)
    \/ FixPendingCommunication(t)

Next ==
    \/ TraceNext /\ UNCHANGED mergeVars
    \/ \E t \in Task : Merge(t)
    \/ Paraver_ProcessTraceFiles
    \/ Paraver_JoinFiles

Spec == Init /\ [][Next]_vars

-----------------------------------------------------------------------------
(* Properties                                                               *)

State == {"STATE_IDLE", "STATE_STOPPED", "STATE_RUNNING", "STATE_NOT_TRACING"}
             \cup Range(StateOf)
RecordTypes == {"UNFINISHED_STATE", "STATE", "EVENT", "UNMATCHED_COMMUNICATION",
                "PENDING_COMMUNICATION", "COMMUNICATION"}

(* Every variable of the merger keeps its type, and every temporary file is *)
(* as WriteFileBuffer_write and WriteFileBuffer_writeAt leave it.           *)
TypeOK ==
    /\ phase \in {"merge", "join", "done", "aborted"}
    /\ \A t \in Task :
          /\ cursor[t] \in 0 .. Len(trace[t])
          /\ Sound(thread[t].wfb)
          /\ \A r \in Range(Records(thread[t].wfb)) : r.type \in RecordTypes
          /\ Range(thread[t].stack) \subseteq State
          /\ thread[t].open.value \in State
          /\ enabled[t] \in BOOLEAN

\* What the file of a task contributes to the Paraver trace.
Output(t) == Records(thread[t].wfb) \o joined[t]

Communications(t) ==
    {i \in DOMAIN Output(t) : Output(t)[i].type = "COMMUNICATION"}

(* A communication of the Paraver trace joins a send with the receive that  *)
(* took its message, whatever order the two are read in, and not with that  *)
(* of another message (CommunicationQueues_ExtractSend, _ExtractRecv and    *)
(* SearchForeignRecv compare no more than partner and tag).                 *)
OwnReceive == \A t \in Task : \A i \in Communications(t) :
    LET c == Output(t)[i]
    IN /\ trace[t][c.end].msg # none
       /\ trace[t][c.begin].msg = trace[t][c.end].msg
       /\ trace[c.to][c.rend].msg = trace[t][c.end].msg

(* When the merger is done every message that was received is exactly one   *)
(* communication: no half is left in the queues or pending, none is used    *)
(* twice.                                                                   *)
AllMatched == phase = "done" =>
    \A m \in received :
        Cardinality({i \in Communications(m.from) :
            trace[m.from][Output(m.from)[i].end].msg = m}) = 1

(* The merger never asks WriteFileBuffer_writeAt for a place beyond its     *)
(* file, which ends it with exit(-1).                                       *)
Converted == phase # "aborted"

(* A record once written changes in two ways only: a slot kept for a state  *)
(* gets that state, and an unmatched send its own communication.            *)
SlotsKept == [][\A t \in Task :
    LET old == Records(thread[t].wfb)
        new == Records(thread'[t].wfb)
    IN \A i \in DOMAIN old :
          \/ new[i] = old[i]
          \/ old[i].type = "UNFINISHED_STATE" /\ new[i].type = "STATE"
          \/ /\ old[i].type = "UNMATCHED_COMMUNICATION"
             /\ new[i].type = "COMMUNICATION"
             /\ new[i].begin = old[i].begin
             /\ new[i].end = old[i].end
             /\ new[i].to = old[i].to]_vars

\* What task t was doing after its i-th event, by its events alone.
Doing(t, i) ==
    LET open == {b \in 1 .. i :
            /\ trace[t][b].value = "BEGIN"
            /\ \A e \in b .. i : ~(trace[t][e].type = trace[t][b].type
                                     /\ trace[t][e].value = "END")}
    IN CASE i = 0 -> "STATE_STOPPED"
         [] i > 0 /\ trace[t][i].type = "APPL" -> "STATE_IDLE"
         [] i > 0 /\ trace[t][i].type # "APPL" ->
                IF open = {} THEN "STATE_RUNNING"
                ELSE StateOf[trace[t][CHOOSE b \in open : TRUE].type]

(* When the files are written, exactly one state record says what the task  *)
(* was doing at each moment, unless it was STATE_IDLE, which is excluded;   *)
(* and no slot is left unfinished.                                          *)
StatesTile == phase \in {"join", "done"} => \A t \in Task :
    LET records == Records(thread[t].wfb)
        Covering(i) == {k \in DOMAIN records :
            /\ records[k].type = "STATE"
            /\ records[k].time <= i /\ i < records[k].end_time}
    IN /\ \A i \in 0 .. Len(trace[t]) :
             IF State_Excluded(Doing(t, i)) THEN Covering(i) = {}
             ELSE \E k \in Covering(i) :
                     Covering(i) = {k} /\ records[k].value = Doing(t, i)
       /\ \A k \in DOMAIN records : records[k].type # "UNFINISHED_STATE"
=============================================================================
