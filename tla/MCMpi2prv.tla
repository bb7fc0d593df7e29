------------------------------ MODULE MCMpi2prv ------------------------------
(***************************************************************************)
(* TLC instances of Mpi2prv: two tasks, of which the first sends to the    *)
(* second, and either may be ahead of the other.                           *)
(***************************************************************************)
EXTENDS Mpi2prv, TLC

CONSTANTS t1, t2, a, b, r1, r2

MCTask == {t1, t2}
MCRequest == {r1, r2}
\* Values of MPI_Request are interchangeable.
MCSymmetry == Permutations(MCRequest)

Call(t, kind, partner, tag) ==
    [task |-> t, kind |-> kind, partner |-> partner, tag |-> tag]

MCCalls ==
    {Call(t1, "SEND", t2, a), Call(t1, "START_SEND", t2, b),
     Call(t2, "RECV", AnySource, a),
     Call(t2, "IRECV", t1, AnyTag),
     Call(t2, "START_RECV", t1, b),
     Call(t1, "SENDRECV", t2, a), Call(t2, "SENDRECV", t1, a),
     Call(t2, "TRACING_TASKS", MCTask, none), Call(t2, "BARRIER", none, none)}

\* Every task asks for the second one only to be traced.
MCTracedTasks ==
    {Call(t1, "SEND", t2, a), Call(t2, "RECV", t1, a)}
        \cup {Call(t, "TRACING_TASKS", {t2}, none) : t \in MCTask}

MCSerial == {FALSE}
MCBoth == BOOLEAN
=============================================================================
