----------------------------- MODULE RequestMap -----------------------------
(***************************************************************************)
(* What the table of receive requests of the MPI wrappers promises         *)
(* (tracer/wrappers/MPI/hash_table.h): it holds the receives whose         *)
(* completion is still to be traced.  A receive is refused only when the   *)
(* overflow area may be exhausted; a removal takes one entry, of the key   *)
(* it is given.                                                            *)
(***************************************************************************)
EXTENDS Integers, FiniteSets

CONSTANTS
    Key,          \* MPI_Request
    Receive,      \* what is kept of a receive
    OverflowSize  \* HASH_OVERFLOW_SIZE

VARIABLES
    entries,      \* the receives in the table, each with its key
    refused       \* the receives posted that there was no space for, each with its key

Init == entries = {} /\ refused = {}

Add(k, r) ==
    /\ entries' = entries \cup {[key |-> k, recv |-> r]}
    /\ UNCHANGED refused

\* At least one entry is in the main table when another has to go to the overflow area.
Refuse(k, r) ==
    /\ Cardinality(entries) > OverflowSize
    /\ refused' = refused \cup {[key |-> k, recv |-> r]}
    /\ UNCHANGED entries

\* A request is completed, cancelled or freed. What the table holds under it may be nothing,
\* if its receive was refused, or what an earlier one left there.
Remove(k) ==
    /\ UNCHANGED entries \/ \E e \in entries : e.key = k /\ entries' = entries \ {e}
    /\ UNCHANGED refused \/ \E d \in refused : d.key = k /\ refused' = refused \ {d}

Next == \E k \in Key : Remove(k) \/ \E r \in Receive : Add(k, r) \/ Refuse(k, r)

Spec == Init /\ [][Next]_<<entries, refused>>
=============================================================================
