--------------------------- MODULE MCRequestHash ---------------------------
(***************************************************************************)
(* TLC instances of RequestHash: values of MPI_Request that all fall on    *)
(* one main entry, and more of them than it has overflow cells.            *)
(***************************************************************************)
EXTENDS RequestHash, TLC

CONSTANTS t1, t2, r1, r2, r3, r4

\* Below MPI_THREAD_MULTIPLE calls do not overlap, and one thread makes them all.
MCThread1 == {t1}
MCThread2 == {t1, t2}
MCKey2 == 1..2
MCKey3 == 1..3
MCReceive == {r1, r2, r3, r4}

\* Threads are interchangeable, and so are receives.
MCSymmetry == Permutations(Thread) \cup Permutations(MCReceive)
=============================================================================
