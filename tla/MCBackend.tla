----------------------------- MODULE MCBackend -----------------------------
(***************************************************************************)
(* TLC instances of Backend: the initial thread and a second one, rings    *)
(* just large enough for the events of nested flushes.                     *)
(***************************************************************************)
EXTENDS Backend

MCThreads == 0..1

Option(c, size, first, second, kills) ==
    [circular |-> c, limit |-> size, signals |-> kills,
     probes |-> [t \in MCThreads |-> IF t = 0 THEN first ELSE second]]

\* No signal, with and without a limit that the probes reach; and one signal, with one
\* thread or the other filling its ring, and with a limit.
MCOptions ==
    {Option(c, size, 13, 13, 0) : c \in BOOLEAN, size \in {0, 9}}
      \cup {Option(FALSE, 0, 11, 1, 1), Option(FALSE, 0, 0, 11, 1),
           Option(FALSE, 9, 11, 1, 1)}
MCSignal == {Option(FALSE, 0, 11, 1, 1)}
MCCircular == {Option(TRUE, 0, 13, 13, 0)}
=============================================================================
