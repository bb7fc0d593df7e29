--------------------------- MODULE WriteFileBuffer ---------------------------
(***************************************************************************)
(* The temporary file a merger keeps for each intermediate trace it reads: *)
(* a file that grows at its end through a buffer of MaxElements records,   *)
(* and whose records, in the file or still in the buffer, may be replaced. *)
(* Positions count records instead of bytes.                               *)
(***************************************************************************)
EXTENDS Naturals, Sequences

CONSTANT MaxElements   \* how many records the buffer holds

ASSUME MaxElementsAssumption == MaxElements \in Nat \ {0}

\* The records of the file, those of the buffer, and lastWrittenLocation.
EmptyWfb == [file |-> <<>>, buffer |-> <<>>, last |-> 0]

\* Mutant: lastWrittenLocation is not brought up to the end of the file.
FlushedLate(wfb) == [file |-> wfb.file \o wfb.buffer, buffer |-> <<>>, last |-> wfb.last]

Flushed(wfb) ==
    LET file == wfb.file \o wfb.buffer
    IN [file |-> file, buffer |-> <<>>, last |-> Len(file)]

\* Mutant: the records still in the buffer are not counted.
PositionInFile(wfb) == wfb.last

Position(wfb) == wfb.last + Len(wfb.buffer)

Write(wfb, record) ==
    LET filled == [wfb EXCEPT !.buffer = Append(@, record)]
    IN IF Len(filled.buffer) = MaxElements THEN Flushed(filled) ELSE filled

\* Mutant: the last record of the buffer is taken to be beyond the file.
CanWriteAtBefore(wfb, position) ==
    position < wfb.last \/ position + 1 < wfb.last + Len(wfb.buffer)

\* The write that is not "beyond the limit of the file": the others exit(-1).
CanWriteAt(wfb, position) ==
    position < wfb.last \/ position + 1 <= wfb.last + Len(wfb.buffer)

WriteAt(wfb, record, position) ==
    IF position < wfb.last
    THEN [wfb EXCEPT !.file = [@ EXCEPT ![position + 1] = record]]
    ELSE [wfb EXCEPT !.buffer = [@ EXCEPT ![position - wfb.last + 1] = record]]

-----------------------------------------------------------------------------
(* What it stands for: one sequence of records                              *)

Records(wfb) == wfb.file \o wfb.buffer

WfbOf(Record) ==
    [file : Seq(Record), buffer : Seq(Record), last : Nat]

\* A buffer as the operations leave it: short, and last is the end of the file.
Sound(wfb) == wfb.last = Len(wfb.file) /\ Len(wfb.buffer) < MaxElements
=============================================================================
