--------------------------- MODULE EventRecorder ---------------------------
(***************************************************************************)
(* What the trace buffer of a thread promises, without rings, cursors or   *)
(* file offsets: the recorder remembers the most recent events, a few      *)
(* precious ones among those it let go, and what it has written to disk.   *)
(* TraceBuffer implements it.                                              *)
(***************************************************************************)
EXTENDS Naturals, Sequences, SequencesExt

CONSTANTS
    Event,        \* what is recorded
    Precious,     \* the events that survive being let go
    Capacity,     \* how many recent events are remembered
    KeptCapacity  \* how many precious events are kept aside

VARIABLES
    lossy,     \* old events make room for new ones; else they are written out
    recent,    \* the most recent events, oldest first
    kept,      \* the precious events set aside, oldest first
    disk,      \* what has been written
    accepted   \* every event accepted so far

rvars == <<lossy, recent, kept, disk, accepted>>

Init ==
    /\ lossy \in BOOLEAN
    /\ recent = <<>>
    /\ kept = <<>>
    /\ disk = <<>>
    /\ accepted = <<>>

\* e leaves the recent events.
LetGo(e) ==
    \/ /\ e \notin Precious
       /\ UNCHANGED <<kept, disk>>
    \/ /\ e \in Precious
       /\ Len(kept) < KeptCapacity
       /\ kept' = Append(kept, e)
       /\ UNCHANGED disk
    \/ /\ e \in Precious
       /\ Len(kept) = KeptCapacity
       /\ disk' = disk \o kept
       /\ kept' = <<e>>

AcceptWithRoom(e) ==
    /\ Len(recent) < Capacity
    /\ recent' = Append(recent, e)
    /\ UNCHANGED <<kept, disk>>

AcceptByWriting(e) ==
    /\ ~lossy
    /\ Len(recent) = Capacity
    /\ disk' = disk \o recent
    /\ recent' = <<e>>
    /\ UNCHANGED kept

AcceptByForgetting(e) ==
    /\ lossy
    /\ recent # <<>>
    /\ Len(recent) = Capacity
    /\ LetGo(Head(recent))
    /\ recent' = Append(Tail(recent), e)

\* One event is accepted: the one that ends the new history.
Accept ==
    \E e \in Range(accepted') :
        /\ e \in Event
        /\ accepted' = Append(accepted, e)
        /\ AcceptWithRoom(e) \/ AcceptByWriting(e) \/ AcceptByForgetting(e)
        /\ UNCHANGED lossy

\* Everything recent is written out.
WriteOut ==
    /\ disk' = disk \o recent
    /\ recent' = <<>>
    /\ UNCHANGED <<lossy, kept, accepted>>

\* The oldest event makes room for those to come.
Forget ==
    /\ lossy
    /\ recent # <<>>
    /\ LetGo(Head(recent))
    /\ recent' = Tail(recent)
    /\ UNCHANGED <<lossy, accepted>>

WriteKept ==
    /\ disk' = disk \o kept
    /\ kept' = <<>>
    /\ UNCHANGED <<lossy, recent, accepted>>

Next == Accept \/ WriteOut \/ Forget \/ WriteKept

Spec == Init /\ [][Next]_rvars

-----------------------------------------------------------------------------
(* What follows from the promise                                            *)

TypeOK ==
    /\ lossy \in BOOLEAN
    /\ recent \in Seq(Event)
    /\ kept \in Seq(Event)
    /\ disk \in Seq(Event)
    /\ accepted \in Seq(Event)

Remembered == Range(disk) \cup Range(kept) \cup Range(recent)

(* A precious event is never lost, not even when old events are overwritten.*)
PreciousSurvive == \A i \in DOMAIN accepted :
    accepted[i] \in Precious => accepted[i] \in Remembered

(* A recorder that writes old events out keeps none aside, and loses,       *)
(* doubles and reorders none.                                               *)
NothingLost == ~lossy => kept = <<>> /\ disk \o recent = accepted
=============================================================================
