--------------------------- MODULE Mpi2prvProofs ---------------------------
(***************************************************************************)
(* Proofs about Mpi2prv, for any number of tasks, requests and calls, any  *)
(* size of the buffers, and either merger: its files are sound, no record  *)
(* changes but a slot or an unmatched send, and while every task is traced *)
(* no place beyond a file is asked for and the states of a task tile its   *)
(* trace.  The first section is about WriteFileBuffer alone.               *)
(***************************************************************************)
EXTENDS Mpi2prv, SequenceTheorems, TLAPS

-----------------------------------------------------------------------------
(* A temporary file is an array that grows: whatever the size of its        *)
(* buffer, Write appends one record, WriteAt replaces one, and a position   *)
(* taken before a Write is that of the record written.                      *)

(* A new file is sound and empty.                                           *)
LEMMA EmptyIsSound ==
    ASSUME NEW Rec
    PROVE  /\ EmptyWfb \in WfbOf(Rec)
           /\ Sound(EmptyWfb)
           /\ Records(EmptyWfb) = <<>>
BY MaxElementsAssumption DEF EmptyWfb, WfbOf, Sound, Records

(* Flushing moves records without changing what the file stands for.        *)
LEMMA FlushKeepsRecords ==
    ASSUME NEW Rec, NEW wfb \in WfbOf(Rec)
    PROVE  /\ Flushed(wfb) \in WfbOf(Rec)
           /\ Sound(Flushed(wfb))
           /\ Records(Flushed(wfb)) = Records(wfb)
<1> DEFINE all == wfb.file \o wfb.buffer
<1>1. all \in Seq(Rec)
  BY ConcatProperties DEF WfbOf
<1>2. Flushed(wfb) = [file |-> all, buffer |-> <<>>, last |-> Len(all)]
  BY DEF Flushed
<1>e. Records(wfb) = all
  BY DEF Records
<1> HIDE DEF all
<1>a. \A s \in Seq(Rec) : s \o <<>> = s
  BY ConcatEmptySeq
<1>b. Records(Flushed(wfb)) = Flushed(wfb).file \o Flushed(wfb).buffer
  BY DEF Records
<1>c. Flushed(wfb).file = all
  BY <1>2, SMT
<1>d. Flushed(wfb).buffer = <<>>
  BY <1>2, SMT
<1>3. Records(Flushed(wfb)) = all
  BY <1>1, <1>a, <1>b, <1>c, <1>d
<1> QED
  BY <1>1, <1>2, <1>3, <1>e, MaxElementsAssumption DEF WfbOf, Sound

(* The position is the number of records.                                   *)
LEMMA PositionIsLength ==
    ASSUME NEW Rec, NEW wfb \in WfbOf(Rec), Sound(wfb)
    PROVE  Position(wfb) = Len(Records(wfb))
BY ConcatProperties DEF Position, Records, Sound, WfbOf

(* Replacing a record of the first of two sequences.                        *)
LEMMA ReplaceInFirst ==
    ASSUME NEW Rec, NEW f \in Seq(Rec), NEW b \in Seq(Rec),
           NEW record \in Rec, NEW p \in Nat, p < Len(f)
    PROVE  [f EXCEPT ![p + 1] = record] \o b =
               [f \o b EXCEPT ![p + 1] = record]
<1> DEFINE g == [f EXCEPT ![p + 1] = record]
           wanted == [f \o b EXCEPT ![p + 1] = record]
<1>1. Len(f) \in Nat /\ Len(b) \in Nat
  BY LenProperties
<1>2. /\ f \o b \in Seq(Rec)
      /\ Len(f \o b) = Len(f) + Len(b)
      /\ \A i \in 1 .. Len(f) + Len(b) :
             (f \o b)[i] = IF i <= Len(f) THEN f[i] ELSE b[i - Len(f)]
  BY ConcatProperties
<1>3. p + 1 \in 1 .. Len(f) /\ p + 1 \in 1 .. Len(f \o b)
  BY <1>1, <1>2
<1>4. /\ g \in Seq(Rec)
      /\ Len(g) = Len(f)
      /\ \A i \in 1 .. Len(f) : g[i] = IF i = p + 1 THEN record ELSE f[i]
  BY <1>3, ExceptSeq
<1>5. /\ wanted \in Seq(Rec)
      /\ Len(wanted) = Len(f) + Len(b)
      /\ \A i \in 1 .. Len(f) + Len(b) :
             wanted[i] = IF i = p + 1 THEN record ELSE (f \o b)[i]
  <2>1. ASSUME NEW h \in Seq(Rec), NEW k \in 1 .. Len(h)
        PROVE  /\ [h EXCEPT ![k] = record] \in Seq(Rec)
               /\ Len([h EXCEPT ![k] = record]) = Len(h)
               /\ \A i \in 1 .. Len(h) : [h EXCEPT ![k] = record][i] =
                      IF i = k THEN record ELSE h[i]
    BY ExceptSeq
  <2>2. /\ wanted \in Seq(Rec)
        /\ Len(wanted) = Len(f \o b)
        /\ \A i \in 1 .. Len(f \o b) : wanted[i] =
               IF i = p + 1 THEN record ELSE (f \o b)[i]
    BY <1>2, <1>3, <2>1
  <2> HIDE DEF wanted
  <2> QED
    BY <1>2, <2>2
<1> HIDE DEF g, wanted
<1>6. /\ g \o b \in Seq(Rec)
      /\ Len(g \o b) = Len(f) + Len(b)
      /\ \A i \in 1 .. Len(f) + Len(b) :
             (g \o b)[i] = IF i <= Len(f) THEN g[i] ELSE b[i - Len(f)]
  <2>1. /\ g \o b \in Seq(Rec)
        /\ Len(g \o b) = Len(g) + Len(b)
        /\ \A i \in 1 .. Len(g) + Len(b) :
               (g \o b)[i] = IF i <= Len(g) THEN g[i] ELSE b[i - Len(g)]
    <3>1. \A s, t \in Seq(Rec) :
              /\ s \o t \in Seq(Rec)
              /\ Len(s \o t) = Len(s) + Len(t)
              /\ \A i \in 1 .. Len(s) + Len(t) :
                     (s \o t)[i] = IF i <= Len(s) THEN s[i] ELSE t[i - Len(s)]
      BY ConcatProperties
    <3> QED
      BY <1>4, <3>1
  <2>2. Len(g) = Len(f)
    BY <1>4
  <2> QED
    BY <2>1, <2>2, SMT
<1>7. \A i \in 1 .. Len(f) + Len(b) : (g \o b)[i] = wanted[i]
  BY SMTT(40), <1>1, <1>2, <1>3, <1>4, <1>5, <1>6
<1>8. g \o b = wanted
  BY <1>5, <1>6, <1>7, SeqEqual
<1> QED
  BY <1>8 DEF g, wanted

(* Replacing a record of the second of two sequences.                       *)
LEMMA ReplaceInSecond ==
    ASSUME NEW Rec, NEW f \in Seq(Rec), NEW b \in Seq(Rec),
           NEW record \in Rec, NEW q \in 1 .. Len(b)
    PROVE  f \o [b EXCEPT ![q] = record] =
               [f \o b EXCEPT ![Len(f) + q] = record]
<1> DEFINE c == [b EXCEPT ![q] = record]
           wanted == [f \o b EXCEPT ![Len(f) + q] = record]
<1>1. Len(f) \in Nat /\ Len(b) \in Nat /\ q \in Nat
  BY LenProperties
<1>2. /\ f \o b \in Seq(Rec)
      /\ Len(f \o b) = Len(f) + Len(b)
      /\ \A i \in 1 .. Len(f) + Len(b) :
             (f \o b)[i] = IF i <= Len(f) THEN f[i] ELSE b[i - Len(f)]
  BY ConcatProperties
<1>3. Len(f) + q \in 1 .. Len(f \o b)
  BY <1>1, <1>2
<1>4. /\ c \in Seq(Rec)
      /\ Len(c) = Len(b)
      /\ \A i \in 1 .. Len(b) : c[i] = IF i = q THEN record ELSE b[i]
  BY ExceptSeq
<1>5. /\ wanted \in Seq(Rec)
      /\ Len(wanted) = Len(f) + Len(b)
      /\ \A i \in 1 .. Len(f) + Len(b) :
             wanted[i] = IF i = Len(f) + q THEN record ELSE (f \o b)[i]
  <2>1. ASSUME NEW h \in Seq(Rec), NEW k \in 1 .. Len(h)
        PROVE  /\ [h EXCEPT ![k] = record] \in Seq(Rec)
               /\ Len([h EXCEPT ![k] = record]) = Len(h)
               /\ \A i \in 1 .. Len(h) : [h EXCEPT ![k] = record][i] =
                      IF i = k THEN record ELSE h[i]
    BY ExceptSeq
  <2>2. /\ wanted \in Seq(Rec)
        /\ Len(wanted) = Len(f \o b)
        /\ \A i \in 1 .. Len(f \o b) : wanted[i] =
               IF i = Len(f) + q THEN record ELSE (f \o b)[i]
    BY <1>2, <1>3, <2>1
  <2> HIDE DEF wanted
  <2> QED
    BY <1>2, <2>2
<1> HIDE DEF c, wanted
<1>6. /\ f \o c \in Seq(Rec)
      /\ Len(f \o c) = Len(f) + Len(b)
      /\ \A i \in 1 .. Len(f) + Len(b) :
             (f \o c)[i] = IF i <= Len(f) THEN f[i] ELSE c[i - Len(f)]
  <2>1. /\ f \o c \in Seq(Rec)
        /\ Len(f \o c) = Len(f) + Len(c)
        /\ \A i \in 1 .. Len(f) + Len(c) :
               (f \o c)[i] = IF i <= Len(f) THEN f[i] ELSE c[i - Len(f)]
    <3>1. c \in Seq(Rec)
      BY <1>4
    <3> QED
      BY ONLY <3>1, f \in Seq(Rec), ConcatProperties
  <2> QED
    BY <1>4, <2>1
<1>7. ASSUME NEW i \in 1 .. Len(f) + Len(b)
      PROVE  (f \o c)[i] = wanted[i]
  <2>1. CASE i <= Len(f)
    BY <1>1, <1>2, <1>5, <1>6, <2>1
  <2>2. CASE ~(i <= Len(f))
    <3>1. i - Len(f) \in 1 .. Len(b)
      BY <1>1, <2>2
    <3>2. i - Len(f) = q <=> i = Len(f) + q
      BY <1>1
    <3> QED
      BY <1>2, <1>4, <1>5, <1>6, <2>2, <3>1, <3>2
  <2> QED
    BY <2>1, <2>2
<1>8. f \o c = wanted
  BY <1>5, <1>6, <1>7, SeqEqual
<1> QED
  BY <1>8 DEF c, wanted

(* Write appends one record, flushed or not, in WriteFileBuffer_write.      *)
THEOREM WriteAppends ==
    ASSUME NEW Rec, NEW wfb \in WfbOf(Rec), Sound(wfb),
           NEW record \in Rec
    PROVE  /\ Write(wfb, record) \in WfbOf(Rec)
           /\ Sound(Write(wfb, record))
           /\ Records(Write(wfb, record)) = Append(Records(wfb), record)
<1> DEFINE filled == [wfb EXCEPT !.buffer = Append(@, record)]
<1>0. wfb.file \in Seq(Rec) /\ wfb.buffer \in Seq(Rec) /\ wfb.last \in Nat
  BY DEF WfbOf
<1>a. /\ Append(wfb.buffer, record) \in Seq(Rec)
      /\ Len(Append(wfb.buffer, record)) = Len(wfb.buffer) + 1
      /\ Append(wfb.buffer, record) = wfb.buffer \o <<record>>
  BY <1>0, AppendProperties, AppendIsConcat
<1>b. /\ filled.file = wfb.file
      /\ filled.last = wfb.last
      /\ filled.buffer = Append(wfb.buffer, record)
  BY DEF WfbOf
<1>c. filled \in WfbOf(Rec)
  BY <1>0, <1>a DEF WfbOf
<1>1. Len(filled.buffer) = Len(wfb.buffer) + 1
  BY <1>a, <1>b
<1>d. /\ <<record>> \in Seq(Rec)
      /\ wfb.file \o wfb.buffer \in Seq(Rec)
  BY <1>0, ConcatProperties
<1>g. \A s, t, u \in Seq(Rec) : (s \o t) \o u = s \o (t \o u)
  BY ConcatAssociative
<1>e. wfb.file \o (wfb.buffer \o <<record>>) =
          (wfb.file \o wfb.buffer) \o <<record>>
  <2> HIDE DEF filled
  <2> QED
    BY <1>0, <1>d, <1>g
<1>f. Append(wfb.file \o wfb.buffer, record) =
          (wfb.file \o wfb.buffer) \o <<record>>
  BY <1>d, AppendIsConcat
<1>2. Records(filled) = Append(Records(wfb), record)
  BY <1>a, <1>b, <1>e, <1>f DEF Records
<1>3. Write(wfb, record) =
          IF Len(filled.buffer) = MaxElements THEN Flushed(filled) ELSE filled
  BY DEF Write
<1> HIDE DEF filled
<1>4. CASE Len(filled.buffer) = MaxElements
  BY <1>c, <1>2, <1>3, <1>4, FlushKeepsRecords
<1>5. CASE Len(filled.buffer) # MaxElements
  <2>1. Sound(filled)
    BY <1>0, <1>1, <1>b, <1>5, LenProperties, MaxElementsAssumption DEF Sound
  <2> QED
    BY <1>c, <1>2, <1>3, <1>5, <2>1
<1> QED
  BY <1>4, <1>5

(* WriteFileBuffer_writeAt accepts exactly the positions that exist, and    *)
(* replaces that record and no other, in the file or in the buffer.         *)
THEOREM WriteAtReplaces ==
    ASSUME NEW Rec, NEW wfb \in WfbOf(Rec), Sound(wfb),
           NEW record \in Rec, NEW position \in Nat
    PROVE  /\ CanWriteAt(wfb, position) <=> position < Len(Records(wfb))
           /\ CanWriteAt(wfb, position) =>
                  /\ WriteAt(wfb, record, position) \in WfbOf(Rec)
                  /\ Sound(WriteAt(wfb, record, position))
                  /\ Records(WriteAt(wfb, record, position)) =
                         [Records(wfb) EXCEPT ![position + 1] = record]
<1> SUFFICES
      ASSUME NEW f \in Seq(Rec), NEW b \in Seq(Rec), NEW l \in Nat,
             l = Len(f), Len(b) < MaxElements,
             wfb = [file |-> f, buffer |-> b, last |-> l]
      PROVE  /\ CanWriteAt(wfb, position) <=> position < Len(Records(wfb))
             /\ CanWriteAt(wfb, position) =>
                  /\ WriteAt(wfb, record, position) \in WfbOf(Rec)
                  /\ Sound(WriteAt(wfb, record, position))
                  /\ Records(WriteAt(wfb, record, position)) =
                         [Records(wfb) EXCEPT ![position + 1] = record]
  <2>1. wfb = [file |-> wfb.file, buffer |-> wfb.buffer, last |-> wfb.last]
    BY DEF WfbOf
  <2>2. /\ wfb.file \in Seq(Rec) /\ wfb.buffer \in Seq(Rec)
        /\ wfb.last \in Nat
    BY DEF WfbOf
  <2>3. wfb.last = Len(wfb.file) /\ Len(wfb.buffer) < MaxElements
    BY DEF Sound
  <2> QED
    BY <2>1, <2>2, <2>3
<1>1. Len(b) \in Nat /\ MaxElements \in Nat
  BY LenProperties, MaxElementsAssumption
<1>2. /\ Records(wfb) = f \o b
      /\ Len(f \o b) = l + Len(b)
  BY ConcatProperties DEF Records
<1>3. CanWriteAt(wfb, position) <=> position < l \/ position + 1 <= l + Len(b)
  BY DEF CanWriteAt
<1>4. CanWriteAt(wfb, position) <=> position < Len(Records(wfb))
  BY <1>1, <1>2, <1>3
<1>5. CASE position < l
  <2> DEFINE g == [f EXCEPT ![position + 1] = record]
  <2>1. WriteAt(wfb, record, position) = [file |-> g, buffer |-> b, last |-> l]
    BY <1>5 DEF WriteAt
  <2>2. position + 1 \in 1 .. Len(f)
    BY <1>5
  <2>3. g \in Seq(Rec) /\ Len(g) = l
    BY <2>2, ExceptSeq
  <2>4. g \o b = [f \o b EXCEPT ![position + 1] = record]
    BY <1>5, ReplaceInFirst
  <2> HIDE DEF g
  <2>5. WriteAt(wfb, record, position) \in WfbOf(Rec)
    BY <2>1, <2>3 DEF WfbOf
  <2>6. Sound(WriteAt(wfb, record, position))
    BY <2>1, <2>3 DEF Sound
  <2>a. /\ WriteAt(wfb, record, position).file = g
        /\ WriteAt(wfb, record, position).buffer = b
    BY <2>1, SMT
  <2>7. Records(WriteAt(wfb, record, position)) = g \o b
    BY <2>a, Zenon DEF Records
  <2> QED
    BY <1>2, <1>4, <2>4, <2>5, <2>6, <2>7, Zenon
<1>6. CASE ~(position < l) /\ position < l + Len(b)
  <2> DEFINE q == position - l + 1
             c == [b EXCEPT ![q] = record]
  <2>1. WriteAt(wfb, record, position) = [file |-> f, buffer |-> c, last |-> l]
    BY <1>6 DEF WriteAt
  <2>2. q \in 1 .. Len(b) /\ Len(f) + q = position + 1
    BY <1>1, <1>6
  <2> HIDE DEF q
  <2>3. c \in Seq(Rec) /\ Len(c) = Len(b)
    BY <2>2, ExceptSeq
  <2>4. f \o c = [f \o b EXCEPT ![position + 1] = record]
    <3>1. f \o c = [f \o b EXCEPT ![Len(f) + q] = record]
      <4>1. \A k \in 1 .. Len(b) : f \o [b EXCEPT ![k] = record] =
                                   [f \o b EXCEPT ![Len(f) + k] = record]
        BY ReplaceInSecond
      <4> QED
        BY <2>2, <4>1
    <3>2. Len(f) + q = position + 1
      BY <2>2
    <3> QED
      BY <3>1, <3>2, Zenon
  <2> HIDE DEF c
  <2>5. WriteAt(wfb, record, position) \in WfbOf(Rec)
    BY <2>1, <2>3 DEF WfbOf
  <2>6. Sound(WriteAt(wfb, record, position))
    BY <2>1, <2>3 DEF Sound
  <2>a. /\ WriteAt(wfb, record, position).file = f
        /\ WriteAt(wfb, record, position).buffer = c
    BY <2>1, SMT
  <2>7. Records(WriteAt(wfb, record, position)) = f \o c
    BY <2>a, Zenon DEF Records
  <2> QED
    BY <1>2, <1>4, <2>4, <2>5, <2>6, <2>7, Zenon
<1>7. CASE ~(position < l) /\ ~(position < l + Len(b))
  BY <1>1, <1>2, <1>4, <1>7
<1> QED
  BY <1>5, <1>6, <1>7

Tags == {c.tag : c \in Calls}
Partners == Task \cup {AnySource}

-----------------------------------------------------------------------------
(* Sequences                                                                *)

LEMMA Added ==
    ASSUME NEW X, NEW s \in Seq(X), NEW e \in X
    PROVE  /\ Append(s, e) \in Seq(X) /\ Len(Append(s, e)) = Len(s) + 1
           /\ \A i \in 1..Len(s) : Append(s, e)[i] = s[i]
           /\ Append(s, e)[Len(s) + 1] = e
BY AppendProperties

LEMMA Typed ==
    ASSUME NEW X, NEW s \in Seq(X)
    PROVE  Len(s) \in Nat /\ DOMAIN s = 1..Len(s) /\ \A i \in 1..Len(s) : s[i] \in X
BY LenProperties, ElementOfSeq

-----------------------------------------------------------------------------
(* The types of the merger                                                  *)

Record ==
    [type : {"UNFINISHED_STATE"}]
    \cup [type : {"STATE"}, value : State, time : Nat, end_time : Nat]
    \cup [type : {"EVENT"}, time : Nat]
    \cup [type : {"UNMATCHED_COMMUNICATION"}, begin : Nat, end : Nat, to : Task]
    \cup [type : {"PENDING_COMMUNICATION"}, begin : Nat, end : Nat, to : Task, tag : Tags]
    \cup [type : {"COMMUNICATION"}, begin : Nat, end : Nat, to : Task, rbegin : Nat, rend : Nat]

Thread ==
    [wfb : WfbOf(Record), stack : Seq(State),
     open : [at : Nat, value : State, time : Nat], Send_Rec : Nat, Recv_Rec : Nat]

File(th) == Records(th.wfb)

\* A thread whose temporary file is sound, and whose open state has a slot in it.
Good(th) == th \in Thread /\ Sound(th.wfb) /\ th.open.at < Len(File(th))

LEMMA States ==
    /\ {"STATE_IDLE", "STATE_STOPPED", "STATE_RUNNING", "STATE_NOT_TRACING"} \subseteq State
    /\ \A k \in DOMAIN StateOf : StateOf[k] \in State
    /\ DOMAIN StateOf = {"SEND", "ISEND", "RECV", "IRECV", "SENDRECV", "WAIT", "START", "BARRIER"}
<1>1. DOMAIN StateOf = {"SEND", "ISEND", "RECV", "IRECV", "SENDRECV", "WAIT", "START", "BARRIER"}
    BY DEF StateOf
<1>2. \A k \in DOMAIN StateOf : StateOf[k] \in Range(StateOf)
    BY DEF Range
<1>3. QED
    BY <1>1, <1>2 DEF State

LEMMA FileTyped ==
    ASSUME NEW th, Good(th)
    PROVE  /\ File(th) \in Seq(Record) /\ Len(File(th)) \in Nat
           /\ Position(th.wfb) = Len(File(th))
<1>1. th.wfb \in WfbOf(Record) /\ Sound(th.wfb)
    BY DEF Good, Thread
<1>2. th.wfb.file \in Seq(Record) /\ th.wfb.buffer \in Seq(Record)
    BY <1>1 DEF WfbOf
<1>3. File(th) \in Seq(Record)
    BY <1>2, ConcatProperties DEF File, Records
<1>4. Position(th.wfb) = Len(File(th))
    BY <1>1, PositionIsLength DEF File
<1>5. QED
    BY <1>3, <1>4, LenProperties

LEMMA TopState ==
    ASSUME NEW s \in Seq(State)
    PROVE  Top_State(s) \in State
<1>1. CASE s = <<>>
    BY <1>1, States DEF Top_State
<1>2. CASE s # <<>>
    <2>1. Len(s) \in 1..Len(s)
        BY <1>2, EmptySeq
    <2>2. s[Len(s)] \in State
        BY <2>1, ElementOfSeq
    <2>3. QED
        BY <1>2, <2>2 DEF Top_State, Last
<1>3. QED
    BY <1>1, <1>2

LEMMA Prefix ==
    ASSUME NEW X, NEW s \in Seq(X), NEW k \in Nat, k <= Len(s)
    PROVE  /\ SubSeq(s, 1, k) \in Seq(X) /\ Len(SubSeq(s, 1, k)) = k
           /\ \A i \in 1..k : SubSeq(s, 1, k)[i] = s[i]
<1>1. Len(s) \in Nat /\ \A i \in 1..Len(s) : s[i] \in X
    BY Typed
<1>2. \A i \in 1..k : s[i] \in X
    BY <1>1
<1>3. /\ SubSeq(s, 1, k) \in Seq(X)
      /\ Len(SubSeq(s, 1, k)) = IF 1 <= k THEN k - 1 + 1 ELSE 0
      /\ \A i \in 1..(k - 1 + 1) : SubSeq(s, 1, k)[i] = s[1 + i - 1]
    BY <1>2, SubSeqProperties
<1>4. QED
    BY <1>3

LEMMA Fronts ==
    ASSUME NEW X, NEW s \in Seq(X), s # <<>>
    PROVE  Front(s) \in Seq(X) /\ Len(Front(s)) = Len(s) - 1
           /\ \A i \in 1..Len(s) - 1 : Front(s)[i] = s[i]
<1>1. Len(s) \in Nat \ {0}
    BY EmptySeq
<1>2. PICK k \in Nat : k = Len(s) - 1
    BY <1>1
<1>3. Front(s) = SubSeq(s, 1, k)
    BY <1>2 DEF Front
<1>4. k <= Len(s)
    BY <1>1, <1>2
<1>5. PICK u : u = SubSeq(s, 1, k)
    OBVIOUS
<1>6. /\ u \in Seq(X) /\ Len(u) = k
      /\ \A i \in 1..k : u[i] = s[i]
    <2>1. /\ SubSeq(s, 1, k) \in Seq(X) /\ Len(SubSeq(s, 1, k)) = k
          /\ \A i \in 1..k : SubSeq(s, 1, k)[i] = s[i]
        BY <1>4, Prefix
    <2>2. QED
        BY <1>5, <2>1
<1>7. u = Front(s)
    BY <1>3, <1>5
<1>8. QED
    BY <1>2, <1>6, <1>7

LEMMA TracingTyped ==
    ASSUME NEW s \in Seq(State)
    PROVE  Tracing(s) \in Seq(State)
<1>1. CASE Top_State(s) = "STATE_NOT_TRACING"
    <2>1. s # <<>>
        BY <1>1 DEF Top_State
    <2>2. QED
        BY <1>1, <2>1, Fronts DEF Tracing
<1>2. CASE Top_State(s) # "STATE_NOT_TRACING"
    BY <1>2 DEF Tracing
<1>3. QED
    BY <1>1, <1>2

LEMMA PushTyped ==
    ASSUME NEW s \in Seq(State), NEW state \in State
    PROVE  Push_State(state, s) \in Seq(State)
BY TracingTyped, Added DEF Push_State

LEMMA PopTyped ==
    ASSUME NEW s \in Seq(State), NEW state
    PROVE  Pop_State(state, s) \in Seq(State)
<1> DEFINE now == Tracing(s)
<1>1. now \in Seq(State)
    BY TracingTyped
<1>2. Pop_State(state, s) = IF now # <<>> /\ state \in {"STATE_ANY", Top_State(now)}
                            THEN Front(now) ELSE now
    BY DEF Pop_State
<1> HIDE DEF now
<1>3. now # <<>> => Front(now) \in Seq(State)
    BY <1>1, Fronts
<1>4. QED
    BY <1>1, <1>2, <1>3

LEMMA SwitchTyped ==
    ASSUME NEW s \in Seq(State), NEW state \in State, NEW value
    PROVE  Switch_State(state, value, s) \in Seq(State)
BY PushTyped, PopTyped DEF Switch_State

Completed(th, now) ==
    IF State_Excluded(th.open.value) THEN File(th)
    ELSE [File(th) EXCEPT ![th.open.at + 1] = StateRecord(th.open, now)]

\* What tracing a state does to a thread, its temporary file being a sequence.
StateShift(th, th2, now, last) ==
    \/ ~last /\ th.open.value = Top_State(th.stack) /\ th2 = th
    \/ /\ last \/ th.open.value # Top_State(th.stack)
       /\ th2.open.value = Top_State(th.stack) /\ th2.open.time = now
       /\ \/ /\ State_Excluded(Top_State(th.stack))
             /\ th2.open.at = th.open.at
             /\ File(th2) = Completed(th, now)
          \/ /\ ~State_Excluded(Top_State(th.stack))
             /\ th2.open.at = Len(File(th))
             /\ File(th2) = Append(Completed(th, now), UnfinishedState)

SameCalls(th, th2) ==
    th2.stack = th.stack /\ th2.Send_Rec = th.Send_Rec /\ th2.Recv_Rec = th.Recv_Rec

LEMMA Parts ==
    ASSUME NEW th, Good(th)
    PROVE  /\ th.wfb \in WfbOf(Record) /\ Sound(th.wfb) /\ th.stack \in Seq(State)
           /\ th.open.at \in Nat /\ th.open.value \in State /\ th.open.time \in Nat
           /\ th.Send_Rec \in Nat /\ th.Recv_Rec \in Nat
           /\ th.open.at < Len(File(th))
           /\ th.open = [at |-> th.open.at, value |-> th.open.value, time |-> th.open.time]
           /\ th = [wfb |-> th.wfb, stack |-> th.stack, open |-> th.open,
                    Send_Rec |-> th.Send_Rec, Recv_Rec |-> th.Recv_Rec]
BY DEF Good, Thread

LEMMA GoodIs ==
    ASSUME NEW w \in WfbOf(Record), Sound(w), NEW s \in Seq(State), NEW a \in Nat,
           a < Len(Records(w)), NEW v \in State, NEW n \in Nat, NEW x \in Nat, NEW y \in Nat,
           NEW th, th = [wfb |-> w, stack |-> s, open |-> [at |-> a, value |-> v, time |-> n],
                         Send_Rec |-> x, Recv_Rec |-> y]
    PROVE  Good(th) /\ File(th) = Records(w)
<1>1. th.wfb = w /\ th.open.at = a
    OBVIOUS
<1>2. File(th) = Records(w)
    BY <1>1 DEF File
<1>3. th \in Thread
    BY DEF Thread
<1>4. QED
    BY <1>1, <1>2, <1>3 DEF Good

LEMMA RecordsAre ==
    /\ UnfinishedState \in Record
    /\ \A o \in [at : Nat, value : State, time : Nat] : \A now \in Nat :
           /\ StateRecord(o, now) \in Record /\ StateRecord(o, now).type = "STATE"
           /\ StateRecord(o, now) = [type |-> "STATE", value |-> o.value, time |-> o.time,
                                     end_time |-> now]
    /\ \A now \in Nat : EventRecord(now) \in Record /\ EventRecord(now).type = "EVENT"
    /\ UnfinishedState.type = "UNFINISHED_STATE"
BY DEF UnfinishedState, StateRecord, EventRecord, Record

LEMMA CompletedFile ==
    ASSUME NEW th, Good(th), NEW now \in Nat
    PROVE  \E w \in WfbOf(Record) :
              /\ Sound(w) /\ Records(w) = Completed(th, now) /\ Len(Records(w)) = Len(File(th))
              /\ w = IF State_Excluded(th.open.value) THEN th.wfb
                     ELSE WriteAt(th.wfb, StateRecord(th.open, now), th.open.at)
<1>1. CASE State_Excluded(th.open.value)
    BY <1>1, Parts DEF Completed, File
<1>2. CASE ~State_Excluded(th.open.value)
    <2>1. PICK r \in Record : r = StateRecord(th.open, now)
        BY RecordsAre DEF Good, Thread
    <2>2. PICK p \in Nat : p = th.open.at
        BY Parts
    <2>3. PICK w \in WfbOf(Record) : w = th.wfb
        BY Parts
    <2>4. Sound(w) /\ p < Len(Records(w))
        BY <2>2, <2>3, Parts DEF File
    <2>5. /\ WriteAt(w, r, p) \in WfbOf(Record) /\ Sound(WriteAt(w, r, p))
          /\ Records(WriteAt(w, r, p)) = [Records(w) EXCEPT ![p + 1] = r]
        BY <2>4, WriteAtReplaces
    <2>6. Records(w) \in Seq(Record) /\ Len(Records(w)) \in Nat
        BY <2>3, FileTyped DEF File
    <2>7. Len([Records(w) EXCEPT ![p + 1] = r]) = Len(Records(w))
        <3>1. p + 1 \in 1..Len(Records(w))
            BY <2>4, <2>6
        <3>2. QED
            BY <2>6, <3>1, ExceptSeq
    <2>8. Completed(th, now) = [Records(w) EXCEPT ![p + 1] = r]
        BY <1>2, <2>1, <2>2, <2>3 DEF Completed, File
    <2>9. QED
        BY <1>2, <2>1, <2>2, <2>3, <2>5, <2>7, <2>8 DEF File
<1>3. QED
    BY <1>1, <1>2

LEMMA Pieces ==
    ASSUME NEW th, Good(th)
    PROVE  \E w \in WfbOf(Record), s \in Seq(State), a \in Nat, v \in State, n \in Nat,
              x \in Nat, y \in Nat :
              th = [wfb |-> w, stack |-> s, open |-> [at |-> a, value |-> v, time |-> n],
                    Send_Rec |-> x, Recv_Rec |-> y]
<1>1. /\ th.wfb \in WfbOf(Record) /\ th.stack \in Seq(State)
      /\ th.open.at \in Nat /\ th.open.value \in State /\ th.open.time \in Nat
      /\ th.Send_Rec \in Nat /\ th.Recv_Rec \in Nat
    BY Parts
<1>2. th = [wfb |-> th.wfb, stack |-> th.stack,
            open |-> [at |-> th.open.at, value |-> th.open.value, time |-> th.open.time],
            Send_Rec |-> th.Send_Rec, Recv_Rec |-> th.Recv_Rec]
    BY DEF Good, Thread
<1>3. QED
    BY <1>1, <1>2

LEMMA StateTraced ==
    ASSUME NEW th, Good(th), NEW now \in Nat, NEW last \in BOOLEAN,
           NEW th2, th2 = trace_paraver_state(th, now, last)
    PROVE  Good(th2) /\ SameCalls(th, th2) /\ StateShift(th, th2, now, last)
<1>1. PICK w0 \in WfbOf(Record), s0 \in Seq(State), a0 \in Nat, v0 \in State, n0 \in Nat,
              x0 \in Nat, y0 \in Nat :
              th = [wfb |-> w0, stack |-> s0, open |-> [at |-> a0, value |-> v0, time |-> n0],
                    Send_Rec |-> x0, Recv_Rec |-> y0]
    BY Pieces
<1>2. /\ th.wfb = w0 /\ th.stack = s0 /\ th.open = [at |-> a0, value |-> v0, time |-> n0]
      /\ th.open.at = a0 /\ th.open.value = v0 /\ th.Send_Rec = x0 /\ th.Recv_Rec = y0
    BY <1>1
<1>3. PICK v \in State : v = Top_State(s0)
    BY TopState
<1>4. PICK w \in WfbOf(Record) :
              /\ Sound(w) /\ Records(w) = Completed(th, now) /\ Len(Records(w)) = Len(File(th))
              /\ w = IF State_Excluded(v0) THEN w0
                     ELSE WriteAt(w0, StateRecord(th.open, now), a0)
    BY <1>2, CompletedFile
<1>5. a0 < Len(Records(w)) /\ Len(Records(w)) \in Nat
    BY <1>2, <1>4, FileTyped DEF Good
<1>6. a0 # NoSlot
    BY DEF NoSlot
<1>7. th2 = IF ~last /\ v0 = v THEN th
            ELSE IF State_Excluded(v)
            THEN [th EXCEPT !.wfb = w, !.open = [@ EXCEPT !.value = v, !.time = now]]
            ELSE [th EXCEPT !.wfb = Write(w, UnfinishedState),
                            !.open = [at |-> Position(w), value |-> v, time |-> now]]
    BY <1>2, <1>3, <1>4, <1>6 DEF trace_paraver_state
<1>8. CASE ~last /\ v0 = v
    BY <1>2, <1>3, <1>7, <1>8 DEF SameCalls, StateShift
<1>9. CASE ~(~last /\ v0 = v) /\ State_Excluded(v)
    <2>1. th2 = [wfb |-> w, stack |-> s0, open |-> [at |-> a0, value |-> v, time |-> now],
                 Send_Rec |-> x0, Recv_Rec |-> y0]
        <3>1. th2 = [th EXCEPT !.wfb = w, !.open = [@ EXCEPT !.value = v, !.time = now]]
            BY <1>7, <1>9, Zenon
        <3>2. PICK o : o = [th.open EXCEPT !.value = v, !.time = now]
            OBVIOUS
        <3>3. o = [at |-> a0, value |-> v, time |-> now]
            BY <1>2, <3>2
        <3>4. th2 = [th EXCEPT !.wfb = w, !.open = o]
            BY <3>1, <3>2
        <3>5. QED
            BY <1>1, <3>3, <3>4
    <2>2. Good(th2) /\ File(th2) = Records(w)
        BY <1>4, <1>5, <2>1, GoodIs
    <2>3. QED
        BY <1>2, <1>3, <1>4, <1>9, <2>1, <2>2 DEF SameCalls, StateShift
<1>10. CASE ~(~last /\ v0 = v) /\ ~State_Excluded(v)
    <2>1. PICK u \in WfbOf(Record) : /\ u = Write(w, UnfinishedState) /\ Sound(u)
                                     /\ Records(u) = Append(Records(w), UnfinishedState)
        BY <1>4, RecordsAre, WriteAppends
    <2>2. PICK a \in Nat : a = Position(w) /\ a = Len(Records(w)) /\ a = Len(File(th))
        BY <1>4, <1>5, PositionIsLength
    <2>3. th2 = [wfb |-> u, stack |-> s0, open |-> [at |-> a, value |-> v, time |-> now],
                 Send_Rec |-> x0, Recv_Rec |-> y0]
        <3>1. th2 = [th EXCEPT !.wfb = Write(w, UnfinishedState),
                               !.open = [at |-> Position(w), value |-> v, time |-> now]]
            BY <1>7, <1>10, Zenon
        <3>2. th2 = [th EXCEPT !.wfb = u, !.open = [at |-> a, value |-> v, time |-> now]]
            BY <2>1, <2>2, <3>1
        <3>3. QED
            BY <1>1, <3>2
    <2>4. Records(w) \in Seq(Record)
        BY <1>4, ConcatProperties DEF Records, WfbOf
    <2>5. Len(Append(Records(w), UnfinishedState)) = Len(Records(w)) + 1
        BY <2>4, RecordsAre, Added
    <2>6. a < Len(Records(u))
        BY <2>1, <2>2, <2>5
    <2>7. Good(th2) /\ File(th2) = Records(u)
        BY <2>1, <2>3, <2>6, GoodIs
    <2>8. QED
        BY <1>2, <1>3, <1>4, <1>10, <2>1, <2>2, <2>3, <2>7 DEF SameCalls, StateShift
<1>11. QED
    BY <1>8, <1>9, <1>10

-----------------------------------------------------------------------------
(* Temporary files that grow                                                *)

OwnTypes == {"UNFINISHED_STATE", "STATE", "EVENT"}

\* File g is f with some slots of states completed, and some states and events more.
Grows(f, g) ==
    /\ f \in Seq(Record) /\ g \in Seq(Record) /\ Len(f) <= Len(g)
    /\ \A i \in 1..Len(f) : \/ g[i] = f[i]
                            \/ f[i] = UnfinishedState /\ g[i].type = "STATE"
    /\ \A i \in 1..Len(g) : i <= Len(f) \/ g[i].type \in OwnTypes

\* The slot of the open state waits for it, unless that state is excluded.
SlotKept(th) ==
    ~State_Excluded(th.open.value) => File(th)[th.open.at + 1] = UnfinishedState

Traces(th, th2) ==
    Good(th2) /\ (SlotKept(th) => SlotKept(th2) /\ Grows(File(th), File(th2)))

LEMMA GrowsSelf ==
    ASSUME NEW f \in Seq(Record)
    PROVE  Grows(f, f)
BY Typed DEF Grows

LEMMA GrowsOn ==
    ASSUME NEW f, NEW g, NEW h, Grows(f, g), Grows(g, h)
    PROVE  Grows(f, h)
<1>1. /\ Len(f) \in Nat /\ Len(g) \in Nat /\ Len(h) \in Nat /\ Len(f) <= Len(h)
      /\ f \in Seq(Record) /\ h \in Seq(Record)
    BY Typed DEF Grows
<1>2. ASSUME NEW i \in 1..Len(f)
      PROVE  h[i] = f[i] \/ (f[i] = UnfinishedState /\ h[i].type = "STATE")
    <2>1. i \in 1..Len(g)
        BY <1>1 DEF Grows
    <2>2. g[i] = f[i] \/ (f[i] = UnfinishedState /\ g[i].type = "STATE")
        BY DEF Grows
    <2>3. h[i] = g[i] \/ (g[i] = UnfinishedState /\ h[i].type = "STATE")
        BY <2>1 DEF Grows
    <2>4. UnfinishedState.type # "STATE"
        BY DEF UnfinishedState
    <2>5. QED
        BY <2>2, <2>3, <2>4
<1>3. ASSUME NEW i \in 1..Len(h)
      PROVE  i <= Len(f) \/ h[i].type \in OwnTypes
    <2>1. CASE i <= Len(g)
        <3>1. i \in 1..Len(g)
            BY <1>1, <2>1
        <3>2. h[i] = g[i] \/ h[i].type = "STATE"
            BY <3>1 DEF Grows
        <3>3. i <= Len(f) \/ g[i].type \in OwnTypes
            BY <3>1 DEF Grows
        <3>4. QED
            BY <3>2, <3>3 DEF OwnTypes
    <2>2. CASE ~(i <= Len(g))
        BY <2>2 DEF Grows
    <2>3. QED
        BY <2>1, <2>2
<1>4. QED
    BY <1>1, <1>2, <1>3 DEF Grows

LEMMA TracesSelf ==
    ASSUME NEW th, Good(th)
    PROVE  Traces(th, th)
BY FileTyped, GrowsSelf DEF Traces

LEMMA TracesOn ==
    ASSUME NEW th, NEW th2, NEW th3, Traces(th, th2), Traces(th2, th3)
    PROVE  Traces(th, th3)
BY GrowsOn DEF Traces

LEMMA GrowsByOne ==
    ASSUME NEW f \in Seq(Record), NEW r \in Record, r.type \in OwnTypes
    PROVE  Grows(f, Append(f, r))
<1>1. /\ Append(f, r) \in Seq(Record) /\ Len(Append(f, r)) = Len(f) + 1
      /\ \A i \in 1..Len(f) : Append(f, r)[i] = f[i]
      /\ Append(f, r)[Len(f) + 1] = r /\ Len(f) \in Nat
    BY Added, Typed
<1>2. ASSUME NEW i \in 1..Len(Append(f, r))
      PROVE  i <= Len(f) \/ Append(f, r)[i].type \in OwnTypes
    BY <1>1
<1>3. QED
    BY <1>1, <1>2 DEF Grows

LEMMA GrowsByState ==
    ASSUME NEW f \in Seq(Record), NEW r \in Record, r.type = "STATE", NEW p \in Nat,
           p < Len(f), f[p + 1] = UnfinishedState
    PROVE  Grows(f, [f EXCEPT ![p + 1] = r])
<1>1. Len(f) \in Nat
    BY Typed
<1>2. PICK q \in 1..Len(f) : q = p + 1
    BY <1>1
<1>3. /\ [f EXCEPT ![q] = r] \in Seq(Record)
      /\ Len([f EXCEPT ![q] = r]) = Len(f)
      /\ \A j \in 1..Len(f) : [f EXCEPT ![q] = r][j] = IF j = q THEN r ELSE f[j]
    BY ExceptSeq
<1>4. f[q] = UnfinishedState
    BY <1>2
<1>5. Grows(f, [f EXCEPT ![q] = r])
    BY <1>1, <1>3, <1>4 DEF Grows
<1>6. QED
    BY <1>2, <1>5

LEMMA CompletedGrows ==
    ASSUME NEW th, Good(th), SlotKept(th), NEW now \in Nat
    PROVE  Grows(File(th), Completed(th, now)) /\ Len(Completed(th, now)) = Len(File(th))
<1>1. File(th) \in Seq(Record) /\ Len(File(th)) \in Nat
    BY FileTyped
<1>2. CASE State_Excluded(th.open.value)
    BY <1>1, <1>2, GrowsSelf DEF Completed
<1>3. CASE ~State_Excluded(th.open.value)
    <2>1. PICK r \in Record : r = StateRecord(th.open, now) /\ r.type = "STATE"
        BY RecordsAre DEF Good, Thread
    <2>2. PICK p \in Nat : p = th.open.at /\ p < Len(File(th))
        BY Parts
    <2>3. File(th)[p + 1] = UnfinishedState
        BY <1>3, <2>2 DEF SlotKept
    <2>4. Completed(th, now) = [File(th) EXCEPT ![p + 1] = r]
        BY <1>3, <2>1, <2>2 DEF Completed
    <2>5. Grows(File(th), [File(th) EXCEPT ![p + 1] = r])
        BY <1>1, <2>1, <2>2, <2>3, GrowsByState
    <2>6. p + 1 \in 1..Len(File(th))
        BY <1>1, <2>2
    <2>7. Len([File(th) EXCEPT ![p + 1] = r]) = Len(File(th))
        BY <1>1, <2>6, ExceptSeq
    <2>8. QED
        BY <2>4, <2>5, <2>7
<1>4. QED
    BY <1>2, <1>3

LEMMA StateTraces ==
    ASSUME NEW th, Good(th), NEW now \in Nat, NEW last \in BOOLEAN,
           NEW th2, th2 = trace_paraver_state(th, now, last)
    PROVE  Traces(th, th2) /\ SameCalls(th, th2)
<1>1. Good(th2) /\ SameCalls(th, th2) /\ StateShift(th, th2, now, last)
    BY StateTraced
<1>2. ASSUME SlotKept(th)
      PROVE  SlotKept(th2) /\ Grows(File(th), File(th2))
    <2>1. CASE th2 = th
        BY <1>1, <1>2, <2>1, TracesSelf DEF Traces
    <2>2. CASE /\ th2.open.value = Top_State(th.stack) /\ State_Excluded(Top_State(th.stack))
               /\ File(th2) = Completed(th, now)
        BY <1>2, <2>2, CompletedGrows DEF SlotKept
    <2>3. CASE /\ ~State_Excluded(Top_State(th.stack))
               /\ th2.open.at = Len(File(th))
               /\ File(th2) = Append(Completed(th, now), UnfinishedState)
        <3>1. PICK f \in Seq(Record) : /\ f = Completed(th, now) /\ Grows(File(th), f)
                                       /\ Len(f) = Len(File(th))
            BY <1>2, CompletedGrows DEF Grows
        <3>2. UnfinishedState \in Record /\ UnfinishedState.type \in OwnTypes
            BY RecordsAre DEF OwnTypes
        <3>3. Grows(f, Append(f, UnfinishedState))
            BY <3>2, GrowsByOne
        <3>4. Append(f, UnfinishedState)[Len(f) + 1] = UnfinishedState
            BY <3>2, Added
        <3>5. File(th2) = Append(f, UnfinishedState) /\ th2.open.at = Len(f)
            BY <2>3, <3>1
        <3>6. File(th2)[th2.open.at + 1] = UnfinishedState
            BY <3>4, <3>5
        <3>7. QED
            BY <3>1, <3>3, <3>5, <3>6, GrowsOn DEF SlotKept
    <2>4. QED
        BY <1>1, <2>1, <2>2, <2>3 DEF StateShift
<1>3. QED
    BY <1>1, <1>2 DEF Traces

\* Thread th2 is th after record r was written, and SameOpen, after nothing was.
SameOpen(th, th2) == th2.open = th.open /\ th2.stack = th.stack
SamePointers(th, th2) == th2.Send_Rec = th.Send_Rec /\ th2.Recv_Rec = th.Recv_Rec

LEMMA SlotStays ==
    ASSUME NEW th, NEW th2, Good(th), th2.open = th.open, NEW r \in Record,
           File(th2) = File(th) \/ File(th2) = Append(File(th), r)
    PROVE  SlotKept(th) => SlotKept(th2)
<1>1. th.open.at \in Nat /\ th.open.at < Len(File(th)) /\ File(th) \in Seq(Record)
      /\ Len(File(th)) \in Nat
    BY Parts, FileTyped
<1>2. PICK q \in 1..Len(File(th)) : q = th.open.at + 1
    BY <1>1
<1>3. Append(File(th), r)[q] = File(th)[q]
    BY <1>1, Added
<1>4. QED
    BY <1>2, <1>3 DEF SlotKept

LEMMA RecordWritten ==
    ASSUME NEW th, Good(th), NEW r \in Record,
           NEW th2, th2 = [th EXCEPT !.wfb = Write(@, r)]
    PROVE  /\ Good(th2) /\ SameOpen(th, th2) /\ SamePointers(th, th2)
           /\ File(th2) = Append(File(th), r)
           /\ SlotKept(th) => SlotKept(th2)
<1>1. PICK w0 \in WfbOf(Record), s0 \in Seq(State), a0 \in Nat, v0 \in State, n0 \in Nat,
              x0 \in Nat, y0 \in Nat :
              th = [wfb |-> w0, stack |-> s0, open |-> [at |-> a0, value |-> v0, time |-> n0],
                    Send_Rec |-> x0, Recv_Rec |-> y0]
    BY Pieces
<1>2. th.wfb = w0 /\ th.open = [at |-> a0, value |-> v0, time |-> n0] /\ th.open.at = a0
    BY <1>1
<1>3. Sound(w0) /\ Records(w0) = File(th) /\ a0 < Len(Records(w0)) /\ Len(Records(w0)) \in Nat
    BY <1>2, FileTyped DEF Good, File
<1>4. PICK u \in WfbOf(Record) : /\ u = Write(w0, r) /\ Sound(u)
                                 /\ Records(u) = Append(Records(w0), r)
    BY <1>3, WriteAppends
<1>5. Len(Append(Records(w0), r)) = Len(Records(w0)) + 1
    BY <1>3, FileTyped, Added
<1>6. a0 < Len(Records(u))
    BY <1>3, <1>4, <1>5
<1>7. th2 = [wfb |-> u, stack |-> s0, open |-> [at |-> a0, value |-> v0, time |-> n0],
             Send_Rec |-> x0, Recv_Rec |-> y0]
    BY <1>1, <1>4
<1>8. Good(th2) /\ File(th2) = Records(u)
    <2>1. Sound(u)
        BY <1>4
    <2>2. QED
        <3>1. th2.wfb = u /\ th2.open.at = a0
            BY <1>7
        <3>2. [wfb |-> u, stack |-> s0, open |-> [at |-> a0, value |-> v0, time |-> n0],
               Send_Rec |-> x0, Recv_Rec |-> y0] \in Thread
            BY DEF Thread
        <3>3. QED
            BY <2>1, <1>6, <1>7, <3>1, <3>2 DEF Good, File
<1>9. SameOpen(th, th2) /\ SamePointers(th, th2)
    BY <1>1, <1>7 DEF SameOpen, SamePointers
<1>10. File(th2) = Append(File(th), r)
    BY <1>3, <1>4, <1>8
<1>11. th2.open = th.open
    BY <1>9 DEF SameOpen
<1>12. SlotKept(th) => SlotKept(th2)
    BY <1>10, <1>11, SlotStays
<1>13. QED
    BY <1>8, <1>9, <1>10, <1>12

LEMMA EventWritten ==
    ASSUME NEW th, Good(th), NEW on \in BOOLEAN, NEW now \in Nat,
           NEW th2, th2 = trace_paraver_event(th, on, now)
    PROVE  /\ Traces(th, th2) /\ SameOpen(th, th2) /\ SamePointers(th, th2)
           /\ File(th2) = IF on THEN Append(File(th), EventRecord(now)) ELSE File(th)
<1>1. CASE on
    <2>1. PICK r \in Record : r = EventRecord(now) /\ r.type \in OwnTypes
        BY RecordsAre DEF OwnTypes
    <2>2. th2 = [th EXCEPT !.wfb = Write(@, r)]
        BY <1>1, <2>1 DEF trace_paraver_event
    <2>3. /\ Good(th2) /\ SameOpen(th, th2) /\ SamePointers(th, th2)
          /\ File(th2) = Append(File(th), r)
          /\ SlotKept(th) => SlotKept(th2)
        BY <2>2, RecordWritten
    <2>4. Grows(File(th), Append(File(th), r))
        BY <2>1, FileTyped, GrowsByOne
    <2>5. QED
        BY <1>1, <2>1, <2>3, <2>4 DEF Traces
<1>2. CASE ~on
    BY <1>2, TracesSelf DEF trace_paraver_event, SameOpen, SamePointers
<1>3. QED
    BY <1>1, <1>2

\* A thread whose file is left alone.
SameFile(th, th2) == Good(th2) /\ th2.wfb = th.wfb /\ th2.open = th.open

LEMMA SameFileTraces ==
    ASSUME NEW th, NEW th2, Good(th), SameFile(th, th2)
    PROVE  Traces(th, th2) /\ File(th2) = File(th)
<1>1. File(th2) = File(th) /\ File(th) \in Seq(Record)
    BY FileTyped DEF SameFile, File
<1>2. SlotKept(th) => SlotKept(th2)
    BY <1>1 DEF SameFile, SlotKept
<1>3. QED
    BY <1>1, <1>2, GrowsSelf DEF SameFile, Traces

LEMMA StackSet ==
    ASSUME NEW th, Good(th), NEW s \in Seq(State), NEW th2, th2 = [th EXCEPT !.stack = s]
    PROVE  SameFile(th, th2) /\ th2.stack = s /\ SamePointers(th, th2)
<1>1. th \in Thread
    BY DEF Good
<1>2. th2 \in Thread /\ th2.wfb = th.wfb /\ th2.open = th.open /\ th2.stack = s
      /\ SamePointers(th, th2)
    BY <1>1 DEF Thread, SamePointers
<1>3. QED
    BY <1>2 DEF Good, SameFile, File

LEMMA SendSet ==
    ASSUME NEW th, Good(th), NEW n \in Nat, NEW th2, th2 = [th EXCEPT !.Send_Rec = n]
    PROVE  SameFile(th, th2) /\ th2.stack = th.stack /\ th2.Send_Rec = n
           /\ th2.Recv_Rec = th.Recv_Rec
<1>1. th \in Thread
    BY DEF Good
<1>2. th2 \in Thread /\ th2.wfb = th.wfb /\ th2.open = th.open /\ th2.stack = th.stack
      /\ th2.Send_Rec = n /\ th2.Recv_Rec = th.Recv_Rec
    BY <1>1 DEF Thread
<1>3. QED
    BY <1>2 DEF Good, SameFile, File

LEMMA ReceiveSet ==
    ASSUME NEW th, Good(th), NEW n \in Nat, NEW th2, th2 = [th EXCEPT !.Recv_Rec = n]
    PROVE  SameFile(th, th2) /\ th2.stack = th.stack /\ th2.Recv_Rec = n
           /\ th2.Send_Rec = th.Send_Rec
<1>1. th \in Thread
    BY DEF Good
<1>2. th2 \in Thread /\ th2.wfb = th.wfb /\ th2.open = th.open /\ th2.stack = th.stack
      /\ th2.Recv_Rec = n /\ th2.Send_Rec = th.Send_Rec
    BY <1>1 DEF Thread
<1>3. QED
    BY <1>2 DEF Good, SameFile, File

\* The state on top of stack s is traced, and then an event.
ShownState(th, s, now) == trace_paraver_state([th EXCEPT !.stack = s], now, FALSE)

LEMMA ShownGood ==
    ASSUME NEW t \in Task, cursor[t] \in Nat, enabled[t] \in BOOLEAN,
           NEW th, Good(th), NEW s \in Seq(State), NEW th2, th2 = Shown(t, th, s)
    PROVE  Traces(th, th2) /\ th2.stack = s /\ SamePointers(th, th2)
<1>1. PICK n \in Nat : n = Now(t)
    BY DEF Now
<1>2. PICK th0 : th0 = [th EXCEPT !.stack = s]
    OBVIOUS
<1>3. SameFile(th, th0) /\ th0.stack = s /\ SamePointers(th, th0) /\ Traces(th, th0)
    BY <1>2, StackSet, SameFileTraces
<1>4. PICK th1 : th1 = trace_paraver_state(th0, n, FALSE)
    OBVIOUS
<1>5. Traces(th0, th1) /\ SameCalls(th0, th1)
    BY <1>3, <1>4, StateTraces DEF Traces
<1>6. th2 = trace_paraver_event(th1, enabled[t], n)
    BY <1>1, <1>2, <1>4 DEF Shown
<1>7. Traces(th1, th2) /\ SameOpen(th1, th2) /\ SamePointers(th1, th2)
    BY <1>5, <1>6, EventWritten DEF Traces
<1>8. Traces(th, th2)
    BY <1>3, <1>5, <1>7, TracesOn
<1>9. QED
    BY <1>3, <1>5, <1>7, <1>8 DEF SameCalls, SameOpen, SamePointers

LEMMA MarkedGood ==
    ASSUME NEW t \in Task, cursor[t] \in Nat, enabled[t] \in BOOLEAN,
           Current(t).type \in DOMAIN StateOf,
           NEW th, Good(th), NEW th2, th2 = Marked(t, th)
    PROVE  /\ Traces(th, th2) /\ SamePointers(th, th2)
           /\ th2.stack = Switch_State(StateOf[Current(t).type], Current(t).value, th.stack)
<1>1. PICK s \in Seq(State) :
              s = Switch_State(StateOf[Current(t).type], Current(t).value, th.stack)
    BY States, SwitchTyped, Parts
<1>2. th2 = Shown(t, th, s)
    BY <1>1 DEF Marked
<1>3. QED
    BY <1>1, <1>2, ShownGood

LEMMA AppendsGood ==
    ASSUME NEW th, Good(th), NEW on \in BOOLEAN, NEW r \in Record,
           NEW th2, th2 = Appends(th, on, r)
    PROVE  /\ Good(th2) /\ SameOpen(th, th2) /\ SamePointers(th, th2)
           /\ File(th2) = IF on THEN Append(File(th), r) ELSE File(th)
           /\ SlotKept(th) => SlotKept(th2)
<1>1. CASE on
    BY <1>1, RecordWritten DEF Appends
<1>2. CASE ~on
    BY <1>2 DEF Appends, SameOpen, SamePointers
<1>3. QED
    BY <1>1, <1>2

\* A record of the file is replaced.
LEMMA RecordReplaced ==
    ASSUME NEW th, Good(th), NEW r \in Record, NEW p \in Nat, CanWriteAt(th.wfb, p),
           NEW th2, th2 = [th EXCEPT !.wfb = WriteAt(@, r, p)]
    PROVE  /\ Good(th2) /\ SameOpen(th, th2) /\ SamePointers(th, th2)
           /\ p < Len(File(th)) /\ File(th2) = [File(th) EXCEPT ![p + 1] = r]
<1>1. PICK w0 \in WfbOf(Record), s0 \in Seq(State), a0 \in Nat, v0 \in State, n0 \in Nat,
              x0 \in Nat, y0 \in Nat :
              th = [wfb |-> w0, stack |-> s0, open |-> [at |-> a0, value |-> v0, time |-> n0],
                    Send_Rec |-> x0, Recv_Rec |-> y0]
    BY Pieces
<1>2. th.wfb = w0 /\ th.open = [at |-> a0, value |-> v0, time |-> n0] /\ th.open.at = a0
    BY <1>1
<1>3. Sound(w0) /\ Records(w0) = File(th) /\ a0 < Len(Records(w0)) /\ Len(Records(w0)) \in Nat
      /\ Records(w0) \in Seq(Record)
    BY <1>2, FileTyped DEF Good, File
<1>4. CanWriteAt(w0, p)
    BY <1>2
<1>40. PICK u : u = WriteAt(w0, r, p)
    OBVIOUS
<1>5. /\ u \in WfbOf(Record) /\ Sound(u) /\ p < Len(Records(w0))
      /\ Records(u) = [Records(w0) EXCEPT ![p + 1] = r]
    <2>1. CanWriteAt(w0, p) => p < Len(Records(w0))
        BY <1>3, WriteAtReplaces
    <2>2. CanWriteAt(w0, p) => /\ WriteAt(w0, r, p) \in WfbOf(Record) /\ Sound(WriteAt(w0, r, p))
                               /\ Records(WriteAt(w0, r, p)) = [Records(w0) EXCEPT ![p + 1] = r]
        BY <1>3, WriteAtReplaces
    <2>3. QED
        BY <1>4, <1>40, <2>1, <2>2
<1>6. p + 1 \in 1..Len(Records(w0))
    BY <1>3, <1>5
<1>7. Len([Records(w0) EXCEPT ![p + 1] = r]) = Len(Records(w0))
    BY <1>3, <1>6, ExceptSeq
<1>8. a0 < Len(Records(u))
    BY <1>3, <1>5, <1>7
<1>9. th2 = [wfb |-> u, stack |-> s0, open |-> [at |-> a0, value |-> v0, time |-> n0],
             Send_Rec |-> x0, Recv_Rec |-> y0]
    BY <1>1, <1>40, <1>5
<1>10. Good(th2) /\ File(th2) = Records(u)
    <2>1. Sound(u)
        BY <1>5
    <2>2. QED
        <3>1. th2.wfb = u /\ th2.open.at = a0
            BY <1>9
        <3>2. [wfb |-> u, stack |-> s0, open |-> [at |-> a0, value |-> v0, time |-> n0],
               Send_Rec |-> x0, Recv_Rec |-> y0] \in Thread
            BY <1>5 DEF Thread
        <3>3. QED
            BY <2>1, <1>8, <1>9, <3>1, <3>2 DEF Good, File
<1>11. SameOpen(th, th2) /\ SamePointers(th, th2)
    BY <1>1, <1>9 DEF SameOpen, SamePointers
<1>12. QED
    BY <1>3, <1>5, <1>10, <1>11

-----------------------------------------------------------------------------
(* Queues                                                                   *)

LEMMA Suffix ==
    ASSUME NEW X, NEW s \in Seq(X), NEW i \in 1..Len(s)
    PROVE  /\ SubSeq(s, i + 1, Len(s)) \in Seq(X)
           /\ Len(SubSeq(s, i + 1, Len(s))) = Len(s) - i
           /\ \A j \in 1..(Len(s) - i) : SubSeq(s, i + 1, Len(s))[j] = s[i + j]
<1>1. Len(s) \in Nat /\ i \in Nat /\ \A j \in 1..Len(s) : s[j] \in X
    BY Typed
<1>2. PICK m \in Nat : m = i + 1
    BY <1>1
<1>3. PICK n \in Nat : n = Len(s)
    BY <1>1
<1>4. \A j \in m..n : s[j] \in X
    BY <1>1, <1>2, <1>3
<1>5. /\ SubSeq(s, m, n) \in Seq(X)
      /\ Len(SubSeq(s, m, n)) = IF m <= n THEN n - m + 1 ELSE 0
      /\ \A j \in 1..(n - m + 1) : SubSeq(s, m, n)[j] = s[m + j - 1]
    BY <1>4, SubSeqProperties
<1>6. Len(SubSeq(s, m, n)) = n - i
    BY <1>1, <1>2, <1>3, <1>5
<1>7. ASSUME NEW j \in 1..(n - i)
      PROVE  SubSeq(s, m, n)[j] = s[i + j]
    <2>1. j \in 1..(n - m + 1) /\ m + j - 1 = i + j
        BY <1>1, <1>2, <1>3
    <2>2. QED
        BY <1>5, <2>1
<1>8. QED
    BY <1>2, <1>3, <1>5, <1>6, <1>7

LEMMA Removed ==
    ASSUME NEW X, NEW s \in Seq(X), NEW i \in 1..Len(s)
    PROVE  /\ RemoveAt(s, i) \in Seq(X) /\ Len(RemoveAt(s, i)) = Len(s) - 1
           /\ \A j \in 1..(i - 1) : RemoveAt(s, i)[j] = s[j]
           /\ \A j \in i..(Len(s) - 1) : RemoveAt(s, i)[j] = s[j + 1]
<1>1. PICK n \in Nat : n = Len(s)
    BY Typed
<1>2. i \in Nat \ {0} /\ i <= n
    BY <1>1
<1>3. PICK k \in Nat : k = i - 1
    BY <1>2
<1>4. k <= Len(s)
    BY <1>1, <1>2, <1>3
<1>5. /\ SubSeq(s, 1, k) \in Seq(X) /\ Len(SubSeq(s, 1, k)) = k
      /\ \A j \in 1..k : SubSeq(s, 1, k)[j] = s[j]
    BY <1>4, Prefix
<1>6. PICK a \in Seq(X) : a = SubSeq(s, 1, k)
    BY <1>5
<1>7. /\ SubSeq(s, i + 1, Len(s)) \in Seq(X) /\ Len(SubSeq(s, i + 1, Len(s))) = Len(s) - i
      /\ \A j \in 1..(Len(s) - i) : SubSeq(s, i + 1, Len(s))[j] = s[i + j]
    BY Suffix
<1>8. PICK b \in Seq(X) : b = SubSeq(s, i + 1, Len(s))
    BY <1>7
<1>9. Len(a) = k /\ \A j \in 1..k : a[j] = s[j]
    BY <1>5, <1>6
<1>10. Len(b) = n - i /\ \A j \in 1..(n - i) : b[j] = s[i + j]
    BY <1>1, <1>7, <1>8
<1>11. RemoveAt(s, i) = a \o b
    BY <1>3, <1>6, <1>8 DEF RemoveAt
<1>12. /\ a \o b \in Seq(X) /\ Len(a \o b) = Len(a) + Len(b)
       /\ \A j \in 1..(Len(a) + Len(b)) :
              (a \o b)[j] = IF j <= Len(a) THEN a[j] ELSE b[j - Len(a)]
    BY ConcatProperties
<1>13. Len(a \o b) = n - 1 /\ Len(a) + Len(b) = n - 1
    BY <1>2, <1>3, <1>9, <1>10, <1>12
<1>14. ASSUME NEW j \in 1..(i - 1)
       PROVE  (a \o b)[j] = s[j]
    <2>1. j \in 1..(Len(a) + Len(b)) /\ j <= Len(a) /\ j \in 1..k
        BY <1>2, <1>3, <1>9, <1>13
    <2>2. QED
        BY <1>9, <1>12, <2>1
<1>15. ASSUME NEW j \in i..(n - 1)
       PROVE  (a \o b)[j] = s[j + 1]
    <2>1. PICK h \in 1..(n - i) : h = j - k
        BY <1>2, <1>3
    <2>2. j \in 1..(Len(a) + Len(b)) /\ ~(j <= Len(a)) /\ j - Len(a) = h
        BY <1>2, <1>3, <1>9, <1>13, <2>1
    <2>3. i + h = j + 1
        BY <1>2, <1>3, <2>1
    <2>4. (a \o b)[j] = b[h]
        BY <1>12, <2>2
    <2>5. b[h] = s[i + h]
        BY <1>10
    <2>6. QED
        BY <2>3, <2>4, <2>5
<1>16. QED
    BY <1>1, <1>11, <1>12, <1>13, <1>14, <1>15

LEMMA One ==
    ASSUME NEW X, NEW e \in X
    PROVE  <<e>> \in Seq(X) /\ Len(<<e>>) = 1 /\ <<e>>[1] = e
OBVIOUS

LEMMA Two ==
    ASSUME NEW X, NEW e \in X, NEW f \in X
    PROVE  <<e, f>> \in Seq(X) /\ Len(<<e, f>>) = 2 /\ <<e, f>>[1] = e /\ <<e, f>>[2] = f
OBVIOUS

LEMMA Three ==
    ASSUME NEW X, NEW e \in X, NEW f \in X, NEW g \in X
    PROVE  /\ <<e, f, g>> \in Seq(X) /\ Len(<<e, f, g>>) = 3
           /\ <<e, f, g>>[1] = e /\ <<e, f, g>>[2] = f /\ <<e, f, g>>[3] = g
OBVIOUS

-----------------------------------------------------------------------------
(* The types of the traces                                                  *)

\* What the calls of Extrae_set_tracing_tasks record: OFF if one leaves its task out.
SetValues ==
    {IF c.task \in c.partner THEN "ON" ELSE "OFF" : c \in {d \in Calls : d.kind = "TRACING_TASKS"}}

Events ==
    [type : {"TRACING_MODE"}, value : {"DETAIL"}, target : {none}, tag : {none}, aux : {none},
     msg : {none}]
    \cup [type : {"WAIT", "START", "BARRIER"}, value : {"BEGIN", "END"}, target : {none},
          tag : {none}, aux : {none}, msg : {none}]
    \cup [type : {"APPL"}, value : {"END"}, target : {none}, tag : {none}, aux : {none},
          msg : {none}]
    \cup [type : {"SET_TRACE"}, value : SetValues, target : {none}, tag : {none}, aux : {none},
          msg : {none}]
    \cup [type : {"SEND", "ISEND", "SENDRECV"}, value : {"BEGIN", "END"}, target : Task,
          tag : Tags, aux : {none}, msg : Messages]
    \cup [type : {"RECV"}, value : {"BEGIN"}, target : Partners, tag : Tags, aux : {none},
          msg : {none}]
    \cup [type : {"RECV"}, value : {"END"}, target : Task, tag : Tags, aux : {none},
          msg : Messages]
    \cup [type : {"IRECV"}, value : {"BEGIN"}, target : Partners, tag : Tags,
          aux : {none}, msg : {none}]
    \cup [type : {"IRECV"}, value : {"END"}, target : Partners, tag : Tags,
          aux : Request, msg : {none}]
    \cup [type : {"IRECVED"}, value : {none}, target : Task, tag : Tags, aux : Request,
          msg : Messages]
    \cup [type : {"PERSIST_REQ"}, value : {"ISEND"}, target : Task, tag : Tags, aux : {none},
          msg : Messages]
    \cup [type : {"PERSIST_REQ"}, value : {"IRECV"}, target : Partners, tag : Tags,
          aux : Request, msg : {none}]

Receives == [source : Partners, tag : Tags, req : Request, got : Messages \cup {none}]

TraceTyped ==
    /\ trace \in [Task -> Seq(Events)]
    /\ bitmap \in [Task -> SUBSET Task]
    /\ arrived \in [Task -> Seq(Messages)]
    /\ posted \in [Task -> Seq(Receives)]
    /\ inCall \in [Task -> Calls \cup {none}]
    /\ \A t \in Task : inCall[t] # none => inCall[t].kind = "SENDRECV" /\ inCall[t].task = t
    /\ calls \in [Task -> Nat]
    /\ sends \in [Task -> Nat]
    /\ received \subseteq Messages
    /\ finished \in BOOLEAN
    /\ finished => \A t \in Task : inCall[t] = none /\ posted[t] = <<>> /\ arrived[t] = <<>>

LEMMA PlainEvents ==
    /\ Plain("TRACING_MODE", "DETAIL") \in Events /\ Plain("APPL", "END") \in Events
    /\ \A type \in {"WAIT", "START", "BARRIER"}, value \in {"BEGIN", "END"} :
           Plain(type, value) \in Events
BY DEF Plain, Event, Events

LEMMA SetEvents ==
    ASSUME NEW value \in SetValues
    PROVE  Plain("SET_TRACE", value) \in Events
BY DEF Plain, Event, Events

LEMMA SendEvents ==
    ASSUME NEW to \in Task, NEW tag \in Tags, NEW m \in Messages,
           NEW type \in {"SEND", "ISEND", "SENDRECV"}, NEW value \in {"BEGIN", "END"}
    PROVE  Event(type, value, to, tag, none, m) \in Events
BY DEF Event, Events

LEMMA ReceiveEvents ==
    ASSUME NEW tag \in Tags, NEW req \in Request
    PROVE  /\ \A p \in Partners : /\ Event("RECV", "BEGIN", p, tag, none, none) \in Events
                                  /\ Event("IRECV", "BEGIN", p, tag, none, none) \in Events
                                  /\ Event("IRECV", "END", p, tag, req, none) \in Events
                                  /\ Event("PERSIST_REQ", "IRECV", p, tag, req, none) \in Events
           /\ \A p \in Task, m \in Messages :
                  Event("IRECVED", none, p, tag, req, m) \in Events
BY DEF Event, Events

LEMMA MessageEvents ==
    ASSUME NEW tag \in Tags, NEW p \in Task, NEW m \in Messages
    PROVE  /\ Event("RECV", "END", p, tag, none, m) \in Events
           /\ Event("PERSIST_REQ", "ISEND", p, tag, none, m) \in Events
BY DEF Event, Events

LEMMA MessageTyped ==
    ASSUME NEW m \in Messages
    PROVE  m.from \in Task /\ m.tag \in Tags /\ m.id \in Nat
BY DEF Messages, Tags

Longer(s, u) == Len(s) <= Len(u) /\ \A k \in 1..Len(s) : u[k] = s[k]

LEMMA LongerOn ==
    ASSUME NEW X, NEW s \in Seq(X), NEW u \in Seq(X), NEW v \in Seq(X),
           Longer(s, u), Longer(u, v)
    PROVE  Longer(s, v)
<1>1. Len(s) \in Nat /\ Len(u) \in Nat /\ Len(v) \in Nat
    BY Typed
<1>2. \A k \in 1..Len(s) : k \in 1..Len(u)
    BY <1>1 DEF Longer
<1>3. QED
    BY <1>1, <1>2 DEF Longer

LEMMA RecordedTyped ==
    ASSUME NEW t \in Task, trace[t] \in Seq(Events), NEW es \in Seq(Events)
    PROVE  Recorded(t, es) \in Seq(Events) /\ Longer(trace[t], Recorded(t, es))
<1> DEFINE Adds(i, s) == IF i <= Len(es) /\ Traced(t, es[i]) THEN Append(s, es[i]) ELSE s
<1>1. ASSUME NEW s \in Seq(Events), NEW i \in {1, 2, 3}
      PROVE  Adds(i, s) \in Seq(Events) /\ Longer(s, Adds(i, s)) /\ Len(s) \in Nat
    <2>1. CASE i <= Len(es) /\ Traced(t, es[i])
        <3>1. es[i] \in Events
            BY <2>1, Typed
        <3>2. QED
            BY <2>1, <3>1, Added, Typed DEF Longer
    <2>2. CASE ~(i <= Len(es) /\ Traced(t, es[i]))
        BY <2>2, Typed DEF Longer
    <2>3. QED
        BY <2>1, <2>2
<1>2. Recorded(t, es) = Adds(3, Adds(2, Adds(1, trace[t])))
    BY DEF Recorded
<1> HIDE DEF Adds
<1>3. PICK a \in Seq(Events) : a = trace[t]
    OBVIOUS
<1>4. PICK b \in Seq(Events) : b = Adds(1, a) /\ Longer(a, b) /\ Len(a) \in Nat
    BY <1>1
<1>5. PICK c \in Seq(Events) : c = Adds(2, b) /\ Longer(b, c) /\ Len(b) \in Nat
    BY <1>1
<1>6. PICK d \in Seq(Events) : d = Adds(3, c) /\ Longer(c, d) /\ Len(c) \in Nat /\ Len(d) \in Nat
    BY <1>1, Typed
<1>7. Longer(a, d)
    <2>1. Longer(a, c)
        BY <1>4, <1>5, LongerOn
    <2>2. QED
        BY <2>1, <1>6, LongerOn
<1>8. QED
    BY <1>2, <1>3, <1>4, <1>5, <1>6, <1>7

LEMMA TraceGrows ==
    ASSUME NEW t \in Task, trace \in [Task -> Seq(Events)], NEW es \in Seq(Events),
           TRACE_EVENTs(t, es)
    PROVE  trace' \in [Task -> Seq(Events)] /\ \A u \in Task : Longer(trace[u], trace'[u])
<1>1. Recorded(t, es) \in Seq(Events) /\ Longer(trace[t], Recorded(t, es))
    BY RecordedTyped
<1>2. trace' = [trace EXCEPT ![t] = Recorded(t, es)]
    BY DEF TRACE_EVENTs
<1>3. ASSUME NEW u \in Task
      PROVE  Longer(trace[u], trace[u])
    BY DEF Longer, Typed
<1>4. QED
    BY <1>1, <1>2, <1>3

LEMMA MessageIs ==
    ASSUME TraceTyped, NEW c \in Calls, NEW t \in Task
    PROVE  Message(t, c.tag) \in Messages
BY DEF TraceTyped, Message, Messages

LEMMA DeliverTyped ==
    ASSUME TraceTyped, NEW t \in Task, NEW to \in Task, NEW m \in Messages, Deliver(t, to, m)
    PROVE  /\ arrived' \in [Task -> Seq(Messages)] /\ posted' \in [Task -> Seq(Receives)]
           /\ sends' \in [Task -> Nat]
<1>1. sends' = [sends EXCEPT ![t] = @ + 1] /\ sends \in [Task -> Nat]
    BY DEF Deliver, TraceTyped
<1>2. arrived \in [Task -> Seq(Messages)] /\ posted \in [Task -> Seq(Receives)]
    BY DEF TraceTyped
<1>3. CASE arrived' = [arrived EXCEPT ![to] = Append(@, m)] /\ UNCHANGED posted
    <2>1. Append(arrived[to], m) \in Seq(Messages)
        BY <1>2, Added
    <2>2. QED
        BY <1>1, <1>2, <1>3, <2>1
<1>4. ASSUME NEW i \in FirstOf(Waiting(to, m)), posted' = [posted EXCEPT ![to][i].got = m],
             UNCHANGED arrived
      PROVE  posted' \in [Task -> Seq(Receives)]
    <2>1. PICK q \in Seq(Receives) : q = posted[to]
        BY <1>2
    <2>2. i \in 1..Len(q)
        BY <2>1, Typed DEF FirstOf, Waiting
    <2>3. q[i] \in Receives
        BY <2>2, Typed
    <2>4. PICK r \in Receives : r = [q[i] EXCEPT !.got = m]
        BY <2>3 DEF Receives
    <2>5. [q EXCEPT ![i] = r] \in Seq(Receives)
        BY <2>2, ExceptSeq
    <2>6. posted' = [posted EXCEPT ![to] = [q EXCEPT ![i] = r]]
        BY <1>4, <2>1, <2>4
    <2>7. QED
        BY <1>2, <2>5, <2>6
<1>5. sends' \in [Task -> Nat]
    BY <1>1
<1>6. CASE \E i \in FirstOf(Waiting(to, m)) :
               posted' = [posted EXCEPT ![to][i].got = m] /\ UNCHANGED arrived
    <2>1. posted' \in [Task -> Seq(Receives)]
        BY <1>4, <1>6
    <2>2. QED
        BY <1>2, <1>5, <1>6, <2>1
<1>7. QED
    BY <1>3, <1>5, <1>6 DEF Deliver

LEMMA TakeTyped ==
    ASSUME TraceTyped, NEW t \in Task, NEW i \in DOMAIN arrived[t], Take(t, i)
    PROVE  /\ arrived' \in [Task -> Seq(Messages)] /\ received' \subseteq Messages
           /\ arrived[t][i] \in Messages
<1>1. PICK q \in Seq(Messages) : q = arrived[t]
    BY DEF TraceTyped
<1>2. i \in 1..Len(q)
    BY <1>1, Typed
<1>3. q[i] \in Messages /\ RemoveAt(q, i) \in Seq(Messages)
    BY <1>2, Typed, Removed
<1>4. QED
    BY <1>1, <1>3 DEF Take, TraceTyped

LEMMA PostTyped ==
    ASSUME TraceTyped, NEW t \in Task, NEW source \in Partners, NEW tag \in Tags,
           NEW req \in Request, Post(t, source, tag, req)
    PROVE  arrived' \in [Task -> Seq(Messages)] /\ posted' \in [Task -> Seq(Receives)]
<1> DEFINE receive(m) == [source |-> source, tag |-> tag, req |-> req, got |-> m]
<1>1. \A m \in Messages \cup {none} : receive(m) \in Receives
    BY DEF Receives
<1>2. CASE posted' = [posted EXCEPT ![t] = Append(@, receive(none))] /\ UNCHANGED arrived
    <2>1. PICK r \in Receives : r = receive(none)
        BY <1>1
    <2>2. posted[t] \in Seq(Receives)
        BY DEF TraceTyped
    <2>3. Append(posted[t], r) \in Seq(Receives)
        BY <2>2, Added
    <2>4. posted' = [posted EXCEPT ![t] = Append(posted[t], r)]
        BY <1>2, <2>1
    <2>5. QED
        BY <1>2, <2>3, <2>4 DEF TraceTyped
<1>3. ASSUME NEW i \in FirstOf(Available(t, source, tag)),
             posted' = [posted EXCEPT ![t] = Append(@, receive(arrived[t][i]))],
             arrived' = [arrived EXCEPT ![t] = RemoveAt(@, i)]
      PROVE  arrived' \in [Task -> Seq(Messages)] /\ posted' \in [Task -> Seq(Receives)]
    <2>1. PICK q \in Seq(Messages) : q = arrived[t]
        BY DEF TraceTyped
    <2>2. i \in 1..Len(q)
        BY <2>1, Typed DEF FirstOf, Available
    <2>3. q[i] \in Messages /\ RemoveAt(q, i) \in Seq(Messages)
        BY <2>2, Typed, Removed
    <2>4. PICK r \in Receives : r = receive(arrived[t][i])
        BY <1>1, <2>1, <2>3
    <2>5. posted[t] \in Seq(Receives)
        BY DEF TraceTyped
    <2>6. Append(posted[t], r) \in Seq(Receives)
        BY <2>5, Added
    <2>7. posted' = [posted EXCEPT ![t] = Append(posted[t], r)]
        BY <1>3, <2>4
    <2>8. arrived' = [arrived EXCEPT ![t] = RemoveAt(q, i)]
        BY <1>3, <2>1
    <2>9. QED
        BY <2>3, <2>6, <2>7, <2>8 DEF TraceTyped
<1>4. QED
    BY <1>2, <1>3 DEF Post

\* What a step of the program keeps, and how the traces go on.
TraceSteps == TraceTyped' /\ ~finished /\ \A u \in Task : Longer(trace[u], trace'[u])

LEMMA NoneIs ==
    /\ none \notin Request /\ none \notin Task /\ none \notin Calls /\ none \notin Messages
    /\ none # "BEGIN" /\ none # "END"
BY MpiTraceAssumption

LEMMA CallIs ==
    ASSUME NEW c \in Calls
    PROVE  /\ c.task \in Task /\ c.tag \in Tags /\ c.kind \in Kinds
           /\ c.kind \in SendKinds => c.partner \in Task /\ c.tag # AnyTag
           /\ c.kind \in ReceiveKinds => c.partner \in Partners
           /\ c.kind = "TRACING_TASKS" => c.partner \subseteq Task
BY MpiTraceAssumption DEF Tags, Partners

LEMMA EntersTyped ==
    ASSUME TraceTyped, NEW c \in Calls, NEW kinds, Enters(c, kinds)
    PROVE  ~finished /\ finished' = finished /\ calls' \in [Task -> Nat] /\ c.kind \in kinds
           /\ inCall[c.task] = none
BY CallIs DEF Enters, TraceTyped

LEMMA SendSteps ==
    ASSUME TraceTyped, NEW c \in Calls, MPI_Send(c)
    PROVE  TraceSteps
<1>1. PICK t \in Task : t = c.task
    BY CallIs
<1>2. PICK m \in Messages : m = Message(t, c.tag)
    BY MessageIs
<1>3. /\ Enters(c, {"SEND", "ISEND"}) /\ Deliver(t, c.partner, m)
      /\ TRACE_EVENTs(t, << Event(c.kind, "BEGIN", c.partner, c.tag, none, m),
                            Event(c.kind, "END", c.partner, c.tag, none, m) >>)
      /\ UNCHANGED <<inCall, received, bitmap>>
    BY <1>1, <1>2 DEF MPI_Send
<1>4. c.kind \in {"SEND", "ISEND"} /\ ~finished /\ finished' = finished /\ calls' \in [Task -> Nat]
    BY <1>3, EntersTyped
<1>5. c.partner \in Task /\ c.tag \in Tags
    BY <1>4, CallIs DEF SendKinds
<1>6. PICK e \in Events : e = Event(c.kind, "BEGIN", c.partner, c.tag, none, m)
    BY <1>4, <1>5, SendEvents
<1>7. PICK f \in Events : f = Event(c.kind, "END", c.partner, c.tag, none, m)
    BY <1>4, <1>5, SendEvents
<1>8. <<e, f>> \in Seq(Events)
    BY Two
<1>9. TRACE_EVENTs(t, <<e, f>>)
    BY <1>3, <1>6, <1>7
<1>10. trace' \in [Task -> Seq(Events)] /\ \A u \in Task : Longer(trace[u], trace'[u])
    BY <1>8, <1>9, TraceGrows DEF TraceTyped
<1>11. /\ arrived' \in [Task -> Seq(Messages)] /\ posted' \in [Task -> Seq(Receives)]
       /\ sends' \in [Task -> Nat]
    BY <1>3, <1>5, DeliverTyped
<1>12. QED
    BY <1>3, <1>4, <1>10, <1>11 DEF TraceSteps, TraceTyped

LEMMA RecvSteps ==
    ASSUME TraceTyped, NEW c \in Calls, MPI_Recv(c)
    PROVE  TraceSteps
<1>1. PICK t \in Task : t = c.task
    BY CallIs
<1>2. /\ Enters(c, {"RECV"})
      /\ UNCHANGED <<posted, inCall, sends, bitmap>>
    BY DEF MPI_Recv
<1>3. PICK i \in FirstOf(Available(t, c.partner, c.tag)) :
          /\ Take(t, i)
          /\ TRACE_EVENTs(t,
                << Event("RECV", "BEGIN", c.partner, c.tag, none, none),
                   Event("RECV", "END", arrived[t][i].from, arrived[t][i].tag, none,
                         arrived[t][i]) >>)
    BY <1>1 DEF MPI_Recv
<1>4. c.kind = "RECV" /\ ~finished /\ finished' = finished /\ calls' \in [Task -> Nat]
    BY <1>2, EntersTyped
<1>5. c.partner \in Partners /\ c.tag \in Tags
    BY <1>4, CallIs DEF ReceiveKinds
<1>6. i \in DOMAIN arrived[t]
    BY DEF FirstOf, Available
<1>7. /\ arrived' \in [Task -> Seq(Messages)] /\ received' \subseteq Messages
      /\ arrived[t][i] \in Messages
    BY <1>3, <1>6, TakeTyped
<1>8. PICK m \in Messages : m = arrived[t][i]
    BY <1>7
<1>9. m.from \in Task /\ m.tag \in Tags
    BY MessageTyped
<1>10. PICK e \in Events : e = Event("RECV", "BEGIN", c.partner, c.tag, none, none)
    BY <1>5 DEF Events, Event
<1>11. PICK f \in Events : f = Event("RECV", "END", m.from, m.tag, none, m)
    BY <1>9, MessageEvents
<1>12. <<e, f>> \in Seq(Events)
    BY Two
<1>13. TRACE_EVENTs(t, <<e, f>>)
    BY <1>3, <1>8, <1>10, <1>11
<1>14. trace' \in [Task -> Seq(Events)] /\ \A u \in Task : Longer(trace[u], trace'[u])
    BY <1>12, <1>13, TraceGrows DEF TraceTyped
<1>15. QED
    BY <1>2, <1>4, <1>7, <1>14 DEF TraceSteps, TraceTyped

LEMMA IrecvSteps ==
    ASSUME TraceTyped, NEW c \in Calls, MPI_Irecv(c)
    PROVE  TraceSteps
<1>1. PICK t \in Task : t = c.task
    BY CallIs
<1>2. /\ Enters(c, {"IRECV"}) /\ UNCHANGED <<inCall, sends, received, bitmap>>
    BY DEF MPI_Irecv
<1>3. PICK req \in FreeRequests(t) :
             /\ Post(t, c.partner, c.tag, req)
             /\ TRACE_EVENTs(t,
                   << Event("IRECV", "BEGIN", c.partner, c.tag, none, none),
                      Event("IRECV", "END", c.partner, c.tag, req, none) >>)
    BY <1>1 DEF MPI_Irecv
<1>4. c.kind = "IRECV" /\ ~finished /\ finished' = finished /\ calls' \in [Task -> Nat]
    BY <1>2, EntersTyped
<1>5. c.partner \in Partners /\ c.tag \in Tags
    BY <1>4, CallIs DEF ReceiveKinds
<1>6. req \in Request
    BY DEF FreeRequests
<1>7. arrived' \in [Task -> Seq(Messages)] /\ posted' \in [Task -> Seq(Receives)]
    BY <1>3, <1>5, <1>6, PostTyped
<1>8. PICK e \in Events : e = Event("IRECV", "BEGIN", c.partner, c.tag, none, none)
    BY <1>5, <1>6, ReceiveEvents
<1>9. PICK f \in Events : f = Event("IRECV", "END", c.partner, c.tag, req, none)
    BY <1>5, <1>6, ReceiveEvents
<1>10. <<e, f>> \in Seq(Events)
    BY Two
<1>11. TRACE_EVENTs(t, <<e, f>>)
    BY <1>3, <1>8, <1>9
<1>12. trace' \in [Task -> Seq(Events)] /\ \A u \in Task : Longer(trace[u], trace'[u])
    BY <1>10, <1>11, TraceGrows DEF TraceTyped
<1>13. QED
    BY <1>2, <1>4, <1>7, <1>12 DEF TraceSteps, TraceTyped

LEMMA WaitSteps ==
    ASSUME TraceTyped, NEW t \in Task, MPI_Wait(t)
    PROVE  TraceSteps
<1>1. /\ ~finished /\ UNCHANGED <<arrived, inCall, calls, sends, bitmap, finished>>
    BY DEF MPI_Wait
<1>2. PICK i \in DOMAIN posted[t] :
          /\ posted[t][i].got # none
          /\ posted' = [posted EXCEPT ![t] = RemoveAt(@, i)]
          /\ received' = received \cup {posted[t][i].got}
          /\ TRACE_EVENTs(t,
                << Plain("WAIT", "BEGIN"),
                   Event("IRECVED", none, posted[t][i].got.from, posted[t][i].tag,
                         posted[t][i].req, posted[t][i].got),
                   Plain("WAIT", "END") >>)
    BY DEF MPI_Wait
<1>3. PICK q \in Seq(Receives) : q = posted[t]
    BY DEF TraceTyped
<1>4. i \in 1..Len(q)
    BY <1>3, Typed
<1>5. q[i] \in Receives /\ RemoveAt(q, i) \in Seq(Receives)
    BY <1>4, Typed, Removed
<1>6. PICK r \in Receives : r = posted[t][i]
    BY <1>3, <1>5
<1>7. r.got \in Messages /\ r.tag \in Tags /\ r.req \in Request
    BY <1>2, <1>6 DEF Receives
<1>8. r.got.from \in Task
    BY <1>7, MessageTyped
<1>9. PICK e \in Events : e = Plain("WAIT", "BEGIN")
    BY PlainEvents
<1>10. PICK f \in Events : f = Event("IRECVED", none, r.got.from, r.tag, r.req, r.got)
    BY <1>7, <1>8, ReceiveEvents
<1>11. PICK g \in Events : g = Plain("WAIT", "END")
    BY PlainEvents
<1>12. <<e, f, g>> \in Seq(Events)
    BY Three
<1>13. TRACE_EVENTs(t, <<e, f, g>>)
    BY <1>2, <1>6, <1>9, <1>10, <1>11
<1>14. trace' \in [Task -> Seq(Events)] /\ \A u \in Task : Longer(trace[u], trace'[u])
    BY <1>12, <1>13, TraceGrows DEF TraceTyped
<1>15. posted' \in [Task -> Seq(Receives)]
    BY <1>2, <1>3, <1>5 DEF TraceTyped
<1>16. received' \subseteq Messages
    BY <1>2, <1>6, <1>7 DEF TraceTyped
<1>17. QED
    BY <1>1, <1>14, <1>15, <1>16 DEF TraceSteps, TraceTyped

LEMMA SendrecvSteps ==
    ASSUME TraceTyped, NEW c \in Calls, MPI_Sendrecv(c)
    PROVE  TraceSteps
<1>1. PICK t \in Task : t = c.task
    BY CallIs
<1>2. PICK m \in Messages : m = Message(t, c.tag)
    BY MessageIs
<1>3. /\ Enters(c, {"SENDRECV"}) /\ Deliver(t, c.partner, m)
      /\ inCall' = [inCall EXCEPT ![t] = c]
      /\ TRACE_EVENTs(t, <<Event("SENDRECV", "BEGIN", c.partner, c.tag, none, m)>>)
      /\ UNCHANGED <<received, bitmap>>
    BY <1>1, <1>2 DEF MPI_Sendrecv
<1>4. c.kind = "SENDRECV" /\ ~finished /\ finished' = finished /\ calls' \in [Task -> Nat]
    BY <1>3, EntersTyped
<1>5. c.partner \in Task /\ c.tag \in Tags
    BY <1>4, CallIs DEF SendKinds
<1>6. PICK e \in Events : e = Event("SENDRECV", "BEGIN", c.partner, c.tag, none, m)
    BY <1>5, SendEvents
<1>7. <<e>> \in Seq(Events)
    BY One
<1>8. TRACE_EVENTs(t, <<e>>)
    BY <1>3, <1>6
<1>9. trace' \in [Task -> Seq(Events)] /\ \A u \in Task : Longer(trace[u], trace'[u])
    BY <1>7, <1>8, TraceGrows DEF TraceTyped
<1>10. /\ arrived' \in [Task -> Seq(Messages)] /\ posted' \in [Task -> Seq(Receives)]
       /\ sends' \in [Task -> Nat]
    BY <1>3, <1>5, DeliverTyped
<1>11. inCall' \in [Task -> Calls \cup {none}]
    BY <1>3 DEF TraceTyped
<1>12. \A u \in Task : inCall'[u] # none => inCall'[u].kind = "SENDRECV" /\ inCall'[u].task = u
    BY <1>1, <1>3, <1>4 DEF TraceTyped
<1>13. QED
    BY <1>3, <1>4, <1>9, <1>10, <1>11, <1>12 DEF TraceSteps, TraceTyped

LEMMA SendrecvReturnsSteps ==
    ASSUME TraceTyped, NEW t \in Task, SendrecvReturns(t)
    PROVE  TraceSteps
<1>1. /\ inCall[t] # none /\ inCall' = [inCall EXCEPT ![t] = none]
      /\ UNCHANGED <<posted, calls, sends, bitmap, finished>>
    BY DEF SendrecvReturns
<1>2. PICK i \in FirstOf(Available(t, inCall[t].partner, inCall[t].tag)) :
          /\ Take(t, i)
          /\ TRACE_EVENTs(t, <<Event("SENDRECV", "END", arrived[t][i].from, arrived[t][i].tag,
                                     none, arrived[t][i])>>)
    BY DEF SendrecvReturns
<1>3. ~finished
    BY <1>1 DEF TraceTyped
<1>4. i \in DOMAIN arrived[t]
    BY DEF FirstOf, Available
<1>5. /\ arrived' \in [Task -> Seq(Messages)] /\ received' \subseteq Messages
      /\ arrived[t][i] \in Messages
    BY <1>2, <1>4, TakeTyped
<1>6. PICK m \in Messages : m = arrived[t][i]
    BY <1>5
<1>7. m.from \in Task /\ m.tag \in Tags
    BY MessageTyped
<1>8. PICK e \in Events : e = Event("SENDRECV", "END", m.from, m.tag, none, m)
    BY <1>7, SendEvents
<1>9. <<e>> \in Seq(Events)
    BY One
<1>10. TRACE_EVENTs(t, <<e>>)
    BY <1>2, <1>6, <1>8
<1>11. trace' \in [Task -> Seq(Events)] /\ \A u \in Task : Longer(trace[u], trace'[u])
    BY <1>9, <1>10, TraceGrows DEF TraceTyped
<1>12. inCall' \in [Task -> Calls \cup {none}]
       /\ \A u \in Task : inCall'[u] # none => inCall'[u].kind = "SENDRECV" /\ inCall'[u].task = u
    BY <1>1 DEF TraceTyped
<1>13. QED
    BY <1>1, <1>3, <1>5, <1>11, <1>12 DEF TraceSteps, TraceTyped

LEMMA StartSendSteps ==
    ASSUME TraceTyped, NEW c \in Calls, StartSend(c)
    PROVE  TraceSteps
<1>1. PICK t \in Task : t = c.task
    BY CallIs
<1>2. PICK m \in Messages : m = Message(t, c.tag)
    BY MessageIs
<1>3. /\ Enters(c, {"START_SEND"}) /\ Deliver(t, c.partner, m)
      /\ TRACE_EVENTs(t, << Plain("START", "BEGIN"),
                            Event("PERSIST_REQ", "ISEND", c.partner, c.tag, none, m),
                            Plain("START", "END") >>)
      /\ UNCHANGED <<inCall, received, bitmap>>
    BY <1>1, <1>2 DEF StartSend, Started
<1>4. c.kind = "START_SEND" /\ ~finished /\ finished' = finished /\ calls' \in [Task -> Nat]
    BY <1>3, EntersTyped
<1>5. c.partner \in Task /\ c.tag \in Tags
    BY <1>4, CallIs DEF SendKinds
<1>6. PICK e \in Events : e = Plain("START", "BEGIN")
    BY PlainEvents
<1>7. PICK f \in Events : f = Event("PERSIST_REQ", "ISEND", c.partner, c.tag, none, m)
    BY <1>5, MessageEvents
<1>8. PICK g \in Events : g = Plain("START", "END")
    BY PlainEvents
<1>9. <<e, f, g>> \in Seq(Events)
    BY Three
<1>10. TRACE_EVENTs(t, <<e, f, g>>)
    BY <1>3, <1>6, <1>7, <1>8
<1>11. trace' \in [Task -> Seq(Events)] /\ \A u \in Task : Longer(trace[u], trace'[u])
    BY <1>9, <1>10, TraceGrows DEF TraceTyped
<1>12. /\ arrived' \in [Task -> Seq(Messages)] /\ posted' \in [Task -> Seq(Receives)]
       /\ sends' \in [Task -> Nat]
    BY <1>3, <1>5, DeliverTyped
<1>13. QED
    BY <1>3, <1>4, <1>11, <1>12 DEF TraceSteps, TraceTyped

LEMMA StartReceiveSteps ==
    ASSUME TraceTyped, NEW c \in Calls, StartReceive(c)
    PROVE  TraceSteps
<1>1. PICK t \in Task : t = c.task
    BY CallIs
<1>2. /\ Enters(c, {"START_RECV"}) /\ UNCHANGED <<inCall, sends, received, bitmap>>
    BY DEF StartReceive
<1>3. PICK req \in FreeRequests(t) :
             /\ Post(t, c.partner, c.tag, req)
             /\ TRACE_EVENTs(t, << Plain("START", "BEGIN"),
                                   Event("PERSIST_REQ", "IRECV", c.partner, c.tag, req, none),
                                   Plain("START", "END") >>)
    BY <1>1 DEF StartReceive, Started
<1>4. c.kind = "START_RECV" /\ ~finished /\ finished' = finished /\ calls' \in [Task -> Nat]
    BY <1>2, EntersTyped
<1>5. c.partner \in Partners /\ c.tag \in Tags
    BY <1>4, CallIs DEF ReceiveKinds
<1>6. req \in Request
    BY DEF FreeRequests
<1>7. arrived' \in [Task -> Seq(Messages)] /\ posted' \in [Task -> Seq(Receives)]
    BY <1>3, <1>5, <1>6, PostTyped
<1>8. PICK e \in Events : e = Plain("START", "BEGIN")
    BY PlainEvents
<1>9. PICK f \in Events : f = Event("PERSIST_REQ", "IRECV", c.partner, c.tag, req, none)
    BY <1>5, <1>6, ReceiveEvents
<1>10. PICK g \in Events : g = Plain("START", "END")
    BY PlainEvents
<1>11. <<e, f, g>> \in Seq(Events)
    BY Three
<1>12. TRACE_EVENTs(t, <<e, f, g>>)
    BY <1>3, <1>8, <1>9, <1>10
<1>13. trace' \in [Task -> Seq(Events)] /\ \A u \in Task : Longer(trace[u], trace'[u])
    BY <1>11, <1>12, TraceGrows DEF TraceTyped
<1>14. QED
    BY <1>2, <1>4, <1>7, <1>13 DEF TraceSteps, TraceTyped

LEMMA BarrierSteps ==
    ASSUME TraceTyped, NEW c \in Calls, MPI_Barrier(c)
    PROVE  TraceSteps
<1>1. PICK e \in Events : e = Plain("BARRIER", "BEGIN")
    BY PlainEvents
<1>2. PICK f \in Events : f = Plain("BARRIER", "END")
    BY PlainEvents
<1>3. <<e, f>> \in Seq(Events)
    BY Two
<1>4. \A t \in Task : Recorded(t, <<e, f>>) \in Seq(Events) /\ Longer(trace[t], Recorded(t, <<e, f>>))
    BY <1>3, RecordedTyped DEF TraceTyped
<1>5. trace' = [t \in Task |-> Recorded(t, <<e, f>>)]
    BY <1>1, <1>2 DEF MPI_Barrier
<1>6. trace' \in [Task -> Seq(Events)] /\ \A u \in Task : Longer(trace[u], trace'[u])
    BY <1>4, <1>5
<1>7. /\ ~finished /\ calls' \in [Task -> Nat]
      /\ UNCHANGED <<arrived, posted, inCall, sends, received, bitmap, finished>>
    BY DEF MPI_Barrier, TraceTyped
<1>8. QED
    BY <1>6, <1>7 DEF TraceSteps, TraceTyped

LEMMA TracingTasksSteps ==
    ASSUME TraceTyped, NEW c \in Calls, Extrae_set_tracing_tasks(c)
    PROVE  TraceSteps
<1>1. PICK t \in Task : t = c.task
    BY CallIs
<1>2. /\ Enters(c, {"TRACING_TASKS"})
      /\ TRACE_EVENTs(t, <<Plain("SET_TRACE", IF t \in c.partner THEN "ON" ELSE "OFF")>>)
      /\ bitmap' = [bitmap EXCEPT ![t] = c.partner]
      /\ UNCHANGED <<arrived, posted, inCall, sends, received>>
    BY <1>1 DEF Extrae_set_tracing_tasks
<1>3. c.kind = "TRACING_TASKS" /\ ~finished /\ finished' = finished /\ calls' \in [Task -> Nat]
    BY <1>2, EntersTyped
<1>4. PICK e \in Events : e = Plain("SET_TRACE", IF t \in c.partner THEN "ON" ELSE "OFF")
    <2>1. PICK value \in SetValues : value = IF t \in c.partner THEN "ON" ELSE "OFF"
        BY <1>1, <1>3 DEF SetValues
    <2>2. QED
        BY <2>1, SetEvents
<1>5. <<e>> \in Seq(Events)
    BY One
<1>6. trace' \in [Task -> Seq(Events)] /\ \A u \in Task : Longer(trace[u], trace'[u])
    BY <1>2, <1>4, <1>5, TraceGrows DEF TraceTyped
<1>7. bitmap' \in [Task -> SUBSET Task]
    BY <1>2, <1>3, CallIs DEF TraceTyped
<1>8. QED
    BY <1>2, <1>3, <1>6, <1>7 DEF TraceSteps, TraceTyped

LEMMA FinishSteps ==
    ASSUME TraceTyped, Finish
    PROVE  TraceSteps
<1>1. PICK e \in Events : e = Plain("APPL", "END")
    BY PlainEvents
<1>2. <<e>> \in Seq(Events)
    BY One
<1>3. \A t \in Task : Recorded(t, <<e>>) \in Seq(Events) /\ Longer(trace[t], Recorded(t, <<e>>))
    BY <1>2, RecordedTyped DEF TraceTyped
<1>4. trace' = [t \in Task |-> Recorded(t, <<e>>)]
    BY <1>1 DEF Finish
<1>5. trace' \in [Task -> Seq(Events)] /\ \A u \in Task : Longer(trace[u], trace'[u])
    BY <1>3, <1>4
<1>6. QED
    BY <1>5 DEF TraceSteps, TraceTyped, Finish, mpiVars

LEMMA TraceNextSteps ==
    ASSUME TraceTyped, TraceNext
    PROVE  TraceSteps
BY SendSteps, RecvSteps, IrecvSteps, WaitSteps, SendrecvSteps, SendrecvReturnsSteps,
   StartSendSteps, StartReceiveSteps, BarrierSteps, TracingTasksSteps, FinishSteps DEF TraceNext

LEMMA TraceInitTyped ==
    ASSUME TraceInit
    PROVE  TraceTyped
<1>1. PICK e \in Events : e = Plain("TRACING_MODE", "DETAIL")
    BY PlainEvents
<1>2. <<e>> \in Seq(Events)
    BY One
<1>3. trace \in [Task -> Seq(Events)]
    BY <1>1, <1>2 DEF TraceInit
<1>4. QED
    BY <1>3, EmptySeq DEF TraceInit, TraceTyped

-----------------------------------------------------------------------------
(* The queues of the merger and the files                                   *)

Sends == [begin : Nat, end : Nat, position : Nat, partner : Task, tag : Tags]
Recvs == [begin : Nat, end : Nat, partner : Partners, tag : Tags]
Foreigns == [begin : Nat, end : Nat, recver : Task, tag : Tags]

\* What a step may do to a record of a file, as SlotsKept says.
Kept(old, new) ==
    \/ new = old
    \/ old.type = "UNFINISHED_STATE" /\ new.type = "STATE"
    \/ /\ old.type = "UNMATCHED_COMMUNICATION"
       /\ new.type = "COMMUNICATION"
       /\ new.begin = old.begin
       /\ new.end = old.end
       /\ new.to = old.to

Keeps(f, g) ==
    /\ f \in Seq(Record) /\ g \in Seq(Record) /\ Len(f) <= Len(g)
    /\ \A i \in 1..Len(f) : Kept(f[i], g[i])

\* The record of every send of queue q waits in file f for its communication.
Waits(f, q) ==
    /\ \A i \in 1..Len(q) : q[i].position < Len(f)
    /\ \A i \in 1..Len(q) :
           f[q[i].position + 1] = Unmatched(q[i].begin, q[i].end, q[i].partner)
    /\ \A i \in 1..Len(q) : \A j \in 1..Len(q) : i < j => q[i].position < q[j].position

LEMMA KeepsSelf ==
    ASSUME NEW f \in Seq(Record)
    PROVE  Keeps(f, f)
BY Typed DEF Keeps, Kept

LEMMA KeepsOn ==
    ASSUME NEW f, NEW g, NEW h, Keeps(f, g), Keeps(g, h)
    PROVE  Keeps(f, h)
<1>1. /\ Len(f) \in Nat /\ Len(g) \in Nat /\ Len(h) \in Nat /\ Len(f) <= Len(h)
      /\ f \in Seq(Record) /\ h \in Seq(Record)
    BY Typed DEF Keeps
<1>2. ASSUME NEW i \in 1..Len(f)
      PROVE  Kept(f[i], h[i])
    <2>1. i \in 1..Len(g)
        BY <1>1 DEF Keeps
    <2>2. Kept(f[i], g[i])
        BY DEF Keeps
    <2>3. Kept(g[i], h[i])
        BY <2>1 DEF Keeps
    <2>4. QED
        BY <2>2, <2>3 DEF Kept
<1>3. QED
    BY <1>1, <1>2 DEF Keeps

LEMMA GrowsKeeps ==
    ASSUME NEW f, NEW g, Grows(f, g)
    PROVE  Keeps(f, g)
BY DEF Grows, Keeps, Kept, UnfinishedState

LEMMA AppendKeeps ==
    ASSUME NEW f \in Seq(Record), NEW r \in Record
    PROVE  Keeps(f, Append(f, r))
<1>1. /\ Append(f, r) \in Seq(Record) /\ Len(Append(f, r)) = Len(f) + 1
      /\ \A i \in 1..Len(f) : Append(f, r)[i] = f[i]
      /\ Len(f) \in Nat
    BY Added, Typed
<1>2. QED
    BY <1>1 DEF Keeps, Kept

LEMMA UnmatchedIs ==
    ASSUME NEW b, NEW e, NEW t
    PROVE  /\ Unmatched(b, e, t).type = "UNMATCHED_COMMUNICATION"
           /\ Unmatched(b, e, t).begin = b /\ Unmatched(b, e, t).end = e
           /\ Unmatched(b, e, t).to = t
           /\ Unmatched(b, e, t) # UnfinishedState
BY DEF Unmatched, UnfinishedState

\* A file that goes on without a change of an unmatched send.
Extends(f, g) ==
    /\ Len(f) \in Nat /\ Len(g) \in Nat /\ Len(f) <= Len(g)
    /\ \A i \in 1..Len(f) : g[i] = f[i] \/ f[i] = UnfinishedState

LEMMA SendIs ==
    ASSUME NEW q \in Seq(Sends)
    PROVE  Len(q) \in Nat /\ \A i \in 1..Len(q) : q[i].position \in Nat
<1>1. \A s \in Sends : s.position \in Nat
    BY DEF Sends
<1>2. QED
    BY <1>1, Typed

LEMMA WaitsOn ==
    ASSUME NEW f, NEW g, Extends(f, g), NEW q \in Seq(Sends), Waits(f, q)
    PROVE  Waits(g, q)
<1>1. ASSUME NEW i \in 1..Len(q)
      PROVE  /\ q[i].position < Len(g)
             /\ g[q[i].position + 1] = Unmatched(q[i].begin, q[i].end, q[i].partner)
    <2>1. q[i].position \in Nat
        BY SendIs
    <2>2. PICK k \in 1..Len(f) : k = q[i].position + 1
        BY <2>1 DEF Waits, Extends
    <2>3. f[k] = Unmatched(q[i].begin, q[i].end, q[i].partner)
        BY <2>2 DEF Waits
    <2>4. g[k] = f[k]
        BY <2>3, UnmatchedIs DEF Extends
    <2>5. q[i].position < Len(g)
        BY <2>1, <2>2 DEF Extends
    <2>6. QED
        BY <2>2, <2>3, <2>4, <2>5
<1>2. QED
    BY <1>1 DEF Waits

LEMMA GrowsExtends ==
    ASSUME NEW f, NEW g, Grows(f, g)
    PROVE  Extends(f, g)
BY Typed DEF Grows, Extends

LEMMA AppendExtends ==
    ASSUME NEW f \in Seq(Record), NEW r \in Record
    PROVE  Extends(f, Append(f, r))
BY Added, Typed DEF Extends

LEMMA WaitsMore ==
    ASSUME NEW f \in Seq(Record), NEW q \in Seq(Sends), Waits(f, q),
           NEW s \in Sends, s.position = Len(f), NEW r \in Record,
           r = Unmatched(s.begin, s.end, s.partner)
    PROVE  Waits(Append(f, r), Append(q, s))
<1>0. PICK g : g = Append(f, r)
    OBVIOUS
<1>1. /\ g = Append(f, r) /\ Len(g) = Len(f) + 1 /\ Len(f) \in Nat
      /\ g[Len(f) + 1] = r
    BY <1>0, Added, Typed
<1>2. Waits(g, q)
    BY <1>1, AppendExtends, WaitsOn
<1>30. PICK p : p = Append(q, s)
    OBVIOUS
<1>3. /\ p \in Seq(Sends) /\ Len(p) = Len(q) + 1 /\ Len(q) \in Nat
      /\ \A i \in 1..Len(q) : p[i] = q[i]
      /\ p[Len(q) + 1] = s
    <2>1. /\ Append(q, s) \in Seq(Sends) /\ Len(Append(q, s)) = Len(q) + 1
          /\ \A i \in 1..Len(q) : Append(q, s)[i] = q[i]
          /\ Append(q, s)[Len(q) + 1] = s
        BY Added
    <2>2. Len(q) \in Nat
        BY Typed
    <2>3. QED
        BY <1>30, <2>1, <2>2
<1>4. ASSUME NEW i \in 1..Len(p)
      PROVE  /\ p[i].position < Len(g)
             /\ g[p[i].position + 1] = Unmatched(p[i].begin, p[i].end, p[i].partner)
    <2>1. CASE i \in 1..Len(q)
        BY <1>2, <1>3, <2>1 DEF Waits
    <2>2. CASE i = Len(q) + 1
        BY <1>1, <1>3, <2>2
    <2>3. QED
        BY <1>3, <2>1, <2>2
<1>5. ASSUME NEW i \in 1..Len(p), NEW j \in 1..Len(p), i < j
      PROVE  p[i].position < p[j].position
    <2>1. i \in 1..Len(q)
        BY <1>3, <1>5
    <2>2. CASE j \in 1..Len(q)
        BY <1>2, <1>3, <1>5, <2>1, <2>2 DEF Waits
    <2>3. CASE j = Len(q) + 1
        <3>1. q[i].position < Len(f)
            BY <2>1 DEF Waits
        <3>2. QED
            BY <1>3, <2>1, <2>3, <3>1
    <2>4. QED
        BY <1>3, <2>2, <2>3
<1>6. Waits(g, p)
    BY <1>4, <1>5 DEF Waits
<1>7. QED
    BY <1>1, <1>3, <1>30, <1>6

LEMMA NextIn ==
    ASSUME NEW n \in Nat, NEW x \in Nat, x < n
    PROVE  x + 1 \in 1..n
<1>1. QED
    OBVIOUS

LEMMA NextsDiffer ==
    ASSUME NEW x \in Nat, NEW y \in Nat, x # y
    PROVE  x + 1 # y + 1
<1>1. QED
    OBVIOUS

LEMMA ShiftedOrder ==
    ASSUME NEW i \in Nat, NEW j \in Nat, NEW l \in Nat, j < l, NEW h \in Nat, NEW m \in Nat,
           h = (IF j < i THEN j ELSE j + 1), m = (IF l < i THEN l ELSE l + 1)
    PROVE  h < m
<1>1. QED
    OBVIOUS

LEMMA WaitsLess ==
    ASSUME NEW f \in Seq(Record), NEW q \in Seq(Sends), Waits(f, q), NEW i \in 1..Len(q),
           NEW r \in Record, NEW p \in Nat, p = q[i].position
    PROVE  Waits([f EXCEPT ![p + 1] = r], RemoveAt(q, i))
<1>1. PICK k \in 1..Len(f) : k = p + 1
    BY Typed DEF Waits
<1>2. PICK g : g = [f EXCEPT ![k] = r]
    OBVIOUS
<1>20. /\ g \in Seq(Record) /\ Len(g) = Len(f)
       /\ \A j \in 1..Len(f) : g[j] = IF j = k THEN r ELSE f[j]
    BY <1>2, ExceptSeq
<1>3. Len(q) \in Nat /\ \A j \in 1..Len(q) : q[j].position \in Nat
    BY SendIs
<1>40. PICK u : u = RemoveAt(q, i)
    OBVIOUS
<1>4. /\ u \in Seq(Sends) /\ Len(u) = Len(q) - 1
      /\ \A j \in 1..(i - 1) : u[j] = q[j]
      /\ \A j \in i..(Len(q) - 1) : u[j] = q[j + 1]
    <2>1. /\ RemoveAt(q, i) \in Seq(Sends) /\ Len(RemoveAt(q, i)) = Len(q) - 1
          /\ \A j \in 1..(i - 1) : RemoveAt(q, i)[j] = q[j]
          /\ \A j \in i..(Len(q) - 1) : RemoveAt(q, i)[j] = q[j + 1]
        BY Removed
    <2>2. QED
        BY <1>40, <2>1
<1>5. ASSUME NEW j \in 1..Len(u)
      PROVE  \E h \in 1..Len(q) : h # i /\ u[j] = q[h] /\ h = IF j < i THEN j ELSE j + 1
    <2>1. CASE j < i
        <3>1. j \in 1..(i - 1) /\ j \in 1..Len(q) /\ j # i
            BY <1>3, <1>4, <2>1
        <3>2. u[j] = q[j]
            BY <1>4, <3>1
        <3>3. QED
            BY <2>1, <3>1, <3>2
    <2>2. CASE ~(j < i)
        <3>1. j \in i..(Len(q) - 1) /\ j + 1 \in 1..Len(q) /\ j + 1 # i
            BY <1>3, <1>4, <2>2
        <3>2. u[j] = q[j + 1]
            BY <1>4, <3>1
        <3>3. QED
            BY <2>2, <3>1, <3>2
    <2>3. QED
        BY <2>1, <2>2
<1>6. ASSUME NEW h \in 1..Len(q), h # i
      PROVE  /\ q[h].position < Len(g)
             /\ g[q[h].position + 1] = Unmatched(q[h].begin, q[h].end, q[h].partner)
    <2>1. q[h].position # p
        BY <1>3, <1>6 DEF Waits
    <2>2. PICK l \in 1..Len(f) : l = q[h].position + 1
        <3>1. Len(f) \in Nat
            BY Typed
        <3>2. q[h].position < Len(f) /\ q[h].position \in Nat
            BY <1>3 DEF Waits
        <3>3. q[h].position + 1 \in 1..Len(f)
            BY <3>1, <3>2, NextIn
        <3>4. QED
            BY <3>3
    <2>3. l # k
        <3>1. q[h].position \in Nat
            BY <1>3
        <3>2. q[h].position + 1 # p + 1
            BY <2>1, <3>1, NextsDiffer
        <3>3. QED
            BY <1>1, <2>2, <3>2
    <2>4. g[l] = f[l]
        BY <1>20, <2>3
    <2>5. f[l] = Unmatched(q[h].begin, q[h].end, q[h].partner) /\ q[h].position < Len(f)
        BY <2>2 DEF Waits
    <2>6. QED
        BY <1>20, <2>2, <2>4, <2>5
<1>7. ASSUME NEW j \in 1..Len(u), NEW l \in 1..Len(u), j < l
      PROVE  u[j].position < u[l].position
    <2>1. PICK h \in 1..Len(q) : u[j] = q[h] /\ h = IF j < i THEN j ELSE j + 1
        BY <1>5
    <2>2. PICK m \in 1..Len(q) : u[l] = q[m] /\ m = IF l < i THEN l ELSE l + 1
        BY <1>5
    <2>3. h < m
        <3>1. i \in Nat /\ j \in Nat /\ l \in Nat /\ h \in Nat /\ m \in Nat /\ j < l
            BY <1>3, <1>4, <1>7
        <3>2. QED
            BY <2>1, <2>2, <3>1, ShiftedOrder
    <2>4. q[h].position < q[m].position
        BY <2>3 DEF Waits
    <2>5. QED
        BY <2>1, <2>2, <2>4
<1>8. ASSUME NEW j \in 1..Len(u)
      PROVE  /\ u[j].position < Len(g)
             /\ g[u[j].position + 1] = Unmatched(u[j].begin, u[j].end, u[j].partner)
    <2>1. PICK h \in 1..Len(q) : h # i /\ u[j] = q[h]
        BY <1>5
    <2>2. PICK y : y = q[h]
        OBVIOUS
    <2>3. /\ y.position < Len(g)
          /\ g[y.position + 1] = Unmatched(y.begin, y.end, y.partner)
        BY <1>6, <2>1, <2>2
    <2>4. u[j] = y
        BY <2>1, <2>2
    <2>5. QED
        BY <2>3, <2>4
<1>9. Waits(g, u)
    BY <1>7, <1>8 DEF Waits
<1>10. QED
    BY <1>1, <1>2, <1>40, <1>9

LEMMA ReplaceKeeps ==
    ASSUME NEW f \in Seq(Record), NEW p \in Nat, p < Len(f), NEW r \in Record,
           NEW b, NEW e, NEW t, f[p + 1] = Unmatched(b, e, t),
           r.type = "COMMUNICATION", r.begin = b, r.end = e, r.to = t
    PROVE  Keeps(f, [f EXCEPT ![p + 1] = r])
<1>1. PICK k \in 1..Len(f) : k = p + 1
    BY Typed
<1>2. PICK g : g = [f EXCEPT ![k] = r]
    OBVIOUS
<1>20. /\ g \in Seq(Record) /\ Len(g) = Len(f)
       /\ \A j \in 1..Len(f) : g[j] = IF j = k THEN r ELSE f[j]
    BY <1>2, ExceptSeq
<1>3. Kept(f[k], r)
    BY <1>1, UnmatchedIs DEF Kept
<1>4. \A j \in 1..Len(f) : Kept(f[j], g[j])
    BY <1>20, <1>3 DEF Kept
<1>5. Keeps(f, g)
    BY <1>20, <1>4, Typed DEF Keeps
<1>6. QED
    BY <1>1, <1>2, <1>5

LEMMA TheFirst ==
    ASSUME NEW S, S \subseteq Nat, NEW i \in FirstOf(S), NEW j \in FirstOf(S)
    PROVE  i = j
BY DEF FirstOf

QueuesTyped ==
    /\ send_queue \in [Task -> Seq(Sends)]
    /\ recv_queue \in [Task -> Seq(Recvs)]
    /\ foreign \in [Task -> Seq(Foreigns)]

MergeTyped ==
    /\ TraceTyped
    /\ phase \in {"merge", "join", "done", "aborted"}
    /\ parallel \in BOOLEAN
    /\ cursor \in [Task -> Nat]
    /\ \A t \in Task : cursor[t] <= Len(trace[t])
    /\ thread \in [Task -> Thread]
    /\ \A t \in Task : Good(thread[t])
    /\ enabled \in [Task -> BOOLEAN]
    /\ QueuesTyped
    /\ joined \in [Task -> Seq(Record)]

AllEnabled == \A t \in Task : enabled[t] = TRUE

\* The slots and the unmatched sends of a file wait for their states and communications.
Waiting1(th, q) == SlotKept(th) /\ Waits(File(th), q)

\* Thread th2 may be what the step makes of task u.
Moves(u, th2) ==
    /\ Good(th2)
    /\ AllEnabled /\ Waiting1(thread[u], send_queue[u]) =>
           Waiting1(th2, send_queue'[u]) /\ Keeps(File(thread[u]), File(th2))

LEMMA MovesSelf ==
    ASSUME NEW u \in Task, Good(thread[u]), send_queue'[u] = send_queue[u]
    PROVE  Moves(u, thread[u])
<1>1. Keeps(File(thread[u]), File(thread[u]))
    BY FileTyped, KeepsSelf
<1>2. QED
    BY <1>1 DEF Moves

LEMMA MovesOn ==
    ASSUME NEW u \in Task, NEW th2, NEW th3, Moves(u, th2), Traces(th2, th3),
           send_queue'[u] \in Seq(Sends)
    PROVE  Moves(u, th3)
<1>1. Good(th3)
    BY DEF Traces
<1>2. ASSUME AllEnabled, Waiting1(thread[u], send_queue[u])
      PROVE  Waiting1(th3, send_queue'[u]) /\ Keeps(File(thread[u]), File(th3))
    <2>1. Waiting1(th2, send_queue'[u]) /\ Keeps(File(thread[u]), File(th2))
        BY <1>2 DEF Moves
    <2>2. SlotKept(th3) /\ Grows(File(th2), File(th3))
        BY <2>1 DEF Waiting1, Traces
    <2>3. Waits(File(th3), send_queue'[u])
        BY <2>1, <2>2, GrowsExtends, WaitsOn DEF Waiting1
    <2>4. Keeps(File(thread[u]), File(th3))
        BY <2>1, <2>2, GrowsKeeps, KeepsOn
    <2>5. QED
        BY <2>2, <2>3, <2>4 DEF Waiting1
<1>3. QED
    BY <1>1, <1>2 DEF Moves

LEMMA CommunicationIs ==
    ASSUME NEW b \in Nat, NEW e \in Nat, NEW t \in Task, NEW rb \in Nat, NEW re \in Nat
    PROVE  /\ Communication(b, e, t, rb, re) \in Record
           /\ Communication(b, e, t, rb, re).type = "COMMUNICATION"
           /\ Communication(b, e, t, rb, re).begin = b
           /\ Communication(b, e, t, rb, re).end = e
           /\ Communication(b, e, t, rb, re).to = t
BY DEF Communication, Record

LEMMA HalvesAre ==
    ASSUME NEW b \in Nat, NEW e \in Nat, NEW t \in Task, NEW tag \in Tags
    PROVE  Unmatched(b, e, t) \in Record /\ Pending(b, e, t, tag) \in Record
BY DEF Unmatched, Pending, Record

LEMMA RecvIs ==
    ASSUME NEW r \in Recvs
    PROVE  r.begin \in Nat /\ r.end \in Nat
BY DEF Recvs

LEMMA SendParts ==
    ASSUME NEW s \in Sends
    PROVE  s.begin \in Nat /\ s.end \in Nat /\ s.position \in Nat /\ s.partner \in Task
           /\ s.tag \in Tags
BY DEF Sends

-----------------------------------------------------------------------------
(* The two halves                                                           *)

\* Thread th2 is th with record r, if it is recorded.
AppendsTo(th, th2, on, r) ==
    /\ Good(th2)
    /\ on => File(th2) = Append(File(th), r)
    /\ ~on => File(th2) = File(th)
    /\ SlotKept(th) => SlotKept(th2)

LEMMA AppendsRecord ==
    ASSUME NEW th, Good(th), NEW on \in BOOLEAN, NEW r \in Record
    PROVE  AppendsTo(th, Appends(th, on, r), on, r)
<1>1. PICK th2 : th2 = Appends(th, on, r)
    OBVIOUS
<1>2. /\ Good(th2) /\ File(th2) = IF on THEN Append(File(th), r) ELSE File(th)
      /\ SlotKept(th) => SlotKept(th2)
    BY <1>1, AppendsGood
<1>3. AppendsTo(th, th2, on, r)
    BY <1>2 DEF AppendsTo
<1>4. QED
    BY <1>1, <1>3

LEMMA AppendsMoves ==
    ASSUME NEW t \in Task, NEW th, Moves(t, th), NEW on \in BOOLEAN, NEW r \in Record,
           send_queue'[t] \in Seq(Sends)
    PROVE  Moves(t, Appends(th, on, r))
<1>1. PICK th2 : th2 = Appends(th, on, r)
    OBVIOUS
<1>2. Good(th)
    BY DEF Moves
<1>30. AppendsTo(th, th2, on, r)
    BY <1>1, <1>2, AppendsRecord
<1>3. /\ Good(th2) /\ (on => File(th2) = Append(File(th), r))
      /\ ~on => File(th2) = File(th)
      /\ SlotKept(th) => SlotKept(th2)
    BY <1>30 DEF AppendsTo
<1>4. File(th) \in Seq(Record)
    BY <1>2, FileTyped
<1>5. Extends(File(th), File(th2)) /\ Keeps(File(th), File(th2))
    <2>1. CASE on
        BY <1>3, <1>4, <2>1, AppendExtends, AppendKeeps
    <2>2. CASE ~on
        BY <1>3, <1>4, <2>2, KeepsSelf, GrowsSelf, GrowsExtends
    <2>3. QED
        BY <2>1, <2>2
<1>6. ASSUME AllEnabled, Waiting1(thread[t], send_queue[t])
      PROVE  Waiting1(th2, send_queue'[t]) /\ Keeps(File(thread[t]), File(th2))
    <2>1. Waiting1(th, send_queue'[t]) /\ Keeps(File(thread[t]), File(th))
        BY <1>6 DEF Moves
    <2>2. Waits(File(th2), send_queue'[t])
        BY <1>5, <2>1, WaitsOn DEF Waiting1
    <2>3. QED
        BY <1>3, <1>5, <2>1, <2>2, KeepsOn DEF Waiting1
<1>7. QED
    BY <1>1, <1>3, <1>6 DEF Moves

\* A queued send waits at the end of the file it is written to.
LEMMA QueuedMoves ==
    ASSUME NEW t \in Task, enabled[t] \in BOOLEAN, send_queue[t] \in Seq(Sends),
           NEW th, Traces(thread[t], th),
           NEW s \in Sends, s.position = Position(th.wfb),
           send_queue'[t] = Append(send_queue[t], s),
           NEW r \in Record, r = Unmatched(s.begin, s.end, s.partner)
    PROVE  Moves(t, Appends(th, enabled[t], r))
<1>0. PICK on \in BOOLEAN : on = enabled[t]
    OBVIOUS
<1>1. PICK th2 : th2 = Appends(th, on, r)
    OBVIOUS
<1>2. Good(th)
    BY DEF Traces
<1>30. AppendsTo(th, th2, on, r)
    BY <1>1, <1>2, AppendsRecord
<1>3. /\ Good(th2) /\ (on => File(th2) = Append(File(th), r))
      /\ ~on => File(th2) = File(th)
      /\ SlotKept(th) => SlotKept(th2)
    BY <1>30 DEF AppendsTo
<1>4. File(th) \in Seq(Record) /\ s.position = Len(File(th))
    BY <1>2, FileTyped
<1>5. ASSUME AllEnabled, Waiting1(thread[t], send_queue[t])
      PROVE  Waiting1(th2, send_queue'[t]) /\ Keeps(File(thread[t]), File(th2))
    <2>1. File(th2) = Append(File(th), r)
        BY <1>0, <1>3, <1>5 DEF AllEnabled
    <2>2. SlotKept(th) /\ Grows(File(thread[t]), File(th))
        BY <1>5 DEF Waiting1, Traces
    <2>3. Waits(File(th), send_queue[t])
        BY <1>5, <2>2, GrowsExtends, WaitsOn DEF Waiting1
    <2>4. Waits(Append(File(th), r), Append(send_queue[t], s))
        BY <1>4, <2>3, WaitsMore
    <2>5. Keeps(File(thread[t]), File(th)) /\ Keeps(File(th), File(th2))
        BY <1>4, <2>1, <2>2, GrowsKeeps, AppendKeeps
    <2>6. QED
        BY <1>3, <2>1, <2>2, <2>4, <2>5, KeepsOn DEF Waiting1
<1>6. Moves(t, th2)
    BY <1>3, <1>5 DEF Moves
<1>7. QED
    BY <1>0, <1>1, <1>6

Converts ==
    /\ thread' \in [Task -> Thread]
    /\ \A u \in Task : Moves(u, thread'[u])
    /\ QueuesTyped'

LEMMA OneMoves ==
    ASSUME NEW c \in [Task -> Thread], NEW t \in Task, NEW th,
           thread' = [c EXCEPT ![t] = th],
           \A u \in Task : Moves(u, c[u]), Moves(t, th), QueuesTyped'
    PROVE  Converts
<1>1. th \in Thread
    BY DEF Moves, Good
<1>2. thread' \in [Task -> Thread] /\ \A u \in Task : thread'[u] = IF u = t THEN th ELSE c[u]
    BY <1>1
<1>3. QED
    BY <1>2 DEF Converts

LEMMA SendConverts ==
    ASSUME MergeTyped, NEW t \in Task, NEW th, Traces(thread[t], th),
           NEW begin \in Nat, NEW end \in Nat,
           trace[t][end].target \in Task, trace[t][end].tag \in Tags,
           SendHalf(t, th, begin, end)
    PROVE  Converts
<1>1. PICK to \in Task : to = trace[t][end].target
    OBVIOUS
<1>2. PICK tag \in Tags : tag = trace[t][end].tag
    OBVIOUS
<1>3. /\ QueuesTyped /\ send_queue[t] \in Seq(Sends) /\ enabled[t] \in BOOLEAN
      /\ thread \in [Task -> Thread] /\ \A u \in Task : Good(thread[u])
      /\ OneEnabled(t, to) \in BOOLEAN
    BY DEF MergeTyped, QueuesTyped, OneEnabled
<1>4. Position(th.wfb) \in Nat
    BY FileTyped DEF Traces
<1>5. CASE /\ send_queue' = [send_queue EXCEPT ![t] = Append(@,
                 [begin |-> begin, end |-> end, position |-> Position(th.wfb),
                  partner |-> to, tag |-> tag])]
           /\ thread' = [thread EXCEPT ![t] = Appends(th, enabled[t], Unmatched(begin, end, to))]
           /\ UNCHANGED <<recv_queue, foreign>>
    <2>1. PICK s \in Sends : s = [begin |-> begin, end |-> end, position |-> Position(th.wfb),
                                  partner |-> to, tag |-> tag]
        BY <1>4 DEF Sends
    <2>2. send_queue' = [send_queue EXCEPT ![t] = Append(@, s)]
        BY <1>5, <2>1
    <2>3. Append(send_queue[t], s) \in Seq(Sends)
        BY <1>3, Added
    <2>4. /\ QueuesTyped' /\ send_queue'[t] = Append(send_queue[t], s)
          /\ \A u \in Task : u # t => send_queue'[u] = send_queue[u]
        BY <1>3, <1>5, <2>2, <2>3 DEF QueuesTyped
    <2>5. PICK r \in Record : r = Unmatched(begin, end, to)
        BY HalvesAre
    <2>6. r = Unmatched(s.begin, s.end, s.partner) /\ s.position = Position(th.wfb)
        BY <2>1, <2>5
    <2>7. Moves(t, Appends(th, enabled[t], r))
        BY <1>3, <2>4, <2>6, QueuedMoves
    <2>8. PICK th2 : th2 = Appends(th, enabled[t], r)
        OBVIOUS
    <2>9. th2 \in Thread
        BY <2>7, <2>8 DEF Moves, Good
    <2>10. thread' = [thread EXCEPT ![t] = th2]
        BY <1>5, <2>5, <2>8
    <2>11. ASSUME NEW u \in Task
           PROVE  Moves(u, thread'[u])
        <3>1. CASE u = t
            BY <1>3, <2>7, <2>8, <2>10, <3>1
        <3>2. CASE u # t
            BY <1>3, <2>4, <2>10, <3>2, MovesSelf
        <3>3. QED
            BY <3>1, <3>2
    <2>12. QED
        BY <1>3, <2>4, <2>9, <2>10, <2>11 DEF Converts
<1>6. ASSUME NEW r \in Record, NEW on \in BOOLEAN, UNCHANGED send_queue, QueuesTyped',
             thread' = [thread EXCEPT ![t] = Appends(th, on, r)]
      PROVE  Converts
    <2>1. send_queue'[t] \in Seq(Sends)
        BY <1>3, <1>6
    <2>2. \A u \in Task : Moves(u, thread[u])
        BY <1>3, <1>6, MovesSelf
    <2>3. Moves(t, th)
        BY <2>1, <2>2, MovesOn
    <2>4. Moves(t, Appends(th, on, r))
        BY <2>1, <2>3, AppendsMoves
    <2>5. QED
        BY <1>3, <1>6, <2>2, <2>4, OneMoves
<1>7. CASE /\ \E i \in FirstOf(RecvsFor(to, t, tag)) :
                 /\ recv_queue' = [recv_queue EXCEPT ![to] = RemoveAt(@, i)]
                 /\ thread' = [thread EXCEPT ![t] = Appends(th, OneEnabled(t, to),
                       Communication(begin, end, to, recv_queue[to][i].begin,
                                     recv_queue[to][i].end))]
           /\ UNCHANGED <<send_queue, foreign>>
    <2>1. PICK i \in FirstOf(RecvsFor(to, t, tag)) :
                 /\ recv_queue' = [recv_queue EXCEPT ![to] = RemoveAt(@, i)]
                 /\ thread' = [thread EXCEPT ![t] = Appends(th, OneEnabled(t, to),
                       Communication(begin, end, to, recv_queue[to][i].begin,
                                     recv_queue[to][i].end))]
        BY <1>7
    <2>2. recv_queue[to] \in Seq(Recvs)
        BY <1>3 DEF QueuesTyped
    <2>3. i \in 1..Len(recv_queue[to])
        <3>1. i \in DOMAIN recv_queue[to]
            BY DEF FirstOf, RecvsFor
        <3>2. QED
            BY <2>2, <3>1, Typed
    <2>4. RemoveAt(recv_queue[to], i) \in Seq(Recvs)
        BY <2>2, <2>3, Removed
    <2>5. recv_queue[to][i].begin \in Nat /\ recv_queue[to][i].end \in Nat
        BY <2>2, <2>3, Typed, RecvIs
    <2>6. PICK r \in Record : r = Communication(begin, end, to, recv_queue[to][i].begin,
                                                recv_queue[to][i].end)
        BY <2>5, CommunicationIs
    <2>7. QueuesTyped'
        BY <1>3, <1>7, <2>1, <2>4 DEF QueuesTyped
    <2>8. QED
        BY <1>3, <1>6, <1>7, <2>1, <2>6, <2>7
<1>8. CASE /\ thread' = [thread EXCEPT ![t] = Appends(th, OneEnabled(t, to),
                                                      Pending(begin, end, to, tag))]
           /\ UNCHANGED queues
    <2>1. PICK r \in Record : r = Pending(begin, end, to, tag)
        BY HalvesAre
    <2>2. QueuesTyped' /\ UNCHANGED send_queue
        BY <1>3, <1>8 DEF QueuesTyped, queues
    <2>3. QED
        BY <1>3, <1>6, <1>8, <2>1, <2>2
<1>9. QED
    BY <1>1, <1>2, <1>5, <1>7, <1>8 DEF SendHalf

\* Every thread may be what the step makes of it, when function c is the threads.
AllMove(c) == c \in [Task -> Thread] /\ \A u \in Task : Moves(u, c[u])

\* What the receive half of a message does besides the states.
Received(c) == AllMove(c) /\ QueuesTyped' /\ phase' \in {"merge", "aborted"}
               /\ ((AllEnabled /\ \A u \in Task : Waiting1(thread[u], send_queue[u]))
                      => phase' = "merge")

MatchesOf(from, t, tag) ==
    {i \in FirstOf(SendsFor(from, t, tag)) : isTaskInMyGroup(t, from)}

LEMMA MatchIs ==
    ASSUME NEW from \in Task, NEW t \in Task, NEW tag, send_queue[from] \in Seq(Sends),
           NEW i \in MatchesOf(from, t, tag)
    PROVE  /\ i \in 1..Len(send_queue[from]) /\ send_queue[from][i] \in Sends
           /\ send_queue[from][i].partner = t
           /\ MatchesOf(from, t, tag) = {i}
<1>1. DOMAIN send_queue[from] = 1..Len(send_queue[from]) /\ Len(send_queue[from]) \in Nat
    BY Typed
<1>2. SendsFor(from, t, tag) \subseteq Nat
    BY <1>1 DEF SendsFor
<1>3. /\ i \in FirstOf(SendsFor(from, t, tag)) /\ i \in SendsFor(from, t, tag)
      /\ \A j \in MatchesOf(from, t, tag) : j \in FirstOf(SendsFor(from, t, tag))
    BY DEF MatchesOf, FirstOf
<1>4. \A j \in MatchesOf(from, t, tag) : j = i
    BY <1>2, <1>3, TheFirst
<1>5. i \in 1..Len(send_queue[from]) /\ send_queue[from][i].partner = t
    BY <1>1, <1>3 DEF SendsFor
<1>6. MatchesOf(from, t, tag) = {i}
    BY <1>4
<1>7. send_queue[from][i] \in Sends
    BY <1>5, Typed
<1>8. QED
    BY <1>5, <1>6, <1>7

\* The threads when the communication is written over send s.
Overwritten(from, t, s, begin, end) ==
    [thread EXCEPT ![from].wfb =
        WriteAt(@, Communication(s.begin, s.end, t, begin, end), s.position)]

Written(from, t, tag) ==
    {i \in MatchesOf(from, t, tag) : WritesAt(from, t, send_queue[from][i])}
FirstWritten(from, t, tag) == send_queue[from][CHOOSE i \in Written(from, t, tag) : TRUE]

CommunicatedAs(t, begin, end, from, tag) ==
    Communicated(t, begin, end) =
        IF Written(from, t, tag) = {} THEN thread
        ELSE Overwritten(from, t, FirstWritten(from, t, tag), begin, end)

LEMMA CommunicatedIs ==
    ASSUME NEW t, NEW begin, NEW end
    PROVE  CommunicatedAs(t, begin, end, trace[t][end].target, trace[t][end].tag)
<1> DEFINE from == trace[t][end].target
           tag == trace[t][end].tag
           matches == {i \in Matches(t, end) : WritesAt(from, t, send_queue[from][i])}
<1>1. Communicated(t, begin, end) =
         IF matches = {} THEN thread
         ELSE Overwritten(from, t, send_queue[from][CHOOSE i \in matches : TRUE], begin, end)
    BY DEF Communicated, Overwritten
<1>2. matches = Written(from, t, tag)
    BY DEF Written, Matches, MatchesOf
<1> HIDE DEF matches
<1>3. QED
    BY <1>1, <1>2 DEF CommunicatedAs, FirstWritten

LEMMA CommunicatedNone ==
    ASSUME NEW t, NEW begin, NEW end, NEW from, NEW tag,
           CommunicatedAs(t, begin, end, from, tag), Written(from, t, tag) = {}
    PROVE  Communicated(t, begin, end) = thread
BY DEF CommunicatedAs

LEMMA CommunicatedOver ==
    ASSUME NEW t, NEW begin, NEW end, NEW from, NEW tag, NEW i, NEW s,
           CommunicatedAs(t, begin, end, from, tag), Written(from, t, tag) = {i},
           s = send_queue[from][i]
    PROVE  Communicated(t, begin, end) = Overwritten(from, t, s, begin, end)
<1>1. (CHOOSE j \in Written(from, t, tag) : TRUE) = i /\ Written(from, t, tag) # {}
    OBVIOUS
<1>2. FirstWritten(from, t, tag) = s
    BY <1>1 DEF FirstWritten
<1>3. QED
    BY <1>1, <1>2 DEF CommunicatedAs

\* The communication is written over the unmatched send.
CommunicationOf(r, s, t) ==
    /\ r \in Record /\ r.type = "COMMUNICATION"
    /\ r.begin = s.begin /\ r.end = s.end /\ r.to = t

LEMMA CommunicationOfIs ==
    ASSUME NEW s \in Sends, NEW t \in Task, NEW begin \in Nat, NEW end \in Nat
    PROVE  CommunicationOf(Communication(s.begin, s.end, t, begin, end), s, t)
<1>1. s.begin \in Nat /\ s.end \in Nat
    BY SendParts
<1>2. QED
    BY <1>1 DEF Communication, CommunicationOf, Record

LEMMA ReplacedMoves ==
    ASSUME NEW from \in Task, NEW t \in Task, Good(thread[from]),
           send_queue[from] \in Seq(Sends), NEW i \in 1..Len(send_queue[from]),
           NEW s, s = send_queue[from][i], s.partner = t,
           send_queue'[from] = RemoveAt(send_queue[from], i),
           NEW p \in Nat, p = s.position, CanWriteAt(thread[from].wfb, p),
           NEW r \in Record, CommunicationOf(r, s, t)
    PROVE  Moves(from, [thread[from] EXCEPT !.wfb = WriteAt(@, r, p)])
<1>4. PICK th : th = thread[from]
    OBVIOUS
<1>5. PICK th2 : th2 = [th EXCEPT !.wfb = WriteAt(@, r, p)]
    OBVIOUS
<1>50. Good(th) /\ CanWriteAt(th.wfb, p)
    BY <1>4
<1>6. /\ Good(th2) /\ SameOpen(th, th2)
      /\ p < Len(File(th)) /\ File(th2) = [File(th) EXCEPT ![p + 1] = r]
    BY <1>5, <1>50, RecordReplaced
<1>7. PICK f \in Seq(Record) : f = File(th)
    BY <1>50, FileTyped
<1>8. ASSUME AllEnabled, Waiting1(thread[from], send_queue[from])
      PROVE  Waiting1(th2, send_queue'[from]) /\ Keeps(File(thread[from]), File(th2))
    <2>1. Waits(f, send_queue[from]) /\ SlotKept(th)
        BY <1>4, <1>7, <1>8 DEF Waiting1
    <2>2. p = send_queue[from][i].position
        OBVIOUS
    <2>3. Waits([f EXCEPT ![p + 1] = r], RemoveAt(send_queue[from], i))
        BY <2>1, <2>2, WaitsLess
    <2>4. f[p + 1] = Unmatched(s.begin, s.end, t)
        BY <2>1 DEF Waits
    <2>5. Keeps(f, [f EXCEPT ![p + 1] = r])
        <3>1. PICK b, e : b = s.begin /\ e = s.end
            OBVIOUS
        <3>2. r.type = "COMMUNICATION" /\ r.begin = b /\ r.end = e /\ r.to = t
            BY <3>1 DEF CommunicationOf
        <3>3. f[p + 1] = Unmatched(b, e, t) /\ p < Len(f)
            BY <1>6, <1>7, <2>4, <3>1
        <3>4. QED
            BY <3>2, <3>3, ReplaceKeeps
    <2>6. SlotKept(th2)
        <3>1. th2.open = th.open
            BY <1>6 DEF SameOpen
        <3>2. CASE State_Excluded(th.open.value)
            BY <3>1, <3>2 DEF SlotKept
        <3>3. CASE ~State_Excluded(th.open.value)
            <4>1. f[th.open.at + 1] = UnfinishedState
                BY <1>7, <2>1, <3>3 DEF SlotKept
            <4>2. th.open.at \in Nat /\ th.open.at < Len(f)
                BY <1>50, <1>7, Parts
            <4>3. PICK k \in 1..Len(f) : k = th.open.at + 1
                BY SMTT(40), <4>2, Typed
            <4>4. PICK l \in 1..Len(f) : l = p + 1
                BY <1>6, <1>7, Typed
            <4>5. l # k
                BY <2>4, <4>1, <4>3, <4>4, UnmatchedIs
            <4>6. [f EXCEPT ![l] = r][k] = f[k]
                BY <4>5, ExceptSeq
            <4>7. File(th2)[th2.open.at + 1] = UnfinishedState
                BY <1>6, <1>7, <3>1, <4>1, <4>3, <4>4, <4>6
            <4>8. QED
                BY <4>7 DEF SlotKept
        <3>4. QED
            BY <3>2, <3>3
    <2>7. QED
        BY <1>4, <1>6, <1>7, <2>3, <2>5, <2>6 DEF Waiting1
<1>9. Moves(from, th2)
    BY <1>6, <1>8 DEF Moves
<1>10. QED
    BY <1>4, <1>5, <1>9

LEMMA ReceiveConverts ==
    ASSUME MergeTyped, phase = "merge", NEW t \in Task, NEW begin \in Nat, NEW end \in Nat,
           trace[t][end].target \in Task, trace[t][end].tag \in Tags,
           NEW target \in Partners, NEW tag \in Tags,
           ReceiveHalf(t, begin, end, target, tag)
    PROVE  Received(Communicated(t, begin, end))
<1>1. PICK from \in Task : from = trace[t][end].target
    OBVIOUS
<1>2. PICK tag0 \in Tags : tag0 = trace[t][end].tag
    OBVIOUS
<1>3. /\ QueuesTyped /\ send_queue[from] \in Seq(Sends)
      /\ thread \in [Task -> Thread] /\ \A u \in Task : Good(thread[u])
    BY DEF MergeTyped, QueuesTyped
<1>4. Matches(t, end) = MatchesOf(from, t, tag0)
    BY <1>1, <1>2 DEF Matches, MatchesOf
<1>40. CommunicatedAs(t, begin, end, from, tag0)
    BY <1>1, <1>2, CommunicatedIs
<1>5. ASSUME MatchesOf(from, t, tag0) = {}, UNCHANGED <<send_queue, phase>>, QueuesTyped'
      PROVE  Received(Communicated(t, begin, end))
    <2>1. Communicated(t, begin, end) = thread
        <3>1. Written(from, t, tag0) = {}
            BY <1>5 DEF Written
        <3>2. QED
            BY <1>40, <3>1, CommunicatedNone
    <2>2. \A u \in Task : Moves(u, thread[u])
        BY <1>3, <1>5, MovesSelf
    <2>3. QED
        BY <1>3, <1>5, <2>1, <2>2 DEF Received, AllMove
<1>6. CASE /\ Matches(t, end) = {}
           /\ recv_queue' = [recv_queue EXCEPT ![t] = Append(@,
                 [begin |-> begin, end |-> end, partner |-> target, tag |-> tag])]
           /\ UNCHANGED <<send_queue, foreign, phase>>
    <2>1. PICK r \in Recvs : r = [begin |-> begin, end |-> end, partner |-> target, tag |-> tag]
        BY DEF Recvs
    <2>2. Append(recv_queue[t], r) \in Seq(Recvs)
        BY <1>3, Added DEF QueuesTyped
    <2>3. QueuesTyped'
        BY <1>3, <1>6, <2>1, <2>2 DEF QueuesTyped
    <2>4. QED
        BY <1>4, <1>5, <1>6, <2>3
<1>7. CASE /\ ~isTaskInMyGroup(t, from)
           /\ foreign' = [foreign EXCEPT ![from] = Append(@,
                 [begin |-> begin, end |-> end, recver |-> t, tag |-> tag0])]
           /\ UNCHANGED <<send_queue, recv_queue, phase>>
    <2>1. PICK r \in Foreigns : r = [begin |-> begin, end |-> end, recver |-> t, tag |-> tag0]
        BY DEF Foreigns
    <2>2. Append(foreign[from], r) \in Seq(Foreigns)
        BY <1>3, Added DEF QueuesTyped
    <2>3. QueuesTyped'
        BY <1>3, <1>7, <2>1, <2>2 DEF QueuesTyped
    <2>4. MatchesOf(from, t, tag0) = {}
        BY <1>7 DEF MatchesOf
    <2>5. QED
        BY <1>5, <1>7, <2>3, <2>4
<1>8. CASE /\ \E i \in Matches(t, end) :
                /\ send_queue' = [send_queue EXCEPT ![from] = RemoveAt(@, i)]
                /\ phase' = IF OneEnabled(from, t) /\ ~WritesAt(from, t, send_queue[from][i])
                            THEN "aborted" ELSE phase
           /\ UNCHANGED <<recv_queue, foreign>>
    <2>1. PICK i \in MatchesOf(from, t, tag0) :
                /\ send_queue' = [send_queue EXCEPT ![from] = RemoveAt(@, i)]
                /\ phase' = IF OneEnabled(from, t) /\ ~WritesAt(from, t, send_queue[from][i])
                            THEN "aborted" ELSE phase
        BY <1>4, <1>8
    <2>2. /\ i \in 1..Len(send_queue[from]) /\ send_queue[from][i] \in Sends
          /\ send_queue[from][i].partner = t
          /\ MatchesOf(from, t, tag0) = {i}
        BY <1>3, MatchIs
    <2>3. PICK s \in Sends : s = send_queue[from][i] /\ s.partner = t
        BY <2>2
    <2>4. RemoveAt(send_queue[from], i) \in Seq(Sends)
        BY <1>3, <2>2, Removed
    <2>5. /\ QueuesTyped' /\ send_queue'[from] = RemoveAt(send_queue[from], i)
          /\ \A u \in Task : u # from => send_queue'[u] = send_queue[u]
        BY <1>3, <1>8, <2>1, <2>4 DEF QueuesTyped
    <2>6. ASSUME AllEnabled, \A u \in Task : Waiting1(thread[u], send_queue[u])
          PROVE  WritesAt(from, t, s)
        <3>1. Waits(File(thread[from]), send_queue[from])
            BY <2>6 DEF Waiting1
        <3>2. s.position < Len(File(thread[from])) /\ s.position \in Nat
            BY <2>2, <2>3, <3>1, SendParts DEF Waits
        <3>3. CanWriteAt(thread[from].wfb, s.position)
            <4>1. Good(thread[from]) /\ File(thread[from]) = Records(thread[from].wfb)
                BY <1>3 DEF File
            <4>2. thread[from].wfb \in WfbOf(Record) /\ Sound(thread[from].wfb)
                BY <4>1, Parts
            <4>3. PICK r \in Record : TRUE
                BY RecordsAre
            <4>4. QED
                BY <3>2, <4>1, <4>2, <4>3, WriteAtReplaces
        <3>4. enabled[from] = TRUE
            BY <2>6 DEF AllEnabled
        <3>5. QED
            BY <3>3, <3>4 DEF WritesAt, OneEnabled
    <2>7. /\ phase' \in {"merge", "aborted"}
          /\ (AllEnabled /\ \A u \in Task : Waiting1(thread[u], send_queue[u]))
                => phase' = "merge"
        BY <2>1, <2>3, <2>6
    <2>8. CASE ~WritesAt(from, t, s)
        <3>1. Communicated(t, begin, end) = thread
            <4>1. Written(from, t, tag0) = {}
                BY <2>2, <2>3, <2>8 DEF Written
            <4>2. QED
                BY <1>40, <4>1, CommunicatedNone
        <3>2. ASSUME NEW u \in Task
              PROVE  Moves(u, thread[u])
            <4>1. CASE AllEnabled /\ \A v \in Task : Waiting1(thread[v], send_queue[v])
                BY <2>6, <2>8, <4>1
            <4>2. CASE u # from
                BY <1>3, <2>5, <4>2, MovesSelf
            <4>3. CASE u = from /\ ~(AllEnabled /\ Waiting1(thread[u], send_queue[u]))
                BY <1>3, <4>3 DEF Moves
            <4>4. CASE u = from /\ AllEnabled /\ Waiting1(thread[u], send_queue[u])
                <5>1. Waits(File(thread[from]), send_queue[from])
                    BY <4>4 DEF Waiting1
                <5>2. s.position < Len(File(thread[from])) /\ s.position \in Nat
                    BY <2>2, <2>3, <5>1, SendParts DEF Waits
                <5>3. CanWriteAt(thread[from].wfb, s.position)
                    <6>1. Good(thread[from]) /\ File(thread[from]) = Records(thread[from].wfb)
                        BY <1>3 DEF File
                    <6>2. thread[from].wfb \in WfbOf(Record) /\ Sound(thread[from].wfb)
                        BY <6>1, Parts
                    <6>3. PICK r \in Record : TRUE
                        BY RecordsAre
                    <6>4. QED
                        BY <5>2, <6>1, <6>2, <6>3, WriteAtReplaces
                <5>4. QED
                    BY <2>8, <4>4, <5>3 DEF AllEnabled, WritesAt, OneEnabled
            <4>5. QED
                BY <4>2, <4>3, <4>4
        <3>3. QED
            BY <1>3, <2>5, <2>7, <3>1, <3>2 DEF Received, AllMove
    <2>9. CASE WritesAt(from, t, s)
        <3>1. Communicated(t, begin, end) = Overwritten(from, t, s, begin, end)
            <4>1. Written(from, t, tag0) = {i}
                BY <2>2, <2>3, <2>9 DEF Written
            <4>2. QED
                BY <1>40, <2>3, <4>1, CommunicatedOver
        <3>2. PICK p \in Nat : p = s.position
            BY SendParts
        <3>3. PICK r : r = Communication(s.begin, s.end, t, begin, end)
            OBVIOUS
        <3>30. s.begin \in Nat /\ s.end \in Nat
            BY SendParts
        <3>31. r \in Record /\ CommunicationOf(r, s, t)
            BY <3>3, CommunicationOfIs DEF CommunicationOf
        <3>4. PICK th2 : th2 = [thread[from] EXCEPT !.wfb = WriteAt(@, r, p)]
            OBVIOUS
        <3>40. Communicated(t, begin, end) = [thread EXCEPT ![from] = th2]
            BY <1>3, <3>1, <3>2, <3>3, <3>4 DEF Overwritten
        <3>41. CanWriteAt(thread[from].wfb, p)
            BY <2>9, <3>2 DEF WritesAt
        <3>5. Moves(from, th2)
            BY <1>3, <2>2, <2>3, <2>5, <3>2, <3>31, <3>4, <3>41, ReplacedMoves
        <3>6. th2 \in Thread
            BY <3>5 DEF Moves, Good
        <3>7. PICK c : c = Communicated(t, begin, end)
            OBVIOUS
        <3>8. c \in [Task -> Thread] /\ \A u \in Task : c[u] = IF u = from THEN th2 ELSE thread[u]
            BY <1>3, <3>40, <3>6, <3>7
        <3>9. ASSUME NEW u \in Task, u # from
              PROVE  Moves(u, thread[u])
            BY <1>3, <2>5, <3>9, MovesSelf
        <3>10. AllMove(c)
            BY <3>5, <3>8, <3>9 DEF AllMove
        <3>11. QED
            BY <2>5, <2>7, <3>7, <3>10 DEF Received
    <2>10. QED
        BY <2>8, <2>9
<1>9. QED
    BY <1>1, <1>2, <1>6, <1>7, <1>8 DEF ReceiveHalf

AllWait == AllEnabled /\ \A u \in Task : Waiting1(thread[u], send_queue[u])

\* What reading an event keeps.
Progress ==
    /\ phase = "merge" /\ TraceTyped' /\ UNCHANGED traceVars
    /\ parallel' = parallel /\ joined' = joined
    /\ cursor' \in [Task -> Nat]
    /\ \A u \in Task : cursor'[u] <= Len(trace'[u])

\* What the handlers do with the files, the queues and the phase.
Handles ==
    /\ Progress /\ Converts
    /\ phase' \in {"merge", "aborted"}
    /\ AllWait => phase' = "merge"
    /\ enabled' \in [Task -> BOOLEAN]

\* An event of task t.
IsCurrent(t, types) ==
    /\ Current(t) \in Events /\ Current(t).type \in types
    /\ Now(t) \in Nat /\ Now(t) \in 1..Len(trace[t]) /\ Current(t) = trace[t][Now(t)]
    /\ Len(trace[t]) \in Nat

LEMMA ReadsIs ==
    ASSUME MergeTyped, NEW t \in Task, NEW types, Reads(t, types)
    PROVE  IsCurrent(t, types) /\ Progress
<1>1. trace[t] \in Seq(Events) /\ Len(trace[t]) \in Nat /\ cursor[t] \in Nat
    BY Typed DEF MergeTyped, TraceTyped
<1>2. /\ phase = "merge" /\ UNCHANGED traceVars /\ parallel' = parallel /\ joined' = joined
      /\ cursor[t] < Len(trace[t]) /\ cursor' = [cursor EXCEPT ![t] = @ + 1]
      /\ Current(t).type \in types
    BY DEF Reads
<1>3. Now(t) \in 1..Len(trace[t]) /\ Now(t) \in Nat
    BY <1>1, <1>2 DEF Now
<1>4. Current(t) \in Events
    BY <1>1, <1>3, Typed DEF Current
<1>5. TraceTyped'
    BY <1>2 DEF MergeTyped, TraceTyped, traceVars, mpiVars
<1>6. cursor' \in [Task -> Nat] /\ \A u \in Task : cursor'[u] <= Len(trace'[u])
    <2>1. trace' = trace /\ cursor \in [Task -> Nat]
        BY <1>2 DEF traceVars, MergeTyped
    <2>2. ASSUME NEW u \in Task
          PROVE  cursor'[u] \in Nat /\ cursor'[u] <= Len(trace[u])
        <3>1. CASE u = t
            BY <1>1, <1>2, <2>1, <3>1
        <3>2. CASE u # t
            BY <1>2, <2>1, <3>2 DEF MergeTyped
        <3>3. QED
            BY <3>1, <3>2
    <2>3. QED
        BY <1>1, <1>2, <2>1, <2>2
<1>7. QED
    BY <1>1, <1>2, <1>3, <1>4, <1>5, <1>6 DEF IsCurrent, Progress, Current

\* What an event of each kind carries.
LEMMA EventIs ==
    ASSUME NEW e \in Events
    PROVE  /\ e.type \in {"SEND", "ISEND", "SENDRECV"} => e.target \in Task /\ e.tag \in Tags
           /\ e.type = "RECV" => e.target \in Partners /\ e.tag \in Tags
           /\ e.type = "RECV" /\ e.value = "END" => e.target \in Task
           /\ e.type = "IRECVED" => e.target \in Task /\ e.tag \in Tags
           /\ e.type = "PERSIST_REQ" => e.target \in Partners /\ e.tag \in Tags
           /\ e.type = "PERSIST_REQ" /\ e.value = "ISEND" => e.target \in Task
BY DEF Events, Partners

LEMMA MarkedTraces ==
    ASSUME MergeTyped, NEW t \in Task, Current(t).type \in DOMAIN StateOf, NEW th, Good(th)
    PROVE  Traces(th, Marked(t, th))
<1>1. cursor[t] \in Nat /\ enabled[t] \in BOOLEAN
    BY DEF MergeTyped
<1>2. PICK th2 : th2 = Marked(t, th)
    OBVIOUS
<1>3. Traces(th, th2)
    BY <1>1, <1>2, MarkedGood
<1>4. QED
    BY <1>2, <1>3

LEMMA SendSetTraces ==
    ASSUME NEW th0, NEW th, Traces(th0, th), NEW n \in Nat
    PROVE  Traces(th0, [th EXCEPT !.Send_Rec = n])
<1>1. PICK th2 : th2 = [th EXCEPT !.Send_Rec = n]
    OBVIOUS
<1>2. Good(th)
    BY DEF Traces
<1>3. Traces(th, th2)
    BY <1>1, <1>2, SendSet, SameFileTraces
<1>4. QED
    BY <1>1, <1>3, TracesOn

LEMMA ReceiveSetTraces ==
    ASSUME NEW th0, NEW th, Traces(th0, th), NEW n \in Nat
    PROVE  Traces(th0, [th EXCEPT !.Recv_Rec = n])
<1>1. PICK th2 : th2 = [th EXCEPT !.Recv_Rec = n]
    OBVIOUS
<1>2. Good(th)
    BY DEF Traces
<1>3. Traces(th, th2)
    BY <1>1, <1>2, ReceiveSet, SameFileTraces
<1>4. QED
    BY <1>1, <1>3, TracesOn

LEMMA StateSetTraces ==
    ASSUME NEW th, Good(th), NEW n \in Nat
    PROVE  Traces(th, trace_paraver_state(th, n, FALSE))
<1>1. PICK th2 : th2 = trace_paraver_state(th, n, FALSE)
    OBVIOUS
<1>2. Traces(th, th2)
    BY <1>1, StateTraces
<1>3. QED
    BY <1>1, <1>2

\* A step that leaves the queues alone and traces states and events of one task.
LEMMA TracingConverts ==
    ASSUME MergeTyped, NEW t \in Task, NEW th, Traces(thread[t], th),
           thread' = [thread EXCEPT ![t] = th], UNCHANGED queues
    PROVE  Converts
<1>1. /\ QueuesTyped /\ QueuesTyped' /\ UNCHANGED send_queue
      /\ thread \in [Task -> Thread] /\ \A u \in Task : Good(thread[u])
    BY DEF MergeTyped, QueuesTyped, queues
<1>2. \A u \in Task : Moves(u, thread[u])
    BY <1>1, MovesSelf
<1>3. send_queue'[t] \in Seq(Sends)
    BY <1>1 DEF QueuesTyped
<1>4. Moves(t, th)
    BY <1>2, <1>3, MovesOn
<1>5. QED
    BY <1>1, <1>2, <1>4, OneMoves

\* The receive half of a message, and then the states and events of its task.
LEMMA ReceivedConverts ==
    ASSUME NEW t \in Task, NEW c, Received(c), NEW th, Traces(c[t], th),
           thread' = [c EXCEPT ![t] = th]
    PROVE  Converts
<1>1. /\ c \in [Task -> Thread] /\ QueuesTyped' /\ \A u \in Task : Moves(u, c[u])
    BY DEF Received, AllMove
<1>2. send_queue'[t] \in Seq(Sends)
    BY <1>1 DEF QueuesTyped
<1>3. Moves(t, th)
    BY <1>1, <1>2, MovesOn
<1>4. QED
    BY <1>1, <1>3, OneMoves

LEMMA ReceivedGood ==
    ASSUME NEW c, Received(c), NEW t \in Task
    PROVE  Good(c[t])
BY DEF Received, AllMove, Moves

-----------------------------------------------------------------------------
(* The handlers of sends                                                    *)

\* The events that a handler marks.
MarkedTypes == DOMAIN StateOf

LEMMA AnySendHandles ==
    ASSUME MergeTyped, NEW t \in Task, Any_Send_Event(t)
    PROVE  Handles /\ enabled' = enabled
<1>1. IsCurrent(t, {"SEND", "ISEND"}) /\ Progress /\ UNCHANGED <<phase, enabled>>
    BY ReadsIs DEF Any_Send_Event
<1>2. Good(thread[t]) /\ enabled \in [Task -> BOOLEAN]
    BY DEF MergeTyped
<1>3. Current(t).type \in DOMAIN StateOf
    BY <1>1, States DEF IsCurrent
<1>4. Traces(thread[t], Marked(t, thread[t]))
    BY <1>2, <1>3, MarkedTraces
<1>5. Converts
    <2>1. CASE /\ thread' = [thread EXCEPT ![t] = [Marked(t, @) EXCEPT !.Send_Rec = Now(t)]]
               /\ UNCHANGED queues
        <3>1. PICK n \in Nat : n = Now(t)
            BY <1>1 DEF IsCurrent
        <3>2. PICK th : th = [Marked(t, thread[t]) EXCEPT !.Send_Rec = n]
            OBVIOUS
        <3>3. Traces(thread[t], th)
            BY <1>4, <3>2, SendSetTraces
        <3>4. thread' = [thread EXCEPT ![t] = th]
            BY <2>1, <3>1, <3>2
        <3>5. QED
            BY <2>1, <3>3, <3>4, TracingConverts
    <2>2. CASE SendHalf(t, Marked(t, thread[t]), thread[t].Send_Rec, Now(t))
        <3>1. PICK b \in Nat : b = thread[t].Send_Rec
            BY <1>2, Parts
        <3>2. PICK n \in Nat : n = Now(t) /\ Current(t) = trace[t][n]
            BY <1>1 DEF IsCurrent
        <3>3. trace[t][n].target \in Task /\ trace[t][n].tag \in Tags
            BY <1>1, <3>2, EventIs DEF IsCurrent
        <3>4. PICK th : th = Marked(t, thread[t])
            OBVIOUS
        <3>5. SendHalf(t, th, b, n) /\ Traces(thread[t], th)
            BY <1>4, <2>2, <3>1, <3>2, <3>4
        <3>6. QED
            BY <3>3, <3>5, SendConverts
    <2>3. QED
        BY <2>1, <2>2 DEF Any_Send_Event
<1>6. QED
    BY <1>1, <1>2, <1>5 DEF Handles, Progress

LEMMA SendRecvHandles ==
    ASSUME MergeTyped, NEW t \in Task, SendRecv_Event(t)
    PROVE  Handles /\ enabled' = enabled
<1>1. IsCurrent(t, {"SENDRECV"}) /\ Progress /\ UNCHANGED enabled
    BY ReadsIs DEF SendRecv_Event
<1>2. Good(thread[t]) /\ enabled \in [Task -> BOOLEAN] /\ phase = "merge"
    BY <1>1 DEF MergeTyped, Progress
<1>3. Current(t).type \in DOMAIN StateOf
    BY <1>1, States DEF IsCurrent
<1>4. Traces(thread[t], Marked(t, thread[t]))
    BY <1>2, <1>3, MarkedTraces
<1>5. PICK n \in Nat : n = Now(t) /\ Current(t) = trace[t][n]
    BY <1>1 DEF IsCurrent
<1>6. trace[t][n].target \in Task /\ trace[t][n].tag \in Tags
    BY <1>1, <1>5, EventIs DEF IsCurrent
<1>7. CASE /\ SendHalf(t, [Marked(t, thread[t]) EXCEPT !.Send_Rec = Now(t)], Now(t), Now(t))
           /\ UNCHANGED phase
    <2>1. PICK th : th = [Marked(t, thread[t]) EXCEPT !.Send_Rec = n]
        OBVIOUS
    <2>2. Traces(thread[t], th)
        BY <1>4, <2>1, SendSetTraces
    <2>3. SendHalf(t, th, n, n)
        BY <1>5, <1>7, <2>1
    <2>4. Converts
        BY <1>6, <2>2, <2>3, SendConverts
    <2>5. QED
        BY <1>1, <1>2, <1>7, <2>4 DEF Handles
<1>8. CASE /\ thread' = [Communicated(t, thread[t].Send_Rec, Now(t)) EXCEPT
                           ![t] = [Marked(t, @) EXCEPT !.Recv_Rec = Now(t)]]
           /\ ReceiveHalf(t, thread[t].Send_Rec, Now(t), Current(t).target, Current(t).tag)
    <2>1. PICK b \in Nat : b = thread[t].Send_Rec
        BY <1>2, Parts
    <2>2. PICK target \in Partners : target = Current(t).target
        BY <1>5, <1>6 DEF Partners
    <2>3. PICK tag \in Tags : tag = Current(t).tag
        BY <1>5, <1>6
    <2>4. ReceiveHalf(t, b, n, target, tag)
        BY <1>5, <1>8, <2>1, <2>2, <2>3
    <2>5. PICK c : c = Communicated(t, b, n)
        OBVIOUS
    <2>6. Received(c)
        BY <1>2, <1>6, <2>4, <2>5, ReceiveConverts
    <2>7. Traces(c[t], Marked(t, c[t]))
        BY <1>3, <2>6, ReceivedGood, MarkedTraces
    <2>8. PICK th : th = [Marked(t, c[t]) EXCEPT !.Recv_Rec = n]
        OBVIOUS
    <2>9. Traces(c[t], th)
        BY <2>7, <2>8, ReceiveSetTraces
    <2>10. thread' = [c EXCEPT ![t] = th]
        BY <1>5, <1>8, <2>1, <2>5, <2>8
    <2>11. Converts
        BY <2>6, <2>9, <2>10, ReceivedConverts
    <2>12. QED
        BY <1>1, <1>2, <2>6, <2>11 DEF Handles, Received, AllWait
<1>9. QED
    BY <1>7, <1>8 DEF SendRecv_Event

LEMMA RecvHandles ==
    ASSUME MergeTyped, NEW t \in Task, Recv_Event(t)
    PROVE  Handles /\ enabled' = enabled
<1>1. IsCurrent(t, {"RECV"}) /\ Progress /\ UNCHANGED enabled
    BY ReadsIs DEF Recv_Event
<1>2. Good(thread[t]) /\ enabled \in [Task -> BOOLEAN] /\ phase = "merge"
    BY <1>1 DEF MergeTyped, Progress
<1>3. Current(t).type \in DOMAIN StateOf
    BY <1>1, States DEF IsCurrent
<1>4. Traces(thread[t], Marked(t, thread[t]))
    BY <1>2, <1>3, MarkedTraces
<1>5. PICK n \in Nat : n = Now(t) /\ Current(t) = trace[t][n]
    BY <1>1 DEF IsCurrent
<1>6. CASE /\ thread' = [thread EXCEPT ![t] = [Marked(t, @) EXCEPT !.Recv_Rec = Now(t)]]
           /\ UNCHANGED <<phase, queues>>
    <2>1. PICK th : th = [Marked(t, thread[t]) EXCEPT !.Recv_Rec = n]
        OBVIOUS
    <2>2. Traces(thread[t], th)
        BY <1>4, <2>1, ReceiveSetTraces
    <2>3. thread' = [thread EXCEPT ![t] = th] /\ UNCHANGED queues
        BY <1>5, <1>6, <2>1
    <2>4. Converts
        BY <2>2, <2>3, TracingConverts
    <2>5. QED
        BY <1>1, <1>2, <1>6, <2>4 DEF Handles
<1>7. CASE /\ Current(t).value = "END"
           /\ thread' = [Communicated(t, thread[t].Recv_Rec, Now(t)) EXCEPT ![t] = Marked(t, @)]
           /\ ReceiveHalf(t, thread[t].Recv_Rec, Now(t), Current(t).target, Current(t).tag)
    <2>1. PICK b \in Nat : b = thread[t].Recv_Rec
        BY <1>2, Parts
    <2>20. Current(t).target \in Task /\ Current(t).tag \in Tags
        BY <1>1, <1>7, EventIs DEF IsCurrent
    <2>2. PICK target \in Partners : target = Current(t).target
        BY <2>20 DEF Partners
    <2>3. PICK tag \in Tags : tag = Current(t).tag
        BY <2>20
    <2>4. ReceiveHalf(t, b, n, target, tag)
        BY <1>5, <1>7, <2>1, <2>2, <2>3
    <2>5. PICK c : c = Communicated(t, b, n)
        OBVIOUS
    <2>50. trace[t][n].target \in Task /\ trace[t][n].tag \in Tags
        BY <1>5, <2>20
    <2>6. Received(c)
        BY <1>2, <2>4, <2>5, <2>50, ReceiveConverts
    <2>7. PICK th : th = Marked(t, c[t])
        OBVIOUS
    <2>8. Traces(c[t], th)
        BY <1>3, <2>6, <2>7, ReceivedGood, MarkedTraces
    <2>10. thread' = [c EXCEPT ![t] = th]
        BY <1>5, <1>7, <2>1, <2>5, <2>7
    <2>11. Converts
        BY <2>6, <2>8, <2>10, ReceivedConverts
    <2>12. QED
        BY <1>1, <1>2, <2>6, <2>11 DEF Handles, Received, AllWait
<1>8. QED
    BY <1>6, <1>7 DEF Recv_Event

\* The receive that a request will be is an event with the sender of its message.
LEMMA SearchIs ==
    ASSUME MergeTyped, NEW t \in Task, NEW types, IsCurrent(t, types),
           NEW r \in Search_MPI_IRECVED(t)
    PROVE  /\ r \in Nat /\ r \in Now(t)..Len(trace[t])
           /\ trace[t][r].type = "IRECVED" /\ trace[t][r].aux = Current(t).aux
           /\ trace[t][r].target \in Task /\ trace[t][r].tag \in Tags
<1>1. trace[t] \in Seq(Events) /\ Len(trace[t]) \in Nat /\ Now(t) \in Nat /\ Now(t) >= 1
    BY DEF MergeTyped, TraceTyped, IsCurrent
<1>2. /\ r \in Now(t)..Len(trace[t])
      /\ trace[t][r].type = "IRECVED" /\ trace[t][r].aux = Current(t).aux
    BY DEF Search_MPI_IRECVED, FirstOf
<1>3. r \in 1..Len(trace[t]) /\ r \in Nat
    BY <1>1, <1>2
<1>4. trace[t][r] \in Events
    BY <1>1, <1>3, Typed
<1>5. QED
    BY <1>2, <1>3, <1>4, EventIs

LEMMA IRecvHandles ==
    ASSUME MergeTyped, NEW t \in Task, IRecv_Event(t)
    PROVE  Handles /\ enabled' = enabled
<1>1. IsCurrent(t, {"IRECV"}) /\ Progress /\ UNCHANGED enabled
    BY ReadsIs DEF IRecv_Event
<1>2. Good(thread[t]) /\ enabled \in [Task -> BOOLEAN] /\ phase = "merge"
    BY <1>1 DEF MergeTyped, Progress
<1>3. Current(t).type \in DOMAIN StateOf
    BY <1>1, States DEF IsCurrent
<1>4. Traces(thread[t], Marked(t, thread[t]))
    BY <1>2, <1>3, MarkedTraces
<1>5. PICK n \in Nat : n = Now(t) /\ Current(t) = trace[t][n]
    BY <1>1 DEF IsCurrent
<1>6. CASE /\ thread' = [thread EXCEPT ![t] = Marked(t, @)]
           /\ UNCHANGED <<phase, queues>>
    <2>1. PICK th : th = Marked(t, thread[t]) /\ Traces(thread[t], th)
        BY <1>4
    <2>3. thread' = [thread EXCEPT ![t] = th] /\ UNCHANGED queues
        BY <1>6, <2>1
    <2>4. Converts
        BY <2>1, <2>3, TracingConverts
    <2>5. QED
        BY <1>1, <1>2, <1>6, <2>4 DEF Handles
<1>7. CASE \E r \in Search_MPI_IRECVED(t) :
                   /\ thread' = [Communicated(t, Now(t), r) EXCEPT ![t] = Marked(t, @)]
                   /\ ReceiveHalf(t, Now(t), r, trace[t][r].target, trace[t][r].tag)
    <2>1. PICK r \in Search_MPI_IRECVED(t) :
                   /\ thread' = [Communicated(t, Now(t), r) EXCEPT ![t] = Marked(t, @)]
                   /\ ReceiveHalf(t, Now(t), r, trace[t][r].target, trace[t][r].tag)
        BY <1>7
    <2>20. r \in Nat /\ trace[t][r].target \in Task /\ trace[t][r].tag \in Tags
        BY <1>1, SearchIs
    <2>2. PICK target \in Partners : target = trace[t][r].target
        BY <2>20 DEF Partners
    <2>3. PICK tag \in Tags : tag = trace[t][r].tag
        BY <2>20
    <2>4. ReceiveHalf(t, n, r, target, tag)
        BY <1>5, <2>1, <2>2, <2>3
    <2>5. PICK c : c = Communicated(t, n, r)
        OBVIOUS
    <2>6. Received(c)
        BY <1>2, <2>4, <2>5, <2>20, ReceiveConverts
    <2>7. PICK th : th = Marked(t, c[t])
        OBVIOUS
    <2>8. Traces(c[t], th)
        BY <1>3, <2>6, <2>7, ReceivedGood, MarkedTraces
    <2>10. thread' = [c EXCEPT ![t] = th]
        BY <1>5, <2>1, <2>5, <2>7
    <2>11. Converts
        BY <2>6, <2>8, <2>10, ReceivedConverts
    <2>12. QED
        BY <1>1, <1>2, <2>6, <2>11 DEF Handles, Received, AllWait
<1>8. QED
    BY <1>6, <1>7 DEF IRecv_Event

\* A persistent receive is started.
StartedThread(th, n) == [trace_paraver_state(th, n, FALSE) EXCEPT !.Recv_Rec = n]

LEMMA PersistentHandles ==
    ASSUME MergeTyped, NEW t \in Task, MPI_PersistentRequest_Event(t)
    PROVE  Handles /\ enabled' = enabled
<1>1. IsCurrent(t, {"PERSIST_REQ"}) /\ Progress /\ UNCHANGED enabled
    BY ReadsIs DEF MPI_PersistentRequest_Event
<1>2. Good(thread[t]) /\ enabled \in [Task -> BOOLEAN] /\ phase = "merge"
    BY <1>1 DEF MergeTyped, Progress
<1>3. Current(t).target \in Partners /\ Current(t).tag \in Tags
      /\ (Current(t).value = "ISEND" => Current(t).target \in Task)
    BY <1>1, EventIs DEF IsCurrent
<1>5. PICK n \in Nat : n = Now(t) /\ Current(t) = trace[t][n]
    BY <1>1 DEF IsCurrent
<1>4. ASSUME NEW th0, Good(th0)
      PROVE  Traces(th0, StartedThread(th0, n))
    BY <1>4, StateSetTraces, ReceiveSetTraces DEF StartedThread
<1>6. CASE /\ Current(t).value = "IRECV"
           /\ thread' = [thread EXCEPT ![t] = StartedThread(@, n)]
           /\ UNCHANGED <<phase, queues>>
    <2>1. PICK th : th = StartedThread(thread[t], n) /\ Traces(thread[t], th)
        BY <1>2, <1>4
    <2>3. thread' = [thread EXCEPT ![t] = th] /\ UNCHANGED queues
        BY <1>6, <2>1
    <2>4. Converts
        BY <2>1, <2>3, TracingConverts
    <2>5. QED
        BY <1>1, <1>2, <1>6, <2>4 DEF Handles
<1>7. CASE \E r \in Search_MPI_IRECVED(t) :
                   /\ thread' = [Communicated(t, n, r) EXCEPT ![t] = StartedThread(@, n)]
                   /\ ReceiveHalf(t, n, r, Current(t).target, Current(t).tag)
    <2>1. PICK r \in Search_MPI_IRECVED(t) :
                   /\ thread' = [Communicated(t, n, r) EXCEPT ![t] = StartedThread(@, n)]
                   /\ ReceiveHalf(t, n, r, Current(t).target, Current(t).tag)
        BY <1>7
    <2>20. r \in Nat /\ trace[t][r].target \in Task /\ trace[t][r].tag \in Tags
        BY <1>1, SearchIs
    <2>2. PICK target \in Partners : target = Current(t).target
        BY <1>3
    <2>3. PICK tag \in Tags : tag = Current(t).tag
        BY <1>3
    <2>4. ReceiveHalf(t, n, r, target, tag)
        BY <2>1, <2>2, <2>3
    <2>5. PICK c : c = Communicated(t, n, r)
        OBVIOUS
    <2>6. Received(c)
        BY <1>2, <2>4, <2>5, <2>20, ReceiveConverts
    <2>7. PICK th : th = StartedThread(c[t], n)
        OBVIOUS
    <2>8. Traces(c[t], th)
        BY <1>4, <2>6, <2>7, ReceivedGood
    <2>10. thread' = [c EXCEPT ![t] = th]
        BY <2>1, <2>5, <2>7
    <2>11. Converts
        BY <2>6, <2>8, <2>10, ReceivedConverts
    <2>12. QED
        BY <1>1, <1>2, <2>6, <2>11 DEF Handles, Received, AllWait
<1>8. CASE /\ Current(t).value = "ISEND"
           /\ SendHalf(t, [trace_paraver_state(thread[t], n, FALSE) EXCEPT !.Send_Rec = n], n, n)
           /\ UNCHANGED phase
    <2>1. PICK th : th = [trace_paraver_state(thread[t], n, FALSE) EXCEPT !.Send_Rec = n]
        OBVIOUS
    <2>2. Traces(thread[t], th)
        BY <1>2, <2>1, StateSetTraces, SendSetTraces
    <2>3. SendHalf(t, th, n, n)
        BY <1>8, <2>1
    <2>4. trace[t][n].target \in Task /\ trace[t][n].tag \in Tags
        BY <1>3, <1>5, <1>8
    <2>5. Converts
        BY <2>2, <2>3, <2>4, SendConverts
    <2>6. QED
        BY <1>1, <1>2, <1>8, <2>5 DEF Handles
<1>9. QED
    BY <1>5, <1>6, <1>7, <1>8 DEF MPI_PersistentRequest_Event, StartedThread

-----------------------------------------------------------------------------
(* The handlers that only show                                              *)

\* A handler that makes thread th of thread t, and leaves the queues alone.
LEMMA ShowsHandles ==
    ASSUME MergeTyped, NEW t \in Task, Progress, NEW th, Traces(thread[t], th),
           thread' = [thread EXCEPT ![t] = th], MatchingUnchanged
    PROVE  Handles /\ enabled' = enabled
<1>1. UNCHANGED <<phase, enabled, queues>>
    BY DEF MatchingUnchanged
<1>2. Converts
    BY <1>1, TracingConverts
<1>3. enabled \in [Task -> BOOLEAN] /\ phase = "merge"
    BY DEF MergeTyped, Progress
<1>4. QED
    BY <1>1, <1>2, <1>3 DEF Handles

LEMMA StartHandles ==
    ASSUME MergeTyped, NEW t \in Task, MPI_Start_Event(t)
    PROVE  Handles /\ enabled' = enabled
<1>1. IsCurrent(t, {"START"}) /\ Progress /\ MatchingUnchanged
    BY ReadsIs DEF MPI_Start_Event
<1>2. Good(thread[t])
    BY DEF MergeTyped
<1>3. Current(t).type \in DOMAIN StateOf
    BY <1>1, States DEF IsCurrent
<1>4. PICK th : th = Marked(t, thread[t]) /\ Traces(thread[t], th)
    BY <1>2, <1>3, MarkedTraces
<1>5. PICK n \in Nat : n = Now(t)
    BY <1>1 DEF IsCurrent
<1>6. CASE thread' = [thread EXCEPT ![t] = th]
    BY <1>1, <1>4, <1>6, ShowsHandles
<1>7. CASE thread' = [thread EXCEPT ![t] = [th EXCEPT !.Send_Rec = n, !.Recv_Rec = n]]
    <2>1. PICK th1 : th1 = [th EXCEPT !.Send_Rec = n] /\ Traces(thread[t], th1)
        BY <1>4, SendSetTraces
    <2>2. PICK th2 : th2 = [th1 EXCEPT !.Recv_Rec = n] /\ Traces(thread[t], th2)
        BY <2>1, ReceiveSetTraces
    <2>3. th2 = [th EXCEPT !.Send_Rec = n, !.Recv_Rec = n]
        BY <2>1, <2>2
    <2>4. thread' = [thread EXCEPT ![t] = th2]
        BY <1>7, <2>3
    <2>5. QED
        BY <1>1, <2>2, <2>4, ShowsHandles
<1>8. QED
    BY <1>4, <1>5, <1>6, <1>7 DEF MPI_Start_Event

LEMMA OtherHandles ==
    ASSUME MergeTyped, NEW t \in Task, Other_MPI_Event(t)
    PROVE  Handles /\ enabled' = enabled
<1>1. IsCurrent(t, {"WAIT"}) /\ Progress /\ MatchingUnchanged
    BY ReadsIs DEF Other_MPI_Event
<1>2. Good(thread[t])
    BY DEF MergeTyped
<1>3. Current(t).type \in DOMAIN StateOf
    BY <1>1, States DEF IsCurrent
<1>4. PICK th : th = Marked(t, thread[t]) /\ Traces(thread[t], th)
    BY <1>2, <1>3, MarkedTraces
<1>5. thread' = [thread EXCEPT ![t] = th]
    BY <1>4 DEF Other_MPI_Event
<1>6. QED
    BY <1>1, <1>4, <1>5, ShowsHandles

LEMMA SkipHandles ==
    ASSUME MergeTyped, NEW t \in Task, SkipHandler(t)
    PROVE  Handles /\ enabled' = enabled
<1>1. Progress /\ MatchingUnchanged /\ thread' = thread
    BY ReadsIs DEF SkipHandler
<1>2. Good(thread[t]) /\ thread \in [Task -> Thread]
    BY DEF MergeTyped
<1>3. Traces(thread[t], thread[t])
    BY <1>2, TracesSelf
<1>4. thread' = [thread EXCEPT ![t] = thread[t]]
    BY <1>1, <1>2
<1>5. QED
    BY <1>1, <1>3, <1>4, ShowsHandles

LEMMA ShownTraces ==
    ASSUME MergeTyped, NEW t \in Task, NEW th, Good(th), NEW s \in Seq(State)
    PROVE  Traces(th, Shown(t, th, s))
<1>1. cursor[t] \in Nat /\ enabled[t] \in BOOLEAN
    BY DEF MergeTyped
<1>2. PICK th2 : th2 = Shown(t, th, s)
    OBVIOUS
<1>3. Traces(th, th2)
    BY <1>1, <1>2, ShownGood
<1>4. QED
    BY <1>2, <1>3

LEMMA TracingModeHandles ==
    ASSUME MergeTyped, NEW t \in Task, Tracing_Mode_Event(t)
    PROVE  Handles /\ enabled' = enabled
<1>1. Progress /\ MatchingUnchanged
    BY ReadsIs DEF Tracing_Mode_Event
<1>2. Good(thread[t])
    BY DEF MergeTyped
<1>3. PICK s \in Seq(State) : s = <<"STATE_RUNNING">>
    BY States, One
<1>4. PICK th : th = Shown(t, thread[t], s) /\ Traces(thread[t], th)
    BY <1>2, ShownTraces
<1>5. thread' = [thread EXCEPT ![t] = th]
    BY <1>3, <1>4 DEF Tracing_Mode_Event
<1>6. QED
    BY <1>1, <1>4, <1>5, ShowsHandles

LEMMA ApplHandles ==
    ASSUME MergeTyped, NEW t \in Task, Appl_Event(t)
    PROVE  Handles /\ enabled' = enabled
<1>1. Progress /\ MatchingUnchanged
    BY ReadsIs DEF Appl_Event
<1>2. Good(thread[t])
    BY DEF MergeTyped
<1>3. PICK s \in Seq(State) : s = Pop_State("STATE_ANY", thread[t].stack)
    BY <1>2, Parts, PopTyped
<1>4. PICK th : th = Shown(t, thread[t], s) /\ Traces(thread[t], th)
    BY <1>2, ShownTraces
<1>5. thread' = [thread EXCEPT ![t] = th]
    BY <1>3, <1>4 DEF Appl_Event
<1>6. QED
    BY <1>1, <1>4, <1>5, ShowsHandles

LEMMA EventTraces ==
    ASSUME MergeTyped, NEW t \in Task, NEW th0, NEW th, Traces(th0, th), NEW n \in Nat
    PROVE  Traces(th0, trace_paraver_event(th, enabled[t], n))
<1>1. PICK on \in BOOLEAN : on = enabled[t]
    BY DEF MergeTyped
<1>2. PICK th2 : th2 = trace_paraver_event(th, on, n)
    OBVIOUS
<1>3. Traces(th, th2)
    BY <1>2, EventWritten DEF Traces
<1>4. QED
    BY <1>1, <1>2, <1>3, TracesOn

LEMMA GlobalHandles ==
    ASSUME MergeTyped, NEW t \in Task, GlobalOP_event(t)
    PROVE  Handles /\ enabled' = enabled
<1>1. IsCurrent(t, {"BARRIER"}) /\ Progress /\ MatchingUnchanged
    BY ReadsIs DEF GlobalOP_event
<1>2. Good(thread[t])
    BY DEF MergeTyped
<1>3. Current(t).type \in DOMAIN StateOf
    BY <1>1, States DEF IsCurrent
<1>4. PICK th : th = Marked(t, thread[t]) /\ Traces(thread[t], th)
    BY <1>2, <1>3, MarkedTraces
<1>5. PICK n \in Nat : n = Now(t)
    BY <1>1 DEF IsCurrent
<1>6. PICK th1 : th1 = trace_paraver_event(th, enabled[t], n) /\ Traces(thread[t], th1)
    BY <1>4, EventTraces
<1>7. PICK th2 : th2 = trace_paraver_event(th1, enabled[t], n) /\ Traces(thread[t], th2)
    BY <1>6, EventTraces
<1>8. PICK th3 : th3 = trace_paraver_event(th2, enabled[t], n) /\ Traces(thread[t], th3)
    BY <1>7, EventTraces
<1>9. \/ thread' = [thread EXCEPT ![t] = th] \/ thread' = [thread EXCEPT ![t] = th3]
    BY <1>4, <1>5, <1>6, <1>7, <1>8 DEF GlobalOP_event
<1>10. QED
    BY <1>1, <1>4, <1>8, <1>9, ShowsHandles

LEMMA SetTracingHandles ==
    ASSUME MergeTyped, NEW t \in Task, SetTracing_Event(t)
    PROVE  Handles /\ (AllEnabled /\ Current(t).value = "ON" => AllEnabled')
<1>1. IsCurrent(t, {"SET_TRACE"}) /\ Progress /\ UNCHANGED <<phase, queues>>
    BY ReadsIs DEF SetTracing_Event
<1>2. Good(thread[t]) /\ enabled \in [Task -> BOOLEAN] /\ phase = "merge"
    BY <1>1 DEF MergeTyped, Progress
<1>3. PICK n \in Nat : n = Now(t)
    BY <1>1 DEF IsCurrent
<1>4. ASSUME thread' = [thread EXCEPT ![t] =
                [thread[t] EXCEPT !.stack = Pop_State("STATE_NOT_TRACING", thread[t].stack)]]
      PROVE  Converts
    <2>1. PICK s \in Seq(State) : s = Pop_State("STATE_NOT_TRACING", thread[t].stack)
        BY <1>2, Parts, PopTyped
    <2>2. PICK th : th = [thread[t] EXCEPT !.stack = s]
        OBVIOUS
    <2>3. Traces(thread[t], th)
        BY <1>2, <2>2, StackSet, SameFileTraces
    <2>4. thread' = [thread EXCEPT ![t] = th]
        BY <1>4, <2>1, <2>2
    <2>5. QED
        BY <1>1, <2>3, <2>4, TracingConverts
<1>5. ASSUME thread' = [thread EXCEPT ![t] = trace_paraver_state(
                [thread[t] EXCEPT !.stack = Push_State("STATE_NOT_TRACING", thread[t].stack)],
                n, FALSE)]
      PROVE  Converts
    <2>1. PICK s \in Seq(State) : s = Push_State("STATE_NOT_TRACING", thread[t].stack)
        BY <1>2, Parts, PushTyped, States
    <2>2. PICK th1 : th1 = [thread[t] EXCEPT !.stack = s]
        OBVIOUS
    <2>3. Traces(thread[t], th1)
        BY <1>2, <2>2, StackSet, SameFileTraces
    <2>4. PICK th : th = trace_paraver_state(th1, n, FALSE)
        OBVIOUS
    <2>5. Traces(thread[t], th)
        BY <2>3, <2>4, StateSetTraces, TracesOn DEF Traces
    <2>6. thread' = [thread EXCEPT ![t] = th]
        BY <1>5, <2>1, <2>2, <2>4
    <2>7. QED
        BY <1>1, <2>5, <2>6, TracingConverts
<1>6. Converts
    BY <1>3, <1>4, <1>5 DEF SetTracing_Event
<1>7. enabled' = [enabled EXCEPT ![t] = (Current(t).value = "ON")]
    BY DEF SetTracing_Event
<1>8. enabled' \in [Task -> BOOLEAN]
    BY <1>2, <1>7
<1>9. ASSUME AllEnabled, Current(t).value = "ON"
      PROVE  AllEnabled'
    BY <1>2, <1>7, <1>9 DEF AllEnabled
<1>10. QED
    BY <1>1, <1>2, <1>6, <1>8, <1>9 DEF Handles

-----------------------------------------------------------------------------
(* The other steps                                                          *)

\* The file is flushed and stands for what it stood for.
LEMMA FlushTraces ==
    ASSUME NEW th, Good(th), NEW th2, th2 = [th EXCEPT !.wfb = Flushed(@)]
    PROVE  Traces(th, th2)
<1>1. PICK w0 \in WfbOf(Record), s0 \in Seq(State), a0 \in Nat, v0 \in State, n0 \in Nat,
              x0 \in Nat, y0 \in Nat :
              th = [wfb |-> w0, stack |-> s0, open |-> [at |-> a0, value |-> v0, time |-> n0],
                    Send_Rec |-> x0, Recv_Rec |-> y0]
    BY Pieces
<1>2. th.wfb = w0 /\ th.open.at = a0 /\ File(th) = Records(w0) /\ File(th) \in Seq(Record)
      /\ a0 < Len(Records(w0))
    BY <1>1, FileTyped, Parts DEF File
<1>3. PICK w \in WfbOf(Record) : w = Flushed(w0) /\ Sound(w) /\ Records(w) = Records(w0)
    BY FlushKeepsRecords
<1>4. th2 = [wfb |-> w, stack |-> s0, open |-> [at |-> a0, value |-> v0, time |-> n0],
             Send_Rec |-> x0, Recv_Rec |-> y0]
    BY <1>1, <1>3
<1>5. Good(th2) /\ File(th2) = Records(w)
    <2>1. th2.wfb = w /\ th2.open.at = a0 /\ Sound(w) /\ a0 < Len(Records(w))
        BY <1>2, <1>3, <1>4
    <2>2. [wfb |-> w, stack |-> s0, open |-> [at |-> a0, value |-> v0, time |-> n0],
           Send_Rec |-> x0, Recv_Rec |-> y0] \in Thread
        BY DEF Thread
    <2>3. QED
        BY <1>4, <2>1, <2>2 DEF Good, File
<1>6. th2.open = th.open /\ File(th2) = File(th)
    BY <1>1, <1>2, <1>3, <1>4, <1>5
<1>7. SlotKept(th) => SlotKept(th2)
    BY <1>6 DEF SlotKept
<1>8. Grows(File(th), File(th2))
    BY <1>2, <1>6, GrowsSelf
<1>9. QED
    BY <1>5, <1>7, <1>8 DEF Traces

LEMMA ProcessConverts ==
    ASSUME MergeTyped, Paraver_ProcessTraceFiles
    PROVE  MergeTyped' /\ Converts /\ phase = "merge" /\ phase' = "join" /\ enabled' = enabled
           /\ trace' = trace
<1>1. /\ phase = "merge" /\ phase' = "join"
      /\ UNCHANGED <<traceVars, parallel, cursor, enabled, queues, joined>>
    BY DEF Paraver_ProcessTraceFiles
<1>2. /\ QueuesTyped /\ QueuesTyped' /\ UNCHANGED send_queue /\ trace' = trace
      /\ \A u \in Task : Good(thread[u]) /\ cursor[u] \in Nat
    BY <1>1 DEF MergeTyped, QueuesTyped, queues, traceVars
<1>3. ASSUME NEW u \in Task
      PROVE  Moves(u, thread'[u])
    <2>1. PICK n \in Nat : n = Now(u)
        BY <1>2 DEF Now
    <2>2. PICK th : th = trace_paraver_state(thread[u], n, TRUE)
        OBVIOUS
    <2>3. Traces(thread[u], th)
        BY <1>2, <2>2, StateTraces
    <2>4. PICK th2 : th2 = [th EXCEPT !.wfb = Flushed(@)]
        OBVIOUS
    <2>5. Traces(th, th2)
        BY <2>3, <2>4, FlushTraces DEF Traces
    <2>6. thread'[u] = th2
        BY <2>1, <2>2, <2>4 DEF Paraver_ProcessTraceFiles
    <2>7. Moves(u, thread[u]) /\ send_queue'[u] \in Seq(Sends)
        BY <1>2, MovesSelf DEF QueuesTyped
    <2>8. Traces(thread[u], th2)
        BY <2>3, <2>5, TracesOn
    <2>9. QED
        BY <2>6, <2>7, <2>8, MovesOn
<1>4. thread' \in [Task -> Thread]
    <2>1. \A u \in Task : thread'[u] \in Thread
        BY <1>3 DEF Moves, Good
    <2>2. PICK F : F = thread'
        OBVIOUS
    <2>3. F = [u \in Task |-> F[u]]
        BY <2>2 DEF Paraver_ProcessTraceFiles
    <2>4. QED
        BY <2>1, <2>2, <2>3
<1>5. Converts
    BY <1>2, <1>3, <1>4 DEF Converts
<1>6. TraceTyped'
    BY <1>1 DEF MergeTyped, TraceTyped, traceVars, mpiVars
<1>7. MergeTyped'
    <2>1. \A u \in Task : Good(thread'[u])
        BY <1>5 DEF Converts, Moves
    <2>2. QED
        BY <1>1, <1>2, <1>4, <1>6, <2>1 DEF MergeTyped, traceVars
<1>8. QED
    BY <1>1, <1>2, <1>5, <1>7

LEMMA HandlesTyped ==
    ASSUME MergeTyped, Handles
    PROVE  MergeTyped'
<1>1. \A u \in Task : Good(thread'[u])
    BY DEF Handles, Converts, Moves
<1>2. QED
    BY <1>1 DEF MergeTyped, Handles, Converts, Progress

LEMMA PendingIs ==
    ASSUME MergeTyped, NEW t \in Task, NEW n \in NextPending(t)
    PROVE  LET p == Records(thread[t].wfb)[n]
           IN p \in Record /\ p.begin \in Nat /\ p.end \in Nat /\ p.to \in Task
              /\ p.type = "PENDING_COMMUNICATION" /\ n \in DOMAIN Records(thread[t].wfb)
<1>1. File(thread[t]) \in Seq(Record)
    BY FileTyped DEF MergeTyped
<1>2. n \in DOMAIN Records(thread[t].wfb)
      /\ Records(thread[t].wfb)[n].type = "PENDING_COMMUNICATION"
    BY DEF NextPending, PendingOf
<1>3. Records(thread[t].wfb)[n] \in Record
    BY <1>1, <1>2, Typed DEF File
<1>4. \A p \in Record : p.type = "PENDING_COMMUNICATION" =>
          p.begin \in Nat /\ p.end \in Nat /\ p.to \in Task
    BY DEF Record
<1>5. QED
    BY <1>2, <1>3, <1>4

LEMMA FixTyped ==
    ASSUME MergeTyped, NEW t \in Task, FixPendingCommunication(t)
    PROVE  /\ MergeTyped' /\ phase' = phase
           /\ UNCHANGED <<traceVars, thread, enabled, send_queue>>
<1>1. UNCHANGED <<traceVars, phase, parallel, cursor, thread, enabled, send_queue, recv_queue>>
    BY DEF FixPendingCommunication
<1>2. PICK n \in NextPending(t) :
          LET p == Records(thread[t].wfb)[n]
              found == FirstOf(SearchForeignRecv(t, p))
          IN \/ /\ joined' = [joined EXCEPT ![t] = Append(@, p)]
                /\ UNCHANGED foreign
             \/ \E i \in found :
                   /\ joined' = [joined EXCEPT ![t] = Append(@,
                         Communication(p.begin, p.end, p.to,
                                       foreign[t][i].begin, foreign[t][i].end))]
                   /\ foreign' = [foreign EXCEPT ![t] = RemoveAt(@, i)]
    BY DEF FixPendingCommunication
<1>3. PICK p \in Record : /\ p = Records(thread[t].wfb)[n]
                          /\ p.begin \in Nat /\ p.end \in Nat /\ p.to \in Task
    BY PendingIs
<1>4. joined[t] \in Seq(Record) /\ foreign[t] \in Seq(Foreigns) /\ QueuesTyped
      /\ joined \in [Task -> Seq(Record)]
    BY DEF MergeTyped, QueuesTyped
<1>5. joined' \in [Task -> Seq(Record)] /\ foreign' \in [Task -> Seq(Foreigns)]
    <2>1. CASE joined' = [joined EXCEPT ![t] = Append(@, p)] /\ UNCHANGED foreign
        <3>1. Append(joined[t], p) \in Seq(Record)
            BY <1>4, Added
        <3>2. QED
            BY <1>4, <2>1, <3>1 DEF QueuesTyped
    <2>2. ASSUME NEW i \in FirstOf(SearchForeignRecv(t, p)),
                 joined' = [joined EXCEPT ![t] = Append(@,
                         Communication(p.begin, p.end, p.to,
                                       foreign[t][i].begin, foreign[t][i].end))],
                 foreign' = [foreign EXCEPT ![t] = RemoveAt(@, i)]
          PROVE  joined' \in [Task -> Seq(Record)] /\ foreign' \in [Task -> Seq(Foreigns)]
        <3>1. i \in DOMAIN foreign[t]
            BY DEF FirstOf, SearchForeignRecv
        <3>2. i \in 1..Len(foreign[t]) /\ foreign[t][i] \in Foreigns
            BY <1>4, <3>1, Typed
        <3>3. foreign[t][i].begin \in Nat /\ foreign[t][i].end \in Nat
            BY <3>2 DEF Foreigns
        <3>4. RemoveAt(foreign[t], i) \in Seq(Foreigns)
            BY <1>4, <3>2, Removed
        <3>5. PICK r \in Record : r = Communication(p.begin, p.end, p.to,
                                                    foreign[t][i].begin, foreign[t][i].end)
            BY <1>3, <3>3, CommunicationIs
        <3>6. Append(joined[t], r) \in Seq(Record)
            BY <1>4, Added
        <3>7. joined' = [joined EXCEPT ![t] = Append(joined[t], r)]
            BY <2>2, <3>5
        <3>8. QED
            BY <1>4, <2>2, <3>4, <3>6, <3>7 DEF QueuesTyped
    <2>3. QED
        BY <1>2, <1>3, <2>1, <2>2
<1>6. TraceTyped'
    BY <1>1 DEF MergeTyped, TraceTyped, traceVars, mpiVars
<1>7. QueuesTyped'
    BY <1>1, <1>4, <1>5 DEF QueuesTyped
<1>8. trace' = trace
    BY <1>1 DEF traceVars
<1>9. QED
    BY <1>1, <1>5, <1>6, <1>7, <1>8 DEF MergeTyped

LEMMA JoinTyped ==
    ASSUME MergeTyped, Paraver_JoinFiles
    PROVE  /\ MergeTyped' /\ phase' = "done"
           /\ UNCHANGED <<traceVars, thread, enabled, send_queue>>
<1>1. /\ phase' = "done"
      /\ UNCHANGED <<traceVars, parallel, cursor, thread, enabled, queues, joined>>
    BY DEF Paraver_JoinFiles
<1>2. TraceTyped'
    BY <1>1 DEF MergeTyped, TraceTyped, traceVars, mpiVars
<1>3. QueuesTyped' /\ UNCHANGED send_queue
    BY <1>1 DEF MergeTyped, QueuesTyped, queues
<1>4. QED
    BY <1>1, <1>2, <1>3 DEF MergeTyped, traceVars

LEMMA ProgramTyped ==
    ASSUME MergeTyped, TraceNext, UNCHANGED mergeVars
    PROVE  MergeTyped'
<1>1. TraceTyped' /\ \A u \in Task : Longer(trace[u], trace'[u])
    BY TraceNextSteps DEF MergeTyped, TraceSteps
<1>2. UNCHANGED <<phase, parallel, cursor, thread, enabled, queues, joined>>
    BY DEF mergeVars
<1>3. QueuesTyped'
    BY <1>2 DEF MergeTyped, QueuesTyped, queues
<1>4. ASSUME NEW u \in Task
      PROVE  cursor'[u] <= Len(trace'[u])
    <2>1. trace[u] \in Seq(Events) /\ trace'[u] \in Seq(Events) /\ cursor[u] \in Nat
        BY <1>1 DEF MergeTyped, TraceTyped
    <2>2. cursor[u] <= Len(trace[u]) /\ Len(trace[u]) <= Len(trace'[u])
        BY <1>1 DEF MergeTyped, Longer
    <2>3. Len(trace[u]) \in Nat /\ Len(trace'[u]) \in Nat
        BY <2>1, Typed
    <2>4. QED
        BY <1>2, <2>1, <2>2, <2>3
<1>5. QED
    BY <1>1, <1>2, <1>3, <1>4 DEF MergeTyped

-----------------------------------------------------------------------------
(* Tracing of every task goes on                                            *)

\* No call of Extrae_set_tracing_tasks leaves out the task that makes it.
KeepsTracing == \A c \in Calls : c.kind = "TRACING_TASKS" => c.task \in c.partner

LEMMA OnOnly ==
    ASSUME KeepsTracing, NEW e \in Events, e.type = "SET_TRACE"
    PROVE  e.value = "ON"
<1>1. \A v \in SetValues : v = "ON"
    BY DEF KeepsTracing, SetValues
<1>2. e.value \in SetValues
    BY DEF Events
<1>3. QED
    BY <1>1, <1>2

Converting == MergeTyped /\ (KeepsTracing => AllWait /\ phase # "aborted")

LEMMA ConvertsWait ==
    ASSUME Converts, AllWait, AllEnabled'
    PROVE  AllWait' /\ \A u \in Task : Keeps(File(thread[u]), File(thread'[u]))
<1>1. ASSUME NEW u \in Task
      PROVE  Waiting1(thread'[u], send_queue'[u]) /\ Keeps(File(thread[u]), File(thread'[u]))
    BY DEF Converts, Moves, AllWait
<1>2. QED
    BY <1>1 DEF AllWait

\* What every step keeps, and what it does to the files while all tasks are traced.
Steps == Converting' /\ (KeepsTracing => \A u \in Task : Keeps(File(thread[u]), File(thread'[u])))

LEMMA HandlesSteps ==
    ASSUME Converting, Handles, AllEnabled /\ KeepsTracing => AllEnabled'
    PROVE  Steps
<1>1. MergeTyped'
    BY HandlesTyped DEF Converting
<1>2. ASSUME KeepsTracing
      PROVE  /\ AllWait' /\ phase' # "aborted"
             /\ \A u \in Task : Keeps(File(thread[u]), File(thread'[u]))
    <2>1. AllWait /\ AllEnabled
        BY <1>2 DEF Converting, AllWait
    <2>2. phase' = "merge" /\ Converts
        BY <2>1 DEF Handles
    <2>3. QED
        BY <1>2, <2>1, <2>2, ConvertsWait
<1>3. QED
    BY <1>1, <1>2 DEF Converting, Steps

LEMMA SameSteps ==
    ASSUME Converting, MergeTyped', UNCHANGED <<thread, enabled, send_queue>>,
           phase' # "aborted" \/ phase' = phase
    PROVE  Steps
<1>1. \A u \in Task : File(thread[u]) \in Seq(Record)
    BY FileTyped DEF Converting, MergeTyped
<1>2. \A u \in Task : Keeps(File(thread[u]), File(thread'[u]))
    BY <1>1, KeepsSelf
<1>3. AllWait => AllWait'
    BY DEF AllWait, AllEnabled
<1>4. QED
    BY <1>2, <1>3 DEF Converting, Steps

LEMMA MergeSteps ==
    ASSUME Converting, NEW t \in Task, Merge(t)
    PROVE  Steps
<1>1. MergeTyped
    BY DEF Converting
<1>2. ASSUME Handles, enabled' = enabled
      PROVE  Steps
    BY <1>2, HandlesSteps DEF AllEnabled
<1>3. CASE Any_Send_Event(t)
    BY <1>1, <1>2, <1>3, AnySendHandles
<1>4. CASE SendRecv_Event(t)
    BY <1>1, <1>2, <1>4, SendRecvHandles
<1>5. CASE Recv_Event(t)
    BY <1>1, <1>2, <1>5, RecvHandles
<1>6. CASE IRecv_Event(t)
    BY <1>1, <1>2, <1>6, IRecvHandles
<1>7. CASE MPI_PersistentRequest_Event(t)
    BY <1>1, <1>2, <1>7, PersistentHandles
<1>8. CASE MPI_Start_Event(t)
    BY <1>1, <1>2, <1>8, StartHandles
<1>9. CASE GlobalOP_event(t)
    BY <1>1, <1>2, <1>9, GlobalHandles
<1>10. CASE Other_MPI_Event(t)
    BY <1>1, <1>2, <1>10, OtherHandles
<1>11. CASE SkipHandler(t)
    BY <1>1, <1>2, <1>11, SkipHandles
<1>12. CASE Tracing_Mode_Event(t)
    BY <1>1, <1>2, <1>12, TracingModeHandles
<1>13. CASE Appl_Event(t)
    BY <1>1, <1>2, <1>13, ApplHandles
<1>14. CASE SetTracing_Event(t)
    <2>1. Handles /\ (AllEnabled /\ Current(t).value = "ON" => AllEnabled')
        BY <1>1, <1>14, SetTracingHandles
    <2>2. IsCurrent(t, {"SET_TRACE"})
        BY <1>1, <1>14, ReadsIs DEF SetTracing_Event
    <2>3. KeepsTracing => Current(t).value = "ON"
        BY <2>2, OnOnly DEF IsCurrent
    <2>4. QED
        BY <2>1, <2>3, HandlesSteps
<1>15. CASE FixPendingCommunication(t)
    BY <1>1, <1>15, FixTyped, SameSteps
<1>16. QED
    BY <1>3, <1>4, <1>5, <1>6, <1>7, <1>8, <1>9, <1>10, <1>11, <1>12, <1>13, <1>14, <1>15
       DEF Merge

LEMMA NextSteps ==
    ASSUME Converting, [Next]_vars
    PROVE  Steps
<1>1. MergeTyped
    BY DEF Converting
<1>2. CASE TraceNext /\ UNCHANGED mergeVars
    <2>1. MergeTyped'
        BY <1>1, <1>2, ProgramTyped
    <2>2. UNCHANGED <<thread, enabled, send_queue, phase>>
        BY <1>2 DEF mergeVars, queues
    <2>3. QED
        BY <2>1, <2>2, SameSteps
<1>3. CASE \E t \in Task : Merge(t)
    BY <1>3, MergeSteps
<1>4. CASE Paraver_ProcessTraceFiles
    <2>1. MergeTyped' /\ Converts /\ phase' = "join" /\ enabled' = enabled
        BY <1>1, <1>4, ProcessConverts
    <2>2. AllEnabled => AllEnabled'
        BY <2>1 DEF AllEnabled
    <2>3. ASSUME KeepsTracing
          PROVE  AllWait' /\ \A u \in Task : Keeps(File(thread[u]), File(thread'[u]))
        BY <2>1, <2>2, <2>3, ConvertsWait DEF Converting, AllWait
    <2>4. QED
        BY <2>1, <2>3 DEF Converting, Steps
<1>5. CASE Paraver_JoinFiles
    BY <1>1, <1>5, JoinTyped, SameSteps
<1>6. CASE UNCHANGED vars
    <2>1. MergeTyped' /\ UNCHANGED <<thread, enabled, send_queue, phase>>
        BY <1>1, <1>6 DEF MergeTyped, QueuesTyped, TraceTyped, vars, mergeVars, traceVars,
                          mpiVars, queues
    <2>2. QED
        BY <2>1, SameSteps
<1>7. QED
    BY <1>2, <1>3, <1>4, <1>5, <1>6 DEF Next

LEMMA FirstIs ==
    /\ FirstThread.stack = <<"STATE_STOPPED">>
    /\ FirstThread.open = [at |-> 0, value |-> "STATE_STOPPED", time |-> 0]
    /\ Good(FirstThread) /\ Len(File(FirstThread)) = 1 /\ File(FirstThread)[1] = UnfinishedState
<1> DEFINE th0 == [wfb |-> EmptyWfb, stack |-> Push_State("STATE_STOPPED", <<>>),
                   open |-> [at |-> NoSlot, value |-> "STATE_IDLE", time |-> 0],
                   Send_Rec |-> 0, Recv_Rec |-> 0]
<1>1. PICK s \in Seq(State) : s = Push_State("STATE_STOPPED", <<>>)
    BY PushTyped, States, EmptySeq
<1>2. s = <<"STATE_STOPPED">>
    BY <1>1 DEF Push_State, Tracing, Top_State
<1>3. Top_State(s) = "STATE_STOPPED"
    BY <1>2 DEF Top_State, Last
<1>4. PICK w \in WfbOf(Record) : w = Write(EmptyWfb, UnfinishedState) /\ Sound(w)
                                 /\ Records(w) = Append(<<>>, UnfinishedState)
    BY EmptyIsSound, WriteAppends, RecordsAre
<1>5. Position(EmptyWfb) = 0
    BY DEF Position, EmptyWfb
<1>6. FirstThread = [wfb |-> w, stack |-> s,
                     open |-> [at |-> 0, value |-> "STATE_STOPPED", time |-> 0],
                     Send_Rec |-> 0, Recv_Rec |-> 0]
    BY <1>1, <1>3, <1>4, <1>5 DEF FirstThread, trace_paraver_state, State_Excluded, NoSlot
<1>7. Len(Records(w)) = 1 /\ Records(w)[1] = UnfinishedState
    BY <1>4
<1>8. FirstThread.wfb = w /\ FirstThread.open.at = 0 /\ FirstThread \in Thread
    BY <1>6, States DEF Thread
<1>9. File(FirstThread) = Records(w)
    BY <1>8 DEF File
<1>10. Good(FirstThread)
    BY <1>4, <1>7, <1>8, <1>9 DEF Good
<1>11. QED
    BY <1>2, <1>6, <1>7, <1>9, <1>10

LEMMA FirstGood ==
    Good(FirstThread) /\ SlotKept(FirstThread)
<1>1. Good(FirstThread) /\ FirstThread.open.at = 0 /\ File(FirstThread)[1] = UnfinishedState
    BY FirstIs
<1>2. QED
    BY <1>1 DEF SlotKept

LEMMA InitConverting ==
    ASSUME Init
    PROVE  Converting
<1>1. TraceTyped
    BY TraceInitTyped DEF Init
<1>2. QueuesTyped /\ joined \in [Task -> Seq(Record)]
    BY EmptySeq DEF Init, QueuesTyped
<1>3. thread = [t \in Task |-> FirstThread]
    BY DEF Init
<1>4. thread \in [Task -> Thread] /\ \A t \in Task : Good(thread[t]) /\ SlotKept(thread[t])
    BY <1>3, FirstGood DEF Good
<1>5. \A t \in Task : cursor[t] <= Len(trace[t])
    BY <1>1, Typed DEF Init, TraceTyped
<1>6. MergeTyped
    BY <1>1, <1>2, <1>4, <1>5, ParallelAssumption DEF Init, MergeTyped
<1>7. ASSUME NEW f
      PROVE  Waits(f, <<>>)
    BY DEF Waits
<1>8. AllWait
    BY <1>4, <1>7 DEF AllWait, AllEnabled, Waiting1, Init
<1>9. QED
    BY <1>6, <1>8 DEF Converting, Init

LEMMA ConvertingHolds ==
    Spec => []Converting
<1>1. Init => Converting
    BY InitConverting
<1>2. Converting /\ [Next]_vars => Converting'
    BY NextSteps DEF Steps
<1>3. QED
    BY <1>1, <1>2, PTL DEF Spec

(* Every variable of the merger keeps its type, and every temporary file is *)
(* as WriteFileBuffer_write and WriteFileBuffer_writeAt leave it.           *)
THEOREM TypeCorrect == Spec => []TypeOK
<1>1. Converting => TypeOK
    <2>1. SUFFICES ASSUME MergeTyped
                   PROVE  TypeOK
        BY DEF Converting
    <2>2. ASSUME NEW t \in Task
          PROVE  /\ cursor[t] \in 0 .. Len(trace[t])
                 /\ Sound(thread[t].wfb)
                 /\ \A r \in Range(Records(thread[t].wfb)) : r.type \in RecordTypes
                 /\ Range(thread[t].stack) \subseteq State
                 /\ thread[t].open.value \in State
                 /\ enabled[t] \in BOOLEAN
        <3>1. Good(thread[t]) /\ cursor[t] \in Nat /\ cursor[t] <= Len(trace[t])
              /\ enabled[t] \in BOOLEAN /\ Len(trace[t]) \in Nat
            BY <2>1, Typed DEF MergeTyped, TraceTyped
        <3>2. /\ Sound(thread[t].wfb) /\ thread[t].open.value \in State
              /\ thread[t].stack \in Seq(State)
            BY <3>1, Parts
        <3>3. Records(thread[t].wfb) \in Seq(Record)
            BY <3>1, FileTyped DEF File
        <3>4. \A r \in Record : r.type \in RecordTypes
            BY DEF Record, RecordTypes
        <3>5. Range(Records(thread[t].wfb)) \subseteq Record
            BY <3>3, Typed DEF Range
        <3>6. Range(thread[t].stack) \subseteq State
            BY <3>2, Typed DEF Range
        <3>7. QED
            BY <3>1, <3>2, <3>4, <3>5, <3>6
    <2>3. QED
        BY <2>1, <2>2 DEF TypeOK, MergeTyped
<1>2. QED
    BY <1>1, ConvertingHolds, PTL

(* While every task is traced the merger never asks                         *)
(* WriteFileBuffer_writeAt for a place beyond its file.                     *)
THEOREM NeverBeyond ==
    ASSUME KeepsTracing
    PROVE  Spec => []Converted
<1>1. Converting => Converted
    BY DEF Converting, Converted
<1>2. QED
    BY <1>1, ConvertingHolds, PTL

(* A record of a temporary file changes only from the slot of a state to    *)
(* that state, or from an unmatched send to its own communication.          *)
THEOREM SlotsAreKept ==
    ASSUME KeepsTracing
    PROVE  Spec => SlotsKept
<1> DEFINE Changes == \A t \in Task :
               LET old == Records(thread[t].wfb)
                   new == Records(thread'[t].wfb)
               IN \A i \in DOMAIN old :
                     \/ new[i] = old[i]
                     \/ old[i].type = "UNFINISHED_STATE" /\ new[i].type = "STATE"
                     \/ /\ old[i].type = "UNMATCHED_COMMUNICATION"
                        /\ new[i].type = "COMMUNICATION"
                        /\ new[i].begin = old[i].begin
                        /\ new[i].end = old[i].end
                        /\ new[i].to = old[i].to
<1>1. Converting /\ [Next]_vars => Changes
    <2>1. SUFFICES ASSUME Converting, [Next]_vars
                   PROVE  Changes
        OBVIOUS
    <2>2. \A u \in Task : Keeps(File(thread[u]), File(thread'[u]))
        BY <2>1, NextSteps DEF Steps
    <2>3. ASSUME NEW t \in Task, NEW i \in DOMAIN Records(thread[t].wfb)
          PROVE  Kept(Records(thread[t].wfb)[i], Records(thread'[t].wfb)[i])
        <3>1. i \in 1..Len(Records(thread[t].wfb))
            BY <2>2, Typed DEF Keeps, File
        <3>2. QED
            BY <2>2, <3>1 DEF Keeps, File
    <2>4. QED
        BY <2>3 DEF Kept
<1>2. SlotsKept <=> [][Changes]_vars
    BY DEF SlotsKept
<1>3. QED
    BY <1>1, <1>2, ConvertingHolds, PTL DEF Spec

-----------------------------------------------------------------------------
(* The order of the events of a task                                        *)

CallTypes == {"SEND", "ISEND", "RECV", "IRECV", "SENDRECV", "WAIT", "START", "BARRIER"}

\* A call begins or ends, an event is within one, or changes the tracing, or is the last.
Opens(e) == e.type \in CallTypes /\ e.value = "BEGIN"
Closes(e) == e.type \in CallTypes /\ e.value = "END"
Inner(e) == e.type \in {"IRECVED", "PERSIST_REQ"}
Single(e) == e.type \in {"TRACING_MODE", "SET_TRACE"}
Ends(e) == e.type = "APPL"
Outside(e) == Closes(e) \/ Single(e)

\* Event f may follow event e, which follows event d.
Follows(d, e, f) ==
    \/ /\ Opens(e)
       /\ \/ Closes(f) /\ f.type = e.type
          \/ Inner(f) /\ e.type \in {"WAIT", "START"}
    \/ Inner(e) /\ Closes(f) /\ f.type = d.type
    \/ Outside(e) /\ (Opens(f) \/ f.type = "SET_TRACE" \/ Ends(f))

Ordered(s) ==
    /\ s \in Seq(Events) /\ Len(s) >= 1
    /\ s[1].type = "TRACING_MODE"
    /\ \A i \in 2..Len(s) : Follows(s[i - 2], s[i - 1], s[i])

LEMMA KindsOfEvents ==
    ASSUME NEW e \in Events
    PROVE  /\ Opens(e) \/ Closes(e) \/ Inner(e) \/ Single(e) \/ Ends(e)
           /\ ~(Opens(e) /\ Closes(e)) /\ ~(Opens(e) /\ Inner(e)) /\ ~(Opens(e) /\ Single(e))
           /\ ~(Closes(e) /\ Inner(e)) /\ ~(Closes(e) /\ Single(e)) /\ ~(Inner(e) /\ Single(e))
           /\ Ends(e) => ~Opens(e) /\ ~Closes(e) /\ ~Inner(e) /\ ~Single(e)
           /\ e.value = "BEGIN" => Opens(e)
<1>1. none # "BEGIN"
    BY NoneIs
<1>2. "ON" # "BEGIN" /\ \A v \in SetValues : v # "BEGIN"
    BY DEF SetValues
<1>3. /\ ~(Opens(e) /\ Closes(e)) /\ ~(Opens(e) /\ Inner(e)) /\ ~(Opens(e) /\ Single(e))
      /\ ~(Closes(e) /\ Inner(e)) /\ ~(Closes(e) /\ Single(e)) /\ ~(Inner(e) /\ Single(e))
      /\ Ends(e) => ~Opens(e) /\ ~Closes(e) /\ ~Inner(e) /\ ~Single(e)
    BY DEF Opens, Closes, Inner, Single, Ends, CallTypes
<1>4. Opens(e) \/ Closes(e) \/ Inner(e) \/ Single(e) \/ Ends(e)
    BY DEF Events, Opens, Closes, Inner, Single, Ends, CallTypes
<1>5. ASSUME e.value = "BEGIN"
      PROVE  Opens(e)
    <2>1. e.type \in CallTypes
        BY <1>1, <1>2, <1>5 DEF Events, CallTypes
    <2>2. QED
        BY <1>5, <2>1 DEF Opens
<1>6. QED
    BY <1>3, <1>4, <1>5

\* The events before the last, where there are that many.
Before(s) == s[Len(s) - 1]
Final(s) == s[Len(s)]

LEMMA OrderedMore ==
    ASSUME NEW s, Ordered(s), NEW e \in Events, Follows(Before(s), Final(s), e)
    PROVE  /\ Ordered(Append(s, e)) /\ Final(Append(s, e)) = e
           /\ Before(Append(s, e)) = Final(s)
<1>1. s \in Seq(Events) /\ Len(s) \in Nat /\ Len(s) >= 1
    BY Typed DEF Ordered
<1>2. PICK n \in Nat : n = Len(s) /\ n >= 1
    BY <1>1
<1>3. PICK u \in Seq(Events) : u = Append(s, e)
    BY <1>1, Added
<1>4. /\ Len(u) = n + 1 /\ \A i \in 1..n : u[i] = s[i]
      /\ u[n + 1] = e
    BY <1>1, <1>2, <1>3, Added
<1>5. ASSUME NEW i \in 2..Len(u)
      PROVE  Follows(u[i - 2], u[i - 1], u[i])
    <2>1. CASE i = n + 1
        <3>1. i - 1 = n /\ i - 2 = n - 1 /\ n \in 1..n
            BY <1>2, <2>1
        <3>2. u[i] = e /\ u[i - 1] = s[n]
            BY <1>4, <2>1, <3>1
        <3>3. CASE n = 1
            <4>1. s[n].type = "TRACING_MODE"
                BY <3>3 DEF Ordered
            <4>2. ~Opens(s[n]) /\ ~Inner(s[n])
                BY <4>1 DEF Opens, Inner, CallTypes
            <4>3. Outside(s[n]) /\ (Opens(e) \/ e.type = "SET_TRACE" \/ Ends(e))
                BY <1>2, <4>2 DEF Follows, Final
            <4>4. QED
                BY <3>2, <4>3 DEF Follows
        <3>4. CASE n # 1
            <4>1. n - 1 \in 1..n
                BY <1>2, <3>4
            <4>2. u[i - 2] = s[n - 1]
                BY <1>4, <3>1, <4>1
            <4>3. Follows(s[n - 1], s[n], e)
                BY <1>2 DEF Before, Final
            <4>4. QED
                BY <3>2, <4>2, <4>3
        <3>5. QED
            BY <3>3, <3>4
    <2>2. CASE i # n + 1
        <3>1. i \in 2..n /\ i - 1 \in 1..n /\ i \in 1..n
            BY <1>4, <2>2
        <3>2. u[i] = s[i] /\ u[i - 1] = s[i - 1]
            BY <1>4, <3>1
        <3>3. Follows(s[i - 2], s[i - 1], s[i])
            BY <1>2, <3>1 DEF Ordered
        <3>4. CASE i = 2
            <4>1. s[1].type = "TRACING_MODE" /\ s[i - 1] = s[1]
                BY <3>4 DEF Ordered
            <4>2. ~Opens(s[i - 1]) /\ ~Inner(s[i - 1])
                BY <4>1 DEF Opens, Inner, CallTypes
            <4>3. QED
                BY <3>2, <3>3, <4>2 DEF Follows
        <3>5. CASE i # 2
            <4>1. i - 2 \in 1..n
                BY <3>1, <3>5
            <4>2. u[i - 2] = s[i - 2]
                BY <1>4, <4>1
            <4>3. QED
                BY <3>2, <3>3, <4>2
        <3>6. QED
            BY <3>4, <3>5
    <2>3. QED
        BY <2>1, <2>2
<1>6. u[1].type = "TRACING_MODE"
    <2>1. 1 \in 1..n
        BY <1>2
    <2>2. u[1] = s[1]
        BY <1>4, <2>1
    <2>3. QED
        BY <2>2 DEF Ordered
<1>7. Ordered(u)
    BY <1>2, <1>4, <1>5, <1>6 DEF Ordered
<1>8. Final(u) = e /\ Before(u) = Final(s)
    <2>1. Len(u) = n + 1 /\ n + 1 - 1 = n /\ n \in 1..n
        BY <1>2, <1>4
    <2>2. QED
        BY <1>2, <1>4, <2>1 DEF Final, Before
<1>9. QED
    BY <1>3, <1>7, <1>8

-----------------------------------------------------------------------------
(* Every task records all its events                                        *)

OwnTraced == \A t \in Task : t \in bitmap[t]

LEMMA AllRecorded ==
    ASSUME NEW t \in Task, t \in bitmap[t], NEW e \in Events, NEW f \in Events
    PROVE  /\ Recorded(t, <<e>>) = Append(trace[t], e)
           /\ Recorded(t, <<e, f>>) = Append(Append(trace[t], e), f)
<1>1. Traced(t, e) /\ Traced(t, f)
    BY DEF Traced
<1>2. Recorded(t, <<e>>) = Append(trace[t], e)
    <2>0. PICK es : es = <<e>>
        OBVIOUS
    <2>1. es = <<e>> /\ Len(es) = 1 /\ es[1] = e
        BY <2>0
    <2>2. Recorded(t, es) = Append(trace[t], e)
        BY <1>1, <2>1 DEF Recorded
    <2>3. QED
        BY <2>1, <2>2
<1>3. Recorded(t, <<e, f>>) = Append(Append(trace[t], e), f)
    <2>0. PICK es : es = <<e, f>>
        OBVIOUS
    <2>1. es = <<e, f>> /\ Len(es) = 2 /\ es[1] = e /\ es[2] = f
        BY <2>0
    <2>2. Recorded(t, es) = Append(Append(trace[t], e), f)
        BY <1>1, <2>1 DEF Recorded
    <2>3. QED
        BY <2>1, <2>2
<1>4. QED
    BY <1>2, <1>3

LEMMA ThreeRecorded ==
    ASSUME NEW t \in Task, t \in bitmap[t], NEW e, NEW f, NEW g
    PROVE  Recorded(t, <<e, f, g>>) = Append(Append(Append(trace[t], e), f), g)
<1>1. Traced(t, e) /\ Traced(t, f) /\ Traced(t, g)
    BY DEF Traced
<1>2. PICK es : es = <<e, f, g>>
    OBVIOUS
<1>3. es = <<e, f, g>> /\ Len(es) = 3 /\ es[1] = e /\ es[2] = f /\ es[3] = g
    BY <1>2
<1>4. Recorded(t, es) = Append(Append(Append(trace[t], e), f), g)
    BY <1>1, <1>3 DEF Recorded
<1>5. QED
    BY <1>3, <1>4

\* A whole call after an ordered trace that is outside of any.
LEMMA CallOrdered ==
    ASSUME NEW s, Ordered(s), Outside(Final(s)), NEW e \in Events, NEW f \in Events,
           Opens(e), Closes(f), f.type = e.type
    PROVE  Ordered(Append(Append(s, e), f)) /\ Outside(Final(Append(Append(s, e), f)))
<1>0. PICK u : u = Append(s, e)
    OBVIOUS
<1>1. u = Append(s, e) /\ Ordered(u) /\ Final(u) = e
    <2>1. Follows(Before(s), Final(s), e)
        BY DEF Follows
    <2>2. Ordered(Append(s, e)) /\ Final(Append(s, e)) = e
        BY <2>1, OrderedMore
    <2>3. QED
        BY <1>0, <2>2
<1>2. PICK v : v = Append(u, f) /\ Ordered(v) /\ Final(v) = f
    BY <1>1, OrderedMore DEF Follows
<1>3. QED
    BY <1>1, <1>2 DEF Outside

LEMMA LongCallOrdered ==
    ASSUME NEW s, Ordered(s), Outside(Final(s)),
           NEW e \in Events, NEW f \in Events, NEW g \in Events,
           Opens(e), e.type \in {"WAIT", "START"}, Inner(f), Closes(g), g.type = e.type
    PROVE  /\ Ordered(Append(Append(Append(s, e), f), g))
           /\ Outside(Final(Append(Append(Append(s, e), f), g)))
<1>0. PICK u : u = Append(s, e)
    OBVIOUS
<1>1. u = Append(s, e) /\ Ordered(u) /\ Final(u) = e
    <2>1. Follows(Before(s), Final(s), e)
        BY DEF Follows
    <2>2. Ordered(Append(s, e)) /\ Final(Append(s, e)) = e
        BY <2>1, OrderedMore
    <2>3. QED
        BY <1>0, <2>2
<1>2. Follows(Before(u), Final(u), f)
    BY <1>1 DEF Follows
<1>3. PICK v : v = Append(u, f)
    OBVIOUS
<1>4. Ordered(v) /\ Final(v) = f /\ Before(v) = e
    BY <1>1, <1>2, <1>3, OrderedMore
<1>5. Follows(Before(v), Final(v), g)
    BY <1>4 DEF Follows
<1>6. PICK w : w = Append(v, g)
    OBVIOUS
<1>7. Ordered(w) /\ Final(w) = g
    BY <1>4, <1>5, <1>6, OrderedMore
<1>8. QED
    BY <1>1, <1>3, <1>6, <1>7 DEF Outside

\* What the last event of a task says of what it is doing.
LastEvent(t) ==
    /\ finished => Ends(Final(trace[t]))
    /\ ~finished /\ inCall[t] = none => Outside(Final(trace[t]))
    /\ inCall[t] # none => Opens(Final(trace[t])) /\ Final(trace[t]).type = "SENDRECV"

TraceOrder == OwnTraced /\ \A t \in Task : Ordered(trace[t]) /\ LastEvent(t)

\* Task t goes on with trace s, and the others do not.
GoesOn(t, s) == trace' = [trace EXCEPT ![t] = s]

LEMMA OrderKept ==
    ASSUME TraceTyped, TraceOrder, NEW t \in Task, NEW s, GoesOn(t, s), Ordered(s),
           ~finished', \A u \in Task : u # t => inCall'[u] = inCall[u], ~finished,
           inCall'[t] = none => Outside(Final(s)),
           inCall'[t] # none => Opens(Final(s)) /\ Final(s).type = "SENDRECV",
           bitmap' = bitmap
    PROVE  TraceOrder'
<1>1. trace' = [trace EXCEPT ![t] = s] /\ trace \in [Task -> Seq(Events)]
    BY DEF GoesOn, TraceTyped
<1>2. \A u \in Task : trace'[u] = IF u = t THEN s ELSE trace[u]
    BY <1>1
<1>3. ASSUME NEW u \in Task
      PROVE  Ordered(trace'[u]) /\ LastEvent(u)'
    <2>1. CASE u = t
        BY <1>2, <2>1 DEF LastEvent
    <2>2. CASE u # t
        BY <1>2, <2>2 DEF LastEvent, TraceOrder
    <2>3. QED
        BY <2>1, <2>2
<1>4. QED
    BY <1>3 DEF TraceOrder, OwnTraced

\* A call that is recorded as a whole.
LEMMA CallGoesOn ==
    ASSUME TraceTyped, TraceOrder, NEW t \in Task, ~finished, inCall[t] = none,
           NEW e \in Events, NEW f \in Events, Opens(e), Closes(f), f.type = e.type,
           TRACE_EVENTs(t, <<e, f>>), UNCHANGED <<finished, bitmap, inCall>>
    PROVE  TraceOrder'
<1>1. Recorded(t, <<e, f>>) = Append(Append(trace[t], e), f)
    BY AllRecorded DEF TraceOrder, OwnTraced
<1>2. PICK s : s = Append(Append(trace[t], e), f)
    OBVIOUS
<1>3. Ordered(trace[t]) /\ Outside(Final(trace[t]))
    BY DEF TraceOrder, LastEvent
<1>4. Ordered(s) /\ Outside(Final(s))
    BY <1>2, <1>3, CallOrdered
<1>5. GoesOn(t, s)
    BY <1>1, <1>2 DEF TRACE_EVENTs, GoesOn
<1>6. QED
    BY <1>4, <1>5, OrderKept

LEMMA ThreeGoOn ==
    ASSUME NEW t \in Task, t \in bitmap[t], NEW e, NEW f, NEW g, TRACE_EVENTs(t, <<e, f, g>>)
    PROVE  GoesOn(t, Append(Append(Append(trace[t], e), f), g))
<1>1. Recorded(t, <<e, f, g>>) = Append(Append(Append(trace[t], e), f), g)
    BY ThreeRecorded
<1>2. QED
    BY <1>1 DEF TRACE_EVENTs, GoesOn

LEMMA LongCallGoesOn ==
    ASSUME TraceTyped, TraceOrder, NEW t \in Task, ~finished, inCall[t] = none,
           NEW e \in Events, NEW f \in Events, NEW g \in Events,
           Opens(e), e.type \in {"WAIT", "START"}, Inner(f), Closes(g), g.type = e.type,
           TRACE_EVENTs(t, <<e, f, g>>), UNCHANGED <<finished, bitmap, inCall>>
    PROVE  TraceOrder'
<1>0. t \in bitmap[t]
    BY DEF TraceOrder, OwnTraced
<1>1. GoesOn(t, Append(Append(Append(trace[t], e), f), g))
    BY <1>0, ThreeGoOn
<1>2. PICK s : s = Append(Append(Append(trace[t], e), f), g)
    OBVIOUS
<1>3. Ordered(trace[t]) /\ Outside(Final(trace[t]))
    BY DEF TraceOrder, LastEvent
<1>4. Ordered(s) /\ Outside(Final(s))
    BY <1>2, <1>3, LongCallOrdered
<1>5. GoesOn(t, s)
    BY <1>1, <1>2
<1>6. QED
    BY <1>4, <1>5, OrderKept

LEMMA EventFields ==
    ASSUME NEW type, NEW value, NEW target, NEW tag, NEW aux, NEW msg
    PROVE  /\ Event(type, value, target, tag, aux, msg).type = type
           /\ Event(type, value, target, tag, aux, msg).value = value
           /\ Event(type, value, target, tag, aux, msg).target = target
           /\ Event(type, value, target, tag, aux, msg).tag = tag
           /\ Event(type, value, target, tag, aux, msg).aux = aux
           /\ Event(type, value, target, tag, aux, msg).msg = msg
           /\ Plain(type, value).type = type /\ Plain(type, value).value = value
BY DEF Event, Plain

LEMMA SendOrder ==
    ASSUME TraceTyped, TraceOrder, NEW c \in Calls, MPI_Send(c)
    PROVE  TraceOrder'
<1>1. PICK t \in Task : t = c.task
    BY CallIs
<1>2. PICK m \in Messages : m = Message(t, c.tag)
    BY MessageIs
<1>3. /\ Enters(c, {"SEND", "ISEND"})
      /\ TRACE_EVENTs(t, << Event(c.kind, "BEGIN", c.partner, c.tag, none, m),
                            Event(c.kind, "END", c.partner, c.tag, none, m) >>)
      /\ UNCHANGED <<inCall, bitmap>>
    BY <1>1, <1>2 DEF MPI_Send
<1>4. c.kind \in {"SEND", "ISEND"} /\ ~finished /\ finished' = finished /\ inCall[t] = none
    BY <1>1, <1>3, EntersTyped
<1>5. c.partner \in Task /\ c.tag \in Tags
    BY <1>4, CallIs DEF SendKinds
<1>6. PICK e \in Events : e = Event(c.kind, "BEGIN", c.partner, c.tag, none, m)
    BY <1>4, <1>5, SendEvents
<1>7. PICK f \in Events : f = Event(c.kind, "END", c.partner, c.tag, none, m)
    BY <1>4, <1>5, SendEvents
<1>8. TRACE_EVENTs(t, <<e, f>>)
    BY <1>3, <1>6, <1>7
<1>9. Opens(e) /\ Closes(f) /\ f.type = e.type
    BY <1>4, <1>6, <1>7, EventFields DEF Opens, Closes, CallTypes
<1>10. QED
    BY <1>3, <1>4, <1>8, <1>9, CallGoesOn

LEMMA RecvOrder ==
    ASSUME TraceTyped, TraceOrder, NEW c \in Calls, MPI_Recv(c)
    PROVE  TraceOrder'
<1>1. PICK t \in Task : t = c.task
    BY CallIs
<1>2. Enters(c, {"RECV"}) /\ UNCHANGED <<inCall, bitmap>>
    BY DEF MPI_Recv
<1>3. PICK i \in FirstOf(Available(t, c.partner, c.tag)) :
          TRACE_EVENTs(t, << Event("RECV", "BEGIN", c.partner, c.tag, none, none),
                             Event("RECV", "END", arrived[t][i].from, arrived[t][i].tag, none,
                                   arrived[t][i]) >>)
    BY <1>1 DEF MPI_Recv
<1>4. c.kind = "RECV" /\ ~finished /\ finished' = finished /\ inCall[t] = none
    BY <1>1, <1>2, EntersTyped
<1>5. c.partner \in Partners /\ c.tag \in Tags
    BY <1>4, CallIs DEF ReceiveKinds
<1>6. i \in DOMAIN arrived[t] /\ arrived[t] \in Seq(Messages)
    BY DEF FirstOf, Available, TraceTyped
<1>7. PICK m \in Messages : m = arrived[t][i]
    BY <1>6, Typed
<1>8. m.from \in Task /\ m.tag \in Tags
    BY MessageTyped
<1>9. PICK e \in Events : e = Event("RECV", "BEGIN", c.partner, c.tag, none, none)
    BY <1>5 DEF Events, Event
<1>10. PICK f \in Events : f = Event("RECV", "END", m.from, m.tag, none, m)
    BY <1>8, MessageEvents
<1>11. TRACE_EVENTs(t, <<e, f>>)
    BY <1>3, <1>7, <1>9, <1>10
<1>12. Opens(e) /\ Closes(f) /\ f.type = e.type
    BY <1>9, <1>10, EventFields DEF Opens, Closes, CallTypes
<1>13. QED
    BY <1>2, <1>4, <1>11, <1>12, CallGoesOn

LEMMA IrecvOrder ==
    ASSUME TraceTyped, TraceOrder, NEW c \in Calls, MPI_Irecv(c)
    PROVE  TraceOrder'
<1>1. PICK t \in Task : t = c.task
    BY CallIs
<1>2. Enters(c, {"IRECV"}) /\ UNCHANGED <<inCall, bitmap>>
    BY DEF MPI_Irecv
<1>3. PICK req \in FreeRequests(t) :
          TRACE_EVENTs(t, << Event("IRECV", "BEGIN", c.partner, c.tag, none, none),
                             Event("IRECV", "END", c.partner, c.tag, req, none) >>)
    BY <1>1 DEF MPI_Irecv
<1>4. c.kind = "IRECV" /\ ~finished /\ finished' = finished /\ inCall[t] = none
    BY <1>1, <1>2, EntersTyped
<1>5. c.partner \in Partners /\ c.tag \in Tags /\ req \in Request
    BY <1>4, CallIs DEF ReceiveKinds, FreeRequests
<1>6. PICK e \in Events : e = Event("IRECV", "BEGIN", c.partner, c.tag, none, none)
    BY <1>5, ReceiveEvents
<1>7. PICK f \in Events : f = Event("IRECV", "END", c.partner, c.tag, req, none)
    BY <1>5, ReceiveEvents
<1>8. TRACE_EVENTs(t, <<e, f>>)
    BY <1>3, <1>6, <1>7
<1>9. Opens(e) /\ Closes(f) /\ f.type = e.type
    BY <1>6, <1>7, EventFields DEF Opens, Closes, CallTypes
<1>10. QED
    BY <1>2, <1>4, <1>8, <1>9, CallGoesOn

LEMMA WaitOrder ==
    ASSUME TraceTyped, TraceOrder, NEW t \in Task, MPI_Wait(t)
    PROVE  TraceOrder'
<1>1. ~finished /\ inCall[t] = none /\ UNCHANGED <<inCall, bitmap, finished>>
    BY DEF MPI_Wait
<1>2. PICK i \in DOMAIN posted[t] :
          /\ posted[t][i].got # none
          /\ TRACE_EVENTs(t,
                << Plain("WAIT", "BEGIN"),
                   Event("IRECVED", none, posted[t][i].got.from, posted[t][i].tag,
                         posted[t][i].req, posted[t][i].got),
                   Plain("WAIT", "END") >>)
    BY DEF MPI_Wait
<1>3. posted[t] \in Seq(Receives)
    BY DEF TraceTyped
<1>4. PICK r \in Receives : r = posted[t][i]
    BY <1>3, Typed
<1>5. r.got \in Messages /\ r.tag \in Tags /\ r.req \in Request
    BY <1>2, <1>4 DEF Receives
<1>6. r.got.from \in Task
    BY <1>5, MessageTyped
<1>7. PICK e \in Events : e = Plain("WAIT", "BEGIN")
    BY PlainEvents
<1>8. PICK f \in Events : f = Event("IRECVED", none, r.got.from, r.tag, r.req, r.got)
    BY <1>5, <1>6, ReceiveEvents
<1>9. PICK g \in Events : g = Plain("WAIT", "END")
    BY PlainEvents
<1>10. TRACE_EVENTs(t, <<e, f, g>>)
    BY <1>2, <1>4, <1>7, <1>8, <1>9
<1>11. Opens(e) /\ e.type \in {"WAIT", "START"} /\ Inner(f) /\ Closes(g) /\ g.type = e.type
    BY <1>7, <1>8, <1>9, EventFields DEF Opens, Closes, Inner, CallTypes
<1>12. QED
    BY <1>1, <1>10, <1>11, LongCallGoesOn

LEMMA StartSendOrder ==
    ASSUME TraceTyped, TraceOrder, NEW c \in Calls, StartSend(c)
    PROVE  TraceOrder'
<1>1. PICK t \in Task : t = c.task
    BY CallIs
<1>2. PICK m \in Messages : m = Message(t, c.tag)
    BY MessageIs
<1>3. /\ Enters(c, {"START_SEND"})
      /\ TRACE_EVENTs(t, << Plain("START", "BEGIN"),
                            Event("PERSIST_REQ", "ISEND", c.partner, c.tag, none, m),
                            Plain("START", "END") >>)
      /\ UNCHANGED <<inCall, bitmap>>
    BY <1>1, <1>2 DEF StartSend, Started
<1>4. c.kind = "START_SEND" /\ ~finished /\ finished' = finished /\ inCall[t] = none
    BY <1>1, <1>3, EntersTyped
<1>5. c.partner \in Task /\ c.tag \in Tags
    BY <1>4, CallIs DEF SendKinds
<1>6. PICK e \in Events : e = Plain("START", "BEGIN")
    BY PlainEvents
<1>7. PICK f \in Events : f = Event("PERSIST_REQ", "ISEND", c.partner, c.tag, none, m)
    BY <1>5, MessageEvents
<1>8. PICK g \in Events : g = Plain("START", "END")
    BY PlainEvents
<1>9. TRACE_EVENTs(t, <<e, f, g>>)
    BY <1>3, <1>6, <1>7, <1>8
<1>10. Opens(e) /\ e.type \in {"WAIT", "START"} /\ Inner(f) /\ Closes(g) /\ g.type = e.type
    BY <1>6, <1>7, <1>8, EventFields DEF Opens, Closes, Inner, CallTypes
<1>11. QED
    BY <1>3, <1>4, <1>9, <1>10, LongCallGoesOn

LEMMA StartReceiveOrder ==
    ASSUME TraceTyped, TraceOrder, NEW c \in Calls, StartReceive(c)
    PROVE  TraceOrder'
<1>1. PICK t \in Task : t = c.task
    BY CallIs
<1>2. Enters(c, {"START_RECV"}) /\ UNCHANGED <<inCall, bitmap>>
    BY DEF StartReceive
<1>3. PICK req \in FreeRequests(t) :
          TRACE_EVENTs(t, << Plain("START", "BEGIN"),
                             Event("PERSIST_REQ", "IRECV", c.partner, c.tag, req, none),
                             Plain("START", "END") >>)
    BY <1>1 DEF StartReceive, Started
<1>4. c.kind = "START_RECV" /\ ~finished /\ finished' = finished /\ inCall[t] = none
    BY <1>1, <1>2, EntersTyped
<1>5. c.partner \in Partners /\ c.tag \in Tags /\ req \in Request
    BY <1>4, CallIs DEF ReceiveKinds, FreeRequests
<1>6. PICK e \in Events : e = Plain("START", "BEGIN")
    BY PlainEvents
<1>7. PICK f \in Events : f = Event("PERSIST_REQ", "IRECV", c.partner, c.tag, req, none)
    BY <1>5, ReceiveEvents
<1>8. PICK g \in Events : g = Plain("START", "END")
    BY PlainEvents
<1>9. TRACE_EVENTs(t, <<e, f, g>>)
    BY <1>3, <1>6, <1>7, <1>8
<1>10. Opens(e) /\ e.type \in {"WAIT", "START"} /\ Inner(f) /\ Closes(g) /\ g.type = e.type
    BY <1>6, <1>7, <1>8, EventFields DEF Opens, Closes, Inner, CallTypes
<1>11. QED
    BY <1>2, <1>4, <1>9, <1>10, LongCallGoesOn

LEMMA SendrecvOrder ==
    ASSUME TraceTyped, TraceOrder, NEW c \in Calls, MPI_Sendrecv(c)
    PROVE  TraceOrder'
<1>1. PICK t \in Task : t = c.task
    BY CallIs
<1>2. PICK m \in Messages : m = Message(t, c.tag)
    BY MessageIs
<1>3. /\ Enters(c, {"SENDRECV"})
      /\ inCall' = [inCall EXCEPT ![t] = c]
      /\ TRACE_EVENTs(t, <<Event("SENDRECV", "BEGIN", c.partner, c.tag, none, m)>>)
      /\ bitmap' = bitmap
    BY <1>1, <1>2 DEF MPI_Sendrecv
<1>4. c.kind = "SENDRECV" /\ ~finished /\ finished' = finished /\ inCall[t] = none
    BY <1>1, <1>3, EntersTyped
<1>5. c.partner \in Task /\ c.tag \in Tags /\ c # none
    BY <1>4, CallIs, NoneIs DEF SendKinds
<1>6. PICK e \in Events : e = Event("SENDRECV", "BEGIN", c.partner, c.tag, none, m)
    BY <1>5, SendEvents
<1>7. TRACE_EVENTs(t, <<e>>)
    BY <1>3, <1>6
<1>8. Recorded(t, <<e>>) = Append(trace[t], e)
    BY AllRecorded DEF TraceOrder, OwnTraced
<1>9. PICK s : s = Append(trace[t], e) /\ GoesOn(t, s)
    BY <1>7, <1>8 DEF TRACE_EVENTs, GoesOn
<1>10. Ordered(trace[t]) /\ Outside(Final(trace[t]))
    BY <1>4 DEF TraceOrder, LastEvent
<1>11. Opens(e) /\ e.type = "SENDRECV"
    BY <1>6, EventFields DEF Opens, CallTypes
<1>12. Follows(Before(trace[t]), Final(trace[t]), e)
    BY <1>10, <1>11 DEF Follows
<1>13. Ordered(s) /\ Final(s) = e
    BY <1>9, <1>10, <1>12, OrderedMore
<1>14. inCall'[t] = c /\ \A u \in Task : u # t => inCall'[u] = inCall[u]
    BY <1>3 DEF TraceTyped
<1>15. inCall'[t] # none
    BY <1>5, <1>14
<1>16. QED
    BY <1>3, <1>4, <1>9, <1>11, <1>13, <1>14, <1>15, OrderKept

LEMMA SendrecvReturnsOrder ==
    ASSUME TraceTyped, TraceOrder, NEW t \in Task, SendrecvReturns(t)
    PROVE  TraceOrder'
<1>1. /\ inCall[t] # none /\ inCall' = [inCall EXCEPT ![t] = none]
      /\ UNCHANGED <<bitmap, finished>>
    BY DEF SendrecvReturns
<1>2. PICK i \in FirstOf(Available(t, inCall[t].partner, inCall[t].tag)) :
          TRACE_EVENTs(t, <<Event("SENDRECV", "END", arrived[t][i].from, arrived[t][i].tag,
                                  none, arrived[t][i])>>)
    BY DEF SendrecvReturns
<1>3. ~finished
    BY <1>1 DEF TraceTyped
<1>4. i \in DOMAIN arrived[t] /\ arrived[t] \in Seq(Messages)
    BY DEF FirstOf, Available, TraceTyped
<1>5. PICK m \in Messages : m = arrived[t][i]
    BY <1>4, Typed
<1>6. m.from \in Task /\ m.tag \in Tags
    BY MessageTyped
<1>7. PICK e \in Events : e = Event("SENDRECV", "END", m.from, m.tag, none, m)
    BY <1>6, SendEvents
<1>8. TRACE_EVENTs(t, <<e>>)
    BY <1>2, <1>5, <1>7
<1>9. Recorded(t, <<e>>) = Append(trace[t], e)
    BY AllRecorded DEF TraceOrder, OwnTraced
<1>10. PICK s : s = Append(trace[t], e) /\ GoesOn(t, s)
    BY <1>8, <1>9 DEF TRACE_EVENTs, GoesOn
<1>11. Ordered(trace[t]) /\ Opens(Final(trace[t])) /\ Final(trace[t]).type = "SENDRECV"
    BY <1>1 DEF TraceOrder, LastEvent
<1>12. Closes(e) /\ e.type = "SENDRECV"
    BY <1>7, EventFields DEF Closes, CallTypes
<1>13. Follows(Before(trace[t]), Final(trace[t]), e)
    BY <1>11, <1>12 DEF Follows
<1>14. Ordered(s) /\ Final(s) = e
    BY <1>10, <1>11, <1>13, OrderedMore
<1>15. inCall'[t] = none /\ \A u \in Task : u # t => inCall'[u] = inCall[u]
    BY <1>1 DEF TraceTyped
<1>16. Outside(Final(s))
    BY <1>12, <1>14 DEF Outside
<1>17. QED
    BY <1>1, <1>3, <1>10, <1>14, <1>15, <1>16, OrderKept

LEMMA BarrierOrder ==
    ASSUME TraceTyped, TraceOrder, NEW c \in Calls, MPI_Barrier(c)
    PROVE  TraceOrder'
<1>1. PICK e \in Events : e = Plain("BARRIER", "BEGIN")
    BY PlainEvents
<1>2. PICK f \in Events : f = Plain("BARRIER", "END")
    BY PlainEvents
<1>3. /\ ~finished /\ UNCHANGED <<inCall, bitmap, finished>>
      /\ \A t \in Task : inCall[t] = none
    BY DEF MPI_Barrier
<1>4. trace' = [t \in Task |-> Recorded(t, <<e, f>>)]
    BY <1>1, <1>2 DEF MPI_Barrier
<1>5. Opens(e) /\ Closes(f) /\ f.type = e.type
    BY <1>1, <1>2, EventFields DEF Opens, Closes, CallTypes
<1>6. ASSUME NEW t \in Task
      PROVE  Ordered(trace'[t]) /\ Outside(Final(trace'[t]))
    <2>1. Recorded(t, <<e, f>>) = Append(Append(trace[t], e), f)
        BY AllRecorded DEF TraceOrder, OwnTraced
    <2>2. Ordered(trace[t]) /\ Outside(Final(trace[t]))
        BY <1>3 DEF TraceOrder, LastEvent
    <2>3. PICK s : s = Append(Append(trace[t], e), f)
        OBVIOUS
    <2>4. Ordered(s) /\ Outside(Final(s))
        BY <1>5, <2>2, <2>3, CallOrdered
    <2>5. QED
        BY <1>4, <2>1, <2>3, <2>4
<1>7. QED
    BY <1>3, <1>6 DEF TraceOrder, OwnTraced, LastEvent

LEMMA TracingTasksOrder ==
    ASSUME KeepsTracing, TraceTyped, TraceOrder, NEW c \in Calls, Extrae_set_tracing_tasks(c)
    PROVE  TraceOrder'
<1>1. PICK t \in Task : t = c.task
    BY CallIs
<1>2. /\ Enters(c, {"TRACING_TASKS"})
      /\ TRACE_EVENTs(t, <<Plain("SET_TRACE", IF t \in c.partner THEN "ON" ELSE "OFF")>>)
      /\ bitmap' = [bitmap EXCEPT ![t] = c.partner] /\ inCall' = inCall
    BY <1>1 DEF Extrae_set_tracing_tasks
<1>3. c.kind = "TRACING_TASKS" /\ ~finished /\ finished' = finished /\ inCall[t] = none
    BY <1>1, <1>2, EntersTyped
<1>4. PICK v \in SetValues : v = IF t \in c.partner THEN "ON" ELSE "OFF"
    BY <1>1, <1>3 DEF SetValues
<1>5. PICK e \in Events : e = Plain("SET_TRACE", v)
    BY SetEvents
<1>6. Recorded(t, <<e>>) = Append(trace[t], e)
    BY AllRecorded DEF TraceOrder, OwnTraced
<1>7. PICK s : s = Append(trace[t], e)
    OBVIOUS
<1>8. trace' = [trace EXCEPT ![t] = s]
    BY <1>2, <1>4, <1>5, <1>6, <1>7 DEF TRACE_EVENTs
<1>9. Ordered(trace[t]) /\ Outside(Final(trace[t]))
    BY <1>3 DEF TraceOrder, LastEvent
<1>10. e.type = "SET_TRACE"
    BY <1>5, EventFields
<1>11. Follows(Before(trace[t]), Final(trace[t]), e)
    BY <1>9, <1>10 DEF Follows
<1>12. Ordered(s) /\ Final(s) = e
    BY <1>7, <1>9, <1>11, OrderedMore
<1>13. Outside(Final(s))
    BY <1>10, <1>12 DEF Outside, Single
<1>14. \A u \in Task : trace'[u] = IF u = t THEN s ELSE trace[u]
    BY <1>8 DEF TraceTyped
<1>15. ASSUME NEW u \in Task
       PROVE  Ordered(trace'[u]) /\ LastEvent(u)'
    <2>1. CASE u = t
        BY <1>2, <1>3, <1>12, <1>13, <1>14, <2>1 DEF LastEvent
    <2>2. CASE u # t
        BY <1>2, <1>3, <1>14, <2>2 DEF LastEvent, TraceOrder
    <2>3. QED
        BY <2>1, <2>2
<1>16. OwnTraced'
    <2>1. t \in c.partner
        BY <1>1, <1>3 DEF KeepsTracing
    <2>2. \A u \in Task : bitmap'[u] = IF u = t THEN c.partner ELSE bitmap[u]
        BY <1>2 DEF TraceTyped
    <2>3. QED
        BY <2>1, <2>2 DEF OwnTraced, TraceOrder
<1>17. QED
    BY <1>15, <1>16 DEF TraceOrder

LEMMA FinishOrder ==
    ASSUME TraceTyped, TraceOrder, Finish
    PROVE  TraceOrder'
<1>1. PICK e \in Events : e = Plain("APPL", "END")
    BY PlainEvents
<1>2. /\ ~finished /\ finished' = TRUE /\ bitmap' = bitmap /\ inCall' = inCall
      /\ \A t \in Task : inCall[t] = none
    BY DEF Finish, mpiVars
<1>3. trace' = [t \in Task |-> Recorded(t, <<e>>)]
    BY <1>1 DEF Finish
<1>4. e.type = "APPL"
    BY <1>1, EventFields
<1>5. ASSUME NEW t \in Task
      PROVE  Ordered(trace'[t]) /\ Ends(Final(trace'[t]))
    <2>1. Recorded(t, <<e>>) = Append(trace[t], e)
        BY AllRecorded DEF TraceOrder, OwnTraced
    <2>2. Ordered(trace[t]) /\ Outside(Final(trace[t]))
        BY <1>2 DEF TraceOrder, LastEvent
    <2>3. PICK s : s = Append(trace[t], e)
        OBVIOUS
    <2>4. Follows(Before(trace[t]), Final(trace[t]), e)
        BY <1>4, <2>2 DEF Follows, Ends
    <2>5. Ordered(s) /\ Final(s) = e
        BY <2>2, <2>3, <2>4, OrderedMore
    <2>6. QED
        BY <1>3, <1>4, <2>1, <2>3, <2>5 DEF Ends
<1>6. QED
    BY <1>2, <1>5 DEF TraceOrder, OwnTraced, LastEvent

LEMMA TraceNextOrder ==
    ASSUME KeepsTracing, TraceTyped, TraceOrder, TraceNext
    PROVE  TraceOrder'
BY SendOrder, RecvOrder, IrecvOrder, WaitOrder, SendrecvOrder, SendrecvReturnsOrder,
   StartSendOrder, StartReceiveOrder, BarrierOrder, TracingTasksOrder, FinishOrder DEF TraceNext

LEMMA TraceInitOrder ==
    ASSUME TraceInit
    PROVE  TraceOrder
<1>1. PICK e \in Events : e = Plain("TRACING_MODE", "DETAIL")
    BY PlainEvents
<1>2. e.type = "TRACING_MODE"
    BY <1>1, EventFields
<1>3. PICK s : s = <<e>>
    OBVIOUS
<1>4. s \in Seq(Events) /\ Len(s) = 1 /\ s[1] = e
    BY <1>3
<1>5. Ordered(s) /\ Final(s) = e
    BY <1>2, <1>4 DEF Ordered, Final
<1>6. \A t \in Task : trace[t] = s /\ inCall[t] = none /\ ~finished /\ t \in bitmap[t]
    BY <1>1, <1>3 DEF TraceInit
<1>7. Outside(Final(s))
    BY <1>2, <1>5 DEF Outside, Single
<1>8. QED
    BY <1>5, <1>6, <1>7 DEF TraceOrder, OwnTraced, LastEvent

-----------------------------------------------------------------------------
(* What a task is doing                                                     *)

\* The stack of states after the i-th event of trace s.
StackAt(s, i) ==
    IF i = 0 THEN <<"STATE_STOPPED">>
    ELSE IF Opens(s[i]) THEN <<"STATE_RUNNING", StateOf[s[i].type]>>
    ELSE IF Inner(s[i]) THEN <<"STATE_RUNNING", StateOf[s[i - 1].type]>>
    ELSE IF Ends(s[i]) THEN <<>> ELSE <<"STATE_RUNNING">>

DoingAt(s, i) == Top_State(StackAt(s, i))

\* An event within a call follows its begin.
LEMMA InnerFollows ==
    ASSUME NEW s, Ordered(s), NEW i \in 1..Len(s), Inner(s[i])
    PROVE  i - 1 \in 1..Len(s) /\ Opens(s[i - 1]) /\ s[i - 1].type \in {"WAIT", "START"}
<1>1. s \in Seq(Events) /\ Len(s) \in Nat
    BY Typed DEF Ordered
<1>2. i # 1
    BY DEF Ordered, Inner
<1>3. i \in 2..Len(s) /\ i - 1 \in 1..Len(s)
    BY <1>1, <1>2
<1>4. Follows(s[i - 2], s[i - 1], s[i])
    BY <1>3 DEF Ordered
<1>5. s[i] \in Events
    BY <1>1, Typed
<1>6. ~Closes(s[i]) /\ ~Opens(s[i]) /\ ~Ends(s[i]) /\ s[i].type # "SET_TRACE"
    BY <1>5, KindsOfEvents DEF Inner
<1>7. Opens(s[i - 1]) /\ s[i - 1].type \in {"WAIT", "START"}
    BY <1>4, <1>6 DEF Follows
<1>8. QED
    BY <1>3, <1>7

\* The begin of the call that task t is in after its i-th event.
OpenOf(s, i) == {b \in 1 .. i :
    /\ s[b].value = "BEGIN"
    /\ \A e \in b .. i : ~(s[e].type = s[b].type /\ s[e].value = "END")}

LEMMA OpenIs ==
    ASSUME NEW s, Ordered(s), NEW i \in 1..Len(s)
    PROVE  OpenOf(s, i) = IF Opens(s[i]) THEN {i} ELSE IF Inner(s[i]) THEN {i - 1} ELSE {}
<1>1. s \in Seq(Events) /\ Len(s) \in Nat /\ i \in Nat /\ i >= 1
    BY Typed DEF Ordered
<1>2. \A j \in 1..Len(s) : s[j] \in Events
    BY <1>1, Typed
<1>3. ASSUME NEW b \in OpenOf(s, i)
      PROVE  \/ b = i /\ Opens(s[i])
             \/ b = i - 1 /\ Inner(s[i])
    <2>1. /\ b \in 1..i /\ b \in 1..Len(s) /\ s[b].value = "BEGIN"
          /\ \A e \in b..i : ~(s[e].type = s[b].type /\ s[e].value = "END")
        BY <1>1 DEF OpenOf
    <2>2. Opens(s[b]) /\ s[b] \in Events
        BY <1>2, <2>1, KindsOfEvents
    <2>3. CASE b = i
        BY <2>2, <2>3
    <2>4. CASE b # i
        <3>1. b + 1 \in 2..Len(s) /\ b + 1 \in b..i /\ b + 1 \in 1..Len(s) /\ (b + 1) - 1 = b
            BY <1>1, <2>1, <2>4
        <3>2. Follows(s[(b + 1) - 2], s[b], s[b + 1])
            BY <3>1 DEF Ordered
        <3>3. ~(Closes(s[b + 1]) /\ s[b + 1].type = s[b].type)
            BY <2>1, <3>1 DEF Closes
        <3>4. ~Inner(s[b]) /\ ~Outside(s[b])
            BY <2>2, KindsOfEvents DEF Outside
        <3>5. Inner(s[b + 1])
            BY <3>2, <3>3, <3>4 DEF Follows
        <3>6. CASE b + 1 = i
            BY <1>1, <2>1, <3>5, <3>6
        <3>7. CASE b + 1 # i
            <4>1. /\ b + 2 \in 2..Len(s) /\ b + 2 \in b..i /\ (b + 2) - 1 = b + 1
                  /\ (b + 2) - 2 = b
                BY <1>1, <2>1, <2>4, <3>7
            <4>2. Follows(s[b], s[b + 1], s[b + 2])
                BY <4>1 DEF Ordered
            <4>3. ~Opens(s[b + 1]) /\ ~Outside(s[b + 1])
                BY <1>2, <3>1, <3>5, KindsOfEvents DEF Outside
            <4>4. Closes(s[b + 2]) /\ s[b + 2].type = s[b].type
                BY <4>2, <4>3 DEF Follows
            <4>5. QED
                BY <2>1, <4>1, <4>4 DEF Closes
        <3>8. QED
            BY <3>6, <3>7
    <2>5. QED
        BY <2>3, <2>4
<1>4. none # "END" /\ none # "BEGIN"
    BY NoneIs
<1>5. ASSUME Opens(s[i])
      PROVE  i \in OpenOf(s, i)
    <2>1. s[i].value = "BEGIN" /\ i..i = {i} /\ i \in 1..i
        BY <1>1, <1>5 DEF Opens
    <2>2. QED
        BY <2>1 DEF OpenOf
<1>6. ASSUME Inner(s[i])
      PROVE  i - 1 \in OpenOf(s, i)
    <2>1. i - 1 \in 1..Len(s) /\ Opens(s[i - 1]) /\ s[i - 1].type \in {"WAIT", "START"}
        BY <1>6, InnerFollows
    <2>2. s[i - 1].value = "BEGIN" /\ s[i].type # s[i - 1].type
        BY <1>6, <2>1 DEF Opens, Inner
    <2>3. (i - 1)..i = {i - 1, i} /\ i - 1 \in 1..i
        BY <1>1, <2>1
    <2>4. \A e \in (i - 1)..i : ~(s[e].type = s[i - 1].type /\ s[e].value = "END")
        BY <2>2, <2>3
    <2>5. QED
        BY <2>2, <2>3, <2>4 DEF OpenOf
<1>7. ~(Opens(s[i]) /\ Inner(s[i]))
    BY <1>2, KindsOfEvents
<1>8. QED
    BY <1>3, <1>5, <1>6, <1>7

LEMMA TopIs ==
    /\ \A x : Top_State(<<x>>) = x
    /\ \A x, y : Top_State(<<x, y>>) = y
    /\ Top_State(<<>>) = "STATE_IDLE"
BY DEF Top_State, Last

LEMMA DoingIs ==
    ASSUME NEW t \in Task, Ordered(trace[t]), NEW i \in 0..Len(trace[t])
    PROVE  Doing(t, i) = DoingAt(trace[t], i)
<1>1. PICK s : s = trace[t]
    OBVIOUS
<1>2. Ordered(s) /\ Len(s) \in Nat /\ s \in Seq(Events)
    BY <1>1, Typed DEF Ordered
<1>3. CASE i = 0
    BY <1>3, TopIs DEF Doing, DoingAt, StackAt
<1>4. CASE i # 0
    <2>1. i \in 1..Len(s) /\ i > 0
        BY <1>1, <1>2, <1>4
    <2>2. s[i] \in Events
        BY <1>2, <2>1, Typed
    <2>3. OpenOf(s, i) = IF Opens(s[i]) THEN {i} ELSE IF Inner(s[i]) THEN {i - 1} ELSE {}
        BY <1>2, <2>1, OpenIs
    <2>4. Doing(t, i) = IF s[i].type = "APPL" THEN "STATE_IDLE"
                        ELSE IF OpenOf(s, i) = {} THEN "STATE_RUNNING"
                        ELSE StateOf[s[CHOOSE b \in OpenOf(s, i) : TRUE].type]
        <3>1. Doing(t, i) =
                CASE i = 0 -> "STATE_STOPPED"
                  [] i > 0 /\ trace[t][i].type = "APPL" -> "STATE_IDLE"
                  [] i > 0 /\ trace[t][i].type # "APPL" ->
                         IF OpenOf(trace[t], i) = {} THEN "STATE_RUNNING"
                         ELSE StateOf[trace[t][CHOOSE b \in OpenOf(trace[t], i) : TRUE].type]
            BY Zenon DEF Doing, OpenOf
        <3>2. PICK o : o = OpenOf(trace[t], i)
            OBVIOUS
        <3>3. QED
            BY <1>1, <1>4, <2>1, <3>1, <3>2
    <2>5. CASE Ends(s[i])
        <3>1. ~Opens(s[i]) /\ ~Inner(s[i])
            BY <2>2, <2>5, KindsOfEvents
        <3>2. QED
            BY <1>1, <1>4, <2>4, <2>5, <3>1, TopIs DEF Ends, DoingAt, StackAt
    <2>6. CASE Opens(s[i])
        <3>1. s[i].type # "APPL"
            BY <2>6 DEF Opens, CallTypes
        <3>2. (CHOOSE b \in OpenOf(s, i) : TRUE) = i /\ OpenOf(s, i) # {}
            BY <2>3, <2>6
        <3>3. Doing(t, i) = StateOf[s[i].type]
            BY <2>4, <3>1, <3>2
        <3>4. QED
            BY <1>1, <1>4, <2>6, <3>3, TopIs DEF DoingAt, StackAt
    <2>7. CASE Inner(s[i])
        <3>1. s[i].type # "APPL" /\ ~Opens(s[i])
            BY <2>2, <2>7, KindsOfEvents DEF Inner
        <3>2. (CHOOSE b \in OpenOf(s, i) : TRUE) = i - 1 /\ OpenOf(s, i) # {}
            BY <2>3, <2>7, <3>1
        <3>3. Doing(t, i) = StateOf[s[i - 1].type]
            BY <2>4, <3>1, <3>2
        <3>4. QED
            BY <1>1, <1>4, <2>7, <3>1, <3>3, TopIs DEF DoingAt, StackAt
    <2>8. CASE ~Ends(s[i]) /\ ~Opens(s[i]) /\ ~Inner(s[i])
        <3>1. Doing(t, i) = "STATE_RUNNING"
            BY <2>3, <2>4, <2>8 DEF Ends
        <3>2. QED
            BY <1>1, <1>4, <2>8, <3>1, TopIs DEF DoingAt, StackAt
    <2>9. QED
        BY <2>5, <2>6, <2>7, <2>8
<1>5. QED
    BY <1>3, <1>4

-----------------------------------------------------------------------------
(* The states of a file                                                     *)

IsState(f, k) == k \in 1..Len(f) /\ f[k].type = "STATE"

\* The states of file f that cover time i, and that there is one, which is v.
CoveringOf(f, i) == {k \in 1..Len(f) :
    /\ f[k].type = "STATE"
    /\ f[k].time <= i /\ i < f[k].end_time}

Covered(f, v, i) ==
    /\ State_Excluded(v) => CoveringOf(f, i) = {}
    /\ ~State_Excluded(v) => \E k \in CoveringOf(f, i) : CoveringOf(f, i) = {k} /\ f[k].value = v

\* File f has the states of trace s up to time n.
Laid(f, s, n) ==
    /\ \A i \in Nat : i < n => Covered(f, DoingAt(s, i), i)
    /\ \A k \in Nat : IsState(f, k) => f[k].end_time <= n

SameStates(f, g) ==
    \A k \in Nat : /\ IsState(f, k) <=> IsState(g, k)
                   /\ IsState(f, k) => g[k] = f[k]

LEMMA StateIs ==
    ASSUME NEW f \in Seq(Record), NEW k, IsState(f, k)
    PROVE  f[k].time \in Nat /\ f[k].end_time \in Nat
<1>1. f[k] \in Record /\ f[k].type = "STATE"
    BY Typed DEF IsState
<1>2. QED
    BY <1>1 DEF Record

LEMMA LaidSame ==
    ASSUME NEW f \in Seq(Record), NEW g \in Seq(Record), SameStates(f, g), NEW s, NEW n \in Nat,
           Laid(f, s, n)
    PROVE  Laid(g, s, n)
<1>1. Len(f) \in Nat /\ Len(g) \in Nat
    BY Typed
<1>2. ASSUME NEW i \in Nat
      PROVE  /\ CoveringOf(g, i) = CoveringOf(f, i)
             /\ \A k \in CoveringOf(f, i) : g[k] = f[k]
    <2>1. \A k : k \in CoveringOf(f, i) <=> IsState(f, k) /\ f[k].time <= i /\ i < f[k].end_time
        BY DEF CoveringOf, IsState
    <2>2. \A k : k \in CoveringOf(g, i) <=> IsState(g, k) /\ g[k].time <= i /\ i < g[k].end_time
        BY DEF CoveringOf, IsState
    <2>3. \A k : IsState(f, k) \/ IsState(g, k) => k \in Nat
        BY <1>1 DEF IsState
    <2>4. QED
        BY <2>1, <2>2, <2>3 DEF SameStates
<1>3. ASSUME NEW i \in Nat, i < n
      PROVE  Covered(g, DoingAt(s, i), i)
    <2>1. Covered(f, DoingAt(s, i), i)
        BY <1>3 DEF Laid
    <2>2. QED
        BY <1>2, <2>1 DEF Covered
<1>4. ASSUME NEW k \in Nat, IsState(g, k)
      PROVE  g[k].end_time <= n
    BY <1>4 DEF SameStates, Laid
<1>5. QED
    BY <1>3, <1>4 DEF Laid

LEMMA LaidExcluded ==
    ASSUME NEW f \in Seq(Record), NEW s, NEW m \in Nat, NEW n \in Nat, m <= n, Laid(f, s, m),
           \A i \in Nat : m <= i /\ i < n => State_Excluded(DoingAt(s, i))
    PROVE  Laid(f, s, n)
<1>1. Len(f) \in Nat
    BY Typed
<1>2. ASSUME NEW i \in Nat, i < n
      PROVE  Covered(f, DoingAt(s, i), i)
    <2>1. CASE i < m
        BY <2>1 DEF Laid
    <2>2. CASE ~(i < m)
        <3>1. State_Excluded(DoingAt(s, i))
            BY <1>2, <2>2
        <3>2. ASSUME NEW k \in CoveringOf(f, i)
              PROVE  FALSE
            <4>1. IsState(f, k) /\ i < f[k].end_time /\ k \in Nat
                BY <1>1 DEF CoveringOf, IsState
            <4>2. f[k].end_time <= m /\ f[k].end_time \in Nat
                BY <4>1, StateIs DEF Laid
            <4>3. QED
                BY <2>2, <4>1, <4>2
        <3>3. QED
            BY <3>1, <3>2 DEF Covered
    <2>3. QED
        BY <2>1, <2>2
<1>3. ASSUME NEW k \in Nat, IsState(f, k)
      PROVE  f[k].end_time <= n
    <2>1. f[k].end_time <= m /\ f[k].end_time \in Nat
        BY <1>3, StateIs DEF Laid
    <2>2. QED
        BY <2>1
<1>4. QED
    BY <1>2, <1>3 DEF Laid

StateFor(r, v, m, n) ==
    r \in Record /\ r.type = "STATE" /\ r.value = v /\ r.time = m /\ r.end_time = n

\* The state from time m to time n is completed.
LEMMA LaidMore ==
    ASSUME NEW f \in Seq(Record), NEW s, NEW m \in Nat, NEW n \in Nat, m <= n, Laid(f, s, m),
           NEW v, ~State_Excluded(v), \A i \in Nat : m <= i /\ i < n => DoingAt(s, i) = v,
           NEW q \in 1..Len(f), f[q] = UnfinishedState,
           NEW r, StateFor(r, v, m, n)
    PROVE  Laid([f EXCEPT ![q] = r], s, n)
<1>0. PICK g : g = [f EXCEPT ![q] = r]
    OBVIOUS
<1>1. Len(f) \in Nat /\ q \in Nat /\ f[q].type # "STATE"
    BY Typed DEF UnfinishedState
<1>30. r \in Record /\ r.type = "STATE"
    BY DEF StateFor
<1>2. /\ g \in Seq(Record) /\ Len(g) = Len(f) /\ g[q] = r
      /\ \A k \in 1..Len(f) : k # q => g[k] = f[k]
    BY <1>0, <1>30, ExceptSeq
<1>3. ASSUME NEW k
      PROVE  IsState(g, k) <=> k = q \/ IsState(f, k)
    BY <1>2, <1>30 DEF IsState
<1>20. g[q].time = m /\ g[q].end_time = n /\ g[q].value = v
    BY <1>2 DEF StateFor
<1>21. IsState(g, q)
    BY <1>3
<1>4. ASSUME NEW k, IsState(f, k)
      PROVE  k # q /\ g[k] = f[k] /\ k \in Nat
    BY <1>1, <1>2, <1>4 DEF IsState
<1>5. ASSUME NEW i \in Nat, i < n
      PROVE  Covered(g, DoingAt(s, i), i)
    <2>1. \A k : k \in CoveringOf(f, i) <=> IsState(f, k) /\ f[k].time <= i /\ i < f[k].end_time
        BY DEF CoveringOf, IsState
    <2>2. \A k : k \in CoveringOf(g, i) <=> IsState(g, k) /\ g[k].time <= i /\ i < g[k].end_time
        BY DEF CoveringOf, IsState
    <2>3. CASE i < m
        <3>1. q \notin CoveringOf(g, i)
            BY <1>20, <2>2, <2>3
        <3>2. CoveringOf(g, i) = CoveringOf(f, i)
            BY <1>3, <1>4, <2>1, <2>2, <3>1
        <3>3. \A k \in CoveringOf(f, i) : g[k] = f[k]
            BY <1>4, <2>1
        <3>4. Covered(f, DoingAt(s, i), i)
            BY <2>3 DEF Laid
        <3>5. QED
            BY <3>2, <3>3, <3>4 DEF Covered
    <2>4. CASE ~(i < m)
        <3>1. q \in CoveringOf(g, i)
            BY <1>5, <1>20, <1>21, <2>2, <2>4
        <3>2. ASSUME NEW k \in CoveringOf(g, i), k # q
              PROVE  FALSE
            <4>1. IsState(f, k) /\ g[k] = f[k] /\ i < g[k].end_time /\ k \in Nat
                BY <1>3, <1>4, <2>2, <3>2
            <4>2. f[k].end_time <= m /\ f[k].end_time \in Nat
                BY <4>1, StateIs DEF Laid
            <4>3. QED
                BY <2>4, <4>1, <4>2
        <3>3. CoveringOf(g, i) = {q}
            BY <3>1, <3>2
        <3>4. DoingAt(s, i) = v
            BY <1>5, <2>4
        <3>5. QED
            BY <1>20, <3>1, <3>3, <3>4 DEF Covered
    <2>5. QED
        BY <2>3, <2>4
<1>6. ASSUME NEW k \in Nat, IsState(g, k)
      PROVE  g[k].end_time <= n
    <2>1. CASE k = q
        BY <1>20, <2>1
    <2>2. CASE k # q
        <3>1. IsState(f, k) /\ g[k] = f[k]
            BY <1>3, <1>4, <1>6, <2>2
        <3>2. f[k].end_time <= m /\ f[k].end_time \in Nat
            BY <3>1, StateIs DEF Laid
        <3>3. QED
            BY <3>1, <3>2
    <2>3. QED
        BY <2>1, <2>2
<1>7. Laid(g, s, n)
    BY <1>5, <1>6 DEF Laid
<1>8. QED
    BY <1>0, <1>7

-----------------------------------------------------------------------------
(* A thread up to an event                                                  *)

SlotOf(th) == IF State_Excluded(th.open.value) THEN {} ELSE {th.open.at + 1}

\* The only slots of file f that wait for a state are in set q.
OnlySlots(f, q) == \A k \in 1..Len(f) : f[k].type = "UNFINISHED_STATE" => k \in q

\* Thread th after the c-th event of trace s.
Tiled(th, s, c) ==
    /\ th.stack = StackAt(s, c) /\ th.open.value = DoingAt(s, c)
    /\ th.open.time <= c
    /\ \A i \in Nat : th.open.time <= i /\ i <= c => DoingAt(s, i) = th.open.value
    /\ Laid(File(th), s, th.open.time)
    /\ OnlySlots(File(th), SlotOf(th))

\* Completing the open state leaves no slot.
LEMMA CompletedLaid ==
    ASSUME NEW th, Good(th), SlotKept(th), NEW s, NEW c \in Nat, Tiled(th, s, c),
           NEW n \in Nat, n = c + 1
    PROVE  /\ Completed(th, n) \in Seq(Record) /\ Len(Completed(th, n)) = Len(File(th))
           /\ Laid(Completed(th, n), s, n) /\ OnlySlots(Completed(th, n), {})
<1>1. PICK f \in Seq(Record) : f = File(th)
    BY FileTyped
<1>2. PICK m \in Nat : m = th.open.time
    BY Parts
<1>3. Laid(f, s, m) /\ m <= n /\ OnlySlots(f, SlotOf(th)) /\ Len(f) \in Nat
    BY <1>1, <1>2, Typed DEF Tiled
<1>4. PICK v : v = th.open.value
    OBVIOUS
<1>5. \A i \in Nat : m <= i /\ i < n => DoingAt(s, i) = v
    BY <1>2, <1>4 DEF Tiled
<1>6. CASE State_Excluded(v)
    <2>1. Completed(th, n) = f /\ SlotOf(th) = {}
        BY <1>1, <1>4, <1>6 DEF Completed, SlotOf
    <2>2. \A i \in Nat : m <= i /\ i < n => State_Excluded(DoingAt(s, i))
        BY <1>5, <1>6
    <2>3. Laid(f, s, n)
        BY <1>3, <2>2, LaidExcluded
    <2>4. QED
        BY <1>1, <1>3, <2>1, <2>3
<1>7. CASE ~State_Excluded(v)
    <2>1. th.open.at \in Nat /\ th.open.at < Len(f)
        BY <1>1, Parts
    <2>2. PICK q \in 1..Len(f) : q = th.open.at + 1
        BY <1>3, <2>1
    <2>3. f[q] = UnfinishedState
        BY <1>1, <1>4, <1>7, <2>2 DEF SlotKept
    <2>4. PICK r \in Record : r = StateRecord(th.open, n)
        BY RecordsAre DEF Good, Thread
    <2>5. r.type = "STATE" /\ StateFor(r, v, m, n)
        BY <1>2, <1>4, <2>4 DEF StateRecord, StateFor
    <2>6. PICK g : g = [f EXCEPT ![q] = r]
        OBVIOUS
    <2>7. Completed(th, n) = g
        BY <1>1, <1>4, <1>7, <2>2, <2>4, <2>6 DEF Completed
    <2>8. Laid(g, s, n)
        BY <1>3, <1>5, <1>7, <2>3, <2>5, <2>6, LaidMore
    <2>9. g \in Seq(Record) /\ Len(g) = Len(f) /\ g[q] = r
          /\ \A k \in 1..Len(f) : k # q => g[k] = f[k]
        BY <2>6, ExceptSeq
    <2>10. SlotOf(th) = {q}
        BY <1>4, <1>7, <2>2 DEF SlotOf
    <2>11. OnlySlots(g, {})
        BY <1>3, <2>5, <2>9, <2>10 DEF OnlySlots
    <2>12. QED
        BY <1>1, <2>7, <2>8, <2>9, <2>11
<1>8. QED
    BY <1>6, <1>7

\* The state after the next event is shown.
LEMMA TiledOn ==
    ASSUME NEW th, Good(th), SlotKept(th), NEW s, NEW c \in Nat, Tiled(th, s, c),
           NEW n \in Nat, n = c + 1, NEW th1, Good(th1), th1.wfb = th.wfb, th1.open = th.open,
           th1.stack = StackAt(s, n), NEW th2, th2 = trace_paraver_state(th1, n, FALSE)
    PROVE  Tiled(th2, s, n) /\ SlotKept(th2) /\ Good(th2)
<1>1. Good(th2) /\ SameCalls(th1, th2) /\ StateShift(th1, th2, n, FALSE)
    BY StateTraced
<1>2. SlotKept(th1) /\ File(th1) = File(th)
    BY DEF SlotKept, File
<1>3. SlotKept(th2)
    BY <1>2, StateTraces DEF Traces
<1>4. th2.stack = StackAt(s, n)
    BY <1>1 DEF SameCalls
<1>5. PICK v : v = DoingAt(s, n)
    OBVIOUS
<1>6. Top_State(th1.stack) = v
    BY <1>5 DEF DoingAt
<1>7. PICK m \in Nat : m = th.open.time
    BY Parts
<1>8. /\ m <= c /\ Laid(File(th), s, m) /\ OnlySlots(File(th), SlotOf(th))
      /\ \A i \in Nat : m <= i /\ i <= c => DoingAt(s, i) = th.open.value
    BY <1>7 DEF Tiled
<1>9. Completed(th1, n) = Completed(th, n)
    BY <1>2 DEF Completed
<1>10. PICK f : f = Completed(th, n)
    OBVIOUS
<1>11. f \in Seq(Record) /\ Len(f) = Len(File(th)) /\ Laid(f, s, n) /\ OnlySlots(f, {})
    BY <1>10, CompletedLaid
<1>12. CASE th.open.value = v /\ th2 = th1
    <2>1. th2.open = th.open /\ File(th2) = File(th) /\ SlotOf(th2) = SlotOf(th)
        BY <1>2, <1>12 DEF SlotOf
    <2>2. \A i \in Nat : m <= i /\ i <= n => DoingAt(s, i) = v
        <3>1. ASSUME NEW i \in Nat, m <= i, i <= n
              PROVE  DoingAt(s, i) = v
            <4>1. CASE i = n
                BY <1>5, <4>1
            <4>2. CASE i # n
                <5>1. i <= c
                    BY <3>1, <4>2
                <5>2. QED
                    BY <1>8, <1>12, <3>1, <5>1
            <4>3. QED
                BY <4>1, <4>2
        <3>2. QED
            BY <3>1
    <2>3. m <= n
        BY <1>8
    <2>4. Tiled(th2, s, n)
        BY <1>4, <1>5, <1>7, <1>8, <1>12, <2>1, <2>2, <2>3 DEF Tiled
    <2>5. QED
        BY <1>1, <1>3, <2>4
<1>13. ASSUME th2.open.value = v, th2.open.time = n, Laid(File(th2), s, n),
              OnlySlots(File(th2), SlotOf(th2))
       PROVE  Tiled(th2, s, n)
    <2>1. \A i \in Nat : n <= i /\ i <= n => DoingAt(s, i) = v
        <3>1. \A i \in Nat : n <= i /\ i <= n => i = n
            OBVIOUS
        <3>2. QED
            BY <1>5, <3>1
    <2>3. n <= n
        OBVIOUS
    <2>6. th2.open.time <= n
        BY <1>13, <2>3
    <2>7. th2.open.value = DoingAt(s, n)
        BY <1>5, <1>13
    <2>4. \A i \in Nat : th2.open.time <= i /\ i <= n => DoingAt(s, i) = th2.open.value
        BY <1>13, <2>1
    <2>5. Laid(File(th2), s, th2.open.time)
        BY <1>13
    <2>2. QED
        BY <1>4, <1>13, <2>6, <2>7, <2>4, <2>5 DEF Tiled
<1>14. CASE /\ th2.open.value = v /\ th2.open.time = n /\ State_Excluded(v)
            /\ File(th2) = f
    <2>1. SlotOf(th2) = {}
        BY <1>14 DEF SlotOf
    <2>2. QED
        BY <1>1, <1>3, <1>11, <1>13, <1>14, <2>1
<1>15. CASE /\ th2.open.value = v /\ th2.open.time = n /\ ~State_Excluded(v)
            /\ th2.open.at = Len(File(th)) /\ File(th2) = Append(f, UnfinishedState)
    <2>1. PICK g \in Seq(Record) : g = Append(f, UnfinishedState)
        BY <1>11, RecordsAre, Added
    <2>2. /\ Len(g) = Len(f) + 1 /\ g[Len(f) + 1] = UnfinishedState /\ Len(f) \in Nat
          /\ \A k \in 1..Len(f) : g[k] = f[k]
        BY <1>11, <2>1, RecordsAre, Added, Typed
    <2>3. UnfinishedState.type # "STATE"
        BY DEF UnfinishedState
    <2>4. SameStates(f, g)
        <3>1. ASSUME NEW k \in Nat
              PROVE  /\ IsState(f, k) <=> IsState(g, k)
                     /\ IsState(f, k) => g[k] = f[k]
            <4>1. CASE k \in 1..Len(f)
                BY <2>2, <4>1 DEF IsState
            <4>2. CASE k = Len(f) + 1
                BY <2>2, <2>3, <4>2 DEF IsState
            <4>3. CASE k \notin 1..Len(f) /\ k # Len(f) + 1
                <5>1. k \notin 1..Len(g)
                    BY <2>2, <4>3
                <5>2. QED
                    BY <4>3, <5>1 DEF IsState
            <4>4. QED
                BY <4>1, <4>2, <4>3
        <3>2. QED
            BY <3>1 DEF SameStates
    <2>5. Laid(g, s, n)
        BY <1>11, <2>4, LaidSame
    <2>6. SlotOf(th2) = {Len(f) + 1}
        BY <1>11, <1>15 DEF SlotOf
    <2>7. OnlySlots(g, {Len(f) + 1})
        <3>1. ASSUME NEW k \in 1..Len(g), g[k].type = "UNFINISHED_STATE"
              PROVE  k = Len(f) + 1
            <4>1. k \in 1..Len(f) \/ k = Len(f) + 1
                BY <2>2
            <4>2. QED
                BY <1>11, <2>2, <3>1, <4>1 DEF OnlySlots
        <3>2. QED
            BY <3>1 DEF OnlySlots
    <2>8. File(th2) = g
        BY <1>15, <2>1
    <2>9. QED
        BY <1>1, <1>3, <1>13, <1>15, <2>5, <2>6, <2>7, <2>8
<1>16. QED
    BY <1>1, <1>2, <1>6, <1>9, <1>10, <1>12, <1>14, <1>15 DEF StateShift

-----------------------------------------------------------------------------
(* What leaves the states alone                                             *)

StateTypes == {"STATE", "UNFINISHED_STATE"}
OfState(f, k) == k \in 1..Len(f) /\ f[k].type \in StateTypes

\* Files f and g have the same states and slots.
Alike(f, g) ==
    /\ f \in Seq(Record) /\ g \in Seq(Record)
    /\ \A k \in Nat : /\ OfState(f, k) <=> OfState(g, k)
                      /\ OfState(f, k) => g[k] = f[k]

LEMMA AlikeSelf ==
    ASSUME NEW f \in Seq(Record)
    PROVE  Alike(f, f)
BY DEF Alike

LEMMA AlikeOn ==
    ASSUME NEW f, NEW g, NEW h, Alike(f, g), Alike(g, h)
    PROVE  Alike(f, h)
BY DEF Alike

LEMMA AlikeMore ==
    ASSUME NEW f \in Seq(Record), NEW r \in Record, r.type \notin StateTypes
    PROVE  Alike(f, Append(f, r))
<1>1. PICK g \in Seq(Record) : g = Append(f, r)
    BY Added
<1>2. /\ Len(g) = Len(f) + 1 /\ g[Len(f) + 1] = r /\ Len(f) \in Nat
      /\ \A k \in 1..Len(f) : g[k] = f[k]
    BY <1>1, Added, Typed
<1>3. ASSUME NEW k \in Nat
      PROVE  /\ OfState(f, k) <=> OfState(g, k)
             /\ OfState(f, k) => g[k] = f[k]
    <2>1. CASE k \in 1..Len(f)
        BY <1>2, <2>1 DEF OfState
    <2>2. CASE k = Len(f) + 1
        BY <1>2, <2>2 DEF OfState
    <2>3. CASE k \notin 1..Len(f) /\ k # Len(f) + 1
        <3>1. k \notin 1..Len(g)
            BY <1>2, <2>3
        <3>2. QED
            BY <2>3, <3>1 DEF OfState
    <2>4. QED
        BY <2>1, <2>2, <2>3
<1>4. QED
    BY <1>1, <1>3 DEF Alike

LEMMA AlikeOver ==
    ASSUME NEW f \in Seq(Record), NEW q \in 1..Len(f), f[q].type \notin StateTypes,
           NEW r \in Record, r.type \notin StateTypes
    PROVE  Alike(f, [f EXCEPT ![q] = r])
<1>1. PICK g : g = [f EXCEPT ![q] = r]
    OBVIOUS
<1>2. /\ g \in Seq(Record) /\ Len(g) = Len(f) /\ g[q] = r
      /\ \A k \in 1..Len(f) : k # q => g[k] = f[k]
    BY <1>1, ExceptSeq
<1>3. ASSUME NEW k \in Nat
      PROVE  /\ OfState(f, k) <=> OfState(g, k)
             /\ OfState(f, k) => g[k] = f[k]
    BY <1>2 DEF OfState
<1>4. QED
    BY <1>1, <1>2, <1>3 DEF Alike

\* Thread th2 has the states of th.
Calm(th, th2) ==
    /\ Good(th2) /\ th2.stack = th.stack /\ th2.open = th.open
    /\ Alike(File(th), File(th2))

LEMMA CalmSelf ==
    ASSUME NEW th, Good(th)
    PROVE  Calm(th, th)
BY FileTyped, AlikeSelf DEF Calm

LEMMA CalmOn ==
    ASSUME NEW th, NEW th2, NEW th3, Calm(th, th2), Calm(th2, th3)
    PROVE  Calm(th, th3)
BY AlikeOn DEF Calm

LEMMA CalmSlot ==
    ASSUME NEW th, Good(th), SlotKept(th), NEW th2, Calm(th, th2)
    PROVE  SlotKept(th2)
<1>1. CASE State_Excluded(th.open.value)
    BY <1>1 DEF Calm, SlotKept
<1>2. CASE ~State_Excluded(th.open.value)
    <2>1. th.open.at \in Nat /\ th.open.at < Len(File(th)) /\ Len(File(th)) \in Nat
        BY Parts, FileTyped
    <2>2. PICK k \in 1..Len(File(th)) : k = th.open.at + 1
        BY <2>1
    <2>3. File(th)[k] = UnfinishedState
        BY <1>2, <2>2 DEF SlotKept
    <2>4. OfState(File(th), k) /\ k \in Nat
        BY <2>1, <2>3 DEF OfState, StateTypes, UnfinishedState
    <2>5. File(th2)[k] = UnfinishedState
        BY <2>3, <2>4 DEF Calm, Alike
    <2>6. QED
        BY <2>2, <2>5 DEF Calm, SlotKept
<1>3. QED
    BY <1>1, <1>2

LEMMA CalmTiled ==
    ASSUME NEW th, Good(th), NEW th2, Calm(th, th2), NEW s, NEW c, Tiled(th, s, c)
    PROVE  Tiled(th2, s, c)
<1>1. PICK f \in Seq(Record) : f = File(th)
    BY FileTyped
<1>2. PICK g \in Seq(Record) : g = File(th2)
    BY FileTyped DEF Calm
<1>3. Alike(f, g) /\ Len(f) \in Nat /\ Len(g) \in Nat
    BY <1>1, <1>2, Typed DEF Calm
<1>4. SameStates(f, g)
    <2>1. ASSUME NEW k \in Nat
          PROVE  /\ IsState(f, k) <=> IsState(g, k)
                 /\ IsState(f, k) => g[k] = f[k]
        <3>1. /\ OfState(f, k) <=> OfState(g, k)
              /\ OfState(f, k) => g[k] = f[k]
            BY <1>3 DEF Alike
        <3>2. QED
            BY <3>1 DEF IsState, OfState, StateTypes
    <2>2. QED
        BY <2>1 DEF SameStates
<1>5. PICK m \in Nat : m = th.open.time
    BY Parts
<1>6. th2.open = th.open /\ th2.stack = th.stack
    BY DEF Calm
<1>7. Laid(g, s, m)
    BY <1>1, <1>4, <1>5, LaidSame DEF Tiled
<1>8. OnlySlots(g, SlotOf(th))
    <2>1. ASSUME NEW k \in 1..Len(g), g[k].type = "UNFINISHED_STATE"
          PROVE  k \in SlotOf(th)
        <3>1. OfState(g, k) /\ k \in Nat
            BY <1>3, <2>1 DEF OfState, StateTypes
        <3>2. OfState(f, k) /\ g[k] = f[k]
            BY <1>3, <3>1 DEF Alike
        <3>3. QED
            BY <1>1, <2>1, <3>2 DEF OfState, Tiled, OnlySlots
    <2>2. QED
        BY <2>1 DEF OnlySlots
<1>9. SlotOf(th2) = SlotOf(th)
    BY <1>6 DEF SlotOf
<1>10. QED
    BY <1>2, <1>5, <1>6, <1>7, <1>8, <1>9 DEF Tiled

\* An event after which the task does what it did.
LEMMA TiledStays ==
    ASSUME NEW th, Good(th), NEW s, NEW c \in Nat, Tiled(th, s, c), NEW n \in Nat, n = c + 1,
           StackAt(s, n) = StackAt(s, c)
    PROVE  Tiled(th, s, n)
<1>1. th.open.time \in Nat /\ th.open.time <= c
    BY Parts DEF Tiled
<1>2. DoingAt(s, n) = DoingAt(s, c)
    BY DEF DoingAt
<1>3. th.open.time <= n
    BY <1>1
<1>4. \A i \in Nat : th.open.time <= i /\ i <= n => DoingAt(s, i) = th.open.value
    <2>1. ASSUME NEW i \in Nat, th.open.time <= i, i <= n
          PROVE  DoingAt(s, i) = th.open.value
        <3>1. CASE i = n
            BY <1>2, <3>1 DEF Tiled
        <3>2. CASE i # n
            BY <2>1, <3>2 DEF Tiled
        <3>3. QED
            BY <3>1, <3>2
    <2>2. QED
        BY <2>1
<1>5. th.stack = StackAt(s, n) /\ th.open.value = DoingAt(s, n)
    BY <1>2 DEF Tiled
<1>6. Laid(File(th), s, th.open.time) /\ OnlySlots(File(th), SlotOf(th))
    BY DEF Tiled
<1>7. QED
    BY <1>3, <1>4, <1>5, <1>6 DEF Tiled

LEMMA SendSetCalm ==
    ASSUME NEW th, Good(th), NEW n \in Nat
    PROVE  Calm(th, [th EXCEPT !.Send_Rec = n])
<1>1. PICK th2 : th2 = [th EXCEPT !.Send_Rec = n]
    OBVIOUS
<1>2. SameFile(th, th2) /\ th2.stack = th.stack
    BY <1>1, SendSet
<1>3. Alike(File(th), File(th2))
    BY <1>2, SameFileTraces, FileTyped, AlikeSelf
<1>4. Calm(th, th2)
    BY <1>2, <1>3 DEF Calm, SameFile
<1>5. QED
    BY <1>1, <1>4

LEMMA ReceiveSetCalm ==
    ASSUME NEW th, Good(th), NEW n \in Nat
    PROVE  Calm(th, [th EXCEPT !.Recv_Rec = n])
<1>1. PICK th2 : th2 = [th EXCEPT !.Recv_Rec = n]
    OBVIOUS
<1>2. SameFile(th, th2) /\ th2.stack = th.stack
    BY <1>1, ReceiveSet
<1>3. Alike(File(th), File(th2))
    BY <1>2, SameFileTraces, FileTyped, AlikeSelf
<1>4. Calm(th, th2)
    BY <1>2, <1>3 DEF Calm, SameFile
<1>5. QED
    BY <1>1, <1>4

LEMMA EventCalm ==
    ASSUME MergeTyped, NEW t \in Task, NEW th, Good(th), NEW n \in Nat
    PROVE  Calm(th, trace_paraver_event(th, enabled[t], n))
<1>1. PICK on \in BOOLEAN : on = enabled[t]
    BY DEF MergeTyped
<1>2. PICK th2 : th2 = trace_paraver_event(th, on, n)
    OBVIOUS
<1>3. /\ Good(th2) /\ SameOpen(th, th2)
      /\ File(th2) = IF on THEN Append(File(th), EventRecord(n)) ELSE File(th)
    BY <1>2, EventWritten DEF Traces
<1>4. EventRecord(n) \in Record /\ EventRecord(n).type \notin StateTypes
    BY RecordsAre DEF StateTypes
<1>5. File(th) \in Seq(Record)
    BY FileTyped
<1>6. Alike(File(th), File(th2))
    <2>1. CASE on
        BY <1>3, <1>4, <1>5, <2>1, AlikeMore
    <2>2. CASE ~on
        BY <1>3, <1>5, <2>2, AlikeSelf
    <2>3. QED
        BY <2>1, <2>2
<1>7. Calm(th, th2)
    BY <1>3, <1>6 DEF Calm, SameOpen
<1>8. QED
    BY <1>1, <1>2, <1>7

LEMMA AppendsCalm ==
    ASSUME NEW th, Good(th), NEW on \in BOOLEAN, NEW r \in Record, r.type \notin StateTypes
    PROVE  Calm(th, Appends(th, on, r))
<1>1. PICK th2 : th2 = Appends(th, on, r)
    OBVIOUS
<1>2. /\ Good(th2) /\ SameOpen(th, th2)
      /\ File(th2) = IF on THEN Append(File(th), r) ELSE File(th)
    BY <1>1, AppendsGood
<1>3. File(th) \in Seq(Record)
    BY FileTyped
<1>4. Alike(File(th), File(th2))
    <2>1. CASE on
        BY <1>2, <1>3, <2>1, AlikeMore
    <2>2. CASE ~on
        BY <1>2, <1>3, <2>2, AlikeSelf
    <2>3. QED
        BY <2>1, <2>2
<1>5. Calm(th, th2)
    BY <1>2, <1>4 DEF Calm, SameOpen
<1>6. QED
    BY <1>1, <1>5

-----------------------------------------------------------------------------
(* The stack of states                                                      *)

LEMMA FrontIs ==
    ASSUME NEW X, NEW x \in X, NEW y \in X
    PROVE  Front(<<x>>) = <<>> /\ Front(<<x, y>>) = <<x>>
<1>1. Front(<<x>>) = <<>>
    <2>1. PICK s : s = <<x>>
        OBVIOUS
    <2>4. s \in Seq(X) /\ Len(s) = 1
        BY <2>1
    <2>5. s # <<>>
        BY <2>4, EmptySeq
    <2>2. Front(s) \in Seq(X) /\ Len(Front(s)) = 0
        BY <2>4, <2>5, Fronts
    <2>3. QED
        BY <2>1, <2>2, EmptySeq
<1>2. Front(<<x, y>>) = <<x>>
    <2>1. PICK s : s = <<x, y>>
        OBVIOUS
    <2>6. s \in Seq(X) /\ Len(s) = 2 /\ s[1] = x
        BY <2>1
    <2>7. s # <<>>
        BY <2>6, EmptySeq
    <2>8. /\ Front(s) \in Seq(X) /\ Len(Front(s)) = Len(s) - 1
          /\ \A i \in 1..Len(s) - 1 : Front(s)[i] = s[i]
        BY <2>6, <2>7, Fronts
    <2>9. 1 \in 1..Len(s) - 1 /\ Len(s) - 1 = 1
        BY <2>6
    <2>2. Front(s) \in Seq(X) /\ Len(Front(s)) = 1 /\ Front(s)[1] = x
        BY <2>6, <2>8, <2>9
    <2>3. PICK u \in Seq(X) : u = <<x>> /\ Len(u) = 1 /\ u[1] = x
        BY One
    <2>4. Front(s) = u
        BY <2>2, <2>3, SeqEqual
    <2>5. QED
        BY <2>1, <2>3, <2>4
<1>3. QED
    BY <1>1, <1>2

\* The states of calls are neither of the two outside them.
LEMMA StateOfIs ==
    ASSUME NEW k \in DOMAIN StateOf
    PROVE  StateOf[k] \in State /\ StateOf[k] # "STATE_NOT_TRACING" /\ StateOf[k] # "STATE_ANY"
<1>1. k \in {"SEND", "ISEND", "RECV", "IRECV", "SENDRECV", "WAIT", "START", "BARRIER"}
    BY States
<1>2. StateOf[k] # "STATE_NOT_TRACING" /\ StateOf[k] # "STATE_ANY"
    BY <1>1 DEF StateOf
<1>3. QED
    BY <1>2, States

LEMMA StackSteps ==
    ASSUME NEW k \in DOMAIN StateOf
    PROVE  /\ Push_State(StateOf[k], <<"STATE_RUNNING">>) = <<"STATE_RUNNING", StateOf[k]>>
           /\ Pop_State(StateOf[k], <<"STATE_RUNNING", StateOf[k]>>) = <<"STATE_RUNNING">>
           /\ Pop_State("STATE_ANY", <<"STATE_RUNNING">>) = <<>>
           /\ Pop_State("STATE_NOT_TRACING", <<"STATE_RUNNING">>) = <<"STATE_RUNNING">>
<1>1. PICK v \in State : v = StateOf[k] /\ v # "STATE_NOT_TRACING" /\ v # "STATE_ANY"
    BY StateOfIs
<1>2. PICK x \in State : x = "STATE_RUNNING"
    BY States
<1>3. PICK a \in Seq(State) : a = <<x>> /\ Len(a) = 1
    BY One
<1>40. PICK b : b = <<x, v>>
    OBVIOUS
<1>4. b = <<x, v>> /\ b \in Seq(State) /\ Len(b) = 2 /\ b[1] = x /\ b[2] = v
    BY <1>40
<1>5. Top_State(a) = x /\ Top_State(b) = v
    BY <1>3, <1>4, TopIs
<1>6. Tracing(a) = a /\ Tracing(b) = b
    BY <1>1, <1>2, <1>5 DEF Tracing
<1>7. a # <<>> /\ b # <<>>
    BY <1>3, <1>4, EmptySeq
<1>8. Append(a, v) = b
    <2>1. PICK u \in Seq(State) : u = Append(a, v)
        BY <1>3, Added
    <2>2. Len(u) = 2 /\ u[1] = a[1] /\ u[2] = v
        <3>1. 1 \in 1..Len(a)
            BY <1>3
        <3>2. QED
            BY <1>3, <2>1, <3>1, Added
    <2>3. a[1] = x
        BY <1>3
    <2>4. u = b
        BY <1>4, <2>2, <2>3, SeqEqual
    <2>5. QED
        BY <2>1, <2>4
<1>9. Push_State(v, a) = b
    BY <1>6, <1>8 DEF Push_State
<1>10. Front(a) = <<>> /\ Front(b) = a
    BY <1>3, <1>4, FrontIs
<1>11. Pop_State(v, b) = a
    BY <1>5, <1>6, <1>7, <1>10 DEF Pop_State
<1>12. Pop_State("STATE_ANY", a) = <<>>
    BY <1>6, <1>7, <1>10 DEF Pop_State
<1>13. Pop_State("STATE_NOT_TRACING", a) = a
    BY <1>2, <1>5, <1>6 DEF Pop_State
<1>14. QED
    BY <1>1, <1>2, <1>3, <1>4, <1>9, <1>11, <1>12, <1>13

\* Before its events a task is stopped, and only then.
LEMMA StackBefore ==
    ASSUME NEW s, Ordered(s), NEW c \in Nat, c < Len(s), NEW n \in Nat, n = c + 1
    PROVE  /\ s[n] \in Events
           /\ c = 0 => s[n].type = "TRACING_MODE"
           /\ Opens(s[n]) \/ s[n].type = "SET_TRACE" \/ Ends(s[n]) =>
                  c \in 1..Len(s) /\ StackAt(s, c) = <<"STATE_RUNNING">>
           /\ Closes(s[n]) =>
                  c \in 1..Len(s) /\ StackAt(s, c) = <<"STATE_RUNNING", StateOf[s[n].type]>>
           /\ Inner(s[n]) =>
                  StackAt(s, c) = <<"STATE_RUNNING", StateOf[s[c].type]>>
<1>1. s \in Seq(Events) /\ Len(s) \in Nat /\ n \in 1..Len(s)
    BY Typed DEF Ordered
<1>2. s[n] \in Events
    BY <1>1, Typed
<1>3. CASE c = 0
    <2>1. s[n].type = "TRACING_MODE"
        BY <1>3 DEF Ordered
    <2>2. ~Opens(s[n]) /\ ~Closes(s[n]) /\ ~Inner(s[n]) /\ ~Ends(s[n])
        BY <2>1 DEF Opens, Closes, Inner, Ends, CallTypes
    <2>3. QED
        BY <1>2, <2>1, <2>2
<1>4. CASE c # 0
    <2>1. n \in 2..Len(s) /\ c \in 1..Len(s) /\ n - 1 = c /\ n - 2 = c - 1
        BY <1>1, <1>4
    <2>2. Follows(s[c - 1], s[c], s[n])
        BY <2>1 DEF Ordered
    <2>3. s[c] \in Events
        BY <1>1, <2>1, Typed
    <2>4. StackAt(s, c) = IF Opens(s[c]) THEN <<"STATE_RUNNING", StateOf[s[c].type]>>
                          ELSE IF Inner(s[c]) THEN <<"STATE_RUNNING", StateOf[s[c - 1].type]>>
                          ELSE IF Ends(s[c]) THEN <<>> ELSE <<"STATE_RUNNING">>
        BY <1>4 DEF StackAt
    <2>5. Outside(s[c]) => StackAt(s, c) = <<"STATE_RUNNING">>
        BY <2>3, <2>4, KindsOfEvents DEF Outside
    <2>6. Inner(s[c]) => StackAt(s, c) = <<"STATE_RUNNING", StateOf[s[c - 1].type]>>
        BY <2>3, <2>4, KindsOfEvents
    <2>7. Opens(s[n]) \/ s[n].type = "SET_TRACE" \/ Ends(s[n]) => Outside(s[c])
        <3>1. s[n].type = "SET_TRACE" => Single(s[n])
            BY DEF Single
        <3>2. Opens(s[n]) \/ s[n].type = "SET_TRACE" \/ Ends(s[n]) =>
                  ~Closes(s[n]) /\ ~Inner(s[n])
            BY <1>2, <3>1, KindsOfEvents
        <3>3. QED
            BY <2>2, <3>2 DEF Follows
    <2>8. Closes(s[n]) => \/ Opens(s[c]) /\ s[c].type = s[n].type
                          \/ Inner(s[c]) /\ s[c - 1].type = s[n].type
        <3>1. Closes(s[n]) => ~Opens(s[n]) /\ ~Inner(s[n]) /\ ~Ends(s[n])
            BY <1>2, KindsOfEvents
        <3>2. Closes(s[n]) => s[n].type # "SET_TRACE"
            BY DEF Closes, CallTypes
        <3>3. QED
            BY <2>2, <3>1, <3>2 DEF Follows
    <2>9. Inner(s[n]) => Opens(s[c])
        BY <1>1, <2>1, InnerFollows
    <2>10. QED
        BY <1>2, <1>4, <2>1, <2>4, <2>5, <2>6, <2>7, <2>8, <2>9
<1>5. QED
    BY <1>3, <1>4

LEMMA StackNext ==
    ASSUME NEW s, Ordered(s), NEW c \in Nat, c < Len(s), NEW n \in Nat, n = c + 1
    PROVE  /\ Opens(s[n]) \/ Closes(s[n]) =>
                  Switch_State(StateOf[s[n].type], s[n].value, StackAt(s, c)) = StackAt(s, n)
           /\ s[n].type = "TRACING_MODE" => StackAt(s, n) = <<"STATE_RUNNING">>
           /\ Ends(s[n]) => Pop_State("STATE_ANY", StackAt(s, c)) = StackAt(s, n)
           /\ Inner(s[n]) \/ s[n].type = "SET_TRACE" => StackAt(s, n) = StackAt(s, c)
           /\ s[n].type = "SET_TRACE" =>
                  Pop_State("STATE_NOT_TRACING", StackAt(s, c)) = StackAt(s, c)
<1>1. /\ s[n] \in Events
      /\ Opens(s[n]) \/ s[n].type = "SET_TRACE" \/ Ends(s[n]) =>
                  StackAt(s, c) = <<"STATE_RUNNING">>
      /\ Closes(s[n]) => StackAt(s, c) = <<"STATE_RUNNING", StateOf[s[n].type]>>
      /\ Inner(s[n]) => StackAt(s, c) = <<"STATE_RUNNING", StateOf[s[c].type]>>
    BY StackBefore
<1>2. n # 0 /\ n - 1 = c
    OBVIOUS
<1>3. StackAt(s, n) = IF Opens(s[n]) THEN <<"STATE_RUNNING", StateOf[s[n].type]>>
                      ELSE IF Inner(s[n]) THEN <<"STATE_RUNNING", StateOf[s[c].type]>>
                      ELSE IF Ends(s[n]) THEN <<>> ELSE <<"STATE_RUNNING">>
    BY <1>2 DEF StackAt
<1>4. ASSUME Opens(s[n])
      PROVE  Switch_State(StateOf[s[n].type], s[n].value, StackAt(s, c)) = StackAt(s, n)
    <2>1. PICK k \in DOMAIN StateOf : k = s[n].type
        BY <1>4, States DEF Opens, CallTypes
    <2>2. Push_State(StateOf[k], <<"STATE_RUNNING">>) = <<"STATE_RUNNING", StateOf[k]>>
        BY StackSteps
    <2>3. s[n].value = "BEGIN"
        BY <1>4 DEF Opens
    <2>4. QED
        BY <1>1, <1>3, <1>4, <2>1, <2>2, <2>3 DEF Switch_State
<1>5. ASSUME Closes(s[n])
      PROVE  Switch_State(StateOf[s[n].type], s[n].value, StackAt(s, c)) = StackAt(s, n)
    <2>1. PICK k \in DOMAIN StateOf : k = s[n].type
        BY <1>5, States DEF Closes, CallTypes
    <2>2. Pop_State(StateOf[k], <<"STATE_RUNNING", StateOf[k]>>) = <<"STATE_RUNNING">>
        BY StackSteps
    <2>3. s[n].value # "BEGIN"
        BY <1>5 DEF Closes
    <2>4. ~Opens(s[n]) /\ ~Inner(s[n]) /\ ~Ends(s[n])
        BY <1>1, <1>5, KindsOfEvents
    <2>5. QED
        BY <1>1, <1>3, <1>5, <2>1, <2>2, <2>3, <2>4 DEF Switch_State
<1>6. PICK k \in DOMAIN StateOf : k = "SEND"
    BY States
<1>7. /\ Pop_State("STATE_ANY", <<"STATE_RUNNING">>) = <<>>
      /\ Pop_State("STATE_NOT_TRACING", <<"STATE_RUNNING">>) = <<"STATE_RUNNING">>
    BY <1>6, StackSteps
<1>8. ASSUME s[n].type \in {"TRACING_MODE", "SET_TRACE"}
      PROVE  StackAt(s, n) = <<"STATE_RUNNING">>
    <2>1. ~Opens(s[n]) /\ ~Inner(s[n]) /\ ~Ends(s[n])
        BY <1>8 DEF Opens, Inner, Ends, CallTypes
    <2>2. QED
        BY <1>3, <2>1
<1>9. ASSUME Ends(s[n])
      PROVE  Pop_State("STATE_ANY", StackAt(s, c)) = StackAt(s, n)
    <2>1. ~Opens(s[n]) /\ ~Inner(s[n])
        BY <1>1, <1>9, KindsOfEvents
    <2>2. QED
        BY <1>1, <1>3, <1>7, <1>9, <2>1
<1>10. ASSUME Inner(s[n])
       PROVE  StackAt(s, n) = StackAt(s, c)
    <2>1. ~Opens(s[n])
        BY <1>1, <1>10, KindsOfEvents
    <2>2. QED
        BY <1>1, <1>3, <1>10, <2>1
<1>11. ASSUME s[n].type = "SET_TRACE"
       PROVE  /\ StackAt(s, n) = StackAt(s, c)
              /\ Pop_State("STATE_NOT_TRACING", StackAt(s, c)) = StackAt(s, c)
    BY <1>1, <1>7, <1>8, <1>11
<1>12. QED
    BY <1>4, <1>5, <1>8, <1>9, <1>10, <1>11

-----------------------------------------------------------------------------
(* The handlers and the states                                              *)

Tiles ==
    /\ MergeTyped /\ AllWait /\ TraceOrder
    /\ \A u \in Task : Tiled(thread[u], trace[u], cursor[u])

\* Task t has gone on to its next event, and the others are where they were.
NextTiled(t) ==
    /\ \A u \in Task : u # t => Tiled(thread'[u], trace[u], cursor[u])
    /\ Tiled(thread'[t], trace[t], Now(t))

LEMMA CurrentIs ==
    ASSUME Tiles, NEW t \in Task, NEW types, IsCurrent(t, types)
    PROVE  /\ Ordered(trace[t]) /\ cursor[t] \in Nat /\ cursor[t] < Len(trace[t])
           /\ Now(t) \in Nat /\ Now(t) = cursor[t] + 1 /\ Current(t) = trace[t][Now(t)]
           /\ Good(thread[t]) /\ SlotKept(thread[t]) /\ Tiled(thread[t], trace[t], cursor[t])
<1>1. cursor[t] \in Nat /\ Now(t) = cursor[t] + 1 /\ Len(trace[t]) \in Nat /\ Now(t) \in 1..Len(trace[t])
    BY DEF Tiles, MergeTyped, Now, IsCurrent
<1>2. cursor[t] < Len(trace[t]) /\ Now(t) \in Nat
    BY <1>1
<1>3. QED
    BY <1>1, <1>2 DEF Tiles, MergeTyped, AllWait, Waiting1, TraceOrder, IsCurrent

LEMMA ShownTiled ==
    ASSUME Tiles, NEW t \in Task, NEW types, IsCurrent(t, types), NEW th, Calm(thread[t], th),
           NEW stack \in Seq(State), stack = StackAt(trace[t], Now(t))
    PROVE  Tiled(Shown(t, th, stack), trace[t], Now(t)) /\ Good(Shown(t, th, stack))
<1>1. PICK s : s = trace[t]
    OBVIOUS
<1>2. PICK c \in Nat : c = cursor[t]
    BY CurrentIs
<1>3. PICK n \in Nat : n = Now(t) /\ n = c + 1
    BY <1>2, CurrentIs
<1>4. Good(thread[t]) /\ SlotKept(thread[t]) /\ Tiled(thread[t], s, c)
    BY <1>1, <1>2, CurrentIs
<1>5. Good(th) /\ SlotKept(th) /\ Tiled(th, s, c)
    BY <1>4, CalmSlot, CalmTiled DEF Calm
<1>6. PICK th0 : th0 = [th EXCEPT !.stack = stack]
    OBVIOUS
<1>7. SameFile(th, th0) /\ th0.stack = stack
    BY <1>5, <1>6, StackSet
<1>8. Good(th0) /\ th0.wfb = th.wfb /\ th0.open = th.open /\ th0.stack = StackAt(s, n)
    BY <1>1, <1>3, <1>7 DEF SameFile
<1>9. PICK th1 : th1 = trace_paraver_state(th0, n, FALSE)
    OBVIOUS
<1>10. Tiled(th1, s, n) /\ Good(th1)
    BY <1>3, <1>5, <1>8, <1>9, TiledOn
<1>11. PICK th2 : th2 = trace_paraver_event(th1, enabled[t], n)
    OBVIOUS
<1>12. Calm(th1, th2)
    BY <1>10, <1>11, EventCalm DEF Tiles
<1>13. Tiled(th2, s, n) /\ Good(th2)
    BY <1>10, <1>12, CalmTiled DEF Calm
<1>14. Shown(t, th, stack) = th2
    BY <1>3, <1>6, <1>9, <1>11 DEF Shown
<1>15. QED
    BY <1>1, <1>3, <1>13, <1>14

LEMMA MarkedTiled ==
    ASSUME Tiles, NEW t \in Task, NEW types \in SUBSET CallTypes, IsCurrent(t, types),
           NEW th, Calm(thread[t], th)
    PROVE  Tiled(Marked(t, th), trace[t], Now(t)) /\ Good(Marked(t, th))
<1>1. Current(t) \in Events /\ Current(t).type \in CallTypes
    BY DEF IsCurrent
<1>2. ~Inner(Current(t)) /\ ~Single(Current(t)) /\ ~Ends(Current(t))
    BY <1>1 DEF Inner, Single, Ends, CallTypes
<1>3. Opens(Current(t)) \/ Closes(Current(t))
    BY <1>1, <1>2, KindsOfEvents
<1>4. /\ Ordered(trace[t]) /\ cursor[t] \in Nat /\ cursor[t] < Len(trace[t])
      /\ Now(t) \in Nat /\ Now(t) = cursor[t] + 1 /\ Current(t) = trace[t][Now(t)]
      /\ Good(thread[t]) /\ Tiled(thread[t], trace[t], cursor[t])
    BY CurrentIs
<1>5. Switch_State(StateOf[Current(t).type], Current(t).value, StackAt(trace[t], cursor[t]))
          = StackAt(trace[t], Now(t))
    <2>1. PICK s : s = trace[t]
        OBVIOUS
    <2>2. PICK c \in Nat : c = cursor[t]
        BY <1>4
    <2>3. PICK n \in Nat : n = Now(t)
        BY <1>4
    <2>4. Ordered(s) /\ c < Len(s) /\ n = c + 1 /\ (Opens(s[n]) \/ Closes(s[n]))
        BY <1>3, <1>4, <2>1, <2>2, <2>3
    <2>5. Switch_State(StateOf[s[n].type], s[n].value, StackAt(s, c)) = StackAt(s, n)
        BY <2>4, StackNext
    <2>6. QED
        BY <1>4, <2>1, <2>2, <2>3, <2>5
<1>6. th.stack = StackAt(trace[t], cursor[t]) /\ Good(th)
    BY <1>4 DEF Calm, Tiled
<1>7. PICK stack \in Seq(State) :
              stack = Switch_State(StateOf[Current(t).type], Current(t).value, th.stack)
    BY <1>1, <1>6, States, SwitchTyped, Parts DEF CallTypes
<1>8. stack = StackAt(trace[t], Now(t))
    BY <1>5, <1>6, <1>7
<1>9. Marked(t, th) = Shown(t, th, stack)
    BY <1>7 DEF Marked
<1>10. QED
    BY <1>8, <1>9, ShownTiled

\* The thread of task t has its next state, in threads c with the states of before.
LEMMA OneTiled ==
    ASSUME Tiles, NEW t \in Task, NEW c \in [Task -> Thread],
           \A u \in Task : Calm(thread[u], c[u]),
           NEW th, thread' = [c EXCEPT ![t] = th], Tiled(th, trace[t], Now(t))
    PROVE  NextTiled(t)
<1>1. \A u \in Task : thread'[u] = IF u = t THEN th ELSE c[u]
    OBVIOUS
<1>2. ASSUME NEW u \in Task, u # t
      PROVE  Tiled(thread'[u], trace[u], cursor[u])
    <2>1. thread'[u] = c[u] /\ Good(thread[u]) /\ Tiled(thread[u], trace[u], cursor[u])
        BY <1>1, <1>2 DEF Tiles, MergeTyped
    <2>2. QED
        BY <2>1, CalmTiled
<1>3. thread'[t] = th
    BY <1>1
<1>4. QED
    BY <1>2, <1>3 DEF NextTiled

LEMMA SameCalm ==
    ASSUME Tiles
    PROVE  thread \in [Task -> Thread] /\ \A u \in Task : Calm(thread[u], thread[u])
BY CalmSelf DEF Tiles, MergeTyped

LEMMA OwnTiled ==
    ASSUME Tiles, NEW t \in Task, NEW th, thread' = [thread EXCEPT ![t] = th],
           Tiled(th, trace[t], Now(t))
    PROVE  NextTiled(t)
BY SameCalm, OneTiled

LEMMA HalvesCalm ==
    ASSUME NEW b \in Nat, NEW e \in Nat, NEW to \in Task, NEW tag \in Tags,
           NEW rb \in Nat, NEW re \in Nat
    PROVE  /\ Unmatched(b, e, to) \in Record /\ Unmatched(b, e, to).type \notin StateTypes
           /\ Pending(b, e, to, tag) \in Record /\ Pending(b, e, to, tag).type \notin StateTypes
           /\ Communication(b, e, to, rb, re) \in Record
           /\ Communication(b, e, to, rb, re).type \notin StateTypes
BY DEF Unmatched, Pending, Communication, Record, StateTypes

LEMMA SendTiled ==
    ASSUME Tiles, NEW t \in Task, NEW th, Good(th), Tiled(th, trace[t], Now(t)),
           NEW begin \in Nat, NEW end \in Nat,
           trace[t][end].target \in Task, trace[t][end].tag \in Tags,
           SendHalf(t, th, begin, end)
    PROVE  NextTiled(t)
<1>1. PICK to \in Task : to = trace[t][end].target
    OBVIOUS
<1>2. PICK tag \in Tags : tag = trace[t][end].tag
    OBVIOUS
<1>3. ASSUME NEW on \in BOOLEAN, NEW r \in Record, r.type \notin StateTypes,
             thread' = [thread EXCEPT ![t] = Appends(th, on, r)]
      PROVE  NextTiled(t)
    <2>1. PICK th2 : th2 = Appends(th, on, r)
        OBVIOUS
    <2>2. Calm(th, th2)
        BY <1>3, <2>1, AppendsCalm
    <2>3. Tiled(th2, trace[t], Now(t))
        BY <2>2, CalmTiled
    <2>4. thread' = [thread EXCEPT ![t] = th2]
        BY <1>3, <2>1
    <2>5. QED
        BY <2>3, <2>4, OwnTiled
<1>4. enabled[t] \in BOOLEAN /\ OneEnabled(t, to) \in BOOLEAN /\ recv_queue[to] \in Seq(Recvs)
    BY DEF Tiles, MergeTyped, OneEnabled, QueuesTyped
<1>5. PICK z \in Nat : z = 0
    OBVIOUS
<1>6. CASE thread' = [thread EXCEPT ![t] = Appends(th, enabled[t], Unmatched(begin, end, to))]
    <2>1. PICK r \in Record : r = Unmatched(begin, end, to) /\ r.type \notin StateTypes
        BY <1>5, HalvesCalm
    <2>2. QED
        BY <1>3, <1>4, <1>6, <2>1
<1>7. CASE thread' = [thread EXCEPT ![t] = Appends(th, OneEnabled(t, to),
                                                   Pending(begin, end, to, tag))]
    <2>1. PICK r \in Record : r = Pending(begin, end, to, tag) /\ r.type \notin StateTypes
        BY <1>5, HalvesCalm
    <2>2. QED
        BY <1>3, <1>4, <1>7, <2>1
<1>8. CASE \E i \in FirstOf(RecvsFor(to, t, tag)) :
              thread' = [thread EXCEPT ![t] = Appends(th, OneEnabled(t, to),
                  Communication(begin, end, to, recv_queue[to][i].begin, recv_queue[to][i].end))]
    <2>1. PICK i \in FirstOf(RecvsFor(to, t, tag)) :
              thread' = [thread EXCEPT ![t] = Appends(th, OneEnabled(t, to),
                  Communication(begin, end, to, recv_queue[to][i].begin, recv_queue[to][i].end))]
        BY <1>8
    <2>2. i \in 1..Len(recv_queue[to])
        <3>1. i \in DOMAIN recv_queue[to]
            BY DEF FirstOf, RecvsFor
        <3>2. QED
            BY <1>4, <3>1, Typed
    <2>3. recv_queue[to][i] \in Recvs
        BY <1>4, <2>2, Typed
    <2>4. PICK rb \in Nat : rb = recv_queue[to][i].begin
        BY <2>3, RecvIs
    <2>5. PICK re \in Nat : re = recv_queue[to][i].end
        BY <2>3, RecvIs
    <2>6. PICK r \in Record : r = Communication(begin, end, to, rb, re)
                              /\ r.type \notin StateTypes
        BY HalvesCalm
    <2>7. QED
        BY <1>3, <1>4, <2>1, <2>4, <2>5, <2>6
<1>9. QED
    BY <1>1, <1>2, <1>6, <1>7, <1>8 DEF SendHalf

\* Writing a communication leaves the states alone.
LEMMA CommunicatedCalm ==
    ASSUME MergeTyped, AllWait, NEW t \in Task, NEW begin \in Nat, NEW end \in Nat,
           trace[t][end].target \in Task
    PROVE  /\ Communicated(t, begin, end) \in [Task -> Thread]
           /\ \A u \in Task : Calm(thread[u], Communicated(t, begin, end)[u])
<1>1. PICK from \in Task : from = trace[t][end].target
    OBVIOUS
<1>2. PICK tag : tag = trace[t][end].tag
    OBVIOUS
<1>3. CommunicatedAs(t, begin, end, from, tag)
    BY <1>1, <1>2, CommunicatedIs
<1>4. /\ send_queue[from] \in Seq(Sends)
      /\ thread \in [Task -> Thread] /\ \A u \in Task : Good(thread[u])
    BY DEF MergeTyped, QueuesTyped
<1>5. \A u \in Task : Calm(thread[u], thread[u])
    BY <1>4, CalmSelf
<1>6. CASE Written(from, t, tag) = {}
    BY <1>3, <1>4, <1>5, <1>6, CommunicatedNone
<1>7. CASE Written(from, t, tag) # {}
    <2>1. PICK i : i \in Written(from, t, tag)
        BY <1>7
    <2>2. i \in MatchesOf(from, t, tag) /\ WritesAt(from, t, send_queue[from][i])
        BY <2>1 DEF Written
    <2>3. /\ i \in 1..Len(send_queue[from]) /\ send_queue[from][i] \in Sends
          /\ send_queue[from][i].partner = t /\ MatchesOf(from, t, tag) = {i}
        BY <1>4, <2>2, MatchIs
    <2>4. Written(from, t, tag) = {i}
        BY <2>1, <2>3 DEF Written
    <2>5. PICK s \in Sends : s = send_queue[from][i]
        BY <2>3
    <2>6. Communicated(t, begin, end) = Overwritten(from, t, s, begin, end)
        BY <1>3, <2>4, <2>5, CommunicatedOver
    <2>7. PICK p \in Nat : p = s.position
        BY SendParts
    <2>8. PICK r : r = Communication(s.begin, s.end, t, begin, end)
        OBVIOUS
    <2>9. CommunicationOf(r, s, t)
        BY <2>8, CommunicationOfIs
    <2>10. r \in Record /\ r.type \notin StateTypes
        BY <2>9 DEF CommunicationOf, StateTypes
    <2>11. PICK th : th = thread[from]
        OBVIOUS
    <2>12. PICK th2 : th2 = [th EXCEPT !.wfb = WriteAt(@, r, p)]
        OBVIOUS
    <2>13. CanWriteAt(th.wfb, p) /\ Good(th)
        BY <1>4, <2>2, <2>5, <2>7, <2>11 DEF WritesAt
    <2>14. /\ Good(th2) /\ SameOpen(th, th2)
           /\ p < Len(File(th)) /\ File(th2) = [File(th) EXCEPT ![p + 1] = r]
        BY <2>10, <2>12, <2>13, RecordReplaced
    <2>15. PICK f \in Seq(Record) : f = File(th)
        BY <2>13, FileTyped
    <2>16. PICK q \in 1..Len(f) : q = p + 1
        BY <2>14, <2>15, Typed
    <2>17. f[q].type \notin StateTypes
        <3>1. Waits(f, send_queue[from])
            BY <2>11, <2>15 DEF AllWait, Waiting1
        <3>2. f[q] = Unmatched(s.begin, s.end, s.partner)
            BY <2>3, <2>5, <2>7, <2>16, <3>1 DEF Waits
        <3>3. QED
            BY <3>2 DEF Unmatched, StateTypes
    <2>18. Alike(File(th), File(th2))
        <3>1. Alike(f, [f EXCEPT ![q] = r])
            BY <2>10, <2>17, AlikeOver
        <3>2. File(th2) = [f EXCEPT ![q] = r]
            BY <2>14, <2>15, <2>16
        <3>3. QED
            BY <2>15, <3>1, <3>2
    <2>19. Calm(th, th2)
        BY <2>14, <2>18 DEF Calm, SameOpen
    <2>20. Communicated(t, begin, end) = [thread EXCEPT ![from] = th2]
        BY <1>4, <2>6, <2>7, <2>8, <2>11, <2>12 DEF Overwritten
    <2>21. th2 \in Thread
        BY <2>14 DEF Good
    <2>22. PICK c : c = Communicated(t, begin, end)
        OBVIOUS
    <2>23. c \in [Task -> Thread] /\ \A u \in Task : c[u] = IF u = from THEN th2 ELSE thread[u]
        BY <1>4, <2>20, <2>21, <2>22
    <2>24. \A u \in Task : Calm(thread[u], c[u])
        BY <1>5, <2>11, <2>19, <2>23
    <2>25. QED
        BY <2>22, <2>23, <2>24
<1>8. QED
    BY <1>6, <1>7

\* A call of task t is marked in threads c with the states of before.
LEMMA MarkedNext ==
    ASSUME Tiles, NEW t \in Task, NEW types \in SUBSET CallTypes, IsCurrent(t, types),
           NEW c \in [Task -> Thread], \A u \in Task : Calm(thread[u], c[u]),
           NEW th, Calm(Marked(t, c[t]), th), thread' = [c EXCEPT ![t] = th]
    PROVE  NextTiled(t)
<1>1. PICK th1 : th1 = Marked(t, c[t])
    OBVIOUS
<1>2. PICK th0 : th0 = c[t] /\ Calm(thread[t], th0)
    OBVIOUS
<1>3. th1 = Marked(t, th0)
    BY <1>1, <1>2
<1>4. Tiled(th1, trace[t], Now(t)) /\ Good(th1)
    BY <1>2, <1>3, MarkedTiled
<1>5. Calm(th1, th)
    BY <1>1
<1>6. Tiled(th, trace[t], Now(t))
    BY <1>4, <1>5, CalmTiled
<1>7. QED
    BY <1>6, OneTiled

\* A call of task t is marked, and nothing else is traced.
LEMMA OwnMarkedNext ==
    ASSUME Tiles, NEW t \in Task, NEW types \in SUBSET CallTypes, IsCurrent(t, types),
           NEW th, Calm(Marked(t, thread[t]), th), thread' = [thread EXCEPT ![t] = th]
    PROVE  NextTiled(t)
BY SameCalm, MarkedNext

LEMMA OwnMarked ==
    ASSUME Tiles, NEW t \in Task, NEW types \in SUBSET CallTypes, IsCurrent(t, types)
    PROVE  /\ Tiled(Marked(t, thread[t]), trace[t], Now(t)) /\ Good(Marked(t, thread[t]))
           /\ Calm(Marked(t, thread[t]), Marked(t, thread[t]))
<1>1. PICK th0 : th0 = thread[t] /\ Calm(thread[t], th0)
    BY SameCalm
<1>2. Tiled(Marked(t, th0), trace[t], Now(t)) /\ Good(Marked(t, th0))
    BY <1>1, MarkedTiled
<1>3. QED
    BY <1>1, <1>2, CalmSelf

LEMMA GoodMarked ==
    ASSUME Tiles, NEW t \in Task, NEW types \in SUBSET CallTypes, IsCurrent(t, types),
           NEW th0, Calm(thread[t], th0)
    PROVE  Good(Marked(t, th0)) /\ Calm(Marked(t, th0), Marked(t, th0))
BY MarkedTiled, CalmSelf

\* An event within a call, or that tracing is on, is no new state.
LEMMA StaysTiled ==
    ASSUME Tiles, NEW t \in Task, NEW types, IsCurrent(t, types),
           Inner(Current(t)) \/ Current(t).type = "SET_TRACE",
           NEW th, Calm(thread[t], th)
    PROVE  /\ Good(th) /\ Tiled(th, trace[t], Now(t))
           /\ th.stack = StackAt(trace[t], cursor[t])
           /\ th.open.value = Top_State(th.stack)
<1>1. PICK s : s = trace[t]
    OBVIOUS
<1>2. PICK c \in Nat : c = cursor[t]
    BY CurrentIs
<1>3. PICK n \in Nat : n = Now(t) /\ n = c + 1
    BY <1>2, CurrentIs
<1>4. Good(thread[t]) /\ Tiled(thread[t], s, c) /\ Ordered(s) /\ c < Len(s) /\ Current(t) = s[n]
    BY <1>1, <1>2, <1>3, CurrentIs
<1>5. Good(th) /\ Tiled(th, s, c)
    BY <1>4, CalmTiled DEF Calm
<1>6. Inner(s[n]) \/ s[n].type = "SET_TRACE"
    BY <1>4
<1>7. StackAt(s, n) = StackAt(s, c)
    BY <1>3, <1>4, <1>6, StackNext
<1>8. Tiled(th, s, n)
    BY <1>3, <1>5, <1>7, TiledStays
<1>9. th.stack = StackAt(s, c) /\ th.open.value = DoingAt(s, c)
    BY <1>5 DEF Tiled
<1>10. QED
    BY <1>1, <1>2, <1>3, <1>5, <1>8, <1>9 DEF DoingAt

LEMMA NoShift ==
    ASSUME NEW th, Good(th), th.open.value = Top_State(th.stack), NEW n \in Nat
    PROVE  trace_paraver_state(th, n, FALSE) = th
<1>1. PICK th2 : th2 = trace_paraver_state(th, n, FALSE)
    OBVIOUS
<1>2. StateShift(th, th2, n, FALSE)
    BY <1>1, StateTraced
<1>3. th2 = th
    BY <1>2 DEF StateShift
<1>4. QED
    BY <1>1, <1>3

-----------------------------------------------------------------------------
(* The handlers keep the states of the tasks                                *)

LEMMA AnySendTiled ==
    ASSUME Tiles, NEW t \in Task, Any_Send_Event(t)
    PROVE  NextTiled(t)
<1>1. IsCurrent(t, {"SEND", "ISEND"}) /\ MergeTyped
    BY ReadsIs DEF Any_Send_Event, Tiles
<1>2. PICK types \in SUBSET CallTypes : types = {"SEND", "ISEND"} /\ IsCurrent(t, types)
    BY <1>1 DEF CallTypes
<1>3. PICK n \in Nat : n = Now(t) /\ Current(t) = trace[t][n]
    BY <1>1 DEF IsCurrent
<1>4. PICK th : th = Marked(t, thread[t])
    OBVIOUS
<1>5. Tiled(th, trace[t], Now(t)) /\ Good(th)
    BY <1>2, <1>4, OwnMarked
<1>6. CASE thread' = [thread EXCEPT ![t] = [Marked(t, @) EXCEPT !.Send_Rec = Now(t)]]
    <2>1. PICK th2 : th2 = [th EXCEPT !.Send_Rec = n]
        OBVIOUS
    <2>2. Calm(Marked(t, thread[t]), th2)
        BY <1>4, <1>5, <2>1, SendSetCalm
    <2>3. thread' = [thread EXCEPT ![t] = th2]
        BY <1>3, <1>4, <1>6, <2>1
    <2>4. QED
        BY <1>2, <2>2, <2>3, OwnMarkedNext
<1>7. CASE SendHalf(t, Marked(t, thread[t]), thread[t].Send_Rec, Now(t))
    <2>1. PICK b \in Nat : b = thread[t].Send_Rec
        BY <1>1, Parts DEF MergeTyped
    <2>2. trace[t][n].target \in Task /\ trace[t][n].tag \in Tags
        BY <1>1, <1>3, EventIs DEF IsCurrent
    <2>3. SendHalf(t, th, b, n)
        BY <1>3, <1>4, <1>7, <2>1
    <2>4. QED
        BY <1>5, <2>2, <2>3, SendTiled
<1>8. QED
    BY <1>6, <1>7 DEF Any_Send_Event

LEMMA SendRecvTiled ==
    ASSUME Tiles, NEW t \in Task, SendRecv_Event(t)
    PROVE  NextTiled(t)
<1>1. IsCurrent(t, {"SENDRECV"}) /\ MergeTyped /\ AllWait
    BY ReadsIs DEF SendRecv_Event, Tiles
<1>2. PICK types \in SUBSET CallTypes : types = {"SENDRECV"} /\ IsCurrent(t, types)
    BY <1>1 DEF CallTypes
<1>3. PICK n \in Nat : n = Now(t) /\ Current(t) = trace[t][n]
    BY <1>1 DEF IsCurrent
<1>4. trace[t][n].target \in Task /\ trace[t][n].tag \in Tags
    BY <1>1, <1>3, EventIs DEF IsCurrent
<1>5. CASE SendHalf(t, [Marked(t, thread[t]) EXCEPT !.Send_Rec = Now(t)], Now(t), Now(t))
    <2>1. PICK th : th = Marked(t, thread[t])
        OBVIOUS
    <2>2. Tiled(th, trace[t], Now(t)) /\ Good(th)
        BY <1>2, <2>1, OwnMarked
    <2>3. PICK th2 : th2 = [th EXCEPT !.Send_Rec = n]
        OBVIOUS
    <2>4. Calm(th, th2)
        BY <2>2, <2>3, SendSetCalm
    <2>5. Tiled(th2, trace[t], Now(t)) /\ Good(th2)
        BY <2>2, <2>4, CalmTiled DEF Calm
    <2>6. SendHalf(t, th2, n, n)
        BY <1>3, <1>5, <2>1, <2>3
    <2>7. QED
        BY <1>4, <2>5, <2>6, SendTiled
<1>6. CASE thread' = [Communicated(t, thread[t].Send_Rec, Now(t)) EXCEPT
                           ![t] = [Marked(t, @) EXCEPT !.Recv_Rec = Now(t)]]
    <2>1. PICK b \in Nat : b = thread[t].Send_Rec
        BY <1>1, Parts DEF MergeTyped
    <2>2. PICK c : c = Communicated(t, b, n)
        OBVIOUS
    <2>3. c \in [Task -> Thread] /\ \A u \in Task : Calm(thread[u], c[u])
        BY <1>1, <1>4, <2>2, CommunicatedCalm
    <2>4. PICK th : th = Marked(t, c[t])
        OBVIOUS
    <2>5. Good(th)
        BY <1>2, <2>3, <2>4, GoodMarked
    <2>6. PICK th2 : th2 = [th EXCEPT !.Recv_Rec = n]
        OBVIOUS
    <2>7. Calm(Marked(t, c[t]), th2)
        BY <2>4, <2>5, <2>6, ReceiveSetCalm
    <2>8. thread' = [c EXCEPT ![t] = th2]
        BY <1>3, <1>6, <2>1, <2>2, <2>4, <2>6
    <2>9. QED
        BY <1>2, <2>3, <2>7, <2>8, MarkedNext
<1>7. QED
    BY <1>5, <1>6 DEF SendRecv_Event

LEMMA RecvTiled ==
    ASSUME Tiles, NEW t \in Task, Recv_Event(t)
    PROVE  NextTiled(t)
<1>1. IsCurrent(t, {"RECV"}) /\ MergeTyped /\ AllWait
    BY ReadsIs DEF Recv_Event, Tiles
<1>2. PICK types \in SUBSET CallTypes : types = {"RECV"} /\ IsCurrent(t, types)
    BY <1>1 DEF CallTypes
<1>3. PICK n \in Nat : n = Now(t) /\ Current(t) = trace[t][n]
    BY <1>1 DEF IsCurrent
<1>4. CASE thread' = [thread EXCEPT ![t] = [Marked(t, @) EXCEPT !.Recv_Rec = Now(t)]]
    <2>1. PICK th : th = Marked(t, thread[t])
        OBVIOUS
    <2>2. Good(th)
        BY <1>2, <2>1, OwnMarked
    <2>3. PICK th2 : th2 = [th EXCEPT !.Recv_Rec = n]
        OBVIOUS
    <2>4. Calm(Marked(t, thread[t]), th2)
        BY <2>1, <2>2, <2>3, ReceiveSetCalm
    <2>5. thread' = [thread EXCEPT ![t] = th2]
        BY <1>3, <1>4, <2>1, <2>3
    <2>6. QED
        BY <1>2, <2>4, <2>5, OwnMarkedNext
<1>5. CASE /\ Current(t).value = "END"
           /\ thread' = [Communicated(t, thread[t].Recv_Rec, Now(t)) EXCEPT ![t] = Marked(t, @)]
    <2>1. PICK b \in Nat : b = thread[t].Recv_Rec
        BY <1>1, Parts DEF MergeTyped
    <2>2. trace[t][n].target \in Task
        BY <1>1, <1>3, <1>5, EventIs DEF IsCurrent
    <2>3. PICK c : c = Communicated(t, b, n)
        OBVIOUS
    <2>4. c \in [Task -> Thread] /\ \A u \in Task : Calm(thread[u], c[u])
        BY <1>1, <2>2, <2>3, CommunicatedCalm
    <2>5. PICK th : th = Marked(t, c[t]) /\ Calm(Marked(t, c[t]), th)
        BY <1>2, <2>4, GoodMarked
    <2>6. thread' = [c EXCEPT ![t] = th]
        BY <1>3, <1>5, <2>1, <2>3, <2>5
    <2>7. QED
        BY <1>2, <2>4, <2>5, <2>6, MarkedNext
<1>6. QED
    BY <1>4, <1>5 DEF Recv_Event

LEMMA IRecvTiled ==
    ASSUME Tiles, NEW t \in Task, IRecv_Event(t)
    PROVE  NextTiled(t)
<1>1. IsCurrent(t, {"IRECV"}) /\ MergeTyped /\ AllWait
    BY ReadsIs DEF IRecv_Event, Tiles
<1>2. PICK types \in SUBSET CallTypes : types = {"IRECV"} /\ IsCurrent(t, types)
    BY <1>1 DEF CallTypes
<1>3. PICK n \in Nat : n = Now(t)
    BY <1>1 DEF IsCurrent
<1>4. CASE thread' = [thread EXCEPT ![t] = Marked(t, @)]
    <2>1. PICK th : th = Marked(t, thread[t]) /\ Calm(Marked(t, thread[t]), th)
        BY <1>2, OwnMarked
    <2>2. thread' = [thread EXCEPT ![t] = th]
        BY <1>4, <2>1
    <2>3. QED
        BY <1>2, <2>1, <2>2, OwnMarkedNext
<1>5. CASE \E r \in Search_MPI_IRECVED(t) :
               thread' = [Communicated(t, Now(t), r) EXCEPT ![t] = Marked(t, @)]
    <2>1. PICK r \in Search_MPI_IRECVED(t) :
               thread' = [Communicated(t, Now(t), r) EXCEPT ![t] = Marked(t, @)]
        BY <1>5
    <2>2. r \in Nat /\ trace[t][r].target \in Task
        BY <1>1, SearchIs
    <2>3. PICK c : c = Communicated(t, n, r)
        OBVIOUS
    <2>4. c \in [Task -> Thread] /\ \A u \in Task : Calm(thread[u], c[u])
        BY <1>1, <2>2, <2>3, CommunicatedCalm
    <2>5. PICK th : th = Marked(t, c[t]) /\ Calm(Marked(t, c[t]), th)
        BY <1>2, <2>4, GoodMarked
    <2>6. thread' = [c EXCEPT ![t] = th]
        BY <1>3, <2>1, <2>3, <2>5
    <2>7. QED
        BY <1>2, <2>4, <2>5, <2>6, MarkedNext
<1>6. QED
    BY <1>4, <1>5 DEF IRecv_Event

\* A receive that starts is kept in Recv_Rec, and no state begins.
LEMMA StartedCalm ==
    ASSUME Tiles, NEW t \in Task, NEW types, IsCurrent(t, types), Inner(Current(t)),
           NEW th, Calm(thread[t], th), NEW n \in Nat
    PROVE  /\ Calm(th, StartedThread(th, n)) /\ Good(StartedThread(th, n))
           /\ Tiled(StartedThread(th, n), trace[t], Now(t))
<1>1. /\ Good(th) /\ Tiled(th, trace[t], Now(t))
      /\ th.open.value = Top_State(th.stack)
    BY StaysTiled
<1>2. trace_paraver_state(th, n, FALSE) = th
    BY <1>1, NoShift
<1>3. PICK th2 : th2 = [th EXCEPT !.Recv_Rec = n]
    OBVIOUS
<1>4. Calm(th, th2)
    BY <1>1, <1>3, ReceiveSetCalm
<1>5. StartedThread(th, n) = th2
    BY <1>2, <1>3 DEF StartedThread
<1>6. Tiled(th2, trace[t], Now(t))
    BY <1>1, <1>4, CalmTiled
<1>7. QED
    BY <1>4, <1>5, <1>6 DEF Calm

LEMMA PersistentTiled ==
    ASSUME Tiles, NEW t \in Task, MPI_PersistentRequest_Event(t)
    PROVE  NextTiled(t)
<1>1. IsCurrent(t, {"PERSIST_REQ"}) /\ MergeTyped /\ AllWait
    BY ReadsIs DEF MPI_PersistentRequest_Event, Tiles
<1>2. PICK types : types = {"PERSIST_REQ"} /\ IsCurrent(t, types)
    BY <1>1
<1>3. Inner(Current(t))
    BY <1>1 DEF IsCurrent, Inner
<1>4. PICK n \in Nat : n = Now(t) /\ Current(t) = trace[t][n]
    BY <1>1 DEF IsCurrent
<1>5. CASE thread' = [thread EXCEPT ![t] = StartedThread(@, n)]
    <2>1. PICK th0 : th0 = thread[t] /\ Calm(thread[t], th0)
        BY SameCalm
    <2>2. PICK th : th = StartedThread(th0, n)
        OBVIOUS
    <2>3. Tiled(th, trace[t], Now(t))
        BY <1>2, <1>3, <2>1, <2>2, StartedCalm
    <2>4. thread' = [thread EXCEPT ![t] = th]
        BY <1>5, <2>1, <2>2
    <2>5. QED
        BY <2>3, <2>4, OwnTiled
<1>6. CASE \E r \in Search_MPI_IRECVED(t) :
               thread' = [Communicated(t, n, r) EXCEPT ![t] = StartedThread(@, n)]
    <2>1. PICK r \in Search_MPI_IRECVED(t) :
               thread' = [Communicated(t, n, r) EXCEPT ![t] = StartedThread(@, n)]
        BY <1>6
    <2>2. r \in Nat /\ trace[t][r].target \in Task
        BY <1>1, SearchIs
    <2>3. PICK c : c = Communicated(t, n, r)
        OBVIOUS
    <2>4. c \in [Task -> Thread] /\ \A u \in Task : Calm(thread[u], c[u])
        BY <1>1, <2>2, <2>3, CommunicatedCalm
    <2>5. PICK th0 : th0 = c[t] /\ Calm(thread[t], th0)
        BY <2>4
    <2>6. PICK th : th = StartedThread(th0, n)
        OBVIOUS
    <2>7. Tiled(th, trace[t], Now(t))
        BY <1>2, <1>3, <2>5, <2>6, StartedCalm
    <2>8. thread' = [c EXCEPT ![t] = th]
        BY <2>1, <2>3, <2>5, <2>6
    <2>9. QED
        BY <2>4, <2>7, <2>8, OneTiled
<1>7. CASE /\ Current(t).value = "ISEND"
           /\ SendHalf(t, [trace_paraver_state(thread[t], n, FALSE) EXCEPT !.Send_Rec = n], n, n)
    <2>1. PICK th : th = thread[t] /\ Calm(thread[t], th)
        BY SameCalm
    <2>2. /\ Good(th) /\ Tiled(th, trace[t], Now(t))
          /\ th.open.value = Top_State(th.stack)
        BY <1>2, <1>3, <2>1, StaysTiled
    <2>3. trace_paraver_state(th, n, FALSE) = th
        BY <2>2, NoShift
    <2>4. PICK th2 : th2 = [th EXCEPT !.Send_Rec = n]
        OBVIOUS
    <2>5. Calm(th, th2)
        BY <2>2, <2>4, SendSetCalm
    <2>6. Tiled(th2, trace[t], Now(t)) /\ Good(th2)
        BY <2>2, <2>5, CalmTiled DEF Calm
    <2>7. SendHalf(t, th2, n, n)
        BY <1>7, <2>1, <2>3, <2>4
    <2>8. trace[t][n].target \in Task /\ trace[t][n].tag \in Tags
        BY <1>1, <1>4, <1>7, EventIs DEF IsCurrent
    <2>9. QED
        BY <2>6, <2>7, <2>8, SendTiled
<1>8. QED
    BY <1>4, <1>5, <1>6, <1>7 DEF MPI_PersistentRequest_Event, StartedThread

LEMMA StartTiled ==
    ASSUME Tiles, NEW t \in Task, MPI_Start_Event(t)
    PROVE  NextTiled(t)
<1>1. IsCurrent(t, {"START"}) /\ MergeTyped
    BY ReadsIs DEF MPI_Start_Event, Tiles
<1>2. PICK types \in SUBSET CallTypes : types = {"START"} /\ IsCurrent(t, types)
    BY <1>1 DEF CallTypes
<1>3. PICK n \in Nat : n = Now(t)
    BY <1>1 DEF IsCurrent
<1>4. PICK th : th = Marked(t, thread[t])
    OBVIOUS
<1>5. Good(th) /\ Calm(Marked(t, thread[t]), th)
    BY <1>2, <1>4, OwnMarked
<1>6. PICK th1 : th1 = [th EXCEPT !.Send_Rec = n] /\ Calm(th, th1)
    BY <1>5, SendSetCalm
<1>7. PICK th2 : th2 = [th1 EXCEPT !.Recv_Rec = n]
    OBVIOUS
<1>8. Calm(th1, th2)
    <2>1. Good(th1)
        BY <1>6 DEF Calm
    <2>2. n \in Nat
        OBVIOUS
    <2>3. Calm(th1, [th1 EXCEPT !.Recv_Rec = n])
        BY <2>1, <2>2, ReceiveSetCalm
    <2>4. QED
        BY <1>7, <2>3
<1>9. Calm(th, th2)
    BY <1>6, <1>8, CalmOn
<1>10. th2 = [th EXCEPT !.Send_Rec = n, !.Recv_Rec = n]
    BY <1>6, <1>7
<1>11. \/ thread' = [thread EXCEPT ![t] = th] \/ thread' = [thread EXCEPT ![t] = th2]
    BY <1>3, <1>4, <1>10 DEF MPI_Start_Event
<1>12. Calm(Marked(t, thread[t]), th2)
    BY <1>4, <1>9
<1>13. QED
    BY <1>2, <1>5, <1>11, <1>12, OwnMarkedNext

LEMMA GlobalTiled ==
    ASSUME Tiles, NEW t \in Task, GlobalOP_event(t)
    PROVE  NextTiled(t)
<1>1. IsCurrent(t, {"BARRIER"}) /\ MergeTyped
    BY ReadsIs DEF GlobalOP_event, Tiles
<1>2. PICK types \in SUBSET CallTypes : types = {"BARRIER"} /\ IsCurrent(t, types)
    BY <1>1 DEF CallTypes
<1>3. PICK n \in Nat : n = Now(t)
    BY <1>1 DEF IsCurrent
<1>4. PICK th : th = Marked(t, thread[t])
    OBVIOUS
<1>5. Good(th) /\ Calm(Marked(t, thread[t]), th)
    BY <1>2, <1>4, OwnMarked
<1>6. PICK th1 : th1 = trace_paraver_event(th, enabled[t], n) /\ Calm(th, th1)
    BY <1>1, <1>5, EventCalm
<1>7. PICK th2 : th2 = trace_paraver_event(th1, enabled[t], n) /\ Calm(th1, th2)
    BY <1>1, <1>6, EventCalm DEF Calm
<1>8. PICK th3 : th3 = trace_paraver_event(th2, enabled[t], n) /\ Calm(th2, th3)
    BY <1>1, <1>7, EventCalm DEF Calm
<1>9. Calm(th, th3)
    BY <1>6, <1>7, <1>8, CalmOn
<1>10. \/ thread' = [thread EXCEPT ![t] = th] \/ thread' = [thread EXCEPT ![t] = th3]
    BY <1>3, <1>4, <1>6, <1>7, <1>8 DEF GlobalOP_event
<1>11. Calm(Marked(t, thread[t]), th3)
    BY <1>4, <1>9
<1>12. QED
    BY <1>2, <1>5, <1>10, <1>11, OwnMarkedNext

LEMMA OtherTiled ==
    ASSUME Tiles, NEW t \in Task, Other_MPI_Event(t)
    PROVE  NextTiled(t)
<1>1. IsCurrent(t, {"WAIT"}) /\ MergeTyped
    BY ReadsIs DEF Other_MPI_Event, Tiles
<1>2. PICK types \in SUBSET CallTypes : types = {"WAIT"} /\ IsCurrent(t, types)
    BY <1>1 DEF CallTypes
<1>3. PICK th : th = Marked(t, thread[t]) /\ Calm(Marked(t, thread[t]), th)
    BY <1>2, OwnMarked
<1>4. thread' = [thread EXCEPT ![t] = th]
    BY <1>3 DEF Other_MPI_Event
<1>5. QED
    BY <1>2, <1>3, <1>4, OwnMarkedNext

LEMMA SkipTiled ==
    ASSUME Tiles, NEW t \in Task, SkipHandler(t)
    PROVE  NextTiled(t)
<1>1. IsCurrent(t, {"IRECVED"}) /\ thread' = thread
    BY ReadsIs DEF SkipHandler, Tiles
<1>2. PICK types : types = {"IRECVED"} /\ IsCurrent(t, types)
    BY <1>1
<1>3. Inner(Current(t))
    BY <1>1 DEF IsCurrent, Inner
<1>4. PICK th : th = thread[t] /\ Calm(thread[t], th)
    BY SameCalm
<1>5. Tiled(th, trace[t], Now(t))
    BY <1>2, <1>3, <1>4, StaysTiled
<1>6. thread' = [thread EXCEPT ![t] = th]
    BY <1>1, <1>4, SameCalm
<1>7. QED
    BY <1>5, <1>6, OwnTiled

\* The new state of an event that is no call is shown.
LEMMA OwnShownNext ==
    ASSUME Tiles, NEW t \in Task, NEW types, IsCurrent(t, types),
           NEW stack \in Seq(State), stack = StackAt(trace[t], Now(t)),
           thread' = [thread EXCEPT ![t] = Shown(t, @, stack)]
    PROVE  NextTiled(t)
<1>1. PICK th : th = thread[t] /\ Calm(thread[t], th)
    BY SameCalm
<1>2. PICK th2 : th2 = Shown(t, th, stack)
    OBVIOUS
<1>3. Tiled(th2, trace[t], Now(t))
    BY <1>1, <1>2, ShownTiled
<1>4. thread' = [thread EXCEPT ![t] = th2]
    BY <1>1, <1>2
<1>5. QED
    BY <1>3, <1>4, OwnTiled

LEMMA CurrentStack ==
    ASSUME Tiles, NEW t \in Task, NEW types, IsCurrent(t, types)
    PROVE  /\ Current(t).type = "TRACING_MODE" => StackAt(trace[t], Now(t)) = <<"STATE_RUNNING">>
           /\ Ends(Current(t)) => Pop_State("STATE_ANY", thread[t].stack)
                                      = StackAt(trace[t], Now(t))
           /\ Current(t).type = "SET_TRACE" =>
                  Pop_State("STATE_NOT_TRACING", thread[t].stack) = thread[t].stack
<1>1. PICK s : s = trace[t]
    OBVIOUS
<1>2. PICK c \in Nat : c = cursor[t]
    BY CurrentIs
<1>3. PICK n \in Nat : n = Now(t) /\ n = c + 1
    BY <1>2, CurrentIs
<1>4. Tiled(thread[t], s, c) /\ Ordered(s) /\ c < Len(s) /\ Current(t) = s[n]
    BY <1>1, <1>2, <1>3, CurrentIs
<1>5. thread[t].stack = StackAt(s, c)
    BY <1>4 DEF Tiled
<1>6. /\ s[n].type = "TRACING_MODE" => StackAt(s, n) = <<"STATE_RUNNING">>
      /\ Ends(s[n]) => Pop_State("STATE_ANY", StackAt(s, c)) = StackAt(s, n)
      /\ s[n].type = "SET_TRACE" =>
                  Pop_State("STATE_NOT_TRACING", StackAt(s, c)) = StackAt(s, c)
    BY <1>3, <1>4, StackNext
<1>7. QED
    BY <1>1, <1>3, <1>4, <1>5, <1>6

LEMMA TracingModeTiled ==
    ASSUME Tiles, NEW t \in Task, Tracing_Mode_Event(t)
    PROVE  NextTiled(t)
<1>1. IsCurrent(t, {"TRACING_MODE"})
    BY ReadsIs DEF Tracing_Mode_Event, Tiles
<1>2. PICK types : types = {"TRACING_MODE"} /\ IsCurrent(t, types)
    BY <1>1
<1>3. PICK stack \in Seq(State) : stack = <<"STATE_RUNNING">>
    BY States, One
<1>4. stack = StackAt(trace[t], Now(t))
    <2>1. Current(t).type = "TRACING_MODE"
        BY <1>1 DEF IsCurrent
    <2>2. QED
        BY <1>2, <1>3, <2>1, CurrentStack
<1>5. thread' = [thread EXCEPT ![t] = Shown(t, @, stack)]
    BY <1>3 DEF Tracing_Mode_Event
<1>6. QED
    BY <1>2, <1>4, <1>5, OwnShownNext

LEMMA ApplTiled ==
    ASSUME Tiles, NEW t \in Task, Appl_Event(t)
    PROVE  NextTiled(t)
<1>1. IsCurrent(t, {"APPL"}) /\ Good(thread[t])
    BY ReadsIs DEF Appl_Event, Tiles, MergeTyped
<1>2. PICK types : types = {"APPL"} /\ IsCurrent(t, types)
    BY <1>1
<1>3. PICK stack \in Seq(State) : stack = Pop_State("STATE_ANY", thread[t].stack)
    BY <1>1, Parts, PopTyped
<1>4. stack = StackAt(trace[t], Now(t))
    <2>1. Ends(Current(t))
        BY <1>1 DEF IsCurrent, Ends
    <2>2. QED
        BY <1>2, <1>3, <2>1, CurrentStack
<1>5. thread' = [thread EXCEPT ![t] = Shown(t, @, stack)]
    BY <1>3 DEF Appl_Event
<1>6. QED
    BY <1>2, <1>4, <1>5, OwnShownNext

LEMMA SetTracingTiled ==
    ASSUME KeepsTracing, Tiles, NEW t \in Task, SetTracing_Event(t)
    PROVE  NextTiled(t)
<1>1. IsCurrent(t, {"SET_TRACE"}) /\ Good(thread[t])
    BY ReadsIs DEF SetTracing_Event, Tiles, MergeTyped
<1>2. PICK types : types = {"SET_TRACE"} /\ IsCurrent(t, types)
    BY <1>1
<1>3. Current(t).type = "SET_TRACE" /\ Current(t).value = "ON"
    BY <1>1, OnOnly DEF IsCurrent
<1>4. PICK th : th = thread[t] /\ Calm(thread[t], th)
    BY SameCalm
<1>5. Tiled(th, trace[t], Now(t))
    BY <1>2, <1>3, <1>4, StaysTiled
<1>6. PICK stack : stack = Pop_State("STATE_NOT_TRACING", thread[t].stack)
    OBVIOUS
<1>7. stack = th.stack
    BY <1>2, <1>3, <1>4, <1>6, CurrentStack
<1>8. PICK th2 : th2 = [thread[t] EXCEPT !.stack = stack]
    OBVIOUS
<1>9. thread' = [thread EXCEPT ![t] = th2]
    BY <1>3, <1>6, <1>8 DEF SetTracing_Event
<1>10. th2 = th
    <2>1. th = [wfb |-> th.wfb, stack |-> th.stack, open |-> th.open,
                Send_Rec |-> th.Send_Rec, Recv_Rec |-> th.Recv_Rec]
        BY <1>1, <1>4, Parts
    <2>2. th2 = [th EXCEPT !.stack = th.stack]
        BY <1>4, <1>7, <1>8
    <2>3. PICK a, b, c, d, e : th = [wfb |-> a, stack |-> b, open |-> c,
                                     Send_Rec |-> d, Recv_Rec |-> e]
        BY <2>1
    <2>4. QED
        BY <2>2, <2>3
<1>11. QED
    BY <1>5, <1>9, <1>10, OwnTiled

-----------------------------------------------------------------------------
(* The states of the whole trace                                            *)

\* File f has the states of all of trace s, and no slot.
Whole(f, s) ==
    /\ \A i \in 0..Len(s) : Covered(f, DoingAt(s, i), i)
    /\ OnlySlots(f, {})

Tiling ==
    /\ TraceOrder
    /\ ~finished => phase = "merge" /\ \A t \in Task : cursor[t] = 0
    /\ phase = "merge" => \A t \in Task : Tiled(thread[t], trace[t], cursor[t])
    /\ phase \in {"join", "done"} => \A t \in Task : Whole(File(thread[t]), trace[t])

\* Before its first event a thread says nothing of the trace.
LEMMA TiledStart ==
    ASSUME NEW th, Good(th), NEW s, NEW u, Tiled(th, s, 0)
    PROVE  Tiled(th, u, 0)
<1>1. StackAt(u, 0) = StackAt(s, 0) /\ DoingAt(u, 0) = DoingAt(s, 0)
    BY DEF StackAt, DoingAt
<1>2. th.open.time \in Nat /\ th.open.time <= 0
    BY Parts DEF Tiled
<1>3. th.open.time = 0
    BY <1>2
<1>4. \A i \in Nat : th.open.time <= i /\ i <= 0 => DoingAt(u, i) = th.open.value
    <2>1. \A i \in Nat : i <= 0 => i = 0
        OBVIOUS
    <2>2. th.open.value = DoingAt(s, 0)
        BY DEF Tiled
    <2>3. QED
        BY <1>1, <2>1, <2>2
<1>5. Laid(File(th), u, 0)
    <2>1. Laid(File(th), s, 0)
        BY <1>3 DEF Tiled
    <2>2. \A i \in Nat : ~(i < 0)
        OBVIOUS
    <2>3. QED
        BY <2>1, <2>2 DEF Laid
<1>6. th.stack = StackAt(u, 0) /\ th.open.value = DoingAt(u, 0) /\ OnlySlots(File(th), SlotOf(th))
    BY <1>1 DEF Tiled
<1>7. QED
    BY <1>2, <1>3, <1>4, <1>5, <1>6 DEF Tiled

LEMMA FirstTiled ==
    ASSUME NEW s
    PROVE  Tiled(FirstThread, s, 0)
<1>1. PICK th : th = FirstThread
    OBVIOUS
<1>2. /\ th.stack = <<"STATE_STOPPED">> /\ Good(th)
      /\ th.open.at = 0 /\ th.open.value = "STATE_STOPPED" /\ th.open.time = 0
      /\ Len(File(th)) = 1 /\ File(th)[1] = UnfinishedState
    BY <1>1, FirstIs
<1>3. StackAt(s, 0) = <<"STATE_STOPPED">> /\ DoingAt(s, 0) = "STATE_STOPPED"
    BY TopIs DEF StackAt, DoingAt
<1>4. \A i \in Nat : th.open.time <= i /\ i <= 0 => DoingAt(s, i) = th.open.value
    <2>1. \A i \in Nat : i <= 0 => i = 0
        OBVIOUS
    <2>2. QED
        BY <1>2, <1>3, <2>1
<1>5. \A k \in 1..Len(File(th)) : k = 1
    BY <1>2
<1>6. Laid(File(th), s, th.open.time)
    <2>1. ASSUME NEW k, IsState(File(th), k)
          PROVE  FALSE
        BY <1>2, <1>5, <2>1 DEF IsState, UnfinishedState
    <2>2. \A i \in Nat : ~(i < th.open.time)
        BY <1>2
    <2>3. QED
        BY <2>1, <2>2 DEF Laid
<1>7. OnlySlots(File(th), SlotOf(th))
    <2>1. SlotOf(th) = {1}
        BY <1>2 DEF SlotOf, State_Excluded
    <2>2. QED
        BY <1>5, <2>1 DEF OnlySlots
<1>8. th.open.time <= 0
    BY <1>2
<1>9. th.stack = StackAt(s, 0) /\ th.open.value = DoingAt(s, 0)
    BY <1>2, <1>3
<1>10. Tiled(th, s, 0)
    BY <1>4, <1>6, <1>7, <1>8, <1>9 DEF Tiled
<1>11. QED
    BY <1>1, <1>10

LEMMA InitTiling ==
    ASSUME Init
    PROVE  Tiling
<1>1. TraceInit /\ phase = "merge" /\ cursor = [t \in Task |-> 0]
      /\ thread = [t \in Task |-> FirstThread]
    BY DEF Init
<1>2. TraceOrder
    BY <1>1, TraceInitOrder
<1>3. ASSUME NEW t \in Task
      PROVE  cursor[t] = 0 /\ Tiled(thread[t], trace[t], cursor[t])
    <2>1. cursor[t] = 0 /\ thread[t] = FirstThread
        BY <1>1
    <2>2. QED
        BY <2>1, FirstTiled
<1>4. QED
    BY <1>1, <1>2, <1>3 DEF Tiling

\* Task t has read an event.
LEMMA ReadsTiling ==
    ASSUME Converting, Tiling, NEW t \in Task, NEW types, Reads(t, types), Handles,
           NextTiled(t)
    PROVE  Tiling'
<1>1. finished /\ UNCHANGED traceVars /\ cursor' = [cursor EXCEPT ![t] = @ + 1]
    BY DEF Reads
<1>2. phase' \in {"merge", "aborted"} /\ cursor \in [Task -> Nat]
    BY DEF Handles, Converting, MergeTyped
<1>3. finished' = finished /\ trace' = trace
    BY <1>1 DEF traceVars
<1>4. TraceOrder'
    BY <1>1 DEF Tiling, TraceOrder, OwnTraced, LastEvent, traceVars, mpiVars
<1>5. ASSUME NEW u \in Task
      PROVE  Tiled(thread'[u], trace'[u], cursor'[u])
    <2>1. CASE u = t
        <3>1. cursor'[u] = Now(t)
            BY <1>1, <1>2, <2>1 DEF Now
        <3>2. QED
            BY <1>3, <2>1, <3>1 DEF NextTiled
    <2>2. CASE u # t
        <3>1. cursor'[u] = cursor[u]
            BY <1>1, <1>2, <2>2
        <3>2. QED
            BY <1>3, <2>2, <3>1 DEF NextTiled
    <2>3. QED
        BY <2>1, <2>2
<1>6. QED
    BY <1>1, <1>2, <1>3, <1>4, <1>5 DEF Tiling

LEMMA SameTiling ==
    ASSUME Tiling, UNCHANGED <<traceVars, cursor, thread>>,
           phase' = phase \/ (phase = "join" /\ phase' = "done")
    PROVE  Tiling'
<1>1. finished' = finished /\ trace' = trace /\ cursor' = cursor /\ thread' = thread
    BY DEF traceVars
<1>2. TraceOrder'
    BY DEF Tiling, TraceOrder, OwnTraced, LastEvent, traceVars, mpiVars
<1>3. ~finished' => phase' = "merge" /\ \A t \in Task : cursor'[t] = 0
    BY <1>1 DEF Tiling
<1>4. phase' = "merge" => \A t \in Task : Tiled(thread'[t], trace'[t], cursor'[t])
    BY <1>1 DEF Tiling
<1>5. phase' \in {"join", "done"} => \A t \in Task : Whole(File(thread'[t]), trace'[t])
    BY <1>1 DEF Tiling
<1>6. QED
    BY <1>2, <1>3, <1>4, <1>5 DEF Tiling

LEMMA ProgramTiling ==
    ASSUME KeepsTracing, Converting, Tiling, TraceNext, UNCHANGED mergeVars
    PROVE  Tiling'
<1>1. MergeTyped /\ TraceTyped
    BY DEF Converting, MergeTyped
<1>2. ~finished
    BY <1>1, TraceNextSteps DEF TraceSteps
<1>3. TraceOrder /\ phase = "merge" /\ \A t \in Task : cursor[t] = 0
    BY <1>2 DEF Tiling
<1>4. TraceOrder'
    BY <1>1, <1>3, TraceNextOrder
<1>5. phase' = phase /\ cursor' = cursor /\ thread' = thread
    BY DEF mergeVars
<1>6. ASSUME NEW t \in Task
      PROVE  Tiled(thread'[t], trace'[t], cursor'[t])
    <2>1. Good(thread[t]) /\ Tiled(thread[t], trace[t], 0)
        BY <1>1, <1>3 DEF MergeTyped, Tiling
    <2>2. Tiled(thread[t], trace'[t], 0)
        BY <2>1, TiledStart
    <2>3. QED
        BY <1>3, <1>5, <2>2
<1>7. QED
    BY <1>3, <1>4, <1>5, <1>6 DEF Tiling

LEMMA MergeTiling ==
    ASSUME KeepsTracing, Converting, Tiling, NEW t \in Task, Merge(t)
    PROVE  Tiling'
<1>1. MergeTyped /\ AllWait
    BY DEF Converting
<1>2. ASSUME phase = "merge"
      PROVE  Tiles
    BY <1>1, <1>2 DEF Tiles, Tiling
<1>3. CASE Any_Send_Event(t)
    <2>1. Reads(t, {"SEND", "ISEND"}) /\ Handles
        BY <1>1, <1>3, AnySendHandles DEF Any_Send_Event
    <2>2. Tiles
        BY <1>2, <2>1 DEF Reads
    <2>3. QED
        BY <1>3, <2>1, <2>2, AnySendTiled, ReadsTiling
<1>4. CASE SendRecv_Event(t)
    <2>1. Reads(t, {"SENDRECV"}) /\ Handles
        BY <1>1, <1>4, SendRecvHandles DEF SendRecv_Event
    <2>2. Tiles
        BY <1>2, <2>1 DEF Reads
    <2>3. QED
        BY <1>4, <2>1, <2>2, SendRecvTiled, ReadsTiling
<1>5. CASE Recv_Event(t)
    <2>1. Reads(t, {"RECV"}) /\ Handles
        BY <1>1, <1>5, RecvHandles DEF Recv_Event
    <2>2. Tiles
        BY <1>2, <2>1 DEF Reads
    <2>3. QED
        BY <1>5, <2>1, <2>2, RecvTiled, ReadsTiling
<1>6. CASE IRecv_Event(t)
    <2>1. Reads(t, {"IRECV"}) /\ Handles
        BY <1>1, <1>6, IRecvHandles DEF IRecv_Event
    <2>2. Tiles
        BY <1>2, <2>1 DEF Reads
    <2>3. QED
        BY <1>6, <2>1, <2>2, IRecvTiled, ReadsTiling
<1>7. CASE MPI_PersistentRequest_Event(t)
    <2>1. Reads(t, {"PERSIST_REQ"}) /\ Handles
        BY <1>1, <1>7, PersistentHandles DEF MPI_PersistentRequest_Event
    <2>2. Tiles
        BY <1>2, <2>1 DEF Reads
    <2>3. QED
        BY <1>7, <2>1, <2>2, PersistentTiled, ReadsTiling
<1>8. CASE MPI_Start_Event(t)
    <2>1. Reads(t, {"START"}) /\ Handles
        BY <1>1, <1>8, StartHandles DEF MPI_Start_Event
    <2>2. Tiles
        BY <1>2, <2>1 DEF Reads
    <2>3. QED
        BY <1>8, <2>1, <2>2, StartTiled, ReadsTiling
<1>9. CASE GlobalOP_event(t)
    <2>1. Reads(t, {"BARRIER"}) /\ Handles
        BY <1>1, <1>9, GlobalHandles DEF GlobalOP_event
    <2>2. Tiles
        BY <1>2, <2>1 DEF Reads
    <2>3. QED
        BY <1>9, <2>1, <2>2, GlobalTiled, ReadsTiling
<1>10. CASE Other_MPI_Event(t)
    <2>1. Reads(t, {"WAIT"}) /\ Handles
        BY <1>1, <1>10, OtherHandles DEF Other_MPI_Event
    <2>2. Tiles
        BY <1>2, <2>1 DEF Reads
    <2>3. QED
        BY <1>10, <2>1, <2>2, OtherTiled, ReadsTiling
<1>11. CASE SkipHandler(t)
    <2>1. Reads(t, {"IRECVED"}) /\ Handles
        BY <1>1, <1>11, SkipHandles DEF SkipHandler
    <2>2. Tiles
        BY <1>2, <2>1 DEF Reads
    <2>3. QED
        BY <1>11, <2>1, <2>2, SkipTiled, ReadsTiling
<1>12. CASE Tracing_Mode_Event(t)
    <2>1. Reads(t, {"TRACING_MODE"}) /\ Handles
        BY <1>1, <1>12, TracingModeHandles DEF Tracing_Mode_Event
    <2>2. Tiles
        BY <1>2, <2>1 DEF Reads
    <2>3. QED
        BY <1>12, <2>1, <2>2, TracingModeTiled, ReadsTiling
<1>13. CASE Appl_Event(t)
    <2>1. Reads(t, {"APPL"}) /\ Handles
        BY <1>1, <1>13, ApplHandles DEF Appl_Event
    <2>2. Tiles
        BY <1>2, <2>1 DEF Reads
    <2>3. QED
        BY <1>13, <2>1, <2>2, ApplTiled, ReadsTiling
<1>14. CASE SetTracing_Event(t)
    <2>1. Reads(t, {"SET_TRACE"}) /\ Handles
        BY <1>1, <1>14, SetTracingHandles DEF SetTracing_Event
    <2>2. Tiles
        BY <1>2, <2>1 DEF Reads
    <2>3. QED
        BY <1>14, <2>1, <2>2, SetTracingTiled, ReadsTiling
<1>15. CASE FixPendingCommunication(t)
    <2>1. UNCHANGED <<traceVars, cursor, thread>> /\ phase' = phase
        BY <1>15 DEF FixPendingCommunication
    <2>2. QED
        BY <2>1, SameTiling
<1>16. QED
    BY <1>3, <1>4, <1>5, <1>6, <1>7, <1>8, <1>9, <1>10, <1>11, <1>12, <1>13, <1>14, <1>15
       DEF Merge

LEMMA FlushFile ==
    ASSUME NEW th, Good(th), NEW th2, th2 = [th EXCEPT !.wfb = Flushed(@)]
    PROVE  File(th2) = File(th)
<1>1. PICK w0 \in WfbOf(Record), s0 \in Seq(State), a0 \in Nat, v0 \in State, n0 \in Nat,
              x0 \in Nat, y0 \in Nat :
              th = [wfb |-> w0, stack |-> s0, open |-> [at |-> a0, value |-> v0, time |-> n0],
                    Send_Rec |-> x0, Recv_Rec |-> y0]
    BY Pieces
<1>2. th.wfb = w0
    BY <1>1
<1>3. Sound(w0)
    BY <1>2, Parts
<1>4. PICK w \in WfbOf(Record) : w = Flushed(w0) /\ Records(w) = Records(w0)
    BY <1>3, FlushKeepsRecords
<1>5. th2.wfb = w
    BY <1>1, <1>4
<1>6. QED
    BY <1>2, <1>4, <1>5 DEF File

\* The last state of a task is completed, and its file is written.
LEMMA FinishedWhole ==
    ASSUME NEW th, Good(th), SlotKept(th), NEW s, Ordered(s), Ends(Final(s)),
           NEW c \in Nat, c = Len(s), Tiled(th, s, c), NEW n \in Nat, n = c + 1,
           NEW th2, th2 = trace_paraver_state(th, n, TRUE),
           NEW th3, th3 = [th2 EXCEPT !.wfb = Flushed(@)]
    PROVE  Whole(File(th3), s)
<1>1. s \in Seq(Events) /\ Len(s) \in Nat /\ c >= 1 /\ c \in 1..Len(s) /\ c # 0
    BY Typed DEF Ordered
<1>2. s[c] \in Events /\ Ends(s[c])
    BY <1>1, Typed DEF Final
<1>3. ~Opens(s[c]) /\ ~Inner(s[c])
    BY <1>2, KindsOfEvents
<1>4. StackAt(s, c) = <<>>
    BY <1>1, <1>2, <1>3 DEF StackAt
<1>5. th.stack = <<>>
    BY <1>4 DEF Tiled
<1>6. Top_State(th.stack) = "STATE_IDLE"
    BY <1>5, TopIs
<1>7. State_Excluded(Top_State(th.stack))
    BY <1>6 DEF State_Excluded
<1>8. Good(th2) /\ StateShift(th, th2, n, TRUE)
    BY StateTraced
<1>9. File(th2) = Completed(th, n)
    BY <1>7, <1>8 DEF StateShift
<1>10. File(th3) = File(th2)
    BY <1>8, FlushFile
<1>11. PICK f : f = File(th3)
    OBVIOUS
<1>12. f = Completed(th, n)
    BY <1>9, <1>10, <1>11
<1>13. Laid(f, s, n) /\ OnlySlots(f, {})
    BY <1>12, CompletedLaid
<1>14. \A i \in 0..Len(s) : i \in Nat /\ i < n
    BY <1>1
<1>15. \A i \in 0..Len(s) : Covered(f, DoingAt(s, i), i)
    BY <1>13, <1>14 DEF Laid
<1>16. QED
    BY <1>11, <1>13, <1>15 DEF Whole

LEMMA ProcessTiling ==
    ASSUME KeepsTracing, Converting, Tiling, Paraver_ProcessTraceFiles
    PROVE  Tiling'
<1>1. /\ finished /\ phase = "merge" /\ phase' = "join" /\ UNCHANGED traceVars
      /\ \A t \in Task : cursor[t] = Len(trace[t])
    BY DEF Paraver_ProcessTraceFiles
<1>2. MergeTyped /\ AllWait
    BY DEF Converting
<1>3. TraceOrder /\ \A t \in Task : Tiled(thread[t], trace[t], cursor[t])
    BY <1>1 DEF Tiling
<1>4. finished' = finished /\ trace' = trace
    BY <1>1 DEF traceVars
<1>5. ASSUME NEW t \in Task
      PROVE  Whole(File(thread'[t]), trace'[t])
    <2>1. PICK s : s = trace[t]
        OBVIOUS
    <2>2. PICK c \in Nat : c = cursor[t]
        BY <1>2 DEF MergeTyped
    <2>3. PICK n \in Nat : n = c + 1
        BY <2>2
    <2>4. n = Now(t)
        BY <2>2, <2>3 DEF Now
    <2>5. Ordered(s) /\ Ends(Final(s)) /\ c = Len(s)
        BY <1>1, <1>3, <2>1, <2>2 DEF TraceOrder, LastEvent
    <2>6. PICK th : th = thread[t]
        OBVIOUS
    <2>7. Good(th) /\ SlotKept(th) /\ Tiled(th, s, c)
        BY <1>2, <1>3, <2>1, <2>2, <2>6 DEF MergeTyped, AllWait, Waiting1
    <2>8. PICK th2 : th2 = trace_paraver_state(th, n, TRUE)
        OBVIOUS
    <2>9. PICK th3 : th3 = [th2 EXCEPT !.wfb = Flushed(@)]
        OBVIOUS
    <2>10. Whole(File(th3), s)
        BY <2>3, <2>5, <2>7, <2>8, <2>9, FinishedWhole
    <2>11. thread'[t] = th3
        BY <2>4, <2>6, <2>8, <2>9 DEF Paraver_ProcessTraceFiles
    <2>12. QED
        BY <1>4, <2>1, <2>10, <2>11
<1>6. TraceOrder'
    BY <1>1, <1>3 DEF TraceOrder, OwnTraced, LastEvent, traceVars, mpiVars
<1>7. QED
    BY <1>1, <1>4, <1>5, <1>6 DEF Tiling

LEMMA NextTiling ==
    ASSUME KeepsTracing, Converting, Tiling, [Next]_vars
    PROVE  Tiling'
<1>1. CASE TraceNext /\ UNCHANGED mergeVars
    BY <1>1, ProgramTiling
<1>2. CASE \E t \in Task : Merge(t)
    BY <1>2, MergeTiling
<1>3. CASE Paraver_ProcessTraceFiles
    BY <1>3, ProcessTiling
<1>4. CASE Paraver_JoinFiles
    <2>1. /\ UNCHANGED <<traceVars, cursor, thread>>
          /\ phase = "join" /\ phase' = "done"
        BY <1>4 DEF Paraver_JoinFiles
    <2>2. QED
        BY <2>1, SameTiling
<1>5. CASE UNCHANGED vars
    <2>1. UNCHANGED <<traceVars, cursor, thread>> /\ phase' = phase
        BY <1>5 DEF vars, mergeVars
    <2>2. QED
        BY <2>1, SameTiling
<1>6. QED
    BY <1>1, <1>2, <1>3, <1>4, <1>5 DEF Next

LEMMA WholeTiles ==
    ASSUME Converting, Tiling
    PROVE  StatesTile
<1>1. SUFFICES ASSUME phase \in {"join", "done"}, NEW t \in Task
               PROVE  LET records == Records(thread[t].wfb)
                          Covering(i) == {k \in DOMAIN records :
                              /\ records[k].type = "STATE"
                              /\ records[k].time <= i /\ i < records[k].end_time}
                      IN /\ \A i \in 0 .. Len(trace[t]) :
                               IF State_Excluded(Doing(t, i)) THEN Covering(i) = {}
                               ELSE \E k \in Covering(i) :
                                       Covering(i) = {k} /\ records[k].value = Doing(t, i)
                         /\ \A k \in DOMAIN records : records[k].type # "UNFINISHED_STATE"
    BY DEF StatesTile
<1>2. PICK f \in Seq(Record) : f = Records(thread[t].wfb) /\ f = File(thread[t])
    BY FileTyped DEF Converting, MergeTyped, File
<1>3. DOMAIN f = 1..Len(f)
    BY Typed
<1>4. PICK s : s = trace[t]
    OBVIOUS
<1>5. Whole(f, s) /\ Ordered(s)
    BY <1>1, <1>2, <1>4 DEF Tiling, TraceOrder
<1>6. \A k \in DOMAIN f : f[k].type # "UNFINISHED_STATE"
    BY <1>3, <1>5 DEF Whole, OnlySlots
<1>7. \A i : CoveringOf(f, i) = {k \in DOMAIN f :
                  /\ f[k].type = "STATE" /\ f[k].time <= i /\ i < f[k].end_time}
    BY <1>3 DEF CoveringOf
<1>8. ASSUME NEW i \in 0..Len(trace[t])
      PROVE  IF State_Excluded(Doing(t, i)) THEN CoveringOf(f, i) = {}
             ELSE \E k \in CoveringOf(f, i) :
                     CoveringOf(f, i) = {k} /\ f[k].value = Doing(t, i)
    <2>1. Doing(t, i) = DoingAt(s, i)
        BY <1>4, <1>5, DoingIs
    <2>2. Covered(f, DoingAt(s, i), i)
        BY <1>4, <1>5 DEF Whole
    <2>3. QED
        BY <2>1, <2>2 DEF Covered
<1>9. QED
    BY <1>2, <1>6, <1>7, <1>8

(* When the files are written, exactly one state record of a task says what *)
(* it was doing at each moment, none where it was idle, and no slot is left *)
(* unfinished.                                                              *)
THEOREM StatesAreTiled ==
    ASSUME KeepsTracing
    PROVE  Spec => []StatesTile
<1>1. Init => Tiling
    BY InitTiling
<1>2. Converting /\ Tiling /\ [Next]_vars => Tiling'
    BY NextTiling
<1>3. Converting /\ Tiling => StatesTile
    BY WholeTiles
<1>4. QED
    BY <1>1, <1>2, <1>3, ConvertingHolds, PTL DEF Spec

=============================================================================
