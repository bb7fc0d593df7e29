------------------------- MODULE TraceBufferProofs -------------------------
(***************************************************************************)
(* Proofs about TraceBuffer, for rings of any size and any event types.    *)
(* The lemmas say what the pure ring operations do to the sequence of      *)
(* events a ring holds; the theorems follow from the inductive invariant   *)
(* IndInv.                                                                 *)
(***************************************************************************)
EXTENDS TraceBuffer, SequenceTheorems, TLAPS

\* A well-formed ring of n slots.
RingInv(n, b) == b \in Ring(n) /\ RingConsistent(b)

(* The contents of a well-formed ring are a sequence of fill events.        *)
LEMMA ContentsType ==
    ASSUME NEW n \in Nat \ {0}, NEW b, RingInv(n, b)
    PROVE  /\ Contents(b) \in Seq(Event)
           /\ Len(Contents(b)) = b.fill
           /\ \A i \in 1..b.fill :
                 Contents(b)[i] = b.slot[CircularStep(b, b.head, i - 1)]
<1>1. b.fill \in Nat
    BY DEF RingInv, Ring
<1>2. Contents(b) \in [1..b.fill -> Event]
    BY <1>1 DEF RingInv, RingConsistent, Contents
<1>3. Contents(b) \in Seq(Event)
    BY <1>1, <1>2, SeqDef
<1>4. QED
    BY <1>1, <1>2, <1>3, LenProperties DEF Contents

(* Buffer_InsertSingle's store appends the event to the contents.           *)
LEMMA StoredAppends ==
    ASSUME NEW n \in Nat \ {0}, NEW b, RingInv(n, b), ~IsFull(b), NEW e \in Event
    PROVE  /\ RingInv(n, Stored(b, e))
           /\ Contents(Stored(b, e)) = Append(Contents(b), e)
           /\ Stored(b, e).fill = b.fill + 1
<1> DEFINE c == Stored(b, e)
<1>1. /\ b.max = n /\ b.head \in 0..(n - 1) /\ b.cur \in 0..(n - 1)
      /\ b.fill \in 0..(n - 1) /\ b.pos \in Nat
      /\ b.slot \in [0..(n - 1) -> Event \cup {NoEvent}]
    BY DEF RingInv, Ring, IsFull
<1>2. c \in Ring(n) /\ c.fill = b.fill + 1 /\ c.head = b.head /\ c.max = n
      /\ c.cur = GetNext(b, b.cur) /\ c.slot = [b.slot EXCEPT ![b.cur] = e]
    <2>1. [b.slot EXCEPT ![b.cur] = e] \in [0..(n - 1) -> Event \cup {NoEvent}]
        BY <1>1
    <2>2. GetNext(b, b.cur) \in 0..(n - 1) /\ b.fill + 1 \in 0..n
        BY <1>1 DEF GetNext
    <2>3. b \in Ring(n)
        BY DEF RingInv
    <2>4. c \in Ring(n)
        BY <2>1, <2>2, <2>3 DEF Ring, Stored
    <2>5. QED
        BY <1>1, <2>3, <2>4 DEF Ring, Stored
<1> HIDE DEF c
<1>3. b.cur = CircularStep(b, b.head, b.fill)
    BY DEF RingInv, RingConsistent, EndOfData
<1>4. c.cur = EndOfData(c)
    <2>1. c.cur = IF b.cur + 1 = n THEN 0 ELSE b.cur + 1
        BY <1>1, <1>2 DEF GetNext
    <2>2. b.cur = IF b.head + b.fill >= n THEN b.head + b.fill - n ELSE b.head + b.fill
        BY <1>1, <1>3 DEF CircularStep
    <2>3. EndOfData(c) = IF b.head + (b.fill + 1) >= n THEN b.head + (b.fill + 1) - n
                         ELSE b.head + (b.fill + 1)
        BY <1>1, <1>2 DEF EndOfData, CircularStep
    <2>4. n \in Nat /\ b.head \in Nat /\ b.fill \in Nat /\ b.head < n /\ b.fill < n
        BY <1>1
    <2>5. CASE b.head + b.fill < n - 1
        BY <2>1, <2>2, <2>3, <2>4, <2>5
    <2>6. CASE b.head + b.fill = n - 1
        BY <2>1, <2>2, <2>3, <2>4, <2>6
    <2>7. CASE b.head + b.fill > n - 1
        BY <2>1, <2>2, <2>3, <2>4, <2>7
    <2>8. QED
        BY <2>4, <2>5, <2>6, <2>7
<1>5. ASSUME NEW i \in 1..b.fill
      PROVE  c.slot[CircularStep(c, c.head, i - 1)] = b.slot[CircularStep(b, b.head, i - 1)]
    <2>1. CircularStep(c, c.head, i - 1) = CircularStep(b, b.head, i - 1)
        BY <1>1, <1>2 DEF CircularStep
    <2>2. CircularStep(b, b.head, i - 1) # b.cur
        BY <1>1, <1>3, SMTT(30) DEF CircularStep
    <2>3. QED
        BY <1>1, <1>2, <2>1, <2>2 DEF CircularStep
<1>6. c.slot[CircularStep(c, c.head, b.fill)] = e
    BY <1>1, <1>2, <1>3 DEF CircularStep
<1>7. RingInv(n, c)
    <2>1. ASSUME NEW i \in 1..c.fill
          PROVE  c.slot[CircularStep(c, c.head, i - 1)] \in Event
        <3>1. CASE i \in 1..b.fill
            BY <1>5, <3>1 DEF RingInv, RingConsistent
        <3>2. CASE i = b.fill + 1
            BY <1>1, <1>6, <3>2
        <3>3. QED
            BY <1>1, <1>2, <3>1, <3>2
    <2>2. QED
        BY <1>2, <1>4, <2>1 DEF RingInv, RingConsistent
<1>8. Contents(c) = Append(Contents(b), e)
    <2>1. /\ Contents(b) \in Seq(Event) /\ Len(Contents(b)) = b.fill
          /\ \A i \in 1..b.fill : Contents(b)[i] = b.slot[CircularStep(b, b.head, i - 1)]
        BY ContentsType
    <2>2. /\ Contents(c) \in Seq(Event) /\ Len(Contents(c)) = b.fill + 1
          /\ \A i \in 1..(b.fill + 1) : Contents(c)[i] = c.slot[CircularStep(c, c.head, i - 1)]
        BY <1>2, <1>7, ContentsType
    <2>3. /\ Append(Contents(b), e) \in Seq(Event)
          /\ Len(Append(Contents(b), e)) = b.fill + 1
          /\ \A i \in 1..b.fill : Append(Contents(b), e)[i] = Contents(b)[i]
          /\ Append(Contents(b), e)[b.fill + 1] = e
        BY <2>1, AppendProperties
    <2>4. ASSUME NEW i \in 1..(b.fill + 1)
          PROVE  Contents(c)[i] = Append(Contents(b), e)[i]
        <3>1. CASE i \in 1..b.fill
            BY <1>5, <2>1, <2>2, <2>3, <3>1
        <3>2. CASE i = b.fill + 1
            <4>1. i - 1 = b.fill
                BY <1>1, <3>2
            <4>2. QED
                BY <1>6, <2>2, <2>3, <3>2, <4>1
        <3>3. i \in 1..b.fill \/ i = b.fill + 1
            BY <1>1
        <3>4. QED
            BY <3>1, <3>2, <3>3
    <2>5. QED
        BY <2>2, <2>3, <2>4, SeqEqual
<1>9. QED
    BY <1>2, <1>7, <1>8 DEF c

(* Buffer_DiscardOldest takes the oldest event away and keeps the others.   *)
LEMMA DiscardedDrops ==
    ASSUME NEW n \in Nat \ {0}, NEW b, RingInv(n, b), ~IsEmpty(b)
    PROVE  /\ RingInv(n, Discarded(b))
           /\ Contents(Discarded(b)) = Tail(Contents(b))
           /\ Oldest(b) \in Event
           /\ Discarded(b).fill = b.fill - 1
<1> DEFINE c == Discarded(b)
<1>1. /\ b.max = n /\ b.head \in 0..(n - 1) /\ b.fill \in 1..n
      /\ n \in Nat /\ b.cur = EndOfData(b)
    BY DEF RingInv, Ring, IsEmpty, RingConsistent
<1>2. c \in Ring(n) /\ c.fill = b.fill - 1 /\ c.head = GetNext(b, b.head)
      /\ c.max = n /\ c.cur = b.cur /\ c.slot = b.slot
    <2>1. GetNext(b, b.head) \in 0..(n - 1) /\ b.fill - 1 \in 0..n
        BY <1>1 DEF GetNext
    <2>2. b \in Ring(n)
        BY DEF RingInv
    <2>3. c \in Ring(n)
        BY <2>1, <2>2 DEF Ring, Discarded
    <2>4. QED
        BY <1>1, <2>2, <2>3 DEF Ring, Discarded
<1> HIDE DEF c
<1>3. ASSUME NEW j \in 1..b.fill
      PROVE  CircularStep(c, c.head, j - 1) = CircularStep(b, b.head, j)
    <2>1. c.head = IF b.head + 1 = n THEN 0 ELSE b.head + 1
        BY <1>1, <1>2 DEF GetNext
    <2>2. b.head \in Nat /\ b.head < n /\ j \in Nat /\ j <= n /\ j > 0
        BY <1>1
    <2>3. CASE b.head + 1 = n
        BY <1>1, <1>2, <2>1, <2>2, <2>3 DEF CircularStep
    <2>4. CASE b.head + 1 < n
        BY <1>1, <1>2, <2>1, <2>2, <2>4 DEF CircularStep
    <2>5. QED
        BY <1>1, <2>2, <2>3, <2>4
<1>4. c.cur = EndOfData(c)
    <2>1. CircularStep(c, c.head, b.fill - 1) = CircularStep(b, b.head, b.fill)
        BY <1>1, <1>3
    <2>2. QED
        BY <1>1, <1>2, <2>1 DEF EndOfData
<1>5. ASSUME NEW i \in 1..c.fill
      PROVE  /\ c.slot[CircularStep(c, c.head, i - 1)]
                  = b.slot[CircularStep(b, b.head, (i + 1) - 1)]
             /\ i + 1 \in 1..b.fill
    <2>1. i \in 1..b.fill /\ i + 1 \in 1..b.fill /\ (i + 1) - 1 = i
        BY <1>1, <1>2
    <2>2. QED
        BY <1>2, <1>3, <2>1
<1>6. RingInv(n, c)
    <2>1. \A i \in 1..c.fill : c.slot[CircularStep(c, c.head, i - 1)] \in Event
        BY <1>5 DEF RingInv, RingConsistent
    <2>2. QED
        BY <1>2, <1>4, <2>1 DEF RingInv, RingConsistent
<1>7. /\ Contents(b) \in Seq(Event) /\ Len(Contents(b)) = b.fill
      /\ \A i \in 1..b.fill : Contents(b)[i] = b.slot[CircularStep(b, b.head, i - 1)]
    BY ContentsType
<1>8. Contents(c) = Tail(Contents(b))
    <2>1. /\ Contents(c) \in Seq(Event) /\ Len(Contents(c)) = b.fill - 1
          /\ \A i \in 1..(b.fill - 1) :
                Contents(c)[i] = c.slot[CircularStep(c, c.head, i - 1)]
        BY <1>2, <1>6, ContentsType
    <2>2. Contents(b) # <<>>
        BY <1>1, <1>7
    <2>3. /\ Tail(Contents(b)) \in Seq(Event)
          /\ Len(Tail(Contents(b))) = b.fill - 1
          /\ \A i \in 1..(b.fill - 1) : Tail(Contents(b))[i] = Contents(b)[i + 1]
        BY <1>1, <1>7, <2>2, HeadTailProperties
    <2>4. \A i \in 1..(b.fill - 1) : Contents(c)[i] = Tail(Contents(b))[i]
        BY <1>2, <1>5, <1>7, <2>1, <2>3
    <2>5. QED
        BY <2>1, <2>3, <2>4, SeqEqual
<1>9. Oldest(b) \in Event
    <2>1. CircularStep(b, b.head, 1 - 1) = b.head
        BY <1>1 DEF CircularStep
    <2>2. b.slot[CircularStep(b, b.head, 1 - 1)] \in Event
        BY <1>1 DEF RingInv, RingConsistent
    <2>3. QED
        BY <2>1, <2>2 DEF Oldest
<1>10. QED
    BY <1>2, <1>6, <1>8, <1>9 DEF c

(* The blocks of Buffer_Flush, wrapped or not, are the contents in order.   *)
LEMMA FlushSelectionIsContents ==
    ASSUME NEW n \in Nat \ {0}, NEW b, RingInv(n, b), ~IsEmpty(b)
    PROVE  FlushSelection(b) = Contents(b)
<1> DEFINE end == EndOfData(b)
           all == DataBlocks(b, b.head, end)
<1>1. /\ b.max = n /\ b.head \in 0..(n - 1) /\ b.fill \in 1..n /\ n \in Nat
    BY DEF RingInv, Ring, IsEmpty
<1>2. end = IF b.head + b.fill >= n THEN b.head + b.fill - n ELSE b.head + b.fill
    BY <1>1 DEF EndOfData, CircularStep
<1>3. /\ all \in Seq(Int) /\ Len(all) = b.fill
      /\ \A i \in 1..b.fill : all[i] = CircularStep(b, b.head, i - 1)
    <2>1. CASE b.head + b.fill < n
        <3>1. end = b.head + b.fill /\ b.head < end
            BY <1>1, <1>2, <2>1
        <3>2. all = [i \in 1..b.fill |-> b.head + i - 1]
            BY <1>1, <3>1 DEF DataBlocks, Offsets
        <3>3. QED
            BY <1>1, <2>1, <3>2 DEF CircularStep
    <2>2. CASE b.head + b.fill >= n
        <3> DEFINE s == Offsets(b.head, n)
                   t == Offsets(0, end)
        <3>1. end = b.head + b.fill - n /\ end \in Nat /\ ~(b.head < end)
            BY <1>1, <1>2, <2>2
        <3>2. all = s \o t
            BY <1>1, <3>1 DEF DataBlocks
        <3>3. s = [i \in 1..(n - b.head) |-> b.head + i - 1] /\ n - b.head \in Nat
            BY <1>1 DEF Offsets
        <3>4. t = [i \in 1..end |-> i - 1]
            BY <1>1, <3>1 DEF Offsets
        <3> HIDE DEF s, t, all, end
        <3>5. s \in Seq(Int) /\ Len(s) = n - b.head
            BY <1>1, <3>3
        <3>6. t \in Seq(Int) /\ Len(t) = end
            BY <3>1, <3>4
        <3>7. /\ s \o t \in Seq(Int) /\ Len(s \o t) = Len(s) + Len(t)
              /\ \A i \in 1..(Len(s) + Len(t)) :
                    (s \o t)[i] = IF i <= Len(s) THEN s[i] ELSE t[i - Len(s)]
            BY <3>5, <3>6, ConcatProperties
        <3>8. Len(s) + Len(t) = b.fill
            BY <1>1, <3>1, <3>5, <3>6
        <3>9. ASSUME NEW i \in 1..b.fill
              PROVE  (s \o t)[i] = CircularStep(b, b.head, i - 1)
            <4>1. CASE i <= n - b.head
                <5>1. (s \o t)[i] = b.head + i - 1
                    BY <3>3, <3>5, <3>7, <3>8, <4>1
                <5>2. QED
                    BY <1>1, <4>1, <5>1 DEF CircularStep
            <4>2. CASE i > n - b.head
                <5>1. i - (n - b.head) \in 1..end
                    BY <1>1, <3>1, <4>2
                <5>2. (s \o t)[i] = t[i - (n - b.head)]
                    <6>1. i \in 1..(Len(s) + Len(t)) /\ ~(i <= Len(s))
                        BY <1>1, <3>5, <3>8, <4>2
                    <6>2. QED
                        BY <3>5, <3>7, <6>1
                <5>3. t[i - (n - b.head)] = (i - (n - b.head)) - 1
                    BY <3>4, <5>1
                <5>4. QED
                    BY <1>1, <4>2, <5>2, <5>3 DEF CircularStep
            <4>3. i <= n - b.head \/ i > n - b.head
                BY <1>1
            <4>4. QED
                BY <4>1, <4>2, <4>3
        <3>10. QED
            BY <3>2, <3>7, <3>8, <3>9
    <2>3. QED
        BY <1>1, <2>1, <2>2
<1>4. FlushSelection(b) = [i \in 1..Len(all) |-> b.slot[all[i]]]
    BY DEF FlushSelection
<1> HIDE DEF all
<1>5. QED
    BY <1>1, <1>3, <1>4 DEF Contents

(* After Buffer_Flush the ring is empty and well formed.                    *)
LEMMA FlushedRingEmpty ==
    ASSUME NEW n \in Nat \ {0}, NEW b, RingInv(n, b), ~IsEmpty(b), NEW f \in Seq(Event)
    PROVE  /\ RingInv(n, FlushedRing(b, f))
           /\ FlushedRing(b, f).fill = 0
           /\ Contents(FlushedRing(b, f)) = <<>>
<1> DEFINE c == FlushedRing(b, f)
           p == SeekEnd(b, f) + Len(FlushSelection(b))
<1>1. /\ b \in Ring(n) /\ b.max = n /\ b.head \in 0..(n - 1) /\ b.fill \in 1..n
      /\ b.cur = EndOfData(b) /\ n \in Nat
    BY DEF RingInv, Ring, IsEmpty, RingConsistent
<1>2. p \in Nat
    <2>1. Len(FlushSelection(b)) \in Nat
        BY <1>1, FlushSelectionIsContents, ContentsType
    <2>2. Len(f) \in Nat
        BY LenProperties
    <2>3. QED
        BY <2>1, <2>2 DEF SeekEnd
<1>3. EndOfData(b) \in 0..(n - 1) /\ b.fill - b.fill = 0 /\ 0 \in 0..n
    BY <1>1 DEF EndOfData, CircularStep
<1> HIDE DEF p
<1>4. c = [b EXCEPT !.pos = p, !.fill = 0, !.head = EndOfData(b)]
    BY <1>1, <1>3 DEF FlushedRing, p, Ring
<1>5. c \in Ring(n)
    BY <1>1, <1>2, <1>3, <1>4 DEF Ring
<1>6. c.fill = 0 /\ c.max = n /\ c.head = EndOfData(b) /\ c.cur = b.cur
    BY <1>1, <1>3, <1>4 DEF Ring
<1> HIDE DEF c
<1>7. EndOfData(c) = c.head
    BY <1>3, <1>6 DEF EndOfData, CircularStep
<1>8. RingInv(n, c)
    BY <1>1, <1>5, <1>6, <1>7 DEF RingInv, RingConsistent
<1>9. Contents(c) = <<>>
    BY <1>6 DEF Contents
<1>10. QED
    BY <1>6, <1>8, <1>9 DEF c

(* Buffer_Flush appends the contents of the ring to the file, whatever the  *)
(* other descriptor wrote before.                                           *)
LEMMA FlushedFileAppends ==
    ASSUME NEW n \in Nat \ {0}, NEW b, RingInv(n, b), ~IsEmpty(b), NEW f \in Seq(Event)
    PROVE  FlushedFile(b, f) = f \o Contents(b)
<1>1. Contents(b) \in Seq(Event) /\ Len(Contents(b)) \in Nat
    BY ContentsType, LenProperties
<1>2. FlushSelection(b) = Contents(b)
    BY FlushSelectionIsContents
<1>3. Len(f) \in Nat /\ SubSeq(f, 1, Len(f)) = f
    BY LenProperties, SubSeqFull
<1>4. SubSeq(f, Len(f) + Len(Contents(b)) + 1, Len(f)) = <<>>
    BY <1>1, <1>3, SubSeqEmpty
<1>5. f \o Contents(b) \in Seq(Event)
    BY <1>1, ConcatProperties
<1>6. QED
    BY <1>2, <1>3, <1>4, <1>5, ConcatEmptySeq DEF FlushedFile, WriteAt, SeekEnd
-----------------------------------------------------------------------------
(* The newest k + 1 of a sequence grown by one.                             *)
LEMMA NewestAppend ==
    ASSUME NEW S, NEW s \in Seq(S), NEW e \in S, NEW k \in 0..Len(s)
    PROVE  SubSeq(Append(s, e), Len(s) - k + 1, Len(s) + 1)
             = Append(SubSeq(s, Len(s) - k + 1, Len(s)), e)
<1> DEFINE t == Append(s, e)
           l == Len(s)
<1>1. l \in Nat /\ k \in Nat /\ k <= l
    BY LenProperties
<1>2. /\ t \in Seq(S) /\ Len(t) = l + 1 /\ t[l + 1] = e
      /\ \A i \in 1..l : t[i] = s[i]
    BY AppendProperties
<1>3. \A i \in 1..l : s[i] \in S
    BY ElementOfSeq
<1> HIDE DEF t, l
<1>4. /\ SubSeq(t, l - k + 1, l + 1) \in Seq(S)
      /\ Len(SubSeq(t, l - k + 1, l + 1)) = k + 1
      /\ \A i \in 1..(k + 1) : SubSeq(t, l - k + 1, l + 1)[i] = t[l - k + i]
    <2>1. \A i \in (l - k + 1)..(l + 1) : t[i] \in S
        BY <1>1, <1>2, <1>3
    <2>2. /\ l - k + 1 \in Int /\ l + 1 \in Int /\ l - k + 1 <= l + 1
          /\ (l + 1) - (l - k + 1) + 1 = k + 1
        BY <1>1
    <2>3. /\ SubSeq(t, l - k + 1, l + 1) \in Seq(S)
          /\ Len(SubSeq(t, l - k + 1, l + 1)) = k + 1
          /\ \A i \in 1..(k + 1) :
                SubSeq(t, l - k + 1, l + 1)[i] = t[(l - k + 1) + i - 1]
        BY <2>1, <2>2, SubSeqProperties
    <2>4. \A i \in 1..(k + 1) : (l - k + 1) + i - 1 = l - k + i
        BY <1>1
    <2>5. QED
        BY <2>3, <2>4
<1>5. /\ SubSeq(s, l - k + 1, l) \in Seq(S)
      /\ Len(SubSeq(s, l - k + 1, l)) = k
      /\ \A i \in 1..k : SubSeq(s, l - k + 1, l)[i] = s[l - k + i]
    <2>1. \A i \in (l - k + 1)..l : s[i] \in S
        BY <1>1, <1>3
    <2>2. /\ l - k + 1 \in Int /\ l \in Int /\ l - (l - k + 1) + 1 = k
          /\ (IF l - k + 1 <= l THEN l - (l - k + 1) + 1 ELSE 0) = k
        BY <1>1
    <2>3. /\ SubSeq(s, l - k + 1, l) \in Seq(S)
          /\ Len(SubSeq(s, l - k + 1, l)) = k
          /\ \A i \in 1..k : SubSeq(s, l - k + 1, l)[i] = s[(l - k + 1) + i - 1]
        BY <2>1, <2>2, SubSeqProperties
    <2>4. \A i \in 1..k : (l - k + 1) + i - 1 = l - k + i
        BY <1>1
    <2>5. QED
        BY <2>3, <2>4
<1> DEFINE u == SubSeq(s, l - k + 1, l)
           v == SubSeq(t, l - k + 1, l + 1)
<1> HIDE DEF u, v
<1>6. /\ Append(u, e) \in Seq(S) /\ Len(Append(u, e)) = k + 1
      /\ \A i \in 1..k : Append(u, e)[i] = u[i]
      /\ Append(u, e)[k + 1] = e
    <2>1. u \in Seq(S) /\ Len(u) = k
        BY <1>5 DEF u
    <2>2. QED
        BY <2>1, AppendProperties
<1>7. ASSUME NEW i \in 1..(k + 1)
      PROVE  v[i] = Append(u, e)[i]
    <2>1. v[i] = t[l - k + i]
        BY <1>4 DEF v
    <2>2. CASE i \in 1..k
        <3>1. l - k + i \in 1..l
            BY <1>1, <2>2
        <3>2. u[i] = s[l - k + i]
            BY <1>5, <2>2 DEF u
        <3>3. QED
            BY <1>2, <1>6, <2>1, <2>2, <3>1, <3>2
    <2>3. CASE i = k + 1
        <3>1. l - k + i = l + 1
            BY <1>1, <2>3
        <3>2. QED
            BY <1>2, <1>6, <2>1, <2>3, <3>1
    <2>4. i \in 1..k \/ i = k + 1
        BY <1>1
    <2>5. QED
        BY <2>2, <2>3, <2>4
<1>8. v \in Seq(S) /\ Len(v) = k + 1
    BY <1>4 DEF v
<1>9. v = Append(u, e)
    BY <1>6, <1>7, <1>8, SeqEqual
<1>10. QED
    BY <1>9 DEF u, v, t, l

\* The newest events recorded, as many as the ring b holds.
HoldsNewest(b, l) ==
    b.fill <= Len(l) /\ Contents(b) = SubSeq(l, Len(l) - b.fill + 1, Len(l))

(* Storing an event in a ring with room keeps it holding the newest ones.   *)
LEMMA StoreNewest ==
    ASSUME NEW n \in Nat \ {0}, NEW b, RingInv(n, b), ~IsFull(b), NEW e \in Event,
           NEW l \in Seq(Event), HoldsNewest(b, l)
    PROVE  /\ RingInv(n, Stored(b, e))
           /\ Append(l, e) \in Seq(Event)
           /\ HoldsNewest(Stored(b, e), Append(l, e))
<1>1. /\ RingInv(n, Stored(b, e)) /\ Contents(Stored(b, e)) = Append(Contents(b), e)
      /\ Stored(b, e).fill = b.fill + 1
    BY StoredAppends
<1>2. Append(l, e) \in Seq(Event) /\ Len(Append(l, e)) = Len(l) + 1 /\ Len(l) \in Nat
    BY AppendProperties, LenProperties
<1>3. b.fill \in 0..Len(l) /\ b.fill \in Nat
    BY <1>2 DEF RingInv, Ring, HoldsNewest
<1>4. SubSeq(Append(l, e), Len(l) - b.fill + 1, Len(l) + 1)
        = Append(SubSeq(l, Len(l) - b.fill + 1, Len(l)), e)
    BY <1>3, NewestAppend
<1>5. (Len(l) + 1) - (b.fill + 1) + 1 = Len(l) - b.fill + 1
    BY <1>2, <1>3
<1>6. b.fill + 1 <= Len(l) + 1
    BY <1>2, <1>3
<1>7. QED
    BY <1>1, <1>2, <1>4, <1>5, <1>6 DEF HoldsNewest

(* An emptied ring trivially holds the newest zero events.                  *)
LEMMA FlushNewest ==
    ASSUME NEW n \in Nat \ {0}, NEW b, RingInv(n, b), ~IsEmpty(b), NEW f \in Seq(Event),
           NEW l \in Seq(Event)
    PROVE  HoldsNewest(FlushedRing(b, f), l)
<1>1. FlushedRing(b, f).fill = 0 /\ Contents(FlushedRing(b, f)) = <<>>
    BY FlushedRingEmpty
<1>2. Len(l) \in Nat
    BY LenProperties
<1>3. SubSeq(l, Len(l) - 0 + 1, Len(l)) = <<>>
    BY <1>2, SubSeqEmpty
<1>4. QED
    BY <1>1, <1>2, <1>3 DEF HoldsNewest

(* Discarding the oldest event leaves the newest of what is left.           *)
LEMMA DiscardNewest ==
    ASSUME NEW n \in Nat \ {0}, NEW b, RingInv(n, b), ~IsEmpty(b),
           NEW l \in Seq(Event), HoldsNewest(b, l)
    PROVE  RingInv(n, Discarded(b)) /\ HoldsNewest(Discarded(b), l)
<1>1. /\ RingInv(n, Discarded(b)) /\ Contents(Discarded(b)) = Tail(Contents(b))
      /\ Discarded(b).fill = b.fill - 1
    BY DiscardedDrops
<1>2. Len(l) \in Nat /\ b.fill \in Nat /\ b.fill > 0 /\ b.fill <= Len(l)
    BY LenProperties DEF RingInv, Ring, IsEmpty, HoldsNewest
<1>3. Len(l) - b.fill + 1 \in 1..Len(l) /\ Len(l) \in (Len(l) - b.fill + 1)..Len(l)
    BY <1>2
<1>4. Tail(SubSeq(l, Len(l) - b.fill + 1, Len(l)))
        = SubSeq(l, (Len(l) - b.fill + 1) + 1, Len(l))
    BY <1>3, HeadTailOfSubSeq
<1>5. (Len(l) - b.fill + 1) + 1 = Len(l) - (b.fill - 1) + 1 /\ b.fill - 1 <= Len(l)
    BY <1>2
<1>6. QED
    BY <1>1, <1>4, <1>5 DEF HoldsNewest
-----------------------------------------------------------------------------
(* The inductive invariant, in two halves: what the rings and the file      *)
(* hold, and how far a list being inserted is.                              *)

RingPart ==
    /\ overwrite \in BOOLEAN
    /\ RingInv(MaxEvents, main)
    /\ RingInv(CacheSize, cache)
    /\ file \in Seq(Event)
    /\ log \in Seq(Event)
    /\ lost \in SUBSET Event
    /\ HoldsNewest(main, log)
    /\ ~overwrite => cache.fill = 0
    /\ ~overwrite => file \o Contents(main) = log

BatchPart ==
    /\ open \in BOOLEAN
    /\ op \in {"idle", "reserve", "insert", "exit"}
    /\ todo \in Seq(Event)
    /\ Len(todo) <= MaxEvents
    /\ retry \in Nat
    /\ made \in Nat
    /\ RoomWithinReach
    /\ BatchNeverExits

(* IndInv is the two halves together.                                       *)
LEMMA IndInvHalves == IndInv <=> RingPart /\ BatchPart
BY DEF IndInv, RingPart, BatchPart, TypeOK, CursorsAgree, RingInv, RingHoldsNewest,
       HoldsNewest, FileThenRing

(* Caching an overwritten event keeps the cache well formed.                *)
LEMMA CacheEventKeeps ==
    ASSUME RingPart, NEW e \in Event, CacheEvent(e)
    PROVE  /\ RingInv(CacheSize, cache')
           /\ file' \in Seq(Event)
           /\ lost' \in SUBSET Event
           /\ overwrite' = overwrite
<1>1. CacheSize \in Nat \ {0} /\ RingInv(CacheSize, cache) /\ file \in Seq(Event)
      /\ lost \in SUBSET Event
    BY BufferAssumption DEF RingPart
<1>2. CASE e.type \in CachedTypes /\ IsFull(cache)
    <2>1. /\ cache' = Stored(FlushedRing(cache, file), e)
          /\ file' = FlushedFile(cache, file) /\ lost' = lost /\ overwrite' = overwrite
        BY <1>2 DEF CacheEvent, CacheInsert
    <2>2. ~IsEmpty(cache)
        BY <1>1, <1>2 DEF IsFull, IsEmpty, RingInv, Ring
    <2>3. RingInv(CacheSize, FlushedRing(cache, file)) /\ FlushedRing(cache, file).fill = 0
        BY <1>1, <2>2, FlushedRingEmpty
    <2>4. ~IsFull(FlushedRing(cache, file))
        BY <1>1, <2>3 DEF IsFull, RingInv, Ring
    <2>5. RingInv(CacheSize, cache')
        BY <1>1, <2>1, <2>3, <2>4, StoredAppends
    <2>6. file' = file \o Contents(cache) /\ Contents(cache) \in Seq(Event)
        BY <1>1, <2>1, <2>2, FlushedFileAppends, ContentsType
    <2>7. QED
        BY <1>1, <2>1, <2>5, <2>6, ConcatProperties
<1>3. CASE e.type \in CachedTypes /\ ~IsFull(cache)
    <2>1. /\ cache' = Stored(cache, e) /\ file' = file /\ lost' = lost
          /\ overwrite' = overwrite
        BY <1>3 DEF CacheEvent, CacheInsert
    <2>2. QED
        BY <1>1, <1>3, <2>1, StoredAppends
<1>4. CASE e.type \notin CachedTypes
    BY <1>1, <1>4 DEF CacheEvent
<1>5. QED
    BY <1>2, <1>3, <1>4

(* Buffer_Flush of the tracing ring moves its contents to the file.         *)
LEMMA FlushMainKeeps ==
    ASSUME RingPart, ~IsEmpty(main), FlushMain, log' = log
    PROVE  RingPart' /\ main'.fill = 0
<1>1. /\ MaxEvents \in Nat \ {0} /\ RingInv(MaxEvents, main)
      /\ file \in Seq(Event) /\ log \in Seq(Event)
    BY BufferAssumption DEF RingPart
<1>2. main' = FlushedRing(main, file) /\ file' = FlushedFile(main, file)
      /\ cache' = cache /\ lost' = lost /\ overwrite' = overwrite
    BY DEF FlushMain
<1>3. RingInv(MaxEvents, main') /\ main'.fill = 0 /\ Contents(main') = <<>>
    BY <1>1, <1>2, FlushedRingEmpty
<1>4. HoldsNewest(main', log)
    BY <1>1, <1>2, FlushNewest
<1>5. file' = file \o Contents(main) /\ Contents(main) \in Seq(Event)
    BY <1>1, <1>2, FlushedFileAppends, ContentsType
<1>6. file' \in Seq(Event) /\ file' \o Contents(main') = file'
    BY <1>1, <1>3, <1>5, ConcatProperties, ConcatEmptySeq
<1>7. (~overwrite => file \o Contents(main) = log)'
    BY <1>2, <1>5, <1>6 DEF RingPart
<1>8. HoldsNewest(main, log)'
    BY <1>4 DEF HoldsNewest
<1>9. RingInv(CacheSize, cache)' /\ (~overwrite => cache.fill = 0)'
      /\ (overwrite \in BOOLEAN)'
    BY <1>2 DEF RingPart
<1>10. RingInv(MaxEvents, main)' /\ (file \in Seq(Event))' /\ (log \in Seq(Event))'
       /\ (lost \in SUBSET Event)'
    BY <1>1, <1>2, <1>3, <1>6 DEF RingPart
<1>11. QED
    BY <1>3, <1>7, <1>8, <1>9, <1>10 DEF RingPart

(* Buffer_DiscardOldest with a non-empty ring frees one slot.               *)
LEMMA DiscardOldestKeeps ==
    ASSUME RingPart, ~IsEmpty(main), overwrite, DiscardOldest, log' = log
    PROVE  RingPart' /\ main'.fill = main.fill - 1
<1>1. MaxEvents \in Nat \ {0} /\ RingInv(MaxEvents, main) /\ log \in Seq(Event)
      /\ HoldsNewest(main, log)
    BY BufferAssumption DEF RingPart
<1>2. main' = Discarded(main) /\ CacheEvent(Oldest(main))
    BY DEF DiscardOldest
<1>3. Oldest(main) \in Event /\ Discarded(main).fill = main.fill - 1
    BY <1>1, DiscardedDrops
<1>4. RingInv(MaxEvents, main') /\ HoldsNewest(main', log')
    BY <1>1, <1>2, DiscardNewest
<1>5. /\ RingInv(CacheSize, cache') /\ file' \in Seq(Event) /\ lost' \in SUBSET Event
      /\ overwrite' = overwrite
    BY <1>2, <1>3, CacheEventKeeps
<1>6. RingPart'
    BY <1>1, <1>4, <1>5 DEF RingPart
<1>7. QED
    BY <1>2, <1>3, <1>6

(* Buffer_InsertSingle keeps the rings, whichever way it makes room.        *)
LEMMA InsertSingleKeeps ==
    ASSUME RingPart, NEW e \in Event, InsertSingle(e)
    PROVE  RingPart'
<1>1. /\ MaxEvents \in Nat \ {0} /\ RingInv(MaxEvents, main) /\ log \in Seq(Event)
      /\ HoldsNewest(main, log) /\ file \in Seq(Event)
    BY BufferAssumption DEF RingPart
<1>2. ASSUME ~IsFull(main), main' = Stored(main, e), log' = Append(log, e),
             UNCHANGED <<overwrite, cache, file, lost>>
      PROVE  RingPart'
    <2>1. RingInv(MaxEvents, main') /\ log' \in Seq(Event) /\ HoldsNewest(main', log')
        BY <1>1, <1>2, StoreNewest
    <2>2. Contents(main') = Append(Contents(main), e) /\ Contents(main) \in Seq(Event)
        BY <1>1, <1>2, StoredAppends, ContentsType
    <2>3. ~overwrite => file' \o Contents(main') = log'
        <3>1. file \o Append(Contents(main), e) = Append(file \o Contents(main), e)
            BY <1>1, <2>2
        <3>2. QED
            BY <1>2, <2>2, <3>1 DEF RingPart
    <2>4. QED
        BY <1>2, <2>1, <2>3 DEF RingPart, RingInv
<1>3. CASE IsFull(main) /\ ~overwrite /\ open
    <2> DEFINE r == FlushedRing(main, file)
               f == FlushedFile(main, file)
    <2>1. main' = Stored(r, e) /\ file' = f /\ log' = Append(log, e)
          /\ cache' = cache /\ lost' = lost /\ overwrite' = overwrite
        BY <1>3 DEF InsertSingle
    <2>2. ~IsEmpty(main)
        BY <1>1, <1>3 DEF IsFull, IsEmpty, RingInv, Ring
    <2>3. RingInv(MaxEvents, r) /\ r.fill = 0 /\ Contents(r) = <<>> /\ HoldsNewest(r, log)
        BY <1>1, <2>2, FlushedRingEmpty, FlushNewest
    <2>4. f = file \o Contents(main) /\ Contents(main) \in Seq(Event)
        BY <1>1, <2>2, FlushedFileAppends, ContentsType
    <2> HIDE DEF r, f
    <2>5. ~IsFull(r)
        BY <1>1, <2>3 DEF IsFull, RingInv, Ring
    <2>6. /\ RingInv(MaxEvents, main') /\ log' \in Seq(Event) /\ HoldsNewest(main', log')
          /\ Contents(main') = Append(Contents(r), e)
        BY <1>1, <2>1, <2>3, <2>5, StoreNewest, StoredAppends
    <2>7. file' \in Seq(Event) /\ file' = log
        BY <1>1, <1>3, <2>1, <2>4, ConcatProperties DEF RingPart
    <2>8. file' \o Contents(main') = log'
        BY <1>1, <2>1, <2>3, <2>6, <2>7
    <2>9. QED
        BY <2>1, <2>6, <2>7, <2>8 DEF RingPart, RingInv
<1>4. CASE UNCHANGED <<overwrite, main, cache, file, lost, log>>
    BY <1>4 DEF RingPart, RingInv, RingConsistent, EndOfData, CircularStep, HoldsNewest,
       Contents
<1>5. CASE IsFull(main) /\ overwrite
    <2>1. main' = Stored(Discarded(main), e) /\ log' = Append(log, e)
          /\ CacheEvent(Oldest(main))
        BY <1>5 DEF InsertSingle
    <2>2. ~IsEmpty(main)
        BY <1>1, <1>5 DEF IsFull, IsEmpty, RingInv, Ring
    <2>3. /\ RingInv(MaxEvents, Discarded(main)) /\ HoldsNewest(Discarded(main), log)
          /\ Oldest(main) \in Event /\ Discarded(main).fill = main.fill - 1
        BY <1>1, <2>2, DiscardedDrops, DiscardNewest
    <2>4. ~IsFull(Discarded(main))
        BY <1>1, <2>3 DEF IsFull, RingInv, Ring
    <2>5. RingInv(MaxEvents, main') /\ log' \in Seq(Event) /\ HoldsNewest(main', log')
        BY <1>1, <2>1, <2>3, <2>4, StoreNewest
    <2>6. /\ RingInv(CacheSize, cache') /\ file' \in Seq(Event) /\ lost' \in SUBSET Event
          /\ overwrite' = overwrite
        BY <2>1, <2>3, CacheEventKeeps
    <2>7. QED
        BY <1>5, <2>5, <2>6 DEF RingPart
<1>6. QED
    BY <1>2, <1>3, <1>4, <1>5 DEF InsertSingle

-----------------------------------------------------------------------------
(* IndInv holds initially and is kept by every operation.                   *)

(* A new ring is well formed and empty.                                     *)
LEMMA NewRing ==
    ASSUME NEW n \in Nat \ {0}
    PROVE  /\ RingInv(n, new_Buffer(n))
           /\ new_Buffer(n).fill = 0
           /\ Contents(new_Buffer(n)) = <<>>
<1> DEFINE b == new_Buffer(n)
<1>1. /\ b.max = n /\ b.head = 0 /\ b.cur = 0 /\ b.fill = 0
      /\ 0 \in 0..(n - 1) /\ 0 \in 0..n
    BY DEF new_Buffer
<1>2. b \in Ring(n)
    BY <1>1 DEF new_Buffer, Ring
<1> HIDE DEF b
<1>3. EndOfData(b) = 0
    BY <1>1 DEF EndOfData, CircularStep
<1>4. Contents(b) = <<>>
    BY <1>1 DEF Contents
<1>5. QED
    BY <1>1, <1>2, <1>3, <1>4 DEF RingInv, RingConsistent, b

(* Init establishes IndInv.                                                 *)
LEMMA InitIndInv == Init => IndInv
<1> SUFFICES ASSUME Init PROVE IndInv
    OBVIOUS
<1>1. RingPart
    <2>1. /\ RingInv(MaxEvents, main) /\ RingInv(CacheSize, cache)
          /\ main.fill = 0 /\ cache.fill = 0 /\ Contents(main) = <<>>
        BY NewRing, BufferAssumption DEF Init
    <2>2. file = <<>> /\ log = <<>> /\ lost = {} /\ overwrite \in BOOLEAN
        BY DEF Init
    <2>3. SubSeq(log, Len(log) - 0 + 1, Len(log)) = <<>>
        BY <2>2, SubSeqEmpty
    <2>4. HoldsNewest(main, log)
        BY <2>1, <2>2, <2>3 DEF HoldsNewest
    <2>5. QED
        BY <2>1, <2>2, <2>4 DEF RingPart
<1>2. BatchPart
    BY BufferAssumption DEF Init, BatchPart, RoomWithinReach, BatchNeverExits
<1>3. QED
    BY <1>1, <1>2, IndInvHalves

(* Every step, and every stutter, keeps IndInv.                             *)
LEMMA NextIndInv == IndInv /\ [Next]_vars => IndInv'
<1> SUFFICES ASSUME RingPart, BatchPart, [Next]_vars
             PROVE  RingPart' /\ BatchPart'
    BY IndInvHalves, PTL
<1>0. /\ MaxEvents \in Nat \ {0} /\ main.fill \in 0..MaxEvents /\ main.max = MaxEvents
      /\ Len(todo) \in Nat /\ todo \in Seq(Event)
    BY BufferAssumption, LenProperties DEF RingPart, RingInv, Ring, BatchPart
<1>1. CASE Insert
    <2>1. PICK t \in EventType : InsertSingle([id |-> made + 1, type |-> t])
        BY <1>1 DEF Insert
    <2>2. [id |-> made + 1, type |-> t] \in Event
        BY DEF BatchPart, Event
    <2>3. RingPart'
        BY <2>1, <2>2, InsertSingleKeeps
    <2>4. BatchPart'
        BY <1>1 DEF Insert, BatchPart, RoomWithinReach, BatchNeverExits
    <2>5. QED
        BY <2>3, <2>4
<1>2. CASE BeginInsertMultiple
    <2>1. RingPart'
        BY <1>2 DEF BeginInsertMultiple, RingPart, RingInv, RingConsistent, EndOfData,
           CircularStep, HoldsNewest, Contents
    <2>2. PICK n \in BatchSizes : \E ts \in [1..n -> EventType] :
              /\ todo' = [i \in 1..n |-> [id |-> made + i, type |-> ts[i]]]
              /\ retry' = n
              /\ made' = made + n
        BY <1>2 DEF BeginInsertMultiple, Retries
    <2>3. PICK ts \in [1..n -> EventType] :
              todo' = [i \in 1..n |-> [id |-> made + i, type |-> ts[i]]]
        BY <2>2
    <2>4. n \in Nat /\ n <= MaxEvents
        BY BufferAssumption
    <2>5. todo' \in Seq(Event) /\ Len(todo') = n
        <3>1. todo' \in [1..n -> Event]
            BY <2>3, <2>4 DEF BatchPart, Event
        <3>2. QED
            BY <2>4, <3>1, SeqDef, LenProperties
    <2>6. RoomWithinReach'
        <3>1. main' = main
            BY <1>2 DEF BeginInsertMultiple
        <3>2. retry' = n /\ RemainingEvents(main') >= 0
            BY <1>0, <2>2, <3>1 DEF RemainingEvents
        <3>3. RemainingEvents(main') \in Int
            BY <1>0, <3>1 DEF RemainingEvents
        <3>4. retry' + RemainingEvents(main') >= Len(todo')
            BY <2>4, <2>5, <3>2, <3>3
        <3>5. QED
            BY <3>4 DEF RoomWithinReach, RemainingEvents
    <2>7. BatchPart'
        BY <1>2, <2>2, <2>4, <2>5, <2>6 DEF BeginInsertMultiple, BatchPart, BatchNeverExits
    <2>8. QED
        BY <2>1, <2>7
<1>3. CASE ReserveCallback
    <2>1. /\ op = "reserve" /\ op' = op /\ retry' = retry - 1 /\ log' = log
          /\ todo' = todo /\ open' = open /\ made' = made
          /\ retry > 0 /\ ~EnoughSpace(main, Len(todo))
        BY <1>3 DEF ReserveCallback, MustMakeRoom
    <2>2. ~IsEmpty(main)
        BY <1>0, <2>1 DEF BatchPart, EnoughSpace, RemainingEvents, IsEmpty
    <2>3. RingPart' /\ (main'.fill = 0 \/ main'.fill = main.fill - 1)
        BY <1>3, <2>1, <2>2, FlushMainKeeps, DiscardOldestKeeps DEF ReserveCallback
    <2>4. main'.max = MaxEvents
        BY <2>3 DEF RingPart, RingInv, Ring
    <2>5. RoomWithinReach'
        BY <1>0, <2>1, <2>3, <2>4 DEF BatchPart, RoomWithinReach, RemainingEvents
    <2>6. BatchPart'
        BY <2>1, <2>5 DEF BatchPart, BatchNeverExits
    <2>7. QED
        BY <2>3, <2>6
<1>4. CASE ReserveFails
    <2>1. RingPart'
        BY <1>4 DEF ReserveFails, RingPart, RingInv, RingConsistent, EndOfData,
           CircularStep, HoldsNewest, Contents
    <2>2. BatchPart'
        BY <1>0, <1>4 DEF ReserveFails, BatchPart, RoomWithinReach, BatchNeverExits
    <2>3. QED
        BY <2>1, <2>2
<1>5. CASE ReserveDone
    <2>1. RingPart'
        BY <1>5 DEF ReserveDone, RingPart, RingInv, RingConsistent, EndOfData,
           CircularStep, HoldsNewest, Contents
    <2>2. EnoughSpace(main, Len(todo))
        BY <1>0, <1>5 DEF ReserveDone, MustMakeRoom, BatchPart, RoomWithinReach,
           EnoughSpace, RemainingEvents
    <2>3. BatchPart'
        BY <1>5, <2>2 DEF ReserveDone, BatchPart, RoomWithinReach, BatchNeverExits
    <2>4. QED
        BY <2>1, <2>3
<1>6. CASE InsertNext
    <2>1. todo # <<>> /\ InsertSingle(Head(todo)) /\ todo' = Tail(todo)
        BY <1>6 DEF InsertNext
    <2>2. /\ Head(todo) \in Event /\ Tail(todo) \in Seq(Event)
          /\ Len(Tail(todo)) = Len(todo) - 1
        BY <1>0, <2>1, HeadTailProperties
    <2>3. RingPart'
        BY <2>1, <2>2, InsertSingleKeeps
    <2>4. BatchPart'
        BY <1>0, <1>6, <2>1, <2>2 DEF InsertNext, BatchPart, RoomWithinReach,
           BatchNeverExits
    <2>5. QED
        BY <2>3, <2>4
<1>7. CASE Flush
    <2>1. RingPart'
        BY <1>7, FlushMainKeeps DEF Flush
    <2>2. BatchPart'
        BY <1>7 DEF Flush, BatchPart, RoomWithinReach, BatchNeverExits
    <2>3. QED
        BY <2>1, <2>2
<1>8. CASE EnterInstrumentation
    <2>1. PICK n \in Reserve : RemainingEvents(main) <= n
        BY <1>8 DEF EnterInstrumentation
    <2>2. ~IsEmpty(main)
        BY <1>0, <2>1, BufferAssumption DEF RemainingEvents, IsEmpty
    <2>3. RingPart'
        BY <1>8, <2>2, FlushMainKeeps, DiscardOldestKeeps DEF EnterInstrumentation
    <2>4. BatchPart'
        BY <1>8 DEF EnterInstrumentation, BatchPart, RoomWithinReach, BatchNeverExits
    <2>5. QED
        BY <2>3, <2>4
<1>9. CASE Close
    <2>1. main' = main /\ log' = log /\ lost' = lost /\ overwrite' = overwrite
        BY <1>9 DEF Close
    <2>2. RingPart'
        <3>1. CASE IsEmpty(cache)
            <4>1. cache' = cache /\ file' = file
                BY <1>9, <3>1 DEF Close
            <4>2. QED
                BY <2>1, <4>1 DEF RingPart, RingInv, RingConsistent, EndOfData,
                   CircularStep, HoldsNewest, Contents
        <3>2. CASE ~IsEmpty(cache)
            <4>1. cache' = FlushedRing(cache, file) /\ file' = FlushedFile(cache, file)
                BY <1>9, <3>2 DEF Close
            <4>2. CacheSize \in Nat \ {0} /\ RingInv(CacheSize, cache)
                  /\ file \in Seq(Event)
                BY BufferAssumption DEF RingPart
            <4>3. RingInv(CacheSize, cache')
                BY <3>2, <4>1, <4>2, FlushedRingEmpty
            <4>4. file' = file \o Contents(cache) /\ Contents(cache) \in Seq(Event)
                BY <3>2, <4>1, <4>2, FlushedFileAppends, ContentsType
            <4>5. file' \in Seq(Event)
                BY <4>2, <4>4, ConcatProperties
            <4>6. overwrite
                BY <3>2 DEF RingPart, IsEmpty
            <4>7. QED
                BY <2>1, <4>3, <4>5, <4>6 DEF RingPart
        <3>3. QED
            BY <3>1, <3>2
    <2>3. BatchPart'
        BY <1>9 DEF Close, BatchPart, RoomWithinReach, BatchNeverExits
    <2>4. QED
        BY <2>2, <2>3
<1>10. CASE UNCHANGED vars
    BY <1>10 DEF vars, RingPart, RingInv, RingConsistent, EndOfData, CircularStep,
       HoldsNewest, Contents, BatchPart, RoomWithinReach, BatchNeverExits, RemainingEvents
<1>11. QED
    BY <1>1, <1>2, <1>3, <1>4, <1>5, <1>6, <1>7, <1>8, <1>9, <1>10 DEF Next
-----------------------------------------------------------------------------
(* The inductive invariant of the buffer.                                   *)
THEOREM BufferInvariant == Spec => []IndInv
BY InitIndInv, NextIndInv, PTL DEF Spec

(* The offsets and fill counts of both rings stay in range, whatever the    *)
(* buffer sizes and the lists inserted.                                     *)
THEOREM TypeCorrect == Spec => []TypeOK
<1>1. IndInv => TypeOK
    BY DEF IndInv
<1>2. QED
    BY <1>1, BufferInvariant, PTL

(* Head, tail and fill count of each ring agree and no slot in between is   *)
(* uninitialized.                                                           *)
THEOREM CursorsAlwaysAgree == Spec => []CursorsAgree
<1>1. IndInv => CursorsAgree
    BY DEF IndInv
<1>2. QED
    BY <1>1, BufferInvariant, PTL

(* The ring always holds the newest recorded events, in order.              *)
THEOREM RingAlwaysHoldsNewest == Spec => []RingHoldsNewest
<1>1. IndInv => RingHoldsNewest
    BY DEF IndInv
<1>2. QED
    BY <1>1, BufferInvariant, PTL

(* In flush mode, file and ring together are the exact recorded sequence.   *)
THEOREM NothingLostInFlushMode == Spec => []FileThenRing
<1>1. IndInv => FileThenRing
    BY DEF IndInv
<1>2. QED
    BY <1>1, BufferInvariant, PTL

(* Buffer_InsertMultiple never exits the program on a list that fits.       *)
THEOREM BatchFits == Spec => []BatchNeverExits
<1>1. IndInv => BatchNeverExits
    BY DEF IndInv
<1>2. QED
    BY <1>1, BufferInvariant, PTL
-----------------------------------------------------------------------------
(* Every write goes to the end of the file, whichever ring is flushed.      *)

Grows == file' = file \/ \E data \in Seq(Event) : file' = file \o data

(* A flush of either ring, the cache's or the tracing ring's, only appends. *)
LEMMA FlushGrows ==
    ASSUME NEW n \in Nat \ {0}, NEW b, RingInv(n, b), ~IsEmpty(b), file \in Seq(Event),
           file' = FlushedFile(b, file)
    PROVE  Grows
<1>1. file' = file \o Contents(b)
    BY FlushedFileAppends
<1>2. Contents(b) \in Seq(Event)
    BY ContentsType
<1>3. QED
    BY <1>1, <1>2 DEF Grows

(* Caching an event appends the full cache to the file, or does not write.  *)
LEMMA CacheEventGrows ==
    ASSUME RingPart, NEW e, CacheEvent(e)
    PROVE  Grows
<1>1. CacheSize \in Nat \ {0} /\ RingInv(CacheSize, cache) /\ file \in Seq(Event)
    BY BufferAssumption DEF RingPart
<1>2. CASE e.type \in CachedTypes /\ IsFull(cache)
    <2>1. file' = FlushedFile(cache, file)
        BY <1>2 DEF CacheEvent, CacheInsert
    <2>2. ~IsEmpty(cache)
        BY <1>1, <1>2 DEF IsFull, IsEmpty, RingInv, Ring
    <2>3. QED
        BY <1>1, <2>1, <2>2, FlushGrows
<1>3. CASE ~(e.type \in CachedTypes /\ IsFull(cache))
    BY <1>3 DEF CacheEvent, CacheInsert, Grows
<1>4. QED
    BY <1>2, <1>3

(* So does the flush of a tracing ring that is not empty.                   *)
LEMMA FlushMainGrows ==
    ASSUME RingPart, ~IsEmpty(main), FlushMain
    PROVE  Grows
<1>1. MaxEvents \in Nat \ {0} /\ RingInv(MaxEvents, main) /\ file \in Seq(Event)
    BY BufferAssumption DEF RingPart
<1>2. file' = FlushedFile(main, file)
    BY DEF FlushMain
<1>3. QED
    BY <1>1, <1>2, FlushGrows

(* And Buffer_InsertSingle, whichever callback makes room.                  *)
LEMMA InsertSingleGrows ==
    ASSUME RingPart, NEW e, InsertSingle(e)
    PROVE  Grows
<1>1. MaxEvents \in Nat \ {0} /\ RingInv(MaxEvents, main) /\ file \in Seq(Event)
    BY BufferAssumption DEF RingPart
<1>2. CASE UNCHANGED file
    BY <1>2 DEF Grows
<1>3. CASE IsFull(main) /\ file' = FlushedFile(main, file)
    <2>1. ~IsEmpty(main)
        BY <1>1, <1>3 DEF IsFull, IsEmpty, RingInv, Ring
    <2>2. QED
        BY <1>1, <1>3, <2>1, FlushGrows
<1>4. CASE CacheEvent(Oldest(main))
    BY <1>4, CacheEventGrows
<1>5. QED
    BY <1>2, <1>3, <1>4 DEF InsertSingle

(* Every step of the buffer appends to the file or leaves it alone.         *)
LEMMA NextGrows ==
    ASSUME RingPart, BatchPart, Next
    PROVE  Grows
<1>1. CASE Insert \/ InsertNext
    BY <1>1, InsertSingleGrows DEF Insert, InsertNext
<1>2. CASE BeginInsertMultiple \/ ReserveFails \/ ReserveDone
    BY <1>2 DEF BeginInsertMultiple, ReserveFails, ReserveDone, Grows
<1>3. CASE ReserveCallback
    <2>1. CASE overwrite
        BY <1>3, <2>1, CacheEventGrows DEF ReserveCallback, DiscardOldest
    <2>2. CASE ~overwrite
        BY <1>3, <2>2, FlushMainGrows DEF ReserveCallback
    <2>3. QED
        BY <2>1, <2>2
<1>4. CASE Flush
    BY <1>4, FlushMainGrows DEF Flush
<1>5. CASE EnterInstrumentation
    <2>1. CASE overwrite
        BY <1>5, <2>1, CacheEventGrows DEF EnterInstrumentation, DiscardOldest
    <2>2. CASE ~overwrite
        <3>1. PICK n \in Reserve : RemainingEvents(main) <= n
            BY <1>5 DEF EnterInstrumentation
        <3>2. ~IsEmpty(main)
            BY <3>1, BufferAssumption DEF RemainingEvents, IsEmpty, RingPart, RingInv, Ring
        <3>3. QED
            BY <1>5, <2>2, <3>2, FlushMainGrows DEF EnterInstrumentation
    <2>3. QED
        BY <2>1, <2>2
<1>6. CASE Close
    <2>1. CASE IsEmpty(cache)
        BY <1>6, <2>1 DEF Close, Grows
    <2>2. CASE ~IsEmpty(cache)
        BY <1>6, <2>2, BufferAssumption, FlushGrows DEF Close, RingPart
    <2>3. QED
        BY <2>1, <2>2
<1>7. QED
    BY <1>1, <1>2, <1>3, <1>4, <1>5, <1>6 DEF Next

(* What a sequence was is a prefix of what it has grown into.               *)
LEMMA ConcatPrefix ==
    ASSUME NEW s \in Seq(Event), NEW t \in Seq(Event)
    PROVE  IsPrefix(s, s \o t)
<1>1. s \o t \in Seq(Event) /\ Len(s \o t) = Len(s) + Len(t)
      /\ Len(s) \in Nat /\ Len(t) \in Nat
    BY ConcatProperties, LenProperties
<1>2. \A i \in 1..Len(s) : (s \o t)[i] = s[i]
    BY <1>1, ConcatProperties
<1>3. SubSeq(s, 1, Len(s)) = s
    BY SubSeqFull
<1>4. /\ SubSeq(s \o t, 1, Len(s)) \in Seq(Event)
      /\ Len(SubSeq(s \o t, 1, Len(s))) = Len(s)
      /\ \A i \in 1..Len(s) : SubSeq(s \o t, 1, Len(s))[i] = (s \o t)[i]
    BY <1>1, SubSeqProperties
<1>5. SubSeq(s \o t, 1, Len(s)) = s
    BY <1>2, <1>4, SeqEqual
<1>6. QED
    BY <1>1, <1>3, <1>5 DEF IsPrefix

(* What is on disk is never altered, although two descriptors write it, for *)
(* rings of any size and either callback.                                   *)
THEOREM FileNeverAltered == Spec => FileAppendOnly
<1>1. ASSUME IndInv, [Next]_vars
      PROVE  [IsPrefix(file, file')]_file
    <2>1. RingPart /\ BatchPart /\ file \in Seq(Event)
        BY <1>1, IndInvHalves DEF RingPart
    <2>2. CASE Next
        <3>1. Grows
            BY <2>1, <2>2, NextGrows
        <3>2. QED
            BY <2>1, <3>1, ConcatPrefix DEF Grows
    <2>3. CASE UNCHANGED vars
        BY <2>3 DEF vars
    <2>4. QED
        BY <1>1, <2>2, <2>3
<1>2. QED
    BY <1>1, BufferInvariant, PTL DEF Spec, FileAppendOnly

-----------------------------------------------------------------------------
(* TraceBuffer implements EventRecorder: the initial states map to initial  *)
(* states, and every operation maps to one step of the recorder or to a     *)
(* stutter. And the file, the cache and the ring keep the order of          *)
(* recording.                                                               *)

(* The oldest event is the first of the contents.                           *)
LEMMA OldestIsHead ==
    ASSUME NEW n \in Nat \ {0}, NEW b, RingInv(n, b), ~IsEmpty(b)
    PROVE  /\ Contents(b) \in Seq(Event) /\ Contents(b) # <<>>
           /\ Head(Contents(b)) = Oldest(b)
           /\ Len(Contents(b)) = b.fill
<1>1. b.fill \in 1..n /\ b.head \in 0..(n - 1) /\ b.max = n
    BY DEF RingInv, Ring, IsEmpty
<1>2. /\ Contents(b) \in Seq(Event) /\ Len(Contents(b)) = b.fill
      /\ Contents(b)[1] = b.slot[CircularStep(b, b.head, 1 - 1)]
    BY <1>1, ContentsType
<1>3. CircularStep(b, b.head, 1 - 1) = b.head
    BY <1>1 DEF CircularStep
<1>4. Contents(b) # <<>>
    BY <1>1, <1>2
<1>5. QED
    BY <1>2, <1>3, <1>4 DEF Oldest

(* Buffer_CacheEvent keeps a precious event, writing the full cache first.  *)
LEMMA CacheEventLetsGo ==
    ASSUME RingPart, NEW e \in Event, CacheEvent(e)
    PROVE  Recorder!LetGo(e)
<1>1. CacheSize \in Nat \ {0} /\ RingInv(CacheSize, cache) /\ file \in Seq(Event)
    BY BufferAssumption DEF RingPart
<1>2. CASE e.type \notin CachedTypes
    <2>1. cache' = cache /\ file' = file
        BY <1>2 DEF CacheEvent
    <2>2. Contents(cache)' = Contents(cache)
        BY <2>1 DEF Contents, CircularStep
    <2>3. QED
        BY <1>2, <2>1, <2>2 DEF Recorder!LetGo
<1>3. CASE e.type \in CachedTypes /\ ~IsFull(cache)
    <2>1. cache' = Stored(cache, e) /\ file' = file
        BY <1>3 DEF CacheEvent, CacheInsert
    <2>2. Contents(cache') = Append(Contents(cache), e)
        BY <1>1, <1>3, <2>1, StoredAppends
    <2>3. Len(Contents(cache)) < CacheSize
        BY <1>1, <1>3, ContentsType DEF IsFull, RingInv, Ring
    <2>4. QED
        BY <1>3, <2>1, <2>2, <2>3 DEF Recorder!LetGo
<1>4. CASE e.type \in CachedTypes /\ IsFull(cache)
    <2> DEFINE r == FlushedRing(cache, file)
    <2>1. /\ cache' = Stored(r, e) /\ file' = FlushedFile(cache, file)
        BY <1>4 DEF CacheEvent, CacheInsert
    <2>2. ~IsEmpty(cache) /\ cache.fill = CacheSize
        BY <1>1, <1>4 DEF IsFull, IsEmpty, RingInv, Ring
    <2>3. RingInv(CacheSize, r) /\ r.fill = 0 /\ Contents(r) = <<>>
        BY <1>1, <2>2, FlushedRingEmpty
    <2>4. file' = file \o Contents(cache) /\ Len(Contents(cache)) = CacheSize
        BY <1>1, <2>1, <2>2, FlushedFileAppends, ContentsType
    <2> HIDE DEF r
    <2>5. ~IsFull(r)
        BY <1>1, <2>3 DEF IsFull, RingInv, Ring
    <2>6. Contents(Stored(r, e)) = Append(Contents(r), e)
        BY <1>1, <2>3, <2>5, StoredAppends
    <2>7. Contents(cache') = <<e>>
        BY <2>1, <2>3, <2>6
    <2>8. QED
        BY <1>4, <2>4, <2>7 DEF Recorder!LetGo
<1>5. QED
    BY <1>2, <1>3, <1>4

(* Buffer_Flush of the tracing ring writes the recent events out.           *)
LEMMA FlushMainWritesOut ==
    ASSUME RingPart, ~IsEmpty(main), FlushMain, log' = log
    PROVE  Recorder!WriteOut
<1>1. MaxEvents \in Nat \ {0} /\ RingInv(MaxEvents, main) /\ file \in Seq(Event)
    BY BufferAssumption DEF RingPart
<1>2. main' = FlushedRing(main, file) /\ file' = FlushedFile(main, file)
      /\ cache' = cache /\ overwrite' = overwrite
    BY DEF FlushMain
<1>3. Contents(main') = <<>> /\ file' = file \o Contents(main)
    BY <1>1, <1>2, FlushedRingEmpty, FlushedFileAppends
<1>4. Contents(cache)' = Contents(cache)
    BY <1>2 DEF Contents, CircularStep
<1>5. QED
    BY <1>2, <1>3, <1>4 DEF Recorder!WriteOut

(* Buffer_DiscardOldest forgets the oldest event.                           *)
LEMMA DiscardOldestForgets ==
    ASSUME RingPart, ~IsEmpty(main), overwrite, DiscardOldest, log' = log
    PROVE  Recorder!Forget
<1>1. MaxEvents \in Nat \ {0} /\ RingInv(MaxEvents, main)
    BY BufferAssumption DEF RingPart
<1>2. main' = Discarded(main) /\ CacheEvent(Oldest(main))
    BY DEF DiscardOldest
<1>3. /\ Oldest(main) \in Event /\ Contents(main') = Tail(Contents(main))
      /\ Head(Contents(main)) = Oldest(main) /\ Contents(main) # <<>>
    BY <1>1, <1>2, DiscardedDrops, OldestIsHead
<1>4. Recorder!LetGo(Oldest(main)) /\ overwrite' = overwrite
    BY <1>2, <1>3, CacheEventLetsGo, CacheEventKeeps
<1>5. QED
    BY <1>3, <1>4 DEF Recorder!Forget

(* Buffer_InsertSingle accepts the event, or drops it and changes nothing.  *)
LEMMA InsertSingleAccepts ==
    ASSUME RingPart, NEW e \in Event, InsertSingle(e)
    PROVE  Recorder!Accept \/ UNCHANGED <<overwrite, main, cache, file, log>>
<1>1. /\ MaxEvents \in Nat \ {0} /\ RingInv(MaxEvents, main) /\ log \in Seq(Event)
      /\ file \in Seq(Event)
    BY BufferAssumption DEF RingPart
<1>2. SUFFICES ASSUME log' = Append(log, e), overwrite' = overwrite,
                      \/ Recorder!AcceptWithRoom(e)
                      \/ Recorder!AcceptByWriting(e)
                      \/ Recorder!AcceptByForgetting(e)
               PROVE  Recorder!Accept
    <2>1. CASE ~IsFull(main) /\ main' = Stored(main, e) /\ log' = Append(log, e)
               /\ UNCHANGED <<overwrite, cache, file, lost>>
        <3>1. Contents(main') = Append(Contents(main), e)
            BY <1>1, <2>1, StoredAppends
        <3>2. Len(Contents(main)) < MaxEvents
            BY <1>1, <2>1, ContentsType DEF IsFull, RingInv, Ring
        <3>3. Contents(cache)' = Contents(cache)
            BY <2>1 DEF Contents, CircularStep
        <3>4. Recorder!AcceptWithRoom(e)
            BY <2>1, <3>1, <3>2, <3>3 DEF Recorder!AcceptWithRoom
        <3>5. QED
            BY <1>2, <2>1, <3>4
    <2>2. CASE IsFull(main) /\ ~overwrite /\ open
        <3> DEFINE r == FlushedRing(main, file)
        <3>1. /\ main' = Stored(r, e) /\ file' = FlushedFile(main, file)
              /\ log' = Append(log, e) /\ cache' = cache /\ overwrite' = overwrite
            BY <2>2 DEF InsertSingle
        <3>2. ~IsEmpty(main) /\ main.fill = MaxEvents
            BY <1>1, <2>2 DEF IsFull, IsEmpty, RingInv, Ring
        <3>3. RingInv(MaxEvents, r) /\ r.fill = 0 /\ Contents(r) = <<>>
            BY <1>1, <3>2, FlushedRingEmpty
        <3>4. file' = file \o Contents(main) /\ Len(Contents(main)) = MaxEvents
            BY <1>1, <3>1, <3>2, FlushedFileAppends, ContentsType
        <3> HIDE DEF r
        <3>5. ~IsFull(r)
            BY <1>1, <3>3 DEF IsFull, RingInv, Ring
        <3>6. Contents(Stored(r, e)) = Append(Contents(r), e)
            BY <1>1, <3>3, <3>5, StoredAppends
        <3>7. Contents(main') = <<e>>
            BY <3>1, <3>3, <3>6
        <3>8. Contents(cache)' = Contents(cache)
            BY <3>1 DEF Contents, CircularStep
        <3>9. Recorder!AcceptByWriting(e)
            BY <2>2, <3>4, <3>7, <3>8 DEF Recorder!AcceptByWriting
        <3>10. QED
            BY <1>2, <3>1, <3>9
    <2>3. CASE IsFull(main) /\ overwrite
        <3>1. main' = Stored(Discarded(main), e) /\ log' = Append(log, e)
              /\ CacheEvent(Oldest(main))
            BY <2>3 DEF InsertSingle
        <3>2. ~IsEmpty(main) /\ main.fill = MaxEvents
            BY <1>1, <2>3 DEF IsFull, IsEmpty, RingInv, Ring
        <3>3. /\ RingInv(MaxEvents, Discarded(main)) /\ Oldest(main) \in Event
              /\ Contents(Discarded(main)) = Tail(Contents(main))
              /\ Discarded(main).fill = main.fill - 1
            BY <1>1, <3>2, DiscardedDrops
        <3>4. ~IsFull(Discarded(main))
            BY <1>1, <3>2, <3>3 DEF IsFull, RingInv, Ring
        <3>5. Contents(main') = Append(Tail(Contents(main)), e)
            BY <1>1, <3>1, <3>3, <3>4, StoredAppends
        <3>6. /\ Head(Contents(main)) = Oldest(main) /\ Len(Contents(main)) = MaxEvents
              /\ Contents(main) # <<>>
            BY <1>1, <3>2, OldestIsHead
        <3>7. Recorder!LetGo(Oldest(main)) /\ overwrite' = overwrite
            BY <3>1, <3>3, CacheEventLetsGo, CacheEventKeeps
        <3>8. Recorder!AcceptByForgetting(e)
            BY <2>3, <3>5, <3>6, <3>7 DEF Recorder!AcceptByForgetting
        <3>9. QED
            BY <1>2, <3>1, <3>7, <3>8
    <2>4. CASE UNCHANGED <<overwrite, main, cache, file, lost, log>>
        BY <2>4
    <2>5. QED
        BY <2>1, <2>2, <2>3, <2>4 DEF InsertSingle
<1>3. log' \in Seq(Event) /\ Len(log') = Len(log) + 1 /\ log'[Len(log) + 1] = e
    BY <1>1, <1>2, AppendProperties
<1>4. Len(log) + 1 \in DOMAIN log'
    BY <1>1, <1>3, LenProperties
<1>5. e \in Recorder!Range(log')
    BY <1>3, <1>4 DEF Recorder!Range
<1>6. QED
    BY <1>2, <1>5 DEF Recorder!Accept

(* Nothing the recorder sees changes: a stutter.                            *)
LEMMA StutterMaps ==
    ASSUME UNCHANGED <<overwrite, main, cache, file, log>>
    PROVE  UNCHANGED Recorder!rvars
<1>1. Contents(main)' = Contents(main) /\ Contents(cache)' = Contents(cache)
    BY DEF Contents, CircularStep
<1>2. QED
    BY <1>1 DEF Recorder!rvars

(* Buffer_Close writes the kept events out, if there are any.               *)
LEMMA CloseMaps ==
    ASSUME RingPart, Close
    PROVE  Recorder!WriteKept \/ UNCHANGED Recorder!rvars
<1>1. CacheSize \in Nat \ {0} /\ RingInv(CacheSize, cache) /\ file \in Seq(Event)
    BY BufferAssumption DEF RingPart
<1>2. main' = main /\ log' = log /\ overwrite' = overwrite
    BY DEF Close
<1>3. CASE IsEmpty(cache)
    <2>1. cache' = cache /\ file' = file
        BY <1>3 DEF Close
    <2>2. QED
        BY <1>2, <2>1, StutterMaps
<1>4. CASE ~IsEmpty(cache)
    <2>1. cache' = FlushedRing(cache, file) /\ file' = FlushedFile(cache, file)
        BY <1>4 DEF Close
    <2>2. Contents(cache') = <<>> /\ file' = file \o Contents(cache)
        BY <1>1, <1>4, <2>1, FlushedRingEmpty, FlushedFileAppends
    <2>3. Contents(main)' = Contents(main)
        BY <1>2 DEF Contents, CircularStep
    <2>4. QED
        BY <1>2, <2>2, <2>3 DEF Recorder!WriteKept
<1>5. QED
    BY <1>3, <1>4

(* Every operation is a step of the recorder or a stutter.                  *)
LEMMA NextMaps ==
    ASSUME RingPart, BatchPart, Next
    PROVE  Recorder!Next \/ UNCHANGED Recorder!rvars
<1>0. /\ MaxEvents \in Nat \ {0} /\ main.fill \in 0..MaxEvents /\ main.max = MaxEvents
      /\ Len(todo) \in Nat /\ todo \in Seq(Event)
    BY BufferAssumption, LenProperties DEF RingPart, RingInv, Ring, BatchPart
<1>1. CASE Insert
    <2>1. PICK t \in EventType : InsertSingle([id |-> made + 1, type |-> t])
        BY <1>1 DEF Insert
    <2>2. [id |-> made + 1, type |-> t] \in Event
        BY DEF BatchPart, Event
    <2>3. QED
        BY <2>1, <2>2, InsertSingleAccepts, StutterMaps DEF Recorder!Next
<1>2. CASE BeginInsertMultiple \/ ReserveFails \/ ReserveDone
    BY <1>2, StutterMaps DEF BeginInsertMultiple, ReserveFails, ReserveDone
<1>3. CASE ReserveCallback
    <2>1. CASE overwrite
        <3>1. ~IsEmpty(main)
            BY <1>0, <1>3 DEF ReserveCallback, MustMakeRoom, EnoughSpace,
               RemainingEvents, IsEmpty, BatchPart
        <3>2. QED
            BY <1>3, <2>1, <3>1, DiscardOldestForgets DEF ReserveCallback, Recorder!Next
    <2>2. CASE ~overwrite
        BY <1>3, <2>2, FlushMainWritesOut DEF ReserveCallback, Recorder!Next
    <2>3. QED
        BY <2>1, <2>2
<1>4. CASE InsertNext
    <2>1. Head(todo) \in Event /\ InsertSingle(Head(todo))
        BY <1>0, <1>4, HeadTailProperties DEF InsertNext
    <2>2. QED
        BY <2>1, InsertSingleAccepts, StutterMaps DEF Recorder!Next
<1>5. CASE Flush
    BY <1>5, FlushMainWritesOut DEF Flush, Recorder!Next
<1>6. CASE EnterInstrumentation
    <2>1. ~IsEmpty(main)
        BY <1>0, <1>6, BufferAssumption DEF EnterInstrumentation, RemainingEvents, IsEmpty
    <2>2. CASE overwrite
        BY <1>6, <2>1, <2>2, DiscardOldestForgets DEF EnterInstrumentation, Recorder!Next
    <2>3. CASE ~overwrite
        BY <1>6, <2>1, <2>3, FlushMainWritesOut DEF EnterInstrumentation, Recorder!Next
    <2>4. QED
        BY <2>2, <2>3
<1>7. CASE Close
    BY <1>7, CloseMaps DEF Recorder!Next
<1>8. QED
    BY <1>1, <1>2, <1>3, <1>4, <1>5, <1>6, <1>7 DEF Next

(* New rings are a recorder that has seen nothing.                          *)
LEMMA InitMaps == Init => Recorder!Init
<1> SUFFICES ASSUME Init PROVE Recorder!Init
    OBVIOUS
<1>1. Contents(main) = <<>> /\ Contents(cache) = <<>>
    BY NewRing, BufferAssumption DEF Init
<1>2. QED
    BY <1>1 DEF Init, Recorder!Init

(* The rings of buffers.c implement the recorder, for rings and caches of   *)
(* any size, any set of cached types and either flush callback.             *)
THEOREM BufferRefinesRecorder == Spec => ImplementsRecorder
<1>1. IndInv /\ [Next]_vars => [Recorder!Next]_(Recorder!rvars)
    <2> SUFFICES ASSUME RingPart, BatchPart, [Next]_vars
                 PROVE  [Recorder!Next]_(Recorder!rvars)
        BY IndInvHalves
    <2>1. CASE Next
        BY <2>1, NextMaps
    <2>2. CASE UNCHANGED vars
        BY <2>2, StutterMaps DEF vars
    <2>3. QED
        BY <2>1, <2>2
<1>2. QED
    BY <1>1, InitMaps, BufferInvariant, PTL DEF Spec, ImplementsRecorder, Recorder!Spec

-----------------------------------------------------------------------------
(* What every recorder guarantees, the buffer guarantees.                   *)
Promise == INSTANCE EventRecorderProofs WITH
    Event <- Event,
    Precious <- {e \in Event : e.type \in CachedTypes},
    Capacity <- MaxEvents,
    KeptCapacity <- CacheSize,
    lossy <- overwrite,
    recent <- Contents(main),
    kept <- Contents(cache),
    disk <- file,
    accepted <- log

(* Overwriting the oldest events never loses one of a cached type.          *)
THEOREM CachedNeverLost == Spec => []CachedSurvive
<1>1. Recorder!Spec => []Promise!RecorderInv
    <2>1. Promise!Spec => []Promise!RecorderInv
        BY Promise!RecorderKeepsPromise
    <2>2. Recorder!Init <=> Promise!Init
        BY DEF Recorder!Init, Promise!Init
    <2>3. [Recorder!Next]_(Recorder!rvars) => [Promise!Next]_(Promise!rvars)
        <3>1. UNCHANGED Recorder!rvars => UNCHANGED Promise!rvars
            BY DEF Recorder!rvars, Promise!rvars
        <3>2. Recorder!Accept => Promise!Accept
            BY DEF Recorder!Accept, Promise!Accept, Recorder!AcceptWithRoom,
               Promise!AcceptWithRoom, Recorder!AcceptByWriting, Promise!AcceptByWriting,
               Recorder!AcceptByForgetting, Promise!AcceptByForgetting, Recorder!LetGo,
               Promise!LetGo, Recorder!Range, Promise!Range
        <3>3. Recorder!WriteOut => Promise!WriteOut
            BY DEF Recorder!WriteOut, Promise!WriteOut
        <3>4. Recorder!Forget => Promise!Forget
            BY DEF Recorder!Forget, Promise!Forget, Recorder!LetGo, Promise!LetGo
        <3>5. Recorder!WriteKept => Promise!WriteKept
            BY DEF Recorder!WriteKept, Promise!WriteKept
        <3>6. QED
            BY <3>1, <3>2, <3>3, <3>4, <3>5 DEF Recorder!Next, Promise!Next
    <2>4. QED
        BY <2>1, <2>2, <2>3, PTL DEF Recorder!Spec, Promise!Spec
<1>2. Promise!RecorderInv => CachedSurvive
    BY DEF Promise!RecorderInv, CachedSurvive, Promise!PreciousSurvive,
       Recorder!PreciousSurvive, Promise!Remembered, Recorder!Remembered,
       Promise!Range, Recorder!Range
<1>3. QED
    BY <1>1, <1>2, BufferRefinesRecorder, PTL DEF ImplementsRecorder
-----------------------------------------------------------------------------
(* The order of the kept events. In overwrite mode an event travels one     *)
(* way: from the list being inserted to the ring, from the ring to the      *)
(* victim cache and from there to the file. So the ids rise along           *)
(*     file, cache, ring, list                                              *)
(* until the ring itself is flushed.                                        *)

Rising(s) == \A i, j \in 1..Len(s) : i < j => s[i].id < s[j].id
Before(s, t) == \A i \in 1..Len(s), j \in 1..Len(t) : s[i].id < t[j].id
Within(s, n) == \A i \in 1..Len(s) : s[i].id <= n

\* k: what was kept, c: what the ring holds, l: the list; n events were made.
InLine(k, c, l, n) ==
    /\ Rising(k) /\ Rising(c) /\ Rising(l)
    /\ Before(k, c) /\ Before(k, l) /\ Before(c, l)
    /\ Within(k, n) /\ Within(c, n) /\ Within(l, n)

\* All of s, or all of t, is before or after one event.
Under(s, e) == \A i \in 1..Len(s) : s[i].id < e.id
Over(e, t) == \A j \in 1..Len(t) : e.id < t[j].id

LEMMA IdsOf ==
    ASSUME NEW s \in Seq(Event)
    PROVE  \A i \in 1..Len(s) : s[i].id \in Nat
<1>1. ASSUME NEW i \in 1..Len(s) PROVE s[i].id \in Nat
    <2>1. s[i] \in Event
        BY ElementOfSeq
    <2>2. QED
        BY <2>1 DEF Event
<1>2. QED
    BY <1>1

\* What an event appended does to the order of a sequence.
LEMMA RisingAppend ==
    ASSUME NEW s \in Seq(Event), NEW e \in Event, Rising(s), Under(s, e)
    PROVE  Rising(Append(s, e))
<1>0. PICK n \in Nat : n = Len(s)
    BY LenProperties
<1>00. PICK d : d = Append(s, e)
    OBVIOUS
<1>1. /\ d = Append(s, e) /\ n = Len(s) /\ Len(d) = n + 1
      /\ d[n + 1] = e /\ \A i \in 1..n : d[i] = s[i]
    BY <1>0, <1>00, AppendProperties
<1>2. ASSUME NEW i \in 1..(n + 1), NEW j \in 1..(n + 1), i < j
      PROVE  d[i].id < d[j].id
    <2>1. i \in 1..n /\ d[i] = s[i]
        BY <1>1, <1>2
    <2>2. CASE j = n + 1
        BY <1>1, <2>1, <2>2 DEF Under
    <2>3. CASE j # n + 1
        <3>1. j \in 1..n /\ d[j] = s[j]
            BY <1>1, <1>2, <2>3
        <3>2. QED
            BY <1>1, <1>2, <2>1, <3>1 DEF Rising
    <2>4. QED
        BY <2>2, <2>3
<1>3. QED
    BY <1>1, <1>2 DEF Rising

LEMMA BeforeAppendLeft ==
    ASSUME NEW s \in Seq(Event), NEW e \in Event, NEW t \in Seq(Event), Before(s, t), Over(e, t)
    PROVE  Before(Append(s, e), t)
<1>0. PICK n \in Nat : n = Len(s)
    BY LenProperties
<1>00. PICK d : d = Append(s, e)
    OBVIOUS
<1>1. /\ d = Append(s, e) /\ n = Len(s) /\ Len(d) = n + 1
      /\ d[n + 1] = e /\ \A i \in 1..n : d[i] = s[i]
    BY <1>0, <1>00, AppendProperties
<1>2. ASSUME NEW i \in 1..(n + 1), NEW j \in 1..Len(t)
      PROVE  d[i].id < t[j].id
    <2>1. CASE i = n + 1
        BY <1>1, <2>1 DEF Over
    <2>2. CASE i # n + 1
        <3>1. i \in 1..n /\ d[i] = s[i]
            BY <1>1, <2>2
        <3>2. QED
            BY <1>1, <3>1 DEF Before
    <2>3. QED
        BY <2>1, <2>2
<1>3. QED
    BY <1>1, <1>2 DEF Before

LEMMA BeforeAppendRight ==
    ASSUME NEW s \in Seq(Event), NEW e \in Event, NEW t \in Seq(Event), Before(t, s), Under(t, e)
    PROVE  Before(t, Append(s, e))
<1>0. PICK n \in Nat : n = Len(s)
    BY LenProperties
<1>00. PICK d : d = Append(s, e)
    OBVIOUS
<1>1. /\ d = Append(s, e) /\ n = Len(s) /\ Len(d) = n + 1
      /\ d[n + 1] = e /\ \A i \in 1..n : d[i] = s[i]
    BY <1>0, <1>00, AppendProperties
<1>2. ASSUME NEW i \in 1..(n + 1), NEW j \in 1..Len(t)
      PROVE  t[j].id < d[i].id
    <2>1. CASE i = n + 1
        BY <1>1, <2>1 DEF Under
    <2>2. CASE i # n + 1
        <3>1. i \in 1..n /\ d[i] = s[i]
            BY <1>1, <2>2
        <3>2. QED
            BY <1>1, <3>1 DEF Before
    <2>3. QED
        BY <2>1, <2>2
<1>3. QED
    BY <1>1, <1>2 DEF Before

LEMMA WithinAppend ==
    ASSUME NEW s \in Seq(Event), NEW e \in Event, NEW m, Within(s, m), e.id <= m
    PROVE  Within(Append(s, e), m)
<1>0. PICK n \in Nat : n = Len(s)
    BY LenProperties
<1>00. PICK d : d = Append(s, e)
    OBVIOUS
<1>1. /\ d = Append(s, e) /\ n = Len(s) /\ Len(d) = n + 1
      /\ d[n + 1] = e /\ \A i \in 1..n : d[i] = s[i]
    BY <1>0, <1>00, AppendProperties
<1>2. ASSUME NEW i \in 1..(n + 1)
      PROVE  d[i].id <= m
    <2>1. CASE i = n + 1
        BY <1>1, <2>1
    <2>2. CASE i # n + 1
        <3>1. i \in 1..n /\ d[i] = s[i]
            BY <1>1, <2>2
        <3>2. QED
            BY <1>1, <3>1 DEF Within
    <2>3. QED
        BY <2>1, <2>2
<1>3. QED
    BY <1>1, <1>2 DEF Within

\* The first event is one of its sequence; the others keep their order.
LEMMA HeadOf ==
    ASSUME NEW s \in Seq(Event), s # <<>>
    PROVE  /\ Head(s) = s[1] /\ Head(s) \in Event /\ Tail(s) \in Seq(Event)
           /\ Len(s) \in Nat \ {0} /\ 1 \in 1..Len(s)
           /\ Len(Tail(s)) = Len(s) - 1
           /\ \A i \in 1..Len(Tail(s)) : i + 1 \in 1..Len(s) /\ Tail(s)[i] = s[i + 1]
<1>1. Len(s) \in Nat \ {0}
    BY EmptySeq, LenProperties
<1>2. QED
    BY <1>1, HeadTailProperties, ElementOfSeq

LEMMA RisingTail ==
    ASSUME NEW s \in Seq(Event), s # <<>>, Rising(s)
    PROVE  Rising(Tail(s)) /\ Over(Head(s), Tail(s))
<1>0. PICK n \in Nat : n = Len(s) - 1
    BY HeadOf
<1>00. PICK t : t = Tail(s)
    OBVIOUS
<1>1. /\ t = Tail(s) /\ Len(s) = n + 1 /\ Len(t) = n /\ Head(s) = s[1]
      /\ \A i \in 1..n : t[i] = s[i + 1]
    BY <1>0, <1>00, HeadOf
<1>2. ASSUME NEW i \in 1..n, NEW j \in 1..n, i < j
      PROVE  t[i].id < t[j].id
    <2>1. i + 1 \in 1..Len(s) /\ j + 1 \in 1..Len(s) /\ i + 1 < j + 1
        BY <1>1, <1>2
    <2>2. s[i + 1].id < s[j + 1].id
        BY <2>1 DEF Rising
    <2>3. QED
        BY <1>1, <2>2
<1>3. ASSUME NEW j \in 1..n
      PROVE  Head(s).id < t[j].id
    <2>1. 1 \in 1..Len(s) /\ j + 1 \in 1..Len(s) /\ 1 < j + 1
        BY <1>1
    <2>2. s[1].id < s[j + 1].id
        BY <2>1 DEF Rising
    <2>3. QED
        BY <1>1, <2>2
<1>4. QED
    BY <1>1, <1>2, <1>3 DEF Rising, Over

LEMMA BeforeHeadTail ==
    ASSUME NEW s \in Seq(Event), s # <<>>, NEW t \in Seq(Event)
    PROVE  /\ Before(s, t) => Before(Tail(s), t) /\ Over(Head(s), t)
           /\ Before(t, s) => Before(t, Tail(s)) /\ Under(t, Head(s))
BY HeadOf DEF Before, Under, Over

LEMMA WithinHeadTail ==
    ASSUME NEW s \in Seq(Event), s # <<>>, NEW m, Within(s, m)
    PROVE  Within(Tail(s), m) /\ Head(s).id <= m
BY HeadOf DEF Within

\* The oldest event of the ring is kept.
LEMMA KeepOldest ==
    ASSUME NEW k \in Seq(Event), NEW c \in Seq(Event), NEW l \in Seq(Event), NEW n \in Nat,
           InLine(k, c, l, n), c # <<>>
    PROVE  InLine(Append(k, Head(c)), Tail(c), l, n)
<1>1. PICK e \in Event, d \in Seq(Event) : e = Head(c) /\ d = Tail(c)
    BY HeadOf
<1>2. Rising(d) /\ Over(e, d)
    BY <1>1, RisingTail DEF InLine
<1>3. Before(k, d) /\ Under(k, e)
    BY <1>1, BeforeHeadTail DEF InLine
<1>4. Before(d, l) /\ Over(e, l)
    BY <1>1, BeforeHeadTail DEF InLine
<1>5. Within(d, n) /\ e.id <= n
    BY <1>1, WithinHeadTail DEF InLine
<1>6. Rising(Append(k, e)) /\ Before(Append(k, e), d) /\ Before(Append(k, e), l)
    BY <1>2, <1>3, <1>4, RisingAppend, BeforeAppendLeft DEF InLine
<1>7. Within(Append(k, e), n)
    BY <1>5, WithinAppend DEF InLine
<1>8. InLine(Append(k, e), d, l, n)
    BY <1>2, <1>4, <1>5, <1>6, <1>7 DEF InLine
<1>9. QED
    BY <1>1, <1>8

\* The oldest event of the ring is lost.
LEMMA LoseOldest ==
    ASSUME NEW k \in Seq(Event), NEW c \in Seq(Event), NEW l \in Seq(Event), NEW n \in Nat,
           InLine(k, c, l, n), c # <<>>
    PROVE  InLine(k, Tail(c), l, n)
<1>1. Rising(Tail(c)) /\ Within(Tail(c), n)
    BY RisingTail, WithinHeadTail DEF InLine
<1>2. Before(k, Tail(c)) /\ Before(Tail(c), l)
    BY BeforeHeadTail DEF InLine
<1>3. QED
    BY <1>1, <1>2 DEF InLine

\* An event made now goes into the ring, with no list in progress.
LEMMA NewEvent ==
    ASSUME NEW k \in Seq(Event), NEW c \in Seq(Event), NEW n \in Nat,
           InLine(k, c, <<>>, n), NEW e \in Event, e.id = n + 1
    PROVE  InLine(k, Append(c, e), <<>>, n + 1)
<1>1. Within(k, n + 1) /\ Within(c, n + 1) /\ Under(k, e) /\ Under(c, e)
    BY IdsOf DEF InLine, Within, Under
<1>2. Rising(Append(c, e)) /\ Before(k, Append(c, e))
    BY <1>1, RisingAppend, BeforeAppendRight DEF InLine
<1>3. Within(Append(c, e), n + 1)
    BY <1>1, WithinAppend
<1>4. Before(Append(c, e), <<>>) /\ Within(<<>>, n + 1)
    BY DEF Before, Within
<1>5. QED
    BY <1>1, <1>2, <1>3, <1>4 DEF InLine

\* The first event of the list goes into the ring.
LEMMA NextOfList ==
    ASSUME NEW k \in Seq(Event), NEW c \in Seq(Event), NEW l \in Seq(Event), NEW n \in Nat,
           InLine(k, c, l, n), l # <<>>
    PROVE  InLine(k, Append(c, Head(l)), Tail(l), n)
<1>1. PICK e \in Event, d \in Seq(Event) : e = Head(l) /\ d = Tail(l)
    BY HeadOf
<1>2. Rising(d) /\ Over(e, d)
    BY <1>1, RisingTail DEF InLine
<1>3. Before(k, d) /\ Under(k, e) /\ Before(c, d) /\ Under(c, e)
    BY <1>1, BeforeHeadTail DEF InLine
<1>4. Within(d, n) /\ e.id <= n
    BY <1>1, WithinHeadTail DEF InLine
<1>5. Rising(Append(c, e)) /\ Before(k, Append(c, e)) /\ Before(Append(c, e), d)
    BY <1>2, <1>3, RisingAppend, BeforeAppendLeft, BeforeAppendRight DEF InLine
<1>6. Within(Append(c, e), n)
    BY <1>4, WithinAppend DEF InLine
<1>7. InLine(k, Append(c, e), d, n)
    BY <1>2, <1>3, <1>4, <1>5, <1>6 DEF InLine
<1>8. QED
    BY <1>1, <1>7

\* A list of m events is made.
LEMMA NewList ==
    ASSUME NEW k \in Seq(Event), NEW c \in Seq(Event), NEW n \in Nat, NEW m \in Nat,
           InLine(k, c, <<>>, n), NEW l \in Seq(Event), Len(l) = m,
           \A i \in 1..m : l[i].id = n + i
    PROVE  InLine(k, c, l, n + m)
<1>1. /\ \A i \in 1..Len(k) : k[i].id \in Nat
      /\ \A i \in 1..Len(c) : c[i].id \in Nat
    BY IdsOf
<1>2. Rising(l) /\ Within(l, n + m)
    BY DEF Rising, Within
<1>3. Before(k, l) /\ Before(c, l)
    <2>1. Within(k, n) /\ Within(c, n)
        BY DEF InLine
    <2>2. Before(k, l)
        BY <1>1, <2>1 DEF Before, Within
    <2>3. Before(c, l)
        BY <1>1, <2>1 DEF Before, Within
    <2>4. QED
        BY <2>2, <2>3
<1>4. Within(k, n + m) /\ Within(c, n + m)
    BY <1>1 DEF InLine, Within
<1>5. QED
    BY <1>2, <1>3, <1>4 DEF InLine

Kept == file \o Contents(cache)

OrderInv ==
    /\ op = "idle" => todo = <<>>
    /\ overwrite /\ main.pos = 0 => InLine(Kept, Contents(main), todo, made)

(* An event that leaves the ring is appended to what was kept, or lost.     *)
LEMMA KeptGrows ==
    ASSUME RingPart, NEW e \in Event, CacheEvent(e)
    PROVE  Kept' = Kept \/ Kept' = Append(Kept, e)
<1>1. /\ CacheSize \in Nat \ {0} /\ RingInv(CacheSize, cache) /\ file \in Seq(Event)
      /\ Contents(cache) \in Seq(Event)
    BY BufferAssumption, ContentsType DEF RingPart
<1>2. Recorder!LetGo(e)
    BY CacheEventLetsGo
<1>3. CASE UNCHANGED <<Contents(cache), file>>
    BY <1>3 DEF Kept
<1>4. CASE Contents(cache)' = Append(Contents(cache), e) /\ file' = file
    BY <1>1, <1>4 DEF Kept
<1>5. CASE file' = file \o Contents(cache) /\ Contents(cache)' = <<e>>
    <2>1. (file \o Contents(cache)) \o <<e>> = Append(file \o Contents(cache), e)
        BY <1>1
    <2>2. QED
        BY <1>5, <2>1 DEF Kept
<1>6. QED
    BY <1>2, <1>3, <1>4, <1>5 DEF Recorder!LetGo

(* Overwriting the oldest event keeps the line.                             *)
LEMMA OverwriteOldest ==
    ASSUME RingPart, ~IsEmpty(main), CacheEvent(Oldest(main)), NEW l \in Seq(Event), NEW n \in Nat,
           InLine(Kept, Contents(main), l, n)
    PROVE  InLine(Kept', Tail(Contents(main)), l, n)
<1>1. MaxEvents \in Nat \ {0} /\ RingInv(MaxEvents, main)
    BY BufferAssumption DEF RingPart
<1>2. /\ Oldest(main) \in Event /\ Head(Contents(main)) = Oldest(main)
      /\ Contents(main) # <<>> /\ Contents(main) \in Seq(Event)
    BY <1>1, DiscardedDrops, OldestIsHead
<1>3. Kept \in Seq(Event)
    BY ContentsType, BufferAssumption, ConcatProperties DEF RingPart, Kept
<1>4. Kept' = Kept \/ Kept' = Append(Kept, Head(Contents(main)))
    BY <1>2, KeptGrows
<1>5. QED
    BY <1>2, <1>3, <1>4, KeepOldest, LoseOldest

(* What an insertion does to the line, in overwrite mode.                   *)
LEMMA InsertSingleLine ==
    ASSUME RingPart, NEW e \in Event, InsertSingle(e), overwrite, NEW l \in Seq(Event), NEW n \in Nat,
           InLine(Kept, Contents(main), l, n)
    PROVE  /\ main'.pos = main.pos
           /\ \E c \in Seq(Event) : Contents(main') = Append(c, e) /\ InLine(Kept', c, l, n)
<1>1. /\ MaxEvents \in Nat \ {0} /\ RingInv(MaxEvents, main)
      /\ Contents(main) \in Seq(Event)
    BY BufferAssumption, ContentsType DEF RingPart
<1>2. CASE ~IsFull(main) /\ main' = Stored(main, e) /\ UNCHANGED <<cache, file>>
    <2>0. main'.pos = main.pos
        BY <1>1, <1>2 DEF Stored, RingInv, Ring
    <2>1. Contents(main') = Append(Contents(main), e) /\ main'.pos = main.pos
        BY <1>1, <1>2, <2>0, StoredAppends
    <2>2. Contents(cache)' = Contents(cache)
        BY <1>2 DEF Contents, CircularStep
    <2>3. Kept' = Kept
        BY <1>2, <2>2 DEF Kept
    <2>4. QED
        BY <1>1, <2>1, <2>3
<1>3. CASE IsFull(main) /\ CacheEvent(Oldest(main)) /\ main' = Stored(Discarded(main), e)
    <2>1. ~IsEmpty(main) /\ main.fill = MaxEvents
        BY <1>1, <1>3 DEF IsFull, IsEmpty, RingInv, Ring
    <2>2. /\ RingInv(MaxEvents, Discarded(main)) /\ ~IsFull(Discarded(main))
          /\ Contents(Discarded(main)) = Tail(Contents(main))
        BY <1>1, <2>1, DiscardedDrops DEF IsFull, RingInv, Ring
    <2>3. Contents(main') = Append(Tail(Contents(main)), e)
        BY <1>1, <1>3, <2>2, StoredAppends
    <2>4. main'.pos = main.pos
        BY <1>1, <1>3 DEF Stored, Discarded, RingInv, Ring
    <2>5. InLine(Kept', Tail(Contents(main)), l, n)
        BY <1>3, <2>1, OverwriteOldest
    <2>6. Tail(Contents(main)) \in Seq(Event)
        BY <1>1, <2>2, ContentsType
    <2>7. QED
        BY <2>3, <2>4, <2>5, <2>6
<1>4. QED
    BY <1>2, <1>3 DEF InsertSingle

(* Flushing the ring moves its descriptor.                                  *)
LEMMA FlushMoves ==
    ASSUME RingPart, ~IsEmpty(main), FlushMain
    PROVE  main'.pos # 0
<1>1. MaxEvents \in Nat \ {0} /\ RingInv(MaxEvents, main) /\ file \in Seq(Event)
    BY BufferAssumption DEF RingPart
<1>2. FlushSelection(main) = Contents(main) /\ Len(Contents(main)) = main.fill
    BY <1>1, FlushSelectionIsContents, ContentsType
<1>3. main'.pos = Len(file) + Len(FlushSelection(main))
    BY <1>1 DEF FlushMain, FlushedRing, SeekEnd, RingInv, Ring
<1>4. main.fill \in Nat \ {0} /\ Len(file) \in Nat
    BY <1>1, LenProperties DEF IsEmpty, RingInv, Ring
<1>5. QED
    BY <1>2, <1>3, <1>4

LEMMA DiscardLine ==
    ASSUME RingPart, BatchPart, OrderInv, overwrite, ~IsEmpty(main), DiscardOldest
    PROVE  /\ overwrite' = overwrite
           /\ main'.pos = 0 => InLine(Kept', Contents(main'), todo, made)
<1>1. MaxEvents \in Nat \ {0} /\ RingInv(MaxEvents, main)
    BY BufferAssumption DEF RingPart
<1>2. main' = Discarded(main) /\ CacheEvent(Oldest(main))
    BY DEF DiscardOldest
<1>3. /\ Contents(main') = Tail(Contents(main)) /\ main'.pos = main.pos
      /\ Oldest(main) \in Event
    BY <1>1, <1>2, DiscardedDrops DEF Discarded, RingInv, Ring
<1>4. overwrite' = overwrite
    BY <1>2, <1>3, CacheEventKeeps
<1>5. ASSUME main.pos = 0
      PROVE  InLine(Kept', Contents(main'), todo, made)
    BY <1>2, <1>3, <1>5, OverwriteOldest DEF OrderInv, BatchPart
<1>6. QED
    BY <1>3, <1>4, <1>5

(* Every operation keeps the line.                                          *)
LEMMA NextOrder ==
    ASSUME RingPart, BatchPart, OrderInv, [Next]_vars
    PROVE  OrderInv'
<1>0. /\ MaxEvents \in Nat \ {0} /\ RingInv(MaxEvents, main)
      /\ RingInv(CacheSize, cache) /\ CacheSize \in Nat \ {0} /\ file \in Seq(Event)
      /\ main.fill \in 0..MaxEvents /\ main.max = MaxEvents
      /\ Contents(main) \in Seq(Event) /\ Contents(cache) \in Seq(Event)
      /\ Kept \in Seq(Event) /\ todo \in Seq(Event) /\ Len(todo) \in Nat /\ made \in Nat
    BY BufferAssumption, ContentsType, ConcatProperties, LenProperties
       DEF RingPart, BatchPart, RingInv, Ring, Kept
<1>1. CASE Insert
    <2>1. PICK t \in EventType : InsertSingle([id |-> made + 1, type |-> t])
        BY <1>1 DEF Insert
    <2>02. PICK e : e = [id |-> made + 1, type |-> t]
        OBVIOUS
    <2>2. e \in Event /\ e.id = made + 1 /\ InsertSingle(e)
        BY <1>0, <2>1, <2>02 DEF Event
    <2>3. todo = <<>> /\ todo' = <<>> /\ made' = made + 1
        BY <1>1 DEF Insert, OrderInv
    <2>4. CASE overwrite /\ main.pos = 0
        <3>1. PICK c \in Seq(Event) : Contents(main') = Append(c, e) /\ InLine(Kept', c, todo, made)
            BY <1>0, <2>2, <2>4, InsertSingleLine DEF OrderInv
        <3>2. Kept' \in Seq(Event)
            BY <2>2, InsertSingleKeeps, ContentsType, BufferAssumption, ConcatProperties
               DEF RingPart, Kept
        <3>3. InLine(Kept', Append(c, e), <<>>, made + 1)
            BY <1>0, <2>2, <2>3, <3>1, <3>2, NewEvent
        <3>4. QED
            BY <2>3, <3>1, <3>3 DEF OrderInv
    <2>5. CASE ~overwrite
        BY <2>2, <2>3, <2>5 DEF OrderInv, InsertSingle
    <2>6. CASE overwrite /\ main.pos # 0
        <3>1. main'.pos = main.pos
            BY <1>0, <2>2, <2>6 DEF InsertSingle, Stored, Discarded, RingInv, Ring
        <3>2. QED
            BY <2>3, <2>6, <3>1 DEF OrderInv
    <2>7. QED
        BY <2>4, <2>5, <2>6
<1>2. CASE InsertNext
    <2>1. /\ todo # <<>> /\ InsertSingle(Head(todo)) /\ todo' = Tail(todo) /\ made' = made
          /\ Head(todo) \in Event /\ Tail(todo) \in Seq(Event)
        BY <1>0, <1>2, HeadTailProperties DEF InsertNext
    <2>2. op' = "idle" => todo' = <<>>
        <3>1. op' = "idle" => Len(todo) = 1
            BY <1>2 DEF InsertNext
        <3>2. Len(Tail(todo)) = Len(todo) - 1
            BY <1>0, <2>1, HeadTailProperties
        <3>3. QED
            BY <2>1, <3>1, <3>2, EmptySeq
    <2>3. PICK e \in Event : e = Head(todo) /\ InsertSingle(e)
        BY <2>1
    <2>4. CASE overwrite /\ main.pos = 0
        <3>0. InLine(Kept, Contents(main), todo, made)
            BY <2>4 DEF OrderInv
        <3>1. PICK c \in Seq(Event) : Contents(main') = Append(c, e) /\ InLine(Kept', c, todo, made)
            BY <1>0, <2>3, <2>4, <3>0, InsertSingleLine
        <3>2. Kept' \in Seq(Event)
            BY <2>3, InsertSingleKeeps, ContentsType, BufferAssumption, ConcatProperties
               DEF RingPart, Kept
        <3>3. InLine(Kept', Append(c, e), Tail(todo), made)
            BY <1>0, <2>1, <2>3, <3>1, <3>2, NextOfList
        <3>4. QED
            BY <2>1, <2>2, <3>1, <3>3 DEF OrderInv
    <2>5. CASE ~overwrite
        BY <2>2, <2>3, <2>5 DEF OrderInv, InsertSingle
    <2>6. CASE overwrite /\ main.pos # 0
        <3>1. main'.pos = main.pos
            BY <1>0, <2>3, <2>6 DEF InsertSingle, Stored, Discarded, RingInv, Ring
        <3>2. QED
            BY <2>2, <2>6, <3>1 DEF OrderInv
    <2>7. QED
        BY <2>4, <2>5, <2>6
<1>3. CASE BeginInsertMultiple
    <2>1. PICK m \in BatchSizes : \E ts \in [1..m -> EventType] :
              /\ todo' = [i \in 1..m |-> [id |-> made + i, type |-> ts[i]]]
              /\ made' = made + m
        BY <1>3 DEF BeginInsertMultiple
    <2>2. PICK ts \in [1..m -> EventType] :
              todo' = [i \in 1..m |-> [id |-> made + i, type |-> ts[i]]] /\ made' = made + m
        BY <2>1
    <2>3. m \in Nat
        BY BufferAssumption
    <2>4. todo' \in [1..m -> Event] /\ \A i \in 1..m : todo'[i].id = made + i
        BY <1>0, <2>2, <2>3 DEF Event
    <2>5. todo' \in Seq(Event) /\ Len(todo') = m
        BY <2>3, <2>4, SeqDef, LenProperties
    <2>6. /\ op = "idle" /\ op' # "idle" /\ todo = <<>> /\ main' = main /\ overwrite' = overwrite
          /\ cache' = cache /\ file' = file
        BY <1>3 DEF BeginInsertMultiple, OrderInv
    <2>7. Contents(main') = Contents(main) /\ Contents(main)' = Contents(main)
          /\ Contents(cache)' = Contents(cache)
        BY <2>6 DEF Contents, CircularStep
    <2>8. Kept' = Kept
        BY <2>6, <2>7 DEF Kept
    <2>9. InLine(Kept, Contents(main), <<>>, made) => InLine(Kept, Contents(main), todo', made + m)
        BY <1>0, <2>3, <2>4, <2>5, NewList
    <2>10. QED
        BY <2>2, <2>6, <2>7, <2>8, <2>9 DEF OrderInv
<1>4. CASE ReserveCallback
    <2>1. UNCHANGED <<op, todo, made>> /\ op # "idle"
        BY <1>4 DEF ReserveCallback
    <2>2. CASE overwrite
        <3>1. ~IsEmpty(main)
            BY <1>0, <1>4 DEF ReserveCallback, MustMakeRoom, EnoughSpace,
               RemainingEvents, IsEmpty, BatchPart
        <3>2. main'.pos = 0 => InLine(Kept', Contents(main'), todo, made)
            BY <1>4, <2>2, <3>1, DiscardLine DEF ReserveCallback
        <3>3. QED
            BY <2>1, <3>2 DEF OrderInv
    <2>3. CASE ~overwrite
        BY <1>4, <2>1, <2>3 DEF ReserveCallback, FlushMain, OrderInv
    <2>4. QED
        BY <2>2, <2>3
<1>5. CASE ReserveFails
    BY <1>5 DEF ReserveFails, OrderInv
<1>6. CASE UNCHANGED <<overwrite, main, cache, file, todo, made>> /\ (op' # "idle" \/ op' = op)
    <2>1. Contents(main)' = Contents(main) /\ Contents(cache)' = Contents(cache)
        BY <1>6 DEF Contents, CircularStep
    <2>2. Kept' = Kept
        BY <1>6, <2>1 DEF Kept
    <2>3. QED
        BY <1>6, <2>1, <2>2 DEF OrderInv
<1>7. CASE Flush
    <2>1. main'.pos # 0 /\ UNCHANGED <<op, todo>>
        BY <1>7, FlushMoves DEF Flush
    <2>2. QED
        BY <2>1 DEF OrderInv
<1>8. CASE EnterInstrumentation
    <2>0. ~IsEmpty(main) /\ UNCHANGED <<op, todo, made>>
        BY <1>0, <1>8, BufferAssumption DEF EnterInstrumentation, RemainingEvents, IsEmpty
    <2>1. CASE overwrite
        <3>1. main'.pos = 0 => InLine(Kept', Contents(main'), todo, made)
            BY <1>8, <2>0, <2>1, DiscardLine DEF EnterInstrumentation
        <3>2. QED
            BY <2>0, <3>1 DEF OrderInv
    <2>2. CASE ~overwrite
        BY <1>8, <2>0, <2>2 DEF EnterInstrumentation, FlushMain, OrderInv
    <2>3. QED
        BY <2>1, <2>2
<1>9. CASE Close
    <2>1. UNCHANGED <<overwrite, main, op, todo, made>>
        BY <1>9 DEF Close
    <2>2. Kept' = Kept
        <3>1. CASE IsEmpty(cache)
            <4>1. cache' = cache /\ file' = file
                BY <1>9, <3>1 DEF Close
            <4>2. Contents(cache)' = Contents(cache)
                BY <4>1 DEF Contents, CircularStep
            <4>3. QED
                BY <4>1, <4>2 DEF Kept
        <3>2. CASE ~IsEmpty(cache)
            <4>1. cache' = FlushedRing(cache, file) /\ file' = FlushedFile(cache, file)
                BY <1>9, <3>2 DEF Close
            <4>2. Contents(cache') = <<>> /\ file' = file \o Contents(cache)
                BY <1>0, <3>2, <4>1, FlushedRingEmpty, FlushedFileAppends
            <4>3. file' \o Contents(cache') = file'
                BY <1>0, <4>2, ConcatEmptySeq, ConcatProperties
            <4>4. QED
                BY <4>2, <4>3 DEF Kept
        <3>3. QED
            BY <3>1, <3>2
    <2>3. Contents(main)' = Contents(main)
        BY <2>1 DEF Contents, CircularStep
    <2>4. QED
        BY <2>1, <2>2, <2>3 DEF OrderInv
<1>10. CASE ReserveDone
    BY <1>6, <1>10 DEF ReserveDone
<1>11. CASE UNCHANGED vars
    BY <1>6, <1>11 DEF vars
<1>12. QED
    BY <1>1, <1>2, <1>3, <1>4, <1>5, <1>7, <1>8, <1>9, <1>10, <1>11 DEF Next

(* Nothing has been made: the line is empty.                                *)
LEMMA InitOrder == Init => OrderInv
<1> SUFFICES ASSUME Init PROVE OrderInv
    OBVIOUS
<1>1. Contents(main) = <<>> /\ Contents(cache) = <<>> /\ file = <<>> /\ todo = <<>> /\ made = 0
    BY NewRing, BufferAssumption DEF Init
<1>2. Kept = <<>>
    BY <1>1, ConcatEmptySeq DEF Kept
<1>3. InLine(<<>>, <<>>, <<>>, 0)
    BY DEF InLine, Rising, Before, Within
<1>4. QED
    BY <1>1, <1>2, <1>3 DEF OrderInv

(* Events of the cached types that were overwritten reach the file in the   *)
(* order in which they were recorded, for as long as the ring itself has    *)
(* not been flushed.                                                        *)
THEOREM CachedAlwaysInOrder == Spec => []CachedInOrder
<1>1. IndInv /\ OrderInv /\ [Next]_vars => OrderInv'
    BY IndInvHalves, NextOrder
<1>2. IndInv /\ OrderInv => CachedInOrder
    <2> SUFFICES ASSUME IndInv, OrderInv, overwrite, main.pos = 0
                 PROVE  \A i, j \in DOMAIN Kept : i < j => Kept[i].id < Kept[j].id
        BY DEF CachedInOrder, Kept
    <2>1. Kept \in Seq(Event)
        BY IndInvHalves, ContentsType, BufferAssumption, ConcatProperties DEF RingPart, Kept
    <2>2. Rising(Kept)
        BY DEF OrderInv, InLine
    <2>3. QED
        BY <2>1, <2>2, LenProperties DEF Rising
<1>3. QED
    BY <1>1, <1>2, InitOrder, BufferInvariant, PTL DEF Spec
=============================================================================
