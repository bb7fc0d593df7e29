------------------------ MODULE EventRecorderProofs ------------------------
(***************************************************************************)
(* What every recorder of events guarantees, whatever implements it.       *)
(***************************************************************************)
EXTENDS EventRecorder, SequenceTheorems, TLAPS

(* The elements of a sequence grown at its end.                             *)
LEMMA RangeAppend ==
    ASSUME NEW S, NEW s \in Seq(S), NEW e \in S
    PROVE  Range(Append(s, e)) = Range(s) \cup {e}
<1>1. /\ Append(s, e) \in Seq(S) /\ Len(Append(s, e)) = Len(s) + 1 /\ Len(s) \in Nat
      /\ \A i \in 1..Len(s) : Append(s, e)[i] = s[i]
      /\ Append(s, e)[Len(s) + 1] = e
    BY AppendProperties, LenProperties
<1>2. DOMAIN Append(s, e) = 1..(Len(s) + 1) /\ DOMAIN s = 1..Len(s)
    BY <1>1, LenProperties
<1>3. 1..(Len(s) + 1) = 1..Len(s) \cup {Len(s) + 1}
    BY <1>1
<1>4. QED
    BY <1>1, <1>2, <1>3 DEF Range

(* The elements of a sequence are its first one and those of the rest.      *)
LEMMA RangeHeadTail ==
    ASSUME NEW S, NEW s \in Seq(S), s # <<>>
    PROVE  Range(s) = {Head(s)} \cup Range(Tail(s))
<1>1. /\ Tail(s) \in Seq(S) /\ Len(Tail(s)) = Len(s) - 1 /\ Head(s) = s[1]
      /\ Len(s) \in Nat \ {0}
      /\ \A i \in 1..(Len(s) - 1) : Tail(s)[i] = s[i + 1]
    BY HeadTailProperties, LenProperties, EmptySeq
<1>2. DOMAIN s = 1..Len(s) /\ DOMAIN Tail(s) = 1..(Len(s) - 1)
    BY <1>1, LenProperties
<1>3. ASSUME NEW i \in 1..Len(s)
      PROVE  s[i] \in {Head(s)} \cup Range(Tail(s))
    <2>1. CASE i = 1
        BY <1>1, <2>1
    <2>2. CASE i # 1
        <3>1. i - 1 \in 1..(Len(s) - 1) /\ Tail(s)[i - 1] = s[i]
            BY <1>1, <2>2
        <3>2. QED
            BY <1>2, <3>1 DEF Range
    <2>3. QED
        BY <2>1, <2>2
<1>4. ASSUME NEW i \in 1..(Len(s) - 1)
      PROVE  Tail(s)[i] \in Range(s)
    <2>1. i + 1 \in 1..Len(s) /\ Tail(s)[i] = s[i + 1]
        BY <1>1
    <2>2. QED
        BY <1>2, <2>1 DEF Range
<1>5. Head(s) \in Range(s)
    BY <1>1, <1>2 DEF Range
<1>6. QED
    BY <1>2, <1>3, <1>4, <1>5 DEF Range

-----------------------------------------------------------------------------
(* The inductive invariant: types, and no precious event forgotten.         *)
RecorderInv == TypeOK /\ PreciousSurvive /\ NothingLost

\* PreciousSurvive without indices.
LEMMA SurviveRange ==
    TypeOK => (PreciousSurvive <=> Range(accepted) \cap Precious \subseteq Remembered)
BY DEF PreciousSurvive, Range

(* An event let go is still remembered if it is precious.                   *)
LEMMA LetGoRemembers ==
    ASSUME TypeOK, NEW e \in Event, LetGo(e)
    PROVE  /\ kept' \in Seq(Event) /\ disk' \in Seq(Event)
           /\ Range(disk) \cup Range(kept) \subseteq Range(disk') \cup Range(kept')
           /\ e \in Precious => e \in Range(kept')
<1>1. kept \in Seq(Event) /\ disk \in Seq(Event)
    BY DEF TypeOK
<1>2. CASE UNCHANGED <<kept, disk>> /\ e \notin Precious
    BY <1>1, <1>2
<1>3. CASE kept' = Append(kept, e) /\ disk' = disk
    BY <1>1, <1>3, RangeAppend
<1>4. CASE disk' = disk \o kept /\ kept' = <<e>>
    <2>1. <<e>> \in Seq(Event) /\ e \in Range(<<e>>)
        BY DEF Range
    <2>2. Range(disk') = Range(disk) \cup Range(kept) /\ disk' \in Seq(Event)
        BY <1>1, <1>4, RangeConcatenation, ConcatProperties
    <2>3. QED
        BY <1>4, <2>1, <2>2
<1>5. QED
    BY <1>2, <1>3, <1>4 DEF LetGo

(* Accepting an event forgets no precious one.                              *)
LEMMA AcceptKeeps ==
    ASSUME RecorderInv, Accept
    PROVE  RecorderInv'
<1>1. /\ kept \in Seq(Event) /\ disk \in Seq(Event) /\ recent \in Seq(Event)
      /\ accepted \in Seq(Event) /\ lossy \in BOOLEAN
      /\ Range(accepted) \cap Precious \subseteq Remembered
    BY SurviveRange DEF RecorderInv, TypeOK
<1>2. PICK e \in Event : /\ accepted' = Append(accepted, e) /\ lossy' = lossy
                         /\ \/ AcceptWithRoom(e)
                            \/ AcceptByWriting(e)
                            \/ AcceptByForgetting(e)
    BY DEF Accept
<1>3. accepted' \in Seq(Event) /\ Range(accepted') = Range(accepted) \cup {e}
    BY <1>1, <1>2, AppendProperties, RangeAppend
<1>4. SUFFICES /\ kept' \in Seq(Event) /\ disk' \in Seq(Event) /\ recent' \in Seq(Event)
               /\ Range(accepted') \cap Precious \subseteq Remembered'
               /\ NothingLost'
    <2>1. ASSUME TypeOK', Range(accepted') \cap Precious \subseteq Remembered'
          PROVE  PreciousSurvive'
        BY <2>1 DEF PreciousSurvive, Range
    <2>2. QED
        BY <1>1, <1>2, <1>3, <2>1 DEF RecorderInv, TypeOK
<1>5. CASE AcceptWithRoom(e)
    <2>1. /\ recent' = Append(recent, e) /\ kept' = kept /\ disk' = disk
          /\ recent' \in Seq(Event) /\ Range(recent') = Range(recent) \cup {e}
        BY <1>1, <1>5, AppendProperties, RangeAppend DEF AcceptWithRoom
    <2>2. disk \o Append(recent, e) = Append(disk \o recent, e)
        BY <1>1
    <2>3. NothingLost'
        BY <1>2, <2>1, <2>2 DEF RecorderInv, NothingLost
    <2>4. QED
        BY <1>1, <1>3, <2>1, <2>3 DEF Remembered
<1>6. CASE AcceptByWriting(e)
    <2>1. disk' = disk \o recent /\ recent' = <<e>> /\ kept' = kept /\ ~lossy
        BY <1>6 DEF AcceptByWriting
    <2>2. /\ disk' \in Seq(Event) /\ Range(disk') = Range(disk) \cup Range(recent)
        BY <1>1, <2>1, RangeConcatenation, ConcatProperties
    <2>6. <<e>> \in Seq(Event) /\ e \in Range(<<e>>)
        BY DEF Range
    <2>3. disk' = accepted
        BY <2>1 DEF RecorderInv, NothingLost
    <2>4. NothingLost'
        BY <1>1, <1>2, <2>1, <2>3, AppendIsConcat DEF RecorderInv, NothingLost
    <2>5. QED
        BY <1>1, <1>3, <2>1, <2>2, <2>4, <2>6 DEF Remembered
<1>7. CASE AcceptByForgetting(e)
    <2>1. recent # <<>> /\ lossy /\ LetGo(Head(recent)) /\ recent' = Append(Tail(recent), e)
        BY <1>7 DEF AcceptByForgetting
    <2>2. /\ Head(recent) \in Event /\ Tail(recent) \in Seq(Event)
          /\ Range(recent) = {Head(recent)} \cup Range(Tail(recent))
        BY <1>1, <2>1, HeadTailProperties, RangeHeadTail
    <2>3. /\ kept' \in Seq(Event) /\ disk' \in Seq(Event)
          /\ Range(disk) \cup Range(kept) \subseteq Range(disk') \cup Range(kept')
          /\ Head(recent) \in Precious => Head(recent) \in Range(kept')
        BY <2>1, <2>2, LetGoRemembers DEF RecorderInv
    <2>4. recent' \in Seq(Event) /\ Range(recent') = Range(Tail(recent)) \cup {e}
        <3> DEFINE t == Tail(recent)
        <3>1. t \in Seq(Event) /\ recent' = Append(t, e)
            BY <2>1, <2>2
        <3> HIDE DEF t
        <3>2. recent' \in Seq(Event) /\ Range(recent') = Range(t) \cup {e}
            BY <3>1, AppendProperties, RangeAppend
        <3>3. QED
            BY <3>2 DEF t
    <2>5. NothingLost'
        BY <1>2, <2>1 DEF NothingLost
    <2>6. QED
        BY <1>1, <1>3, <2>2, <2>3, <2>4, <2>5 DEF Remembered
<1>8. QED
    BY <1>2, <1>5, <1>6, <1>7

(* Every other step, and a stutter, forgets none either.                    *)
LEMMA NextKeeps == RecorderInv /\ [Next]_rvars => RecorderInv'
<1> SUFFICES ASSUME RecorderInv, [Next]_rvars PROVE RecorderInv'
    OBVIOUS
<1>1. /\ kept \in Seq(Event) /\ disk \in Seq(Event) /\ recent \in Seq(Event)
      /\ accepted \in Seq(Event) /\ lossy \in BOOLEAN
      /\ Range(accepted) \cap Precious \subseteq Remembered
      /\ <<>> \in Seq(Event) /\ Range(<<>>) = {}
    BY SurviveRange, EmptySeq DEF RecorderInv, TypeOK, Range
<1>2. ASSUME accepted' = accepted, lossy' = lossy,
             kept' \in Seq(Event), disk' \in Seq(Event), recent' \in Seq(Event),
             Range(accepted) \cap Precious \subseteq Remembered', NothingLost'
      PROVE  RecorderInv'
    BY <1>1, <1>2 DEF RecorderInv, TypeOK, PreciousSurvive, Range
<1>3. CASE Accept
    BY <1>3, AcceptKeeps
<1>4. CASE WriteOut
    <2>1. /\ disk' = disk \o recent /\ recent' = <<>> /\ kept' = kept
          /\ accepted' = accepted /\ lossy' = lossy
        BY <1>4 DEF WriteOut
    <2>2. disk' \in Seq(Event) /\ Range(disk') = Range(disk) \cup Range(recent)
        BY <1>1, <2>1, RangeConcatenation, ConcatProperties
    <2>3. disk' \o recent' = disk \o recent
        BY <2>1, <2>2, ConcatEmptySeq
    <2>4. NothingLost'
        BY <2>1, <2>3 DEF RecorderInv, NothingLost
    <2>5. Remembered' = Remembered
        BY <1>1, <2>1, <2>2 DEF Remembered
    <2>6. QED
        BY <1>1, <1>2, <2>1, <2>2, <2>4, <2>5
<1>5. CASE Forget
    <2>1. /\ recent # <<>> /\ LetGo(Head(recent)) /\ recent' = Tail(recent)
          /\ accepted' = accepted /\ lossy' = lossy /\ lossy
        BY <1>5 DEF Forget
    <2>2. /\ Head(recent) \in Event /\ Tail(recent) \in Seq(Event)
          /\ Range(recent) = {Head(recent)} \cup Range(Tail(recent))
        BY <1>1, <2>1, HeadTailProperties, RangeHeadTail
    <2>3. /\ kept' \in Seq(Event) /\ disk' \in Seq(Event)
          /\ Range(disk) \cup Range(kept) \subseteq Range(disk') \cup Range(kept')
          /\ Head(recent) \in Precious => Head(recent) \in Range(kept')
        BY <2>1, <2>2, LetGoRemembers DEF RecorderInv
    <2>4. Range(accepted) \cap Precious \subseteq Remembered'
        BY <1>1, <2>1, <2>2, <2>3 DEF Remembered
    <2>5. NothingLost'
        BY <2>1 DEF NothingLost
    <2>6. QED
        BY <1>2, <2>1, <2>2, <2>3, <2>4, <2>5
<1>6. CASE WriteKept
    <2>1. /\ disk' = disk \o kept /\ kept' = <<>> /\ recent' = recent
          /\ accepted' = accepted /\ lossy' = lossy
        BY <1>6 DEF WriteKept
    <2>2. disk' \in Seq(Event) /\ Range(disk') = Range(disk) \cup Range(kept)
        BY <1>1, <2>1, RangeConcatenation, ConcatProperties
    <2>3. Remembered' = Remembered
        BY <1>1, <2>1, <2>2 DEF Remembered
    <2>4. NothingLost'
        <3>1. ~lossy => disk' = disk
            BY <1>1, <2>1, ConcatEmptySeq DEF RecorderInv, NothingLost
        <3>2. QED
            BY <2>1, <3>1 DEF RecorderInv, NothingLost
    <2>5. QED
        BY <1>1, <1>2, <2>1, <2>2, <2>3, <2>4
<1>7. CASE UNCHANGED rvars
    BY <1>1, <1>2, <1>7 DEF rvars, Remembered, RecorderInv, NothingLost
<1>8. QED
    BY <1>3, <1>4, <1>5, <1>6, <1>7 DEF Next

(* A recorder never loses a precious event, and loses none at all unless it *)
(* is lossy.                                                                *)
THEOREM RecorderKeepsPromise == Spec => []RecorderInv
<1>1. Init => RecorderInv
    <2> SUFFICES ASSUME Init PROVE RecorderInv
        OBVIOUS
    <2>1. <<>> \in Seq(Event) /\ DOMAIN <<>> = {} /\ <<>> \o <<>> = <<>>
        BY EmptySeq, ConcatEmptySeq
    <2>2. QED
        BY <2>1 DEF Init, RecorderInv, TypeOK, PreciousSurvive, NothingLost
<1>2. QED
    BY <1>1, NextKeeps, PTL DEF Spec
=============================================================================
