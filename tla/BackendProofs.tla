--------------------------- MODULE BackendProofs ---------------------------
(***************************************************************************)
(* Proofs about Backend, for any number of threads, rings large enough for *)
(* the events of a flush and any number of signals.  What a call pushes on *)
(* the control stack is described by the set its calls belong to, so that  *)
(* a property of every pending call is one of a sequence over a set.       *)
(***************************************************************************)
EXTENDS Backend, SequenceTheorems, FiniteSetTheorems, TLAPS

N == Cardinality(Threads)

LEMMA ThreadsAre == N \in Nat \ {0} /\ Threads = 0..(N - 1) /\ 0 \in Threads
<1>1. N \in Nat
    BY FS_CardinalityType, BackendAssumption DEF N
<1>2. QED
    BY <1>1, BackendAssumption DEF N

-----------------------------------------------------------------------------
(* Sequences over a set                                                     *)

LEMMA One ==
    ASSUME NEW X, NEW c \in X
    PROVE  <<c>> \in Seq(X) /\ Len(<<c>>) = 1 /\ <<c>>[1] = c
OBVIOUS

LEMMA Joined ==
    ASSUME NEW X, NEW s \in Seq(X), NEW u \in Seq(X)
    PROVE  /\ s \o u \in Seq(X) /\ Len(s \o u) = Len(s) + Len(u)
           /\ \A i \in 1..Len(s) : (s \o u)[i] = s[i]
           /\ \A i \in 1..Len(u) : (s \o u)[Len(s) + i] = u[i]
<1>1. s \o u \in Seq(X) /\ Len(s \o u) = Len(s) + Len(u)
      /\ Len(s) \in Nat /\ Len(u) \in Nat
    BY ConcatProperties, LenProperties
<1>2. \A i \in 1..(Len(s) + Len(u)) : (s \o u)[i] = IF i <= Len(s) THEN s[i] ELSE u[i - Len(s)]
    BY ConcatProperties
<1>3. ASSUME NEW i \in 1..Len(s)  PROVE (s \o u)[i] = s[i]
    <2>1. i \in 1..(Len(s) + Len(u)) /\ i <= Len(s)
        BY <1>1
    <2>2. QED
        BY <1>2, <2>1
<1>4. ASSUME NEW i \in 1..Len(u)  PROVE (s \o u)[Len(s) + i] = u[i]
    <2>1. Len(s) + i \in 1..(Len(s) + Len(u)) /\ ~(Len(s) + i <= Len(s)) /\ Len(s) + i - Len(s) = i
        BY <1>1
    <2>2. QED
        BY <1>2, <2>1
<1>5. QED
    BY <1>1, <1>3, <1>4

LEMMA Rest ==
    ASSUME NEW X, NEW s \in Seq(X), s # <<>>
    PROVE  /\ Tail(s) \in Seq(X) /\ Head(s) = s[1] /\ Head(s) \in X
           /\ Len(s) \in Nat \ {0} /\ 1 \in 1..Len(s) /\ Len(Tail(s)) = Len(s) - 1
           /\ \A i \in 1..Len(Tail(s)) : i + 1 \in 1..Len(s) /\ Tail(s)[i] = s[i + 1]
<1>1. Len(s) \in Nat \ {0}
    BY EmptySeq, LenProperties
<1>2. QED
    BY <1>1, HeadTailProperties, ElementOfSeq

\* A sequence whose elements are in a smaller set is over that set.
LEMMA Narrow ==
    ASSUME NEW X, NEW Y, NEW s \in Seq(X), \A i \in 1..Len(s) : s[i] \in Y
    PROVE  s \in Seq(Y)
BY ElementOfSeq, LenProperties, SeqDef

-----------------------------------------------------------------------------
(* What is pushed                                                           *)

LEMMA InsertPushed ==
    ASSUME NEW X, NEW t, NEW e,
           Call("Signals_Inhibit", t) \in X, InsertSingle(t, e) \in X,
           Call("Signals_Desinhibit", t) \in X, Call("Signals_ExecuteDeferred", t) \in X
    PROVE  BUFFER_INSERT(t, e) \in Seq(X)
BY DEF BUFFER_INSERT

LEMMA FlushPushed ==
    ASSUME NEW X, NEW t, BUFFER_INSERT(t, "flush") \in Seq(X),
           Extrae_AnnotateTopology \in Seq(X),
           Call("Buffer_Flush", t) \in X, Call("CheckFileSize", t) \in X
    PROVE  Extrae_Flush_Wrapper(t) \in Seq(X)
<1> DEFINE a == <<Call("Buffer_Flush", t)>> \o BUFFER_INSERT(t, "flush")
           b == a \o Extrae_AnnotateTopology
           c == b \o BUFFER_INSERT(t, "flush")
           d == c \o Extrae_AnnotateTopology
<1>1. a \in Seq(X)
    BY One, Joined
<1>2. b \in Seq(X)
    BY <1>1, Joined
<1>3. c \in Seq(X)
    BY <1>2, Joined
<1>4. d \in Seq(X)
    BY <1>3, Joined
<1>5. d \o <<Call("CheckFileSize", t)>> \in Seq(X)
    BY <1>4, One, Joined
<1>6. QED
    BY <1>5 DEF Extrae_Flush_Wrapper

LEMMA FinishPushed ==
    ASSUME NEW X, NEW t, BUFFER_INSERT(me, "end") \in Seq(X),
           Call("FlushCallback", t) \in X, Call("close_mpits", t) \in X
    PROVE  Finish(t) \in Seq(X)
<1>1. <<Call("FlushCallback", t), Call("close_mpits", t)>> \in Seq(X)
    OBVIOUS
<1>2. QED
    BY <1>1, Joined DEF Finish

LEMMA TurnsPushed ==
    ASSUME NEW X, NEW name, \A t \in Threads : Call(name, t) \in X
    PROVE  InThreadOrder(name) \in Seq(X)
<1>1. InThreadOrder(name) = [i \in 1..N |-> Call(name, i - 1)]
    BY DEF InThreadOrder, N
<1>2. \A i \in 1..N : i - 1 \in Threads
    BY ThreadsAre
<1>3. [i \in 1..N |-> Call(name, i - 1)] \in [1..N -> X]
    BY <1>2
<1>4. QED
    BY <1>1, <1>3, ThreadsAre, SeqDef

\* The first part of Backend_Finalize, up to the release of the buffers.
Turns == (Extrae_AnnotateTopology \o InThreadOrder("FlushIfAny")) \o InThreadOrder("FinishIfAny")
Ending == <<Call("Free", 0), Call("TurnOff", 0), Call("FinalizeEnds", 0)>>

LEMMA FinalizePushed == FinalizeCalls = Turns \o Ending
BY DEF FinalizeCalls, Turns, Ending

LEMMA TurnsOver ==
    ASSUME NEW X, Extrae_AnnotateTopology \in Seq(X),
           \A t \in Threads : Call("FlushIfAny", t) \in X /\ Call("FinishIfAny", t) \in X
    PROVE  Turns \in Seq(X)
<1>1. InThreadOrder("FlushIfAny") \in Seq(X) /\ InThreadOrder("FinishIfAny") \in Seq(X)
    BY TurnsPushed
<1>2. Extrae_AnnotateTopology \o InThreadOrder("FlushIfAny") \in Seq(X)
    BY <1>1, Joined
<1>3. QED
    BY <1>1, <1>2, Joined DEF Turns

-----------------------------------------------------------------------------
(* The calls of FinalizeEnds pending are the Backend_Finalize calls begun   *)
(* and not ended.                                                           *)

Unit(c) == IF c.do = "FinalizeEnds" THEN 1 ELSE 0

\* f counts the FinalizeEnds of s from each position on.
Counts(s, n, f) ==
    /\ f \in [1..(Len(s) + 1) -> Nat] /\ f[1] = n /\ f[Len(s) + 1] = 0
    /\ \A i \in 1..Len(s) : f[i] = f[i + 1] + Unit(s[i])
Ends(s, n) == \E f : Counts(s, n, f)

NoEnd == {c \in Calls : c.do # "FinalizeEnds"}

LEMMA EndsNone == Ends(<<>>, 0)
<1>1. Counts(<<>>, 0, [i \in 1..1 |-> 0])
    BY DEF Counts
<1>2. QED
    BY <1>1 DEF Ends

LEMMA EndsJoined ==
    ASSUME NEW a \in Seq(NoEnd), NEW s \in Seq(Calls), NEW n, Ends(s, n)
    PROVE  Ends(a \o s, n)
<1>1. PICK f : Counts(s, n, f)
    BY DEF Ends
<1>2. PICK k \in Nat : k = Len(a)
    BY LenProperties
<1>3. PICK l \in Nat : l = Len(s)
    BY LenProperties
<1>4. a \in Seq(Calls)
    BY Narrow, ElementOfSeq DEF NoEnd
<1>5. PICK u : u = a \o s
    OBVIOUS
<1>6. /\ Len(u) = k + l /\ \A i \in 1..k : u[i] = a[i]
      /\ \A i \in 1..l : u[k + i] = s[i]
    BY <1>2, <1>3, <1>4, <1>5, Joined
<1> DEFINE g == [i \in 1..(k + l + 1) |-> IF i <= k THEN n ELSE f[i - k]]
<1>7. n \in Nat /\ f \in [1..(l + 1) -> Nat] /\ f[1] = n /\ f[l + 1] = 0
    BY <1>1, <1>3 DEF Counts
<1>8. g \in [1..(k + l + 1) -> Nat]
    <2>1. ASSUME NEW i \in 1..(k + l + 1)  PROVE g[i] \in Nat
        <3>1. CASE i <= k
            BY <1>7, <3>1
        <3>2. CASE ~(i <= k)
            <4>1. i - k \in 1..(l + 1)
                BY <3>2
            <4>2. QED
                BY <1>7, <3>2, <4>1
        <3>3. QED
            BY <3>1, <3>2
    <2>2. QED
        BY <2>1
<1>9. g[1] = n /\ g[k + l + 1] = 0
    <2>1. g[1] = n
        BY <1>7
    <2>2. k + l + 1 - k = l + 1 /\ ~(k + l + 1 <= k) /\ k + l + 1 \in 1..(k + l + 1)
        OBVIOUS
    <2>3. QED
        BY <1>7, <2>1, <2>2
<1>10. ASSUME NEW i \in 1..(k + l)  PROVE g[i] = g[i + 1] + Unit(u[i])
    <2>1. i \in 1..(k + l + 1) /\ i + 1 \in 1..(k + l + 1)
        OBVIOUS
    <2>2. CASE i <= k
        <3>1. Unit(u[i]) = 0
            <4>1. i \in 1..Len(a)
                BY <1>2, <2>2
            <4>2. a[i] \in NoEnd
                BY <4>1, ElementOfSeq
            <4>3. QED
                BY <1>2, <1>6, <4>1, <4>2 DEF Unit, NoEnd
        <3>2. g[i] = n
            BY <2>1, <2>2
        <3>3. g[i + 1] = n
            <4>1. CASE i + 1 <= k
                BY <2>1, <4>1
            <4>2. CASE i = k
                <5>1. ~(i + 1 <= k) /\ i + 1 - k = 1
                    BY <4>2
                <5>2. QED
                    BY <1>7, <2>1, <5>1
            <4>3. QED
                BY <2>2, <4>1, <4>2
        <3>4. QED
            BY <1>7, <3>1, <3>2, <3>3
    <2>3. CASE ~(i <= k)
        <3>1. PICK j \in 1..l : i = k + j
            <4>1. i - k \in 1..l /\ i = k + (i - k)
                BY <2>3
            <4>2. QED
                BY <4>1
        <3>2. u[i] = s[j]
            BY <1>6, <3>1
        <3>3. g[i] = f[j] /\ g[i + 1] = f[j + 1]
            <4>1. ~(k + j <= k) /\ ~(k + j + 1 <= k) /\ k + j - k = j /\ k + j + 1 - k = j + 1
                OBVIOUS
            <4>2. QED
                BY <2>1, <3>1, <4>1
        <3>4. f[j] = f[j + 1] + Unit(s[j])
            BY <1>1, <1>3 DEF Counts
        <3>5. QED
            BY <3>2, <3>3, <3>4
    <2>4. QED
        BY <2>2, <2>3
<1> HIDE DEF g
<1>11. Counts(u, n, g)
    BY <1>6, <1>8, <1>9, <1>10 DEF Counts
<1>12. QED
    BY <1>5, <1>11 DEF Ends

LEMMA EndsOne ==
    ASSUME NEW s \in Seq(Calls), NEW n \in Nat, Ends(s, n), NEW c \in Calls, c.do = "FinalizeEnds"
    PROVE  Ends(<<c>> \o s, n + 1)
<1>1. PICK f : Counts(s, n, f)
    BY DEF Ends
<1>2. PICK l \in Nat : l = Len(s)
    BY LenProperties
<1>3. PICK u : u = <<c>> \o s
    OBVIOUS
<1>4. Len(u) = l + 1 /\ u[1] = c /\ \A i \in 1..l : u[1 + i] = s[i]
    BY <1>2, <1>3, One, Joined
<1> DEFINE g == [i \in 1..(l + 2) |-> IF i = 1 THEN n + 1 ELSE f[i - 1]]
<1>5. f \in [1..(l + 1) -> Nat] /\ f[1] = n /\ f[l + 1] = 0
    BY <1>1, <1>2 DEF Counts
<1>6. g \in [1..(l + 2) -> Nat]
    BY <1>5
<1>7. g[1] = n + 1 /\ g[l + 2] = 0
    BY <1>5
<1>8. ASSUME NEW i \in 1..(l + 1)  PROVE g[i] = g[i + 1] + Unit(u[i])
    <2>1. CASE i = 1
        <3>1. g[2] = n /\ Unit(u[1]) = 1
            BY <1>4, <1>5 DEF Unit
        <3>2. QED
            BY <1>7, <2>1, <3>1
    <2>2. CASE i # 1
        <3>1. PICK j \in 1..l : i = 1 + j
            <4>1. i - 1 \in 1..l /\ i = 1 + (i - 1)
                BY <2>2
            <4>2. QED
                BY <4>1
        <3>2. u[i] = s[j]
            BY <1>4, <3>1
        <3>3. g[i] = f[j] /\ g[i + 1] = f[j + 1]
            BY <3>1
        <3>4. f[j] = f[j + 1] + Unit(s[j])
            BY <1>1, <1>2 DEF Counts
        <3>5. QED
            BY <3>2, <3>3, <3>4
    <2>3. QED
        BY <2>1, <2>2
<1>9. Len(u) + 1 = l + 2
    BY <1>4
<1> HIDE DEF g
<1>10. Counts(u, n + 1, g)
    BY <1>4, <1>6, <1>7, <1>8, <1>9 DEF Counts
<1>11. QED
    BY <1>3, <1>10 DEF Ends

LEMMA EndsRest ==
    ASSUME NEW s \in Seq(Calls), NEW n, Ends(s, n), s # <<>>
    PROVE  /\ Head(s).do # "FinalizeEnds" => Ends(Tail(s), n)
           /\ Head(s).do = "FinalizeEnds" => n - 1 \in Nat /\ Ends(Tail(s), n - 1)
<1>1. PICK f : Counts(s, n, f)
    BY DEF Ends
<1>2. PICK l \in Nat : l = Len(s) - 1
    BY Rest
<1>3. PICK u : u = Tail(s)
    OBVIOUS
<1>4. Len(s) = l + 1 /\ Len(u) = l /\ Head(s) = s[1] /\ \A i \in 1..l : u[i] = s[i + 1]
    BY <1>2, <1>3, Rest
<1> DEFINE g == [i \in 1..(l + 1) |-> f[i + 1]]
<1>5. f \in [1..(l + 2) -> Nat] /\ f[1] = n /\ f[l + 2] = 0
      /\ \A i \in 1..(l + 1) : f[i] = f[i + 1] + Unit(s[i])
    <2>1. Len(s) + 1 = l + 2
        BY <1>4
    <2>2. QED
        BY <1>1, <1>4, <2>1 DEF Counts
<1>6. g \in [1..(l + 1) -> Nat] /\ g[l + 1] = 0
    BY <1>5
<1>7. ASSUME NEW i \in 1..l  PROVE g[i] = g[i + 1] + Unit(u[i])
    <2>1. i + 1 \in 1..(l + 1) /\ i \in 1..(l + 1) /\ (i + 1) + 1 = i + 2
        OBVIOUS
    <2>2. f[i + 1] = f[(i + 1) + 1] + Unit(s[i + 1])
        BY <1>5, <2>1
    <2>3. QED
        BY <1>4, <2>1, <2>2
<1>8. g[1] = f[2] /\ f[1] = f[2] + Unit(s[1]) /\ f[2] \in Nat
    BY <1>5
<1> HIDE DEF g
<1>9. Counts(u, f[2], g)
    BY <1>4, <1>6, <1>7, <1>8 DEF Counts
<1>10. Ends(u, f[2])
    BY <1>9 DEF Ends
<1>11. CASE Head(s).do # "FinalizeEnds"
    <2>1. f[2] = n
        BY <1>4, <1>5, <1>8, <1>11 DEF Unit
    <2>2. QED
        BY <1>3, <1>10, <1>11, <2>1
<1>12. CASE Head(s).do = "FinalizeEnds"
    <2>1. f[2] = n - 1
        BY <1>4, <1>5, <1>8, <1>12 DEF Unit
    <2>2. QED
        BY <1>3, <1>8, <1>10, <1>12, <2>1
<1>13. QED
    BY <1>11, <1>12
-----------------------------------------------------------------------------
(* Every variable keeps its type.                                           *)

Plain == {"Enter", "Signals_Inhibit", "Signals_Desinhibit", "Signals_ExecuteDeferred",
          "FlushCallback", "Buffer_Flush", "CheckFileSize", "close_mpits", "Buffer_Free",
          "Backend_Finalize", "FlushIfAny", "FinishIfAny", "Free", "TurnOff",
          "SetNotInitialized", "SigHandler", "SignalReturns"}

LEMMA CallTyped ==
    /\ \A t \in Threads : \A name \in Plain : Call(name, t) \in NoEnd
    /\ \A t \in Threads : \A e \in Kinds : InsertSingle(t, e) \in NoEnd /\ Store(t, e) \in NoEnd
    /\ \A t \in Threads : Call("FinalizeEnds", t) \in Calls
BY DEF Call, InsertSingle, Store, NoEnd, Calls, Plain

LEMMA NoEndCalls == \A s \in Seq(NoEnd) : s \in Seq(Calls)
<1>1. NoEnd \subseteq Calls
    BY DEF NoEnd
<1>2. ASSUME NEW s \in Seq(NoEnd)  PROVE s \in Seq(Calls)
    BY <1>1, Narrow, ElementOfSeq
<1>3. QED
    BY <1>2

StackTyped == stack \in Seq(Calls) /\ Ends(stack, finalizing)

VarsTyped ==
    /\ options \in Options /\ me \in Threads
    /\ ring \in [Threads -> Seq(Kinds)] /\ file \in [Threads -> Seq(Kinds)]
    /\ owed \in [Threads -> Nat]
    /\ open \in [Threads -> BOOLEAN] /\ live \in [Threads -> BOOLEAN]
    /\ table \in {"live", "freed"}
    /\ {mpitrace_on, initialized, inhibited, deferred, blocked, crashed} \subseteq BOOLEAN
    /\ probes \in [Threads -> Nat]
    /\ signals \in 0..options.signals /\ {finalizing, finalized, handled} \subseteq Nat

LEMMA Halves == TypeOK <=> stack \in Seq(Calls) /\ VarsTyped
BY DEF TypeOK, VarsTyped

\* The call on top.
LEMMA OnTop ==
    ASSUME stack \in Seq(Calls), NEW name, Executes(name)
    PROVE  /\ stack # <<>> /\ ~crashed /\ Head(stack) \in Calls /\ Head(stack).do = name
           /\ Top \in Threads
           /\ name \in {"InsertSingle", "Store"} => Head(stack).ev \in Kinds
<1>1. stack # <<>> /\ ~crashed /\ Head(stack) \in Calls /\ Head(stack).do = name
    BY Rest DEF Executes
<1>2. QED
    BY <1>1 DEF Calls, Top

LEMMA AnnotatePushed ==
    ASSUME NEW X, BUFFER_INSERT(me, "cpu") \in Seq(X)
    PROVE  Extrae_AnnotateTopology \in Seq(X)
BY DEF Extrae_AnnotateTopology

LEMMA InsertTyped ==
    ASSUME NEW t \in Threads, NEW e \in Kinds
    PROVE  BUFFER_INSERT(t, e) \in Seq(NoEnd)
BY CallTyped, InsertPushed DEF Plain

LEMMA FlushTyped ==
    ASSUME me \in Threads, NEW t \in Threads
    PROVE  Extrae_Flush_Wrapper(t) \in Seq(NoEnd)
<1>1. BUFFER_INSERT(t, "flush") \in Seq(NoEnd) /\ BUFFER_INSERT(me, "cpu") \in Seq(NoEnd)
    BY InsertTyped DEF Kinds
<1>2. Call("Buffer_Flush", t) \in NoEnd /\ Call("CheckFileSize", t) \in NoEnd
    BY CallTyped DEF Plain
<1>3. QED
    BY <1>1, <1>2, AnnotatePushed, FlushPushed

\* A step that puts calls in the place of the one on top.
LEMMA ReturnTyped ==
    ASSUME StackTyped, NEW name, Executes(name), name # "FinalizeEnds",
           NEW calls \in Seq(NoEnd), Return(calls), finalizing' = finalizing
    PROVE  StackTyped'
<1>1. stack \in Seq(Calls) /\ stack # <<>> /\ Head(stack).do = name
    BY OnTop DEF StackTyped
<1>2. Tail(stack) \in Seq(Calls) /\ Ends(Tail(stack), finalizing)
    BY <1>1, Rest, EndsRest DEF StackTyped
<1>3. calls \in Seq(Calls)
    BY NoEndCalls
<1>4. stack' \in Seq(Calls) /\ Ends(stack', finalizing)
    BY <1>2, <1>3, Joined, EndsJoined DEF Return
<1>5. QED
    BY <1>4 DEF StackTyped

LEMMA NonePushed == ASSUME NEW X PROVE <<>> \in Seq(X)
OBVIOUS

\* A call from outside, with nothing pending or on top of what is.
LEMMA BeginTyped ==
    ASSUME StackTyped, NEW calls \in Seq(NoEnd), stack' = calls \o stack, finalizing' = finalizing
    PROVE  StackTyped'
<1>1. calls \in Seq(Calls)
    BY NoEndCalls
<1>2. stack' \in Seq(Calls) /\ Ends(stack', finalizing)
    BY <1>1, Joined, EndsJoined DEF StackTyped
<1>3. QED
    BY <1>2 DEF StackTyped

LEMMA IdleTyped ==
    ASSUME StackTyped, Idle, NEW calls \in Seq(NoEnd), stack' = calls, finalizing' = finalizing
    PROVE  StackTyped'
<1>1. calls \o stack = calls
    BY ConcatEmptySeq DEF Idle
<1>2. QED
    BY <1>1, BeginTyped

LEMMA StackStays == ASSUME StackTyped, UNCHANGED <<stack, finalizing>> PROVE StackTyped'
BY DEF StackTyped

\* The steps that change no more than the stack and the flags.
LEMMA BeginsTyped ==
    ASSUME StackTyped, VarsTyped,
           Probe \/ ThreadEnds \/ Extrae_fini \/ ProgramExits \/ Signal
    PROVE  StackTyped' /\ VarsTyped'
<1>1. CASE Probe
    <2>1. PICK t \in Threads : me' = t /\ stack' = <<Call("Enter", t)>> \o BUFFER_INSERT(t, "user")
        BY <1>1 DEF Probe
    <2>2. BUFFER_INSERT(t, "user") \in Seq(NoEnd) /\ Call("Enter", t) \in NoEnd
        BY InsertTyped, CallTyped DEF Kinds, Plain
    <2>3. stack' \in Seq(NoEnd)
        BY <2>1, <2>2, One, Joined
    <2>4. StackTyped'
        BY <1>1, <2>3, IdleTyped DEF Probe, history
    <2>5. VarsTyped'
        BY <1>1, <2>1 DEF Probe, VarsTyped, buffers, signalling, history
    <2>6. QED
        BY <2>4, <2>5
<1>2. CASE ThreadEnds
    <2>1. PICK t \in Threads : me' = t /\ stack' = FlushThread(t)
        BY <1>2 DEF ThreadEnds
    <2>2. /\ Call("Buffer_Flush", t) \in NoEnd /\ Call("close_mpits", t) \in NoEnd
          /\ Call("Buffer_Free", t) \in NoEnd
        BY CallTyped DEF Plain
    <2>3. stack' \in Seq(NoEnd)
        BY <2>1, <2>2 DEF FlushThread
    <2>4. StackTyped'
        BY <1>2, <2>3, IdleTyped DEF ThreadEnds, history
    <2>5. VarsTyped'
        BY <1>2, <2>1 DEF ThreadEnds, VarsTyped, buffers, signalling, history
    <2>6. QED
        BY <2>4, <2>5
<1>3. CASE Extrae_fini \/ ProgramExits
    <2>1. Call("Backend_Finalize", 0) \in NoEnd /\ Call("SetNotInitialized", 0) \in NoEnd
        BY CallTyped, ThreadsAre DEF Plain
    <2>2. stack' \in Seq(NoEnd)
        <3>1. /\ <<Call("Backend_Finalize", 0)>> \in Seq(NoEnd)
              /\ <<Call("Backend_Finalize", 0), Call("SetNotInitialized", 0)>> \in Seq(NoEnd)
            BY <2>1
        <3>2. \/ stack' = <<Call("Backend_Finalize", 0)>>
              \/ stack' = <<Call("Backend_Finalize", 0), Call("SetNotInitialized", 0)>>
            BY <1>3 DEF Extrae_fini, ProgramExits
        <3>3. QED
            BY <3>1, <3>2
    <2>3. StackTyped'
        BY <1>3, <2>2, IdleTyped DEF Extrae_fini, ProgramExits, history
    <2>4. VarsTyped'
        BY <1>3, ThreadsAre DEF Extrae_fini, ProgramExits, VarsTyped, buffers, signalling, history
    <2>5. QED
        BY <2>3, <2>4
<1>4. CASE Signal
    <2>1. Call("SigHandler", 0) \in NoEnd /\ Call("SignalReturns", 0) \in NoEnd
        BY CallTyped, ThreadsAre DEF Plain
    <2>2. <<Call("SigHandler", 0), Call("SignalReturns", 0)>> \in Seq(NoEnd)
        BY <2>1
    <2>3. StackTyped'
        BY <1>4, <2>2, BeginTyped DEF Signal, history
    <2>4. signals' \in 0..options'.signals
        <3>1. options.signals \in Nat
            BY BackendAssumption DEF VarsTyped
        <3>2. QED
            BY <1>4, <3>1 DEF Signal, VarsTyped
    <2>5. me' \in Threads
        BY <1>4, ThreadsAre DEF Signal, VarsTyped
    <2>6. VarsTyped'
        BY <1>4, <2>4, <2>5 DEF Signal, VarsTyped, buffers, history
    <2>7. QED
        BY <2>3, <2>6
<1>5. QED
    BY <1>1, <1>2, <1>3, <1>4

LEMMA FlagsTyped ==
    ASSUME StackTyped, VarsTyped,
           \/ Inhibit \/ Desinhibit \/ ExecuteDeferred \/ SigHandler_FlushAndTerminate
           \/ SignalReturns \/ TurnOff \/ SetNotInitialized
    PROVE  StackTyped' /\ VarsTyped'
<1>0. /\ Call("SigHandler", 0) \in NoEnd /\ Call("Backend_Finalize", 0) \in NoEnd
      /\ Call("TurnOff", 0) \in NoEnd
    BY CallTyped, ThreadsAre DEF Plain
<1>1. PICK name : Executes(name) /\ name # "FinalizeEnds"
    BY DEF Inhibit, Desinhibit, ExecuteDeferred, SigHandler_FlushAndTerminate, SignalReturns,
       TurnOff, SetNotInitialized
<1>2. PICK calls \in Seq(NoEnd) : Return(calls)
    <2>1. /\ <<>> \in Seq(NoEnd) /\ <<Call("SigHandler", 0)>> \in Seq(NoEnd)
          /\ <<Call("Backend_Finalize", 0), Call("TurnOff", 0)>> \in Seq(NoEnd)
        BY <1>0
    <2>2. \/ Return(<<>>) \/ Return(<<Call("SigHandler", 0)>>)
          \/ Return(<<Call("Backend_Finalize", 0), Call("TurnOff", 0)>>)
        BY DEF Inhibit, Desinhibit, ExecuteDeferred, SigHandler_FlushAndTerminate, SignalReturns,
           TurnOff, SetNotInitialized
    <2>3. QED
        BY <2>1, <2>2
<1>3. finalizing' = finalizing
    BY DEF Inhibit, Desinhibit, ExecuteDeferred, SigHandler_FlushAndTerminate, SignalReturns,
       TurnOff, SetNotInitialized, history
<1>4. StackTyped'
    BY <1>1, <1>2, <1>3, ReturnTyped
<1>5. CASE Inhibit \/ Desinhibit \/ SignalReturns
    BY <1>4, <1>5 DEF Inhibit, Desinhibit, SignalReturns, VarsTyped, buffers, control, history
<1>6. CASE ExecuteDeferred
    <2>1. crashed' \in BOOLEAN
        BY <1>6 DEF ExecuteDeferred
    <2>2. QED
        BY <1>4, <1>6, <2>1 DEF ExecuteDeferred, VarsTyped, buffers, control, signalling, history
<1>7. CASE SigHandler_FlushAndTerminate
    <2>1. handled' \in Nat /\ deferred' \in BOOLEAN
        <3>1. handled \in Nat /\ deferred \in BOOLEAN
            BY DEF VarsTyped
        <3>2. (deferred' = TRUE \/ deferred' = deferred) /\ (handled' = handled \/ handled' = handled + 1)
            BY <1>7 DEF SigHandler_FlushAndTerminate
        <3>3. handled' \in Nat
            BY <3>1, <3>2
        <3>4. deferred' \in BOOLEAN
            BY <3>1, <3>2, Zenon
        <3>5. QED
            BY <3>3, <3>4
    <2>2. QED
        BY <1>4, <1>7, <2>1 DEF SigHandler_FlushAndTerminate, VarsTyped, buffers, control
<1>8. CASE TurnOff \/ SetNotInitialized
    BY <1>4, <1>8 DEF TurnOff, SetNotInitialized, VarsTyped, buffers, signalling, history
<1>9. QED
    BY <1>5, <1>6, <1>7, <1>8

LEMMA BuffersTyped ==
    ASSUME StackTyped, VarsTyped,
           \/ Enter \/ Buffer_InsertSingle \/ FlushCallback \/ CheckFileSize \/ FlushIfAny
           \/ FinishIfAny
    PROVE  StackTyped' /\ VarsTyped'
<1>0. stack \in Seq(Calls) /\ me \in Threads
    BY DEF StackTyped, VarsTyped
<1>1. PICK name : Executes(name) /\ name # "FinalizeEnds"
    BY DEF Enter, Buffer_InsertSingle, FlushCallback, CheckFileSize, FlushIfAny, FinishIfAny
<1>2. Top \in Threads
    BY <1>0, <1>1, OnTop
<1>3. /\ Call("FlushCallback", Top) \in NoEnd /\ Call("close_mpits", me) \in NoEnd
      /\ Call("TurnOff", 0) \in NoEnd /\ Call("close_mpits", Top) \in NoEnd
    BY <1>0, <1>2, CallTyped, ThreadsAre DEF Plain
<1>4. PICK calls \in Seq(NoEnd) : Return(calls)
    <2>1. CASE Enter
        <3>1. <<Call("FlushCallback", Top)>> \in Seq(NoEnd) /\ <<>> \in Seq(NoEnd)
            BY <1>3
        <3>2. QED
            BY <2>1, <3>1 DEF Enter
    <2>2. CASE Buffer_InsertSingle
        <3>1. <<Call("FlushCallback", Top)>> \in Seq(NoEnd) /\ <<>> \in Seq(NoEnd)
            BY <1>3
        <3>2. Store(Top, Head(stack).ev) \in NoEnd
            BY <1>0, <1>2, <2>2, CallTyped, OnTop DEF Buffer_InsertSingle
        <3>3. <<Store(Top, Head(stack).ev)>> \in Seq(NoEnd)
            BY <3>2
        <3>4. ((IF Len(ring[Top]) - owed[Top] = MaxEvents
                   THEN <<Call("FlushCallback", Top)>> ELSE <<>>)
                  \o <<Store(Top, Head(stack).ev)>>) \in Seq(NoEnd)
            BY <3>1, <3>3, Joined
        <3>5. QED
            BY <2>2, <3>4 DEF Buffer_InsertSingle
    <2>3. CASE FlushCallback
        <3>1. Extrae_Flush_Wrapper(Top) \in Seq(NoEnd) /\ <<>> \in Seq(NoEnd)
            BY <1>0, <1>2, FlushTyped
        <3>2. QED
            BY <2>3, <3>1 DEF FlushCallback
    <2>4. CASE CheckFileSize
        <3>1. <<Call("close_mpits", me), Call("TurnOff", 0)>> \in Seq(NoEnd) /\ <<>> \in Seq(NoEnd)
            BY <1>3
        <3>2. QED
            BY <2>4, <3>1 DEF CheckFileSize
    <2>5. CASE FlushIfAny
        <3>1. <<Call("FlushCallback", Top)>> \in Seq(NoEnd) /\ <<>> \in Seq(NoEnd)
            BY <1>3
        <3>2. QED
            BY <2>5, <3>1 DEF FlushIfAny
    <2>6. CASE FinishIfAny
        <3>1. BUFFER_INSERT(me, "end") \in Seq(NoEnd)
            BY <1>0, InsertTyped DEF Kinds
        <3>2. Finish(Top) \in Seq(NoEnd) /\ <<>> \in Seq(NoEnd)
            BY <1>3, <3>1, FinishPushed
        <3>3. QED
            BY <2>6, <3>2 DEF FinishIfAny
    <2>7. QED
        BY <2>1, <2>2, <2>3, <2>4, <2>5, <2>6
<1>5. UNCHANGED <<buffers, control, signalling, history, crashed>>
    BY DEF Enter, Buffer_InsertSingle, FlushCallback, CheckFileSize, FlushIfAny, FinishIfAny
<1>6. StackTyped'
    BY <1>1, <1>4, <1>5, ReturnTyped DEF history
<1>7. VarsTyped'
    BY <1>5 DEF VarsTyped, buffers, control, signalling, history
<1>8. QED
    BY <1>6, <1>7

LEMMA DataTyped ==
    ASSUME StackTyped, VarsTyped,
           \/ StoreEvent \/ DiscardOldest \/ Buffer_Flush \/ Close_mpits \/ Buffer_Free \/ Free
    PROVE  StackTyped' /\ VarsTyped'
<1>0. stack \in Seq(Calls) /\ me \in Threads
    BY DEF StackTyped, VarsTyped
<1>1. PICK name : Executes(name) /\ name # "FinalizeEnds"
    <2>1. \/ Executes("Store") \/ Executes("FlushCallback") \/ Executes("Buffer_Flush")
          \/ Executes("close_mpits") \/ Executes("Buffer_Free") \/ Executes("Free")
        BY DEF StoreEvent, DiscardOldest, Buffer_Flush, Close_mpits, Buffer_Free, Free
    <2>2. QED
        BY <2>1
<1>2. Top \in Threads
    BY <1>0, <1>1, OnTop
<1>3. Return(<<>>) /\ finalizing' = finalizing
    BY DEF StoreEvent, DiscardOldest, Buffer_Flush, Close_mpits, Buffer_Free, Free, history
<1>4. StackTyped'
    BY <1>1, <1>3, NonePushed, ReturnTyped
<1>5. ring[Top] \in Seq(Kinds) /\ file[Top] \in Seq(Kinds) /\ owed[Top] \in Nat
    BY <1>2 DEF VarsTyped
<1>6. CASE StoreEvent
    <2>1. Head(stack).ev \in Kinds
        BY <1>0, <1>6, OnTop DEF StoreEvent
    <2>2. ring' \in [Threads -> Seq(Kinds)]
        <3>1. ring \in [Threads -> Seq(Kinds)]
            BY DEF VarsTyped
        <3>2. Append(ring[Top], Head(stack).ev) \in Seq(Kinds)
            BY <1>5, <2>1, AppendProperties
        <3>3. ring' = ring \/ ring' = [ring EXCEPT ![Top] = Append(@, Head(stack).ev)]
            BY <1>6 DEF StoreEvent
        <3>4. QED
            BY <3>1, <3>2, <3>3
    <2>3. owed' \in [Threads -> Nat] /\ probes' \in [Threads -> Nat]
        <3>1. owed \in [Threads -> Nat] /\ probes \in [Threads -> Nat]
            BY DEF VarsTyped
        <3>2. owed[Top] > 0 => owed[Top] - 1 \in Nat
            BY <1>5
        <3>3. \/ owed' = owed
              \/ owed[Top] > 0 /\ owed' = [owed EXCEPT ![Top] = owed[Top] - 1]
            BY <1>6 DEF StoreEvent
        <3>4. probes' = probes \/ probes' = [probes EXCEPT ![Top] = probes[Top] + 1]
            BY <1>6 DEF StoreEvent
        <3>5. probes[Top] + 1 \in Nat
            BY <1>2, <3>1
        <3>6. owed' \in [Threads -> Nat]
            BY <3>1, <3>2, <3>3
        <3>7. QED
            BY <3>1, <3>4, <3>5, <3>6
    <2>4. VarsTyped'
        BY <1>6, <2>2, <2>3 DEF StoreEvent, VarsTyped, control, signalling
    <2>5. QED
        BY <1>4, <2>4
<1>7. CASE DiscardOldest
    <2>1. ring' \in [Threads -> Seq(Kinds)]
        <3>1. ring \in [Threads -> Seq(Kinds)]
            BY DEF VarsTyped
        <3>2. \/ ring' = ring
              \/ ring[Top] # <<>> /\ ring' = [ring EXCEPT ![Top] = Tail(ring[Top])]
            BY <1>7 DEF DiscardOldest
        <3>3. ring[Top] # <<>> => Tail(ring[Top]) \in Seq(Kinds)
            BY <1>5, HeadTailProperties
        <3>4. QED
            BY <3>1, <3>2, <3>3
    <2>2. owed' \in [Threads -> Nat]
        BY SMTT(40), <1>2, <1>5, <1>7 DEF DiscardOldest, VarsTyped
    <2>3. VarsTyped'
        BY <1>7, <2>1, <2>2 DEF DiscardOldest, VarsTyped, control, signalling, history
    <2>4. QED
        BY <1>4, <2>3
<1>8. CASE Buffer_Flush
    <2>1. ring' \in [Threads -> Seq(Kinds)]
        <3>1. ring \in [Threads -> Seq(Kinds)] /\ <<>> \in Seq(Kinds)
            BY NonePushed DEF VarsTyped
        <3>2. ring' = ring \/ ring' = [ring EXCEPT ![Top] = <<>>]
            BY <1>8 DEF Buffer_Flush
        <3>3. QED
            BY <3>1, <3>2
    <2>2. file' \in [Threads -> Seq(Kinds)]
        <3>1. file[Top] \o ring[Top] \in Seq(Kinds)
            BY <1>5, Joined
        <3>2. QED
            BY <1>2, <1>8, <3>1 DEF Buffer_Flush, VarsTyped
    <2>3. VarsTyped'
        BY <1>8, <2>1, <2>2 DEF Buffer_Flush, VarsTyped, control, signalling, history
    <2>4. QED
        BY <1>4, <2>3
<1>9. CASE Close_mpits
    <2>1. open' \in [Threads -> BOOLEAN]
        BY <1>9 DEF Close_mpits, VarsTyped
    <2>2. VarsTyped'
        BY <1>9, <2>1 DEF Close_mpits, VarsTyped, control, signalling, history
    <2>3. QED
        BY <1>4, <2>2
<1>10. CASE Buffer_Free \/ Free
    <2>1. live' \in [Threads -> BOOLEAN]
        BY <1>10 DEF Buffer_Free, Free, VarsTyped
    <2>2. VarsTyped'
        BY <1>10, <2>1 DEF Buffer_Free, Free, VarsTyped, control, signalling, history
    <2>3. QED
        BY <1>4, <2>2
<1>11. QED
    BY <1>6, <1>7, <1>8, <1>9, <1>10

LEMMA FinalizeTyped ==
    ASSUME StackTyped, VarsTyped, Backend_Finalize \/ FinalizeEnds \/ Crash
    PROVE  StackTyped' /\ VarsTyped'
<1>0. stack \in Seq(Calls) /\ me \in Threads
    BY DEF StackTyped, VarsTyped
<1>1. CASE Backend_Finalize
    <2>1. stack # <<>> /\ Head(stack).do # "FinalizeEnds"
        BY <1>0, <1>1, OnTop DEF Backend_Finalize
    <2>2. Tail(stack) \in Seq(Calls) /\ Ends(Tail(stack), finalizing) /\ finalizing \in Nat
        BY <1>0, <2>1, Rest, EndsRest DEF StackTyped, VarsTyped
    <2>3. Turns \in Seq(NoEnd)
        <3>1. BUFFER_INSERT(me, "cpu") \in Seq(NoEnd)
            BY <1>0, InsertTyped DEF Kinds
        <3>2. \A t \in Threads : Call("FlushIfAny", t) \in NoEnd /\ Call("FinishIfAny", t) \in NoEnd
            BY CallTyped DEF Plain
        <3>3. QED
            BY <3>1, <3>2, AnnotatePushed, TurnsOver
    <2>4. PICK last \in Calls : last = Call("FinalizeEnds", 0) /\ last.do = "FinalizeEnds"
        BY CallTyped, ThreadsAre DEF Call
    <2>5. PICK two \in Seq(NoEnd) : two = <<Call("Free", 0), Call("TurnOff", 0)>>
        <3>1. Call("Free", 0) \in NoEnd /\ Call("TurnOff", 0) \in NoEnd
            BY CallTyped, ThreadsAre DEF Plain
        <3>2. <<Call("Free", 0), Call("TurnOff", 0)>> \in Seq(NoEnd)
            BY <3>1
        <3>3. QED
            BY <3>2
    <2>6. Ending = two \o <<last>>
        BY <2>4, <2>5 DEF Ending
    <2>7. PICK rest \in Seq(Calls) : rest = Tail(stack)
        BY <2>2
    <2>8. <<last>> \o rest \in Seq(Calls) /\ Ends(<<last>> \o rest, finalizing + 1)
        BY <2>2, <2>4, <2>7, One, Joined, EndsOne
    <2>9. two \o (<<last>> \o rest) \in Seq(Calls) /\ Ends(two \o (<<last>> \o rest), finalizing + 1)
        BY <2>8, NoEndCalls, Joined, EndsJoined
    <2>10. /\ Turns \o (two \o (<<last>> \o rest)) \in Seq(Calls)
           /\ Ends(Turns \o (two \o (<<last>> \o rest)), finalizing + 1)
        BY <2>3, <2>9, NoEndCalls, Joined, EndsJoined
    <2>11. stack' = Turns \o (two \o (<<last>> \o rest))
        <3>1. stack' = (Turns \o (two \o <<last>>)) \o rest
            BY <1>1, <2>6, <2>7, FinalizePushed DEF Backend_Finalize, Return
        <3>2. Turns \in Seq(Calls) /\ two \in Seq(Calls) /\ <<last>> \in Seq(Calls)
            BY <2>3, NoEndCalls, One
        <3>3. two \o <<last>> \in Seq(Calls)
            BY <3>2, Joined
        <3>4. (Turns \o (two \o <<last>>)) \o rest = Turns \o ((two \o <<last>>) \o rest)
            BY SMTT(40), <3>2, <3>3, ConcatAssociative
        <3>5. (two \o <<last>>) \o rest = two \o (<<last>> \o rest)
            BY <3>2, ConcatAssociative
        <3>6. QED
            BY <3>1, <3>4, <3>5
    <2>12. StackTyped'
        BY <1>1, <2>10, <2>11 DEF Backend_Finalize, StackTyped
    <2>13. VarsTyped'
        BY <1>1, <2>2 DEF Backend_Finalize, VarsTyped, buffers, control, signalling
    <2>14. QED
        BY <2>12, <2>13
<1>2. CASE FinalizeEnds
    <2>1. stack # <<>> /\ Head(stack).do = "FinalizeEnds"
        BY <1>0, <1>2, OnTop DEF FinalizeEnds
    <2>2. finalizing - 1 \in Nat /\ Ends(Tail(stack), finalizing - 1) /\ Tail(stack) \in Seq(Calls)
        BY <1>0, <2>1, Rest, EndsRest DEF StackTyped
    <2>3. stack' = Tail(stack)
        BY <1>2, <2>2, ConcatEmptySeq DEF FinalizeEnds, Return
    <2>4. StackTyped'
        BY <1>2, <2>2, <2>3 DEF FinalizeEnds, StackTyped
    <2>5. VarsTyped'
        BY SMTT(40), <1>2, <2>2 DEF FinalizeEnds, VarsTyped, buffers, control, signalling
    <2>6. QED
        BY <2>4, <2>5
<1>3. CASE Crash
    BY <1>3 DEF Crash, StackTyped, VarsTyped, buffers, control, signalling, history
<1>4. QED
    BY <1>1, <1>2, <1>3

LEMMA NextTyped ==
    ASSUME StackTyped, VarsTyped, [Next]_vars
    PROVE  StackTyped' /\ VarsTyped'
<1>1. CASE Next
    BY <1>1, BeginsTyped, FlagsTyped, BuffersTyped, DataTyped, FinalizeTyped DEF Next, Step
<1>2. CASE UNCHANGED vars
    BY <1>2 DEF vars, StackTyped, VarsTyped
<1>3. QED
    BY <1>1, <1>2

LEMMA InitTyped == Init => StackTyped /\ VarsTyped
<1> SUFFICES ASSUME Init PROVE StackTyped /\ VarsTyped
    OBVIOUS
<1>1. stack = <<>> /\ finalizing = 0
    BY DEF Init
<1>2. StackTyped
    BY <1>1, EndsNone DEF StackTyped
<1>3. options.signals \in Nat
    BY BackendAssumption DEF Init
<1>4. VarsTyped
    BY SMTT(40), <1>3, ThreadsAre DEF Init, VarsTyped
<1>5. QED
    BY <1>2, <1>4

TypeInv == StackTyped /\ VarsTyped

LEMMA TypeInvariant == Spec => []TypeInv
BY InitTyped, NextTyped, PTL DEF Spec, TypeInv

(* Every call on the control stack is one the code makes, on a buffer that  *)
(* exists, and no count falls below zero, however the calls nest and        *)
(* however many signals arrive.                                             *)
THEOREM TypeCorrect == Spec => []TypeOK
<1>1. TypeInv => TypeOK
    BY Halves DEF TypeInv, StackTyped
<1>2. QED
    BY <1>1, TypeInvariant, PTL
-----------------------------------------------------------------------------
(* No freed buffer is used in a program that gets no signal.  The calls     *)
(* pending are calls that use buffers, then at most one call that releases  *)
(* them, then calls that use none.                                          *)

\* A sequence over X, then perhaps a member of L, then a sequence over Q.
Over(s, X, L, Q) ==
    \/ \E a \in Seq(X) : \E b \in Seq(Q) : s = a \o b
    \/ \E a \in Seq(X) : \E r \in L : \E b \in Seq(Q) : s = a \o (<<r>> \o b)

LEMMA Wider ==
    ASSUME NEW X, NEW Y, X \subseteq Y, NEW s \in Seq(X)
    PROVE  s \in Seq(Y)
<1>1. \A i \in 1..Len(s) : s[i] \in Y
    BY ElementOfSeq
<1>2. QED
    BY <1>1, Narrow

LEMMA Associates ==
    ASSUME NEW C, NEW s \in Seq(C), NEW t \in Seq(C), NEW u \in Seq(C)
    PROVE  s \o (t \o u) = (s \o t) \o u
<1>1. (s \o t) \o u = s \o (t \o u)
    BY ConcatAssociative
<1>2. QED
    BY <1>1

LEMMA FirstOf ==
    ASSUME NEW X, NEW C, X \subseteq C, NEW a \in Seq(X), a # <<>>, NEW s \in Seq(C)
    PROVE  /\ Head(a \o s) = Head(a) /\ Head(a) \in X
           /\ Tail(a) \in Seq(X) /\ Tail(a \o s) = Tail(a) \o s
<1>1. a \in Seq(C)
    BY Wider
<1>2. PICK u \in Seq(C) : u = a \o s
    BY <1>1, Joined
<1>3. PICK k \in Nat : k = Len(a) - 1
    BY Rest
<1>4. PICK l \in Nat : l = Len(s)
    BY LenProperties
<1>5. /\ Len(a) = k + 1 /\ Head(a) = a[1] /\ Head(a) \in X
      /\ Tail(a) \in Seq(X) /\ Tail(a) \in Seq(C) /\ Len(Tail(a)) = k
      /\ \A i \in 1..k : Tail(a)[i] = a[i + 1]
    BY <1>1, <1>3, Rest
<1>6. /\ Len(u) = k + 1 + l
      /\ \A i \in 1..(k + 1) : u[i] = a[i]
      /\ \A i \in 1..l : u[k + 1 + i] = s[i]
    <2>1. PICK n \in Nat : n = Len(a)
        BY <1>5
    <2>2. /\ Len(u) = n + l
          /\ \A i \in 1..n : u[i] = a[i]
          /\ \A i \in 1..l : u[n + i] = s[i]
        BY <1>1, <1>2, <1>4, <2>1, Joined
    <2>3. n = k + 1
        BY <1>5, <2>1
    <2>4. QED
        BY <2>2, <2>3
<1>7. u # <<>>
    BY <1>2, <1>6, EmptySeq
<1>8. /\ Head(u) = u[1] /\ Tail(u) \in Seq(C) /\ Len(Tail(u)) = k + l
      /\ \A i \in 1..(k + l) : Tail(u)[i] = u[i + 1]
    BY <1>6, <1>7, Rest
<1>9. Head(u) = Head(a)
    BY <1>5, <1>6, <1>8
<1>10. PICK v \in Seq(C) : v = Tail(a) \o s
    BY <1>5, Joined
<1>11. /\ Len(v) = k + l /\ \A i \in 1..k : v[i] = Tail(a)[i]
       /\ \A i \in 1..l : v[k + i] = s[i]
    <2>1. PICK w \in Seq(C) : w = Tail(a)
        BY <1>5
    <2>2. Len(w) = k /\ v = w \o s
        BY <1>5, <1>10, <2>1
    <2>3. /\ Len(v) = Len(w) + Len(s) /\ \A i \in 1..Len(w) : v[i] = w[i]
          /\ \A i \in 1..Len(s) : v[Len(w) + i] = s[i]
        <3>1. /\ Len(w \o s) = Len(w) + Len(s)
              /\ \A i \in 1..Len(w) : (w \o s)[i] = w[i]
              /\ \A i \in 1..Len(s) : (w \o s)[Len(w) + i] = s[i]
            BY Joined
        <3>2. QED
            BY <2>2, <3>1
    <2>4. /\ Len(v) = k + l /\ \A i \in 1..k : v[i] = w[i]
          /\ \A i \in 1..l : v[k + i] = s[i]
        BY <1>4, <2>2, <2>3
    <2>5. QED
        BY <2>1, <2>4
<1>12. ASSUME NEW i \in 1..(k + l)  PROVE Tail(u)[i] = v[i]
    <2>1. Tail(u)[i] = u[i + 1]
        BY <1>8
    <2>2. CASE i <= k
        <3>1. i + 1 \in 1..(k + 1) /\ i \in 1..k
            BY <2>2
        <3>2. QED
            BY <1>5, <1>6, <1>11, <2>1, <3>1
    <2>3. CASE ~(i <= k)
        <3>1. PICK j \in 1..l : i = k + j /\ i + 1 = k + 1 + j
            <4>1. i - k \in 1..l /\ i = k + (i - k) /\ i + 1 = k + 1 + (i - k)
                BY <2>3
            <4>2. QED
                BY <4>1
        <3>2. u[i + 1] = s[j] /\ v[i] = s[j]
            BY <1>6, <1>11, <3>1
        <3>3. QED
            BY <2>1, <3>2
    <2>4. QED
        BY <2>2, <2>3
<1>13. Tail(u) = v
    BY <1>8, <1>11, <1>12, SeqEqual
<1>14. QED
    BY <1>2, <1>5, <1>9, <1>10, <1>13

LEMMA SecondOf ==
    ASSUME NEW C, NEW r \in C, NEW s \in Seq(C)
    PROVE  Head(<<r>> \o s) = r /\ Tail(<<r>> \o s) = s
<1>1. <<r>> \in Seq(C) /\ <<r>> # <<>> /\ Head(<<r>>) = r
    BY One
<1>2. Tail(<<r>>) = <<>>
    <2>1. Tail(<<r>>) \in Seq(C) /\ Len(Tail(<<r>>)) = 0
        BY <1>1, One, Rest
    <2>2. QED
        BY <2>1, EmptySeq
<1>3. Head(<<r>> \o s) = Head(<<r>>) /\ Tail(<<r>> \o s) = Tail(<<r>>) \o s
    BY <1>1, FirstOf
<1>4. QED
    BY <1>1, <1>2, <1>3, ConcatEmptySeq

\* The first element decides what is left.
LEMMA OverRest ==
    ASSUME NEW C, NEW X, NEW L, NEW Q, X \subseteq C, L \subseteq C, Q \subseteq C,
           NEW s, Over(s, X, L, Q), s # <<>>
    PROVE  /\ Head(s) \in X \cup L \cup Q
           /\ Over(Tail(s), X, L, Q)
           /\ Head(s) \notin X => Tail(s) \in Seq(Q)
<1>1. ASSUME NEW a \in Seq(X), NEW b \in Seq(Q), s = a \o b
      PROVE  /\ Head(s) \in X \cup Q
             /\ Over(Tail(s), X, L, Q)
             /\ Head(s) \notin X => Tail(s) \in Seq(Q)
    <2>1. b \in Seq(C)
        BY Wider
    <2>2. CASE a # <<>>
        <3>1. /\ Head(s) \in X /\ Tail(a) \in Seq(X) /\ Tail(s) = Tail(a) \o b
            BY <1>1, <2>1, <2>2, FirstOf
        <3>2. QED
            BY <3>1 DEF Over
    <2>3. CASE a = <<>>
        <3>1. s = b
            BY <1>1, <2>3, ConcatEmptySeq
        <3>2. Head(s) \in Q /\ Tail(s) \in Seq(Q)
            BY <3>1, Rest
        <3>3. <<>> \in Seq(X) /\ Tail(s) = <<>> \o Tail(s)
            BY <3>2, ConcatEmptySeq, NonePushed
        <3>4. QED
            BY <3>2, <3>3 DEF Over
    <2>4. QED
        BY <2>2, <2>3
<1>2. ASSUME NEW a \in Seq(X), NEW r \in L, NEW b \in Seq(Q), s = a \o (<<r>> \o b)
      PROVE  /\ Head(s) \in X \cup L
             /\ Over(Tail(s), X, L, Q)
             /\ Head(s) \notin X => Tail(s) \in Seq(Q)
    <2>1. b \in Seq(C) /\ <<r>> \in Seq(C)
        BY Wider, One
    <2>2. <<r>> \o b \in Seq(C)
        BY <2>1, Joined
    <2>3. CASE a # <<>>
        <3>1. PICK t \in Seq(C) : t = <<r>> \o b
            BY <2>2
        <3>2. Head(a \o t) = Head(a) /\ Head(a) \in X /\ Tail(a) \in Seq(X)
              /\ Tail(a \o t) = Tail(a) \o t
            BY <2>3, FirstOf
        <3>3. Head(s) \in X /\ Tail(s) = Tail(a) \o (<<r>> \o b)
            BY <1>2, <3>1, <3>2
        <3>4. QED
            BY <3>2, <3>3 DEF Over
    <2>4. CASE a = <<>>
        <3>1. s = <<r>> \o b
            BY <1>2, <2>2, <2>4, ConcatEmptySeq
        <3>2. Head(s) = r /\ Tail(s) = b
            BY <2>1, <3>1, SecondOf
        <3>3. <<>> \in Seq(X) /\ Tail(s) = <<>> \o b
            BY <2>1, <3>2, ConcatEmptySeq, NonePushed
        <3>4. QED
            BY <3>2, <3>3 DEF Over
    <2>5. QED
        BY <2>3, <2>4
<1>3. QED
    BY <1>1, <1>2 DEF Over

LEMMA OverPush ==
    ASSUME NEW C, NEW X, NEW L, NEW Q, X \subseteq C, L \subseteq C, Q \subseteq C,
           NEW s, Over(s, X, L, Q), NEW u \in Seq(X)
    PROVE  Over(u \o s, X, L, Q)
<1>0. u \in Seq(C)
    BY Wider
<1>1. ASSUME NEW a \in Seq(X), NEW b \in Seq(Q), s = a \o b
      PROVE  Over(u \o s, X, L, Q)
    <2>1. a \in Seq(C) /\ b \in Seq(C)
        BY Wider
    <2>2. u \o s = (u \o a) \o b
        BY SMTT(40), <1>0, <1>1, <2>1, ConcatAssociative
    <2>3. u \o a \in Seq(X)
        BY Joined
    <2>4. QED
        BY <2>2, <2>3 DEF Over
<1>2. ASSUME NEW a \in Seq(X), NEW r \in L, NEW b \in Seq(Q), s = a \o (<<r>> \o b)
      PROVE  Over(u \o s, X, L, Q)
    <2>1. a \in Seq(C) /\ b \in Seq(C) /\ <<r>> \in Seq(C)
        BY Wider, One
    <2>2. <<r>> \o b \in Seq(C)
        BY <2>1, Joined
    <2>3. u \o s = (u \o a) \o (<<r>> \o b)
        <3>1. PICK t \in Seq(C) : t = <<r>> \o b
            BY <2>2
        <3>2. u \o (a \o t) = (u \o a) \o t
            BY SMTT(40), <1>0, <2>1, Associates
        <3>3. QED
            BY <1>2, <3>1, <3>2
    <2>4. u \o a \in Seq(X)
        BY Joined
    <2>5. QED
        BY <2>3, <2>4 DEF Over
<1>3. QED
    BY <1>1, <1>2 DEF Over

-----------------------------------------------------------------------------
\* The calls that look at a buffer, and those that look at the array of buffers.
Accesses == {"Enter", "InsertSingle", "Store", "FlushCallback", "Buffer_Flush", "CheckFileSize",
             "close_mpits"}
Loops == {"FlushIfAny", "FinishIfAny"}
Harmless == {"Signals_Inhibit", "Signals_Desinhibit", "Signals_ExecuteDeferred", "TurnOff"}

\* What may be pending as the buffers are: calls on buffers that are there, the call that
\* will release one or all, and calls that need none.
Using ==
    {c \in Calls :
       /\ c.do \in Accesses \cup Loops \cup Harmless
       /\ c.do \in Accesses \cup Loops => table = "live" /\ live[me] = TRUE
       /\ c.do \in Accesses => live[c.buf] = TRUE}
Releasing ==
    {c \in Calls :
       /\ table = "live" /\ live[me] = TRUE
       /\ \/ c.do = "Backend_Finalize"
          \/ c.do = "Buffer_Free" /\ c.buf # 0 /\ live[c.buf] = TRUE}
Quiet == {c \in Calls : c.do \in Harmless \cup {"Free", "FinalizeEnds", "SetNotInitialized"}}

Lasting == {c \in Calls : c.do \notin {"Free", "Backend_Finalize"}}
Exit == Call("SetNotInitialized", 0)

\* The library is marked as not initialized before its buffers are released, or by the
\* last of the calls pending.
Ended ==
    \/ initialized = FALSE
    \/ table = "live" /\ stack \in Seq(Lasting)
    \/ \E s \in Seq(Calls) : stack = s \o <<Exit>>

Buffers == IF table = "live" THEN live[0] = TRUE ELSE \A t \in Threads : live[t] = FALSE

Safe ==
    /\ crashed = FALSE /\ deferred = FALSE
    /\ Over(stack, Using, Releasing, Quiet)
    /\ Ended
    /\ Buffers

LEMMA SubCalls ==
    /\ Using \subseteq Calls /\ Releasing \subseteq Calls /\ Quiet \subseteq Calls
    /\ Lasting \subseteq Calls /\ Using \subseteq Lasting
BY DEF Using, Releasing, Quiet, Lasting, Accesses, Loops, Harmless

LEMMA ExitIs == Exit \in Calls /\ Exit.do = "SetNotInitialized"
BY ThreadsAre DEF Exit, Call, Calls

LEMMA TopIs ==
    ASSUME stack \in Seq(Calls), Safe, NEW name, Executes(name)
    PROVE  /\ stack # <<>> /\ Head(stack) \in Calls /\ Head(stack).do = name /\ Top \in Threads
           /\ Head(stack) \in Using \cup Releasing \cup Quiet
           /\ Over(Tail(stack), Using, Releasing, Quiet)
           /\ Head(stack) \notin Using => Tail(stack) \in Seq(Quiet)
<1>1. /\ stack # <<>> /\ Head(stack) \in Calls /\ Head(stack).do = name /\ Top \in Threads
    BY OnTop
<1>2. Over(stack, Using, Releasing, Quiet)
    BY DEF Safe
<1>3. QED
    BY <1>1, <1>2, SubCalls, OverRest

LEMMA TopUses ==
    ASSUME stack \in Seq(Calls), Safe, NEW name, Executes(name)
    PROVE  /\ name \in Accesses \cup Loops => table = "live" /\ live[me] = TRUE
           /\ name \in Accesses => live[Top] = TRUE
           /\ name = "Backend_Finalize" => table = "live" /\ live[me] = TRUE
           /\ name = "Buffer_Free" => table = "live" /\ live[Top] = TRUE /\ Top # 0
           /\ name \in {"Free", "Buffer_Free", "Backend_Finalize"} => Head(stack) \notin Using
           /\ name \notin {"SigHandler", "SignalReturns"}
<1>1. Head(stack) \in Using \cup Releasing \cup Quiet /\ Head(stack).do = name
    BY TopIs
<1>2. CASE Head(stack) \in Using
    BY <1>1, <1>2 DEF Using, Top, Accesses, Loops, Harmless
<1>3. CASE Head(stack) \in Releasing
    BY <1>1, <1>3 DEF Releasing, Using, Top, Accesses, Loops, Harmless
<1>4. CASE Head(stack) \in Quiet
    BY <1>1, <1>4 DEF Quiet, Using, Top, Accesses, Loops, Harmless
<1>5. QED
    BY <1>1, <1>2, <1>3, <1>4

\* What is pending at the end stays there.
LEMMA ExitStays ==
    ASSUME NEW s \in Seq(Calls), stack = s \o <<Exit>>,
           NEW name, stack \in Seq(Calls), Executes(name), name # "SetNotInitialized",
           NEW u \in Seq(Calls), stack' = u \o Tail(stack)
    PROVE  (\E v \in Seq(Calls) : stack = v \o <<Exit>>)'
<1>1. <<Exit>> \in Seq(Calls) /\ Head(stack).do = name
    BY ExitIs, One, OnTop
<1>2. s # <<>>
    <2>1. SUFFICES ASSUME s = <<>> PROVE FALSE
        OBVIOUS
    <2>2. stack = <<Exit>>
        BY <1>1, <2>1, ConcatEmptySeq
    <2>3. Head(stack) = Exit
        BY <2>2
    <2>4. QED
        BY <1>1, <2>3, ExitIs
<1>3. Tail(stack) = Tail(s) \o <<Exit>> /\ Tail(s) \in Seq(Calls)
    BY <1>1, <1>2, FirstOf
<1>4. stack' = (u \o Tail(s)) \o <<Exit>>
    <2>1. PICK v \in Seq(Calls) : v = Tail(s)
        BY <1>3
    <2>2. PICK w \in Seq(Calls) : w = <<Exit>>
        BY <1>1
    <2>3. u \o (v \o w) = (u \o v) \o w
        BY SMTT(40), Associates
    <2>4. QED
        BY <1>3, <2>1, <2>2, <2>3
<1>5. u \o Tail(s) \in Seq(Calls)
    BY <1>3, Joined
<1>6. QED
    BY <1>4, <1>5 DEF Exit, Call

\* A step that puts calls on buffers in the place of the one on top.
LEMMA SafeStays ==
    ASSUME stack \in Seq(Calls), Safe, NEW name, Executes(name),
           name \notin {"Free", "Buffer_Free", "Backend_Finalize", "SetNotInitialized"},
           NEW calls \in Seq(Using), Return(calls),
           UNCHANGED <<table, live, me, initialized>>, crashed' = FALSE, deferred' = FALSE
    PROVE  Safe'
<1>1. /\ stack # <<>> /\ Over(Tail(stack), Using, Releasing, Quiet) /\ Head(stack).do = name
    BY TopIs
<1>2. stack' = calls \o Tail(stack)
    BY DEF Return
<1>3. Over(stack', Using, Releasing, Quiet)
    BY <1>1, <1>2, SubCalls, OverPush
<1>4. Using' = Using /\ Releasing' = Releasing /\ Quiet' = Quiet
    BY DEF Using, Releasing, Quiet
<1>5. Over(stack, Using, Releasing, Quiet)'
    BY <1>3, <1>4 DEF Over
<1>6. Ended'
    <2>1. CASE initialized = FALSE
        BY <2>1 DEF Ended
    <2>2. CASE table = "live" /\ stack \in Seq(Lasting)
        <3>1. Tail(stack) \in Seq(Lasting) /\ calls \in Seq(Lasting)
            BY <1>1, <2>2, SubCalls, Rest, Wider
        <3>2. stack' \in Seq(Lasting)
            BY <1>2, <3>1, Joined
        <3>3. QED
            BY <2>2, <3>2 DEF Ended, Lasting
    <2>3. CASE \E s \in Seq(Calls) : stack = s \o <<Exit>>
        <3>1. calls \in Seq(Calls)
            BY SubCalls, Wider
        <3>2. QED
            BY <1>2, <2>3, <3>1, ExitStays DEF Ended
    <2>4. QED
        BY <2>1, <2>2, <2>3 DEF Safe, Ended
<1>7. Buffers'
    BY DEF Safe, Buffers
<1>8. QED
    BY <1>5, <1>6, <1>7 DEF Safe

-----------------------------------------------------------------------------
\* What is pushed is over the calls on buffers when the buffers are there.
LEMMA HarmlessUsed ==
    \A t \in Threads : \A name \in Harmless : Call(name, t) \in Using
BY DEF Using, Call, Calls, Harmless, Accesses, Loops

LEMMA CallUsed ==
    ASSUME table = "live", live[me] = TRUE, NEW t \in Threads, live[t] = TRUE
    PROVE  /\ \A name \in Accesses \ {"InsertSingle", "Store"} : Call(name, t) \in Using
           /\ \A e \in Kinds : InsertSingle(t, e) \in Using /\ Store(t, e) \in Using
BY DEF Using, Call, InsertSingle, Store, Calls, Accesses, Loops, Harmless

LEMMA InsertUsed ==
    ASSUME table = "live", live[me] = TRUE, NEW t \in Threads, live[t] = TRUE, NEW e \in Kinds
    PROVE  BUFFER_INSERT(t, e) \in Seq(Using)
<1>1. InsertSingle(t, e) \in Using
    BY CallUsed
<1>2. /\ Call("Signals_Inhibit", t) \in Using /\ Call("Signals_Desinhibit", t) \in Using
      /\ Call("Signals_ExecuteDeferred", t) \in Using
    BY HarmlessUsed DEF Harmless
<1>3. QED
    BY <1>1, <1>2, InsertPushed

LEMMA AnnotateUsed ==
    ASSUME table = "live", live[me] = TRUE, me \in Threads
    PROVE  Extrae_AnnotateTopology \in Seq(Using)
<1>1. BUFFER_INSERT(me, "cpu") \in Seq(Using)
    BY InsertUsed DEF Kinds
<1>2. QED
    BY <1>1, AnnotatePushed

LEMMA FlushUsed ==
    ASSUME table = "live", live[me] = TRUE, me \in Threads, NEW t \in Threads, live[t] = TRUE
    PROVE  Extrae_Flush_Wrapper(t) \in Seq(Using)
<1>1. BUFFER_INSERT(t, "flush") \in Seq(Using)
    BY InsertUsed DEF Kinds
<1>2. Extrae_AnnotateTopology \in Seq(Using)
    BY AnnotateUsed
<1>3. Call("Buffer_Flush", t) \in Using /\ Call("CheckFileSize", t) \in Using
    BY CallUsed DEF Accesses
<1>4. QED
    BY <1>1, <1>2, <1>3, FlushPushed

LEMMA FinishUsed ==
    ASSUME table = "live", live[me] = TRUE, me \in Threads, NEW t \in Threads, live[t] = TRUE
    PROVE  Finish(t) \in Seq(Using)
<1>1. BUFFER_INSERT(me, "end") \in Seq(Using)
    BY InsertUsed DEF Kinds
<1>2. Call("FlushCallback", t) \in Using /\ Call("close_mpits", t) \in Using
    BY CallUsed DEF Accesses
<1>3. QED
    BY <1>1, <1>2, FinishPushed

LEMMA TurnsUsed ==
    ASSUME table = "live", live[me] = TRUE, me \in Threads
    PROVE  Turns \in Seq(Using)
<1>1. \A t \in Threads : Call("FlushIfAny", t) \in Using /\ Call("FinishIfAny", t) \in Using
    BY DEF Using, Call, Calls, Loops, Accesses, Harmless
<1>2. Extrae_AnnotateTopology \in Seq(Using)
    BY AnnotateUsed
<1>3. QED
    BY <1>1, <1>2, TurnsOver

-----------------------------------------------------------------------------
UInv == signals = 0 => Safe

\* The steps of a thread that releases nothing.
LEMMA PushesSafe ==
    ASSUME StackTyped, VarsTyped, Safe,
           \/ Enter \/ Buffer_InsertSingle \/ FlushCallback \/ CheckFileSize \/ FlushIfAny
           \/ FinishIfAny
    PROVE  Safe'
<1>0. stack \in Seq(Calls) /\ me \in Threads
    BY DEF StackTyped, VarsTyped
<1>1. PICK name \in Accesses \cup Loops : Executes(name)
    BY DEF Enter, Buffer_InsertSingle, FlushCallback, CheckFileSize, FlushIfAny, FinishIfAny,
       Accesses, Loops
<1>2. /\ Top \in Threads /\ table = "live" /\ live[me] = TRUE
      /\ name \notin {"Free", "Buffer_Free", "Backend_Finalize", "SetNotInitialized"}
    BY <1>0, <1>1, TopIs, TopUses DEF Accesses, Loops
<1>3. UNCHANGED <<buffers, control, signalling, history, crashed>>
    BY DEF Enter, Buffer_InsertSingle, FlushCallback, CheckFileSize, FlushIfAny, FinishIfAny
<1>4. <<>> \in Seq(Using)
    BY NonePushed
<1>5. live[Top] = TRUE => <<Call("FlushCallback", Top)>> \in Seq(Using)
    <2>1. live[Top] = TRUE => Call("FlushCallback", Top) \in Using
        BY <1>2, CallUsed DEF Accesses
    <2>2. QED
        BY <2>1
<1>6. PICK calls \in Seq(Using) : Return(calls)
    <2>1. CASE Enter
        <3>1. live[Top] = TRUE
            BY <1>0, <2>1, TopUses DEF Enter, Accesses
        <3>2. QED
            BY <1>4, <1>5, <2>1, <3>1 DEF Enter
    <2>2. CASE Buffer_InsertSingle
        <3>1. live[Top] = TRUE /\ Head(stack).ev \in Kinds
            BY <1>0, <2>2, TopUses, OnTop DEF Buffer_InsertSingle, Accesses
        <3>2. Store(Top, Head(stack).ev) \in Using
            BY <1>2, <3>1, CallUsed
        <3>3. <<Store(Top, Head(stack).ev)>> \in Seq(Using)
            BY <3>2
        <3>4. ((IF Len(ring[Top]) - owed[Top] = MaxEvents
                   THEN <<Call("FlushCallback", Top)>> ELSE <<>>)
                  \o <<Store(Top, Head(stack).ev)>>) \in Seq(Using)
            BY <1>4, <1>5, <3>1, <3>3, Joined
        <3>5. QED
            BY <2>2, <3>4 DEF Buffer_InsertSingle
    <2>3. CASE FlushCallback
        <3>1. live[Top] = TRUE
            BY <1>0, <2>3, TopUses DEF FlushCallback, Accesses
        <3>2. Extrae_Flush_Wrapper(Top) \in Seq(Using)
            BY <1>0, <1>2, <3>1, FlushUsed
        <3>3. QED
            BY <1>4, <2>3, <3>2 DEF FlushCallback
    <2>4. CASE CheckFileSize
        <3>1. Call("close_mpits", me) \in Using /\ Call("TurnOff", 0) \in Using
            BY <1>0, <1>2, CallUsed, HarmlessUsed, ThreadsAre DEF Accesses, Harmless
        <3>2. <<Call("close_mpits", me), Call("TurnOff", 0)>> \in Seq(Using)
            BY <3>1
        <3>3. QED
            BY <1>4, <2>4, <3>2 DEF CheckFileSize
    <2>5. CASE FlushIfAny
        <3>1. CASE live[Top] = TRUE
            <4>1. Return(<<Call("FlushCallback", Top)>>)
                BY <2>5, <3>1 DEF FlushIfAny
            <4>2. QED
                BY <1>5, <3>1, <4>1
        <3>2. CASE live[Top] = FALSE
            BY <1>4, <2>5, <3>2 DEF FlushIfAny
        <3>3. QED
            BY <1>2, <3>1, <3>2 DEF VarsTyped
    <2>6. CASE FinishIfAny
        <3>1. CASE live[Top] = TRUE
            <4>1. Return(Finish(Top))
                BY <2>6, <3>1 DEF FinishIfAny
            <4>2. Finish(Top) \in Seq(Using)
                BY <1>0, <1>2, <3>1, FinishUsed
            <4>3. QED
                BY <4>1, <4>2
        <3>2. CASE live[Top] = FALSE
            BY <1>4, <2>6, <3>2 DEF FinishIfAny
        <3>3. QED
            BY <1>2, <3>1, <3>2 DEF VarsTyped
    <2>7. QED
        BY <2>1, <2>2, <2>3, <2>4, <2>5, <2>6
<1>7. UNCHANGED <<table, live, me, initialized>>
    BY <1>3 DEF buffers, control
<1>8. crashed' = FALSE /\ deferred' = FALSE
    BY <1>3 DEF Safe, signalling
<1>9. QED
    BY <1>0, <1>1, <1>2, <1>6, <1>7, <1>8, SafeStays

LEMMA DataSafe ==
    ASSUME StackTyped, VarsTyped, Safe,
           \/ Inhibit \/ Desinhibit \/ ExecuteDeferred \/ TurnOff \/ FinalizeEnds
           \/ StoreEvent \/ DiscardOldest \/ Buffer_Flush \/ Close_mpits
    PROVE  Safe'
<1>0. stack \in Seq(Calls)
    BY DEF StackTyped
<1>1. PICK name : /\ Executes(name)
                  /\ name \notin {"Free", "Buffer_Free", "Backend_Finalize", "SetNotInitialized"}
    <2>1. \/ Executes("Signals_Inhibit") \/ Executes("Signals_Desinhibit")
          \/ Executes("Signals_ExecuteDeferred") \/ Executes("TurnOff")
          \/ Executes("FinalizeEnds") \/ Executes("Store") \/ Executes("FlushCallback")
          \/ Executes("Buffer_Flush") \/ Executes("close_mpits")
        BY DEF Inhibit, Desinhibit, ExecuteDeferred, TurnOff, FinalizeEnds, StoreEvent,
           DiscardOldest, Buffer_Flush, Close_mpits
    <2>2. QED
        BY <2>1
<1>2. Return(<<>>)
    <2>1. deferred = FALSE
        BY DEF Safe
    <2>2. QED
        BY <2>1 DEF Inhibit, Desinhibit, ExecuteDeferred, TurnOff, FinalizeEnds, StoreEvent,
           DiscardOldest, Buffer_Flush, Close_mpits
<1>3. <<>> \in Seq(Using)
    BY NonePushed
<1>4. UNCHANGED <<table, live, me, initialized>>
    BY DEF Inhibit, Desinhibit, ExecuteDeferred, TurnOff, FinalizeEnds, StoreEvent,
       DiscardOldest, Buffer_Flush, Close_mpits, buffers, control
<1>5. crashed' = FALSE /\ deferred' = FALSE
    <2>1. crashed = FALSE /\ deferred = FALSE
        BY DEF Safe
    <2>2. QED
        BY <2>1 DEF Inhibit, Desinhibit, ExecuteDeferred, TurnOff, FinalizeEnds, StoreEvent,
           DiscardOldest, Buffer_Flush, Close_mpits, signalling
<1>6. QED
    BY <1>0, <1>1, <1>2, <1>3, <1>4, <1>5, SafeStays

\* What comes after a release uses no buffer.
LEMMA OverAny ==
    ASSUME NEW X, NEW L, NEW Q, NEW a \in Seq(X), NEW b \in Seq(Q)
    PROVE  Over(a \o b, X, L, Q)
BY DEF Over

LEMMA QuietLasts ==
    ASSUME NEW s \in Seq(Quiet)
    PROVE  Over(s, Using, Releasing, Quiet)'
<1>1. s = <<>> \o s /\ <<>> \in Seq(Using')
    BY ConcatEmptySeq, NonePushed
<1>2. Over(s, Using', Releasing', Quiet)
    BY <1>1, OverAny
<1>3. Quiet' = Quiet
    BY DEF Quiet
<1>4. QED
    BY <1>2, <1>3 DEF Over

\* Nothing is initialized when the buffers go, but for what the exit of the program marks.
LEMMA EndedRest ==
    ASSUME stack \in Seq(Calls), Ended, NEW name, Executes(name), NEW u \in Seq(Calls),
           Return(u), initialized' = initialized,
           name \in {"Free", "Backend_Finalize"}
    PROVE  Ended'
<1>1. stack # <<>> /\ Head(stack).do = name
    BY OnTop
<1>2. CASE initialized = FALSE
    BY <1>2 DEF Ended
<1>3. ~(stack \in Seq(Lasting))
    BY <1>1, Rest DEF Lasting
<1>4. CASE \E s \in Seq(Calls) : stack = s \o <<Exit>>
    BY <1>4, ExitStays DEF Ended, Return
<1>5. QED
    BY <1>2, <1>3, <1>4 DEF Ended

LEMMA ReleasesSafe ==
    ASSUME StackTyped, VarsTyped, Safe,
           Free \/ Buffer_Free \/ Backend_Finalize \/ SetNotInitialized
    PROVE  Safe'
<1>0. stack \in Seq(Calls) /\ me \in Threads /\ <<>> \in Seq(Calls)
    BY NonePushed DEF StackTyped, VarsTyped
<1>1. CASE Free
    <2>1. Tail(stack) \in Seq(Quiet) /\ stack # <<>>
        BY <1>0, <1>1, TopIs, TopUses DEF Free
    <2>2. stack' = Tail(stack)
        BY <1>1, <2>1, ConcatEmptySeq DEF Free, Return
    <2>3. Over(stack, Using, Releasing, Quiet)'
        BY <2>1, <2>2, QuietLasts
    <2>4. Ended'
        BY <1>0, <1>1, EndedRest DEF Free, Safe
    <2>5. Buffers'
        BY <1>1 DEF Free, Buffers
    <2>6. crashed' = FALSE /\ deferred' = FALSE
        BY <1>1 DEF Free, Safe, signalling
    <2>7. QED
        BY <2>3, <2>4, <2>5, <2>6 DEF Safe
<1>2. CASE Buffer_Free
    <2>1. Tail(stack) \in Seq(Quiet) /\ stack # <<>> /\ Top \in Threads /\ Top # 0
          /\ table = "live" /\ Head(stack).do = "Buffer_Free"
        BY <1>0, <1>2, TopIs, TopUses DEF Buffer_Free
    <2>2. stack' = Tail(stack)
        BY <1>2, <2>1, ConcatEmptySeq DEF Buffer_Free, Return
    <2>3. Over(stack, Using, Releasing, Quiet)'
        BY <2>1, <2>2, QuietLasts
    <2>4. initialized' = initialized /\ table' = table
        BY <1>2 DEF Buffer_Free, control
    <2>5. Ended'
        <3>1. CASE initialized = FALSE
            BY <2>4, <3>1 DEF Ended
        <3>2. CASE table = "live" /\ stack \in Seq(Lasting)
            <4>1. Tail(stack) \in Seq(Lasting)
                BY <2>1, <3>2, Rest
            <4>2. QED
                BY <2>2, <2>4, <3>2, <4>1 DEF Ended, Lasting
        <3>3. CASE \E s \in Seq(Calls) : stack = s \o <<Exit>>
            BY <1>0, <1>2, <3>3, ExitStays DEF Buffer_Free, Return, Ended
        <3>4. QED
            BY <3>1, <3>2, <3>3 DEF Safe, Ended
    <2>6. Buffers'
        <3>1. live[0] = TRUE /\ live \in [Threads -> BOOLEAN]
            BY <2>1 DEF Safe, Buffers, VarsTyped
        <3>2. live'[0] = TRUE
            BY <1>2, <2>1, <3>1, ThreadsAre DEF Buffer_Free
        <3>3. QED
            BY <2>1, <2>4, <3>2 DEF Buffers
    <2>7. crashed' = FALSE /\ deferred' = FALSE
        BY <1>2 DEF Buffer_Free, Safe, signalling
    <2>8. QED
        BY <2>3, <2>5, <2>6, <2>7 DEF Safe
<1>3. CASE Backend_Finalize
    <2>1. Tail(stack) \in Seq(Quiet) /\ table = "live" /\ live[me] = TRUE
        BY <1>0, <1>3, TopIs, TopUses DEF Backend_Finalize
    <2>2. UNCHANGED <<buffers, control, signalling, crashed>>
        BY <1>3 DEF Backend_Finalize
    <2>3. Turns \in Seq(Using)
        BY <1>0, <2>1, TurnsUsed
    <2>4. Ending \in Seq(Quiet)
        <3>1. /\ Call("Free", 0) \in Quiet /\ Call("TurnOff", 0) \in Quiet
              /\ Call("FinalizeEnds", 0) \in Quiet
            BY ThreadsAre DEF Quiet, Call, Calls, Harmless
        <3>2. QED
            BY <3>1 DEF Ending
    <2>5. Turns \in Seq(Calls) /\ Ending \in Seq(Calls) /\ Tail(stack) \in Seq(Calls)
        BY <2>1, <2>3, <2>4, SubCalls, Wider
    <2>6. stack' = (Turns \o Ending) \o Tail(stack)
        BY <1>3, FinalizePushed DEF Backend_Finalize, Return
    <2>7. Over(stack', Using, Releasing, Quiet)
        <3>1. PICK e \in Seq(Calls) : e = Ending
            BY <2>5
        <3>2. PICK r \in Seq(Calls) : r = Tail(stack)
            BY <2>5
        <3>3. PICK w \in Seq(Calls) : w = Turns
            BY <2>5
        <3>4. w \o (e \o r) = (w \o e) \o r
            BY Associates
        <3>5. e \o r \in Seq(Quiet) /\ w \in Seq(Using)
            BY <2>1, <2>3, <2>4, <3>1, <3>2, <3>3, Joined
        <3>6. Over(w \o (e \o r), Using, Releasing, Quiet)
            BY <3>5, OverAny
        <3>7. QED
            BY <2>6, <3>1, <3>2, <3>3, <3>4, <3>6
    <2>8. Over(stack, Using, Releasing, Quiet)'
        <3>1. Using' = Using /\ Releasing' = Releasing /\ Quiet' = Quiet
            BY <2>2 DEF Using, Releasing, Quiet, buffers, control
        <3>2. QED
            BY <2>7, <3>1 DEF Over
    <2>9. Ended'
        <3>1. Turns \o Ending \in Seq(Calls)
            BY <2>5, Joined
        <3>2. Return(Turns \o Ending)
            BY <1>3, FinalizePushed DEF Backend_Finalize
        <3>3. Executes("Backend_Finalize") /\ initialized' = initialized
            BY <1>3, <2>2 DEF Backend_Finalize, control
        <3>4. QED
            BY <1>0, <3>1, <3>2, <3>3, EndedRest DEF Safe
    <2>10. Buffers'
        BY <2>2 DEF Safe, Buffers, buffers, control
    <2>11. QED
        BY <2>2, <2>8, <2>9, <2>10 DEF Safe, signalling
<1>4. CASE SetNotInitialized
    <2>1. stack # <<>> /\ Over(Tail(stack), Using, Releasing, Quiet) /\ Tail(stack) \in Seq(Calls)
        BY <1>0, <1>4, TopIs, Rest DEF SetNotInitialized
    <2>2. stack' = Tail(stack)
        BY <1>4, <2>1, ConcatEmptySeq DEF SetNotInitialized, Return
    <2>3. UNCHANGED <<table, live, me, crashed, deferred>>
        BY <1>4 DEF SetNotInitialized, buffers, signalling
    <2>4. Using' = Using /\ Releasing' = Releasing /\ Quiet' = Quiet
        BY <2>3 DEF Using, Releasing, Quiet
    <2>5. Over(stack, Using, Releasing, Quiet)'
        BY <2>1, <2>2, <2>4 DEF Over
    <2>6. Ended'
        BY <1>4 DEF SetNotInitialized, Ended
    <2>7. Buffers'
        BY <2>3 DEF Safe, Buffers
    <2>8. QED
        BY <2>3, <2>5, <2>6, <2>7 DEF Safe
<1>5. QED
    BY <1>1, <1>2, <1>3, <1>4

LEMMA NoSignalCalls ==
    ASSUME StackTyped, Safe
    PROVE  ~SigHandler_FlushAndTerminate /\ ~SignalReturns /\ ~Crash
<1>0. stack \in Seq(Calls)
    BY DEF StackTyped
<1>1. ~SigHandler_FlushAndTerminate /\ ~SignalReturns
    BY <1>0, TopUses DEF SigHandler_FlushAndTerminate, SignalReturns
<1>2. ASSUME NEW name \in Accesses \cup {"Buffer_Free"}, Executes(name)  PROVE Accessible
    BY <1>0, <1>2, TopUses DEF Accessible
<1>3. ASSUME NEW name \in Loops, Executes(name)  PROVE table # "freed"
    BY <1>0, <1>3, TopUses
<1>4. SUFFICES ASSUME Crash PROVE FALSE
    BY <1>1
<1>5. CASE (Executes("FlushIfAny") \/ Executes("FinishIfAny")) /\ table = "freed"
    BY <1>3, <1>5 DEF Loops
<1>6. CASE /\ \E name \in {"Enter", "InsertSingle", "Store", "FlushCallback", "Buffer_Flush",
                           "CheckFileSize", "close_mpits", "Buffer_Free"} : Executes(name)
           /\ ~Accessible
    BY <1>2, <1>6 DEF Accesses
<1>7. QED
    BY <1>4, <1>5, <1>6 DEF Crash

\* Calls from outside, of a program that goes on using the buffers.
LEMMA BeginsSafe ==
    ASSUME StackTyped, VarsTyped, Safe,
           Probe \/ ThreadEnds \/ Extrae_fini \/ ProgramExits
    PROVE  Safe'
<1>0. stack = <<>> /\ crashed' = FALSE /\ deferred' = FALSE /\ live' = live /\ table' = table
    BY DEF Probe, ThreadEnds, Extrae_fini, ProgramExits, Idle, Safe, buffers, signalling
<1>1. Buffers'
    BY <1>0 DEF Safe, Buffers
<1>2. table \in {"live", "freed"} /\ live \in [Threads -> BOOLEAN]
    BY DEF VarsTyped
<1>3. initialized = FALSE \/ table = "live"
    <2>1. ASSUME NEW s \in Seq(Calls), stack = s \o <<Exit>>  PROVE FALSE
        <3>1. <<Exit>> \in Seq(Calls) /\ Len(<<Exit>>) = 1
            BY ExitIs, One
        <3>2. Len(s \o <<Exit>>) = Len(s) + 1 /\ Len(s) \in Nat
            BY <3>1, Joined, LenProperties
        <3>3. Len(stack) = 0
            BY <1>0
        <3>4. QED
            BY <2>1, <3>2, <3>3
    <2>2. QED
        BY <2>1 DEF Safe, Ended
<1>4. Exit \in Quiet
    BY ExitIs DEF Quiet, Harmless
<1>5. CASE Probe
    <2>1. PICK t \in Threads : /\ live[t] = TRUE /\ me' = t
                               /\ stack' = <<Call("Enter", t)>> \o BUFFER_INSERT(t, "user")
        BY <1>2, <1>5 DEF Probe
    <2>2. table' = "live" /\ live'[me'] = TRUE /\ live'[t] = TRUE
        BY <1>0, <1>2, <2>1 DEF Safe, Buffers
    <2>3. Call("Enter", t) \in Using' /\ InsertSingle(t, "user") \in Using'
          /\ \A name \in Harmless : Call(name, t) \in Using'
        BY <2>2 DEF Using, Call, InsertSingle, Calls, Accesses, Loops, Harmless, Kinds
    <2>4. BUFFER_INSERT(t, "user") \in Seq(Using')
        BY <2>3, InsertPushed DEF Harmless
    <2>5. stack' \in Seq(Using')
        BY <2>1, <2>3, <2>4, One, Joined
    <2>6. Over(stack, Using, Releasing, Quiet)'
        <3>1. stack' = stack' \o <<>> /\ <<>> \in Seq(Quiet')
            BY <2>5, ConcatEmptySeq, NonePushed
        <3>2. QED
            BY <2>5, <3>1 DEF Over
    <2>7. Ended'
        <3>1. Using' \subseteq Lasting
            BY DEF Using, Lasting, Accesses, Loops, Harmless
        <3>2. stack' \in Seq(Lasting)
            BY <2>5, <3>1, Wider
        <3>3. QED
            BY <2>2, <3>2 DEF Ended, Lasting
    <2>8. QED
        BY <1>0, <1>1, <2>6, <2>7 DEF Safe
<1>6. CASE ThreadEnds
    <2>1. PICK t \in Threads : /\ t # 0 /\ live[t] = TRUE /\ me' = t /\ table = "live"
                               /\ stack' = FlushThread(t)
        BY <1>2, <1>6 DEF ThreadEnds
    <2>2. table' = "live" /\ live'[me'] = TRUE /\ live'[t] = TRUE
        BY <1>0, <2>1
    <2>3. Call("Buffer_Flush", t) \in Using' /\ Call("close_mpits", t) \in Using'
        BY <2>2 DEF Using, Call, Calls, Accesses, Loops, Harmless
    <2>4. Call("Buffer_Free", t) \in Releasing'
        BY <2>1, <2>2 DEF Releasing, Call, Calls
    <2>5. PICK a \in Seq(Using') : a = <<Call("Buffer_Flush", t), Call("close_mpits", t)>>
        <3>1. <<Call("Buffer_Flush", t), Call("close_mpits", t)>> \in Seq(Using')
            BY <2>3
        <3>2. QED
            BY <3>1
    <2>6. PICK r \in Releasing' : r = Call("Buffer_Free", t)
        BY <2>4
    <2>7. stack' = a \o (<<r>> \o <<>>)
        BY <2>1, <2>5, <2>6 DEF FlushThread
    <2>8. Over(stack, Using, Releasing, Quiet)'
        <3>1. <<>> \in Seq(Quiet')
            BY NonePushed
        <3>2. QED
            BY <2>7, <3>1 DEF Over
    <2>9. Ended'
        <3>1. /\ Call("Buffer_Flush", t) \in Lasting /\ Call("close_mpits", t) \in Lasting
              /\ Call("Buffer_Free", t) \in Lasting
            BY DEF Lasting, Call, Calls
        <3>2. stack' \in Seq(Lasting)
            BY <2>1, <3>1 DEF FlushThread
        <3>3. QED
            BY <2>2, <3>2 DEF Ended, Lasting
    <2>10. QED
        BY <1>0, <1>1, <2>8, <2>9 DEF Safe
<1>7. CASE Extrae_fini \/ ProgramExits
    <2>1. me' = 0 /\ table = "live"
        BY <1>3, <1>7 DEF Extrae_fini, ProgramExits
    <2>2. table' = "live" /\ live'[me'] = TRUE
        BY <1>0, <2>1 DEF Safe, Buffers
    <2>3. PICK r \in Releasing' : r = Call("Backend_Finalize", 0)
        BY <2>2, ThreadsAre DEF Releasing, Call, Calls
    <2>4. PICK b \in Seq(Quiet) : stack' = <<r>> \o b
                                   /\ (initialized' = FALSE \/ b = <<Exit>>)
        <3>1. CASE Extrae_fini
            <4>1. stack' = <<r>> \o <<>> /\ initialized' = FALSE
                BY <1>7, <2>3, <3>1 DEF Extrae_fini
            <4>2. QED
                BY <4>1, NonePushed
        <3>2. CASE ProgramExits
            <4>1. stack' = <<r>> \o <<Exit>>
                BY <2>3, <3>2 DEF ProgramExits, Exit
            <4>2. <<Exit>> \in Seq(Quiet)
                BY <1>4, One
            <4>3. QED
                BY <4>1, <4>2
        <3>3. QED
            BY <1>7, <3>1, <3>2
    <2>5. Over(stack, Using, Releasing, Quiet)'
        <3>1. <<>> \in Seq(Using') /\ r \in Calls
            BY <2>3, NonePushed, ThreadsAre DEF Call, Calls
        <3>2. <<r>> \o b \in Seq(Calls)
            BY <3>1, SubCalls, Wider, One, Joined
        <3>3. stack' = <<>> \o (<<r>> \o b)
            BY <2>4, <3>2, ConcatEmptySeq
        <3>4. Quiet' = Quiet
            BY DEF Quiet
        <3>5. QED
            BY <3>1, <3>3, <3>4 DEF Over
    <2>6. Ended'
        <3>1. CASE initialized' = FALSE
            BY <3>1 DEF Ended
        <3>2. CASE b = <<Exit>>
            <4>1. <<r>> \in Seq(Calls)
                BY <2>3, ThreadsAre, One DEF Call, Calls
            <4>2. QED
                BY <2>4, <3>2, <4>1 DEF Ended, Exit, Call
        <3>3. QED
            BY <2>4, <3>1, <3>2
    <2>7. QED
        BY <1>0, <1>1, <2>5, <2>6 DEF Safe
<1>8. QED
    BY <1>5, <1>6, <1>7

LEMMA NextSafe ==
    ASSUME StackTyped, VarsTyped, UInv, [Next]_vars
    PROVE  UInv'
<1>1. signals \in Nat
    BY BackendAssumption DEF VarsTyped
<1>2. CASE Signal
    BY <1>1, <1>2 DEF Signal, UInv
<1>3. CASE Next /\ ~Signal
    <2>1. signals' = signals
        BY <1>3 DEF Next, Step, Probe, ThreadEnds, Extrae_fini, ProgramExits, Inhibit, Desinhibit,
           ExecuteDeferred, SigHandler_FlushAndTerminate, SignalReturns, Enter,
           Buffer_InsertSingle, StoreEvent, FlushCallback, DiscardOldest, Buffer_Flush,
           CheckFileSize, Close_mpits, Buffer_Free, TurnOff, SetNotInitialized,
           Backend_Finalize, FlushIfAny, FinishIfAny, Free, FinalizeEnds, Crash, signalling
    <2>2. SUFFICES ASSUME Safe PROVE Safe'
        BY <2>1 DEF UInv
    <2>3. QED
        BY <1>3, <2>2, NoSignalCalls, BeginsSafe, PushesSafe, DataSafe, ReleasesSafe
           DEF Next, Step
<1>4. CASE UNCHANGED vars
    <2>1. Using' = Using /\ Releasing' = Releasing /\ Quiet' = Quiet
        BY <1>4 DEF vars, Using, Releasing, Quiet
    <2>2. SUFFICES ASSUME Safe PROVE Safe'
        BY <1>4 DEF UInv, vars
    <2>3. Over(stack, Using, Releasing, Quiet)'
        BY <1>4, <2>1, <2>2 DEF vars, Safe, Over
    <2>4. Ended' /\ Buffers'
        BY <1>4, <2>2 DEF vars, Safe, Ended, Buffers, Exit, Call, Lasting
    <2>5. QED
        BY <1>4, <2>2, <2>3, <2>4 DEF vars, Safe
<1>5. QED
    BY <1>2, <1>3, <1>4

LEMMA InitSafe == Init => UInv
<1> SUFFICES ASSUME Init PROVE Safe
    BY DEF UInv
<1>1. stack = <<>> \o <<>>
    BY ConcatEmptySeq, NonePushed DEF Init
<1>2. Over(stack, Using, Releasing, Quiet)
    BY <1>1, NonePushed DEF Over
<1>3. Ended
    BY NonePushed DEF Init, Ended
<1>4. Buffers
    BY ThreadsAre DEF Init, Buffers
<1>5. QED
    BY <1>2, <1>3, <1>4 DEF Init, Safe

(* In a program that gets no signal no call ever looks at a buffer, or at   *)
(* the arrays of them, after it was freed: not the flushes of the threads   *)
(* that end, nor those of Backend_Finalize for the threads that remain.     *)
THEOREM UnsignalledSafe == Spec => []NoUseAfterFreeUnsignalled
<1>1. TypeInv /\ [Next]_vars => TypeInv'
    BY NextTyped DEF TypeInv
<1>2. TypeInv /\ UInv /\ [Next]_vars => UInv'
    BY NextSafe DEF TypeInv
<1>3. UInv => NoUseAfterFreeUnsignalled
    BY DEF UInv, Safe, NoUseAfterFreeUnsignalled, NoUseAfterFree
<1>4. QED
    BY <1>2, <1>3, InitSafe, TypeInvariant, PTL DEF Spec
-----------------------------------------------------------------------------
(* Every probe is on disk at the end.                                       *)

\* Some call of s is in R; each one in C has one in R before it, or after it; none in
\* C comes after one in U.
Some(s, R) == \E i \in 1..Len(s) : s[i] \in R
Awaits(s, C, R) == \A i \in 1..Len(s) : s[i] \in C => \E j \in 1..(i - 1) : s[j] \in R
Followed(s, C, R) == \A i \in 1..Len(s) : s[i] \in C => \E j \in (i + 1)..Len(s) : s[j] \in R
Never(s, U, C) == \A i \in 1..Len(s) : s[i] \in U => \A j \in (i + 1)..Len(s) : s[j] \notin C

LEMMA SomeJoined ==
    ASSUME NEW X, NEW a \in Seq(X), NEW b \in Seq(X), NEW R
    PROVE  Some(a \o b, R) <=> Some(a, R) \/ Some(b, R)
<1>1. PICK m \in Nat, n \in Nat : m = Len(a) /\ n = Len(b)
    BY LenProperties
<1>2. PICK s \in Seq(X) : s = a \o b
    BY Joined
<1>3. /\ Len(s) = m + n /\ \A i \in 1..m : s[i] = a[i]
      /\ \A i \in 1..n : s[m + i] = b[i]
    BY <1>1, <1>2, Joined
<1>4. ASSUME NEW i \in 1..(m + n), s[i] \in R  PROVE Some(a, R) \/ Some(b, R)
    <2>1. CASE i <= m
        <3>1. i \in 1..m /\ a[i] \in R
            BY <1>3, <1>4, <2>1
        <3>2. QED
            BY <1>1, <3>1 DEF Some
    <2>2. CASE ~(i <= m)
        <3>1. PICK k \in 1..n : i = m + k
            <4>1. i - m \in 1..n /\ i = m + (i - m)
                BY <2>2
            <4>2. QED
                BY <4>1
        <3>2. b[k] \in R
            BY <1>3, <1>4, <3>1
        <3>3. QED
            BY <1>1, <3>1, <3>2 DEF Some
    <2>3. QED
        BY <2>1, <2>2
<1>5. ASSUME NEW i \in 1..m, a[i] \in R  PROVE Some(s, R)
    <2>1. i \in 1..Len(s) /\ s[i] \in R
        BY <1>3, <1>5
    <2>2. QED
        BY <2>1 DEF Some
<1>6. ASSUME NEW i \in 1..n, b[i] \in R  PROVE Some(s, R)
    <2>1. m + i \in 1..Len(s) /\ s[m + i] \in R
        BY <1>3, <1>6
    <2>2. QED
        BY <2>1 DEF Some
<1>7. Some(s, R) <=> Some(a, R) \/ Some(b, R)
    <2>1. Some(s, R) => Some(a, R) \/ Some(b, R)
        BY <1>3, <1>4 DEF Some
    <2>2. Some(a, R) => Some(s, R)
        BY <1>1, <1>5 DEF Some
    <2>3. Some(b, R) => Some(s, R)
        BY <1>1, <1>6 DEF Some
    <2>4. QED
        BY <2>1, <2>2, <2>3
<1>8. QED
    BY <1>2, <1>7

LEMMA AwaitsJoined ==
    ASSUME NEW X, NEW a \in Seq(X), NEW b \in Seq(X), NEW C, NEW R,
           Awaits(a, C, R), Awaits(b, C, R) \/ Some(a, R)
    PROVE  Awaits(a \o b, C, R)
<1>1. PICK m \in Nat, n \in Nat : m = Len(a) /\ n = Len(b)
    BY LenProperties
<1>2. PICK s \in Seq(X) : s = a \o b
    BY Joined
<1>3. /\ Len(s) = m + n /\ \A i \in 1..m : s[i] = a[i]
      /\ \A i \in 1..n : s[m + i] = b[i]
    BY <1>1, <1>2, Joined
<1>4. ASSUME NEW i \in 1..(m + n), s[i] \in C  PROVE \E j \in 1..(i - 1) : s[j] \in R
    <2>1. CASE i <= m
        <3>1. i \in 1..m /\ a[i] \in C
            BY <1>3, <1>4, <2>1
        <3>2. PICK j \in 1..(i - 1) : a[j] \in R
            BY <1>1, <3>1 DEF Awaits
        <3>3. j \in 1..m /\ s[j] \in R
            BY <1>3, <2>1, <3>2
        <3>4. QED
            BY <3>2, <3>3
    <2>2. CASE ~(i <= m)
        <3>1. PICK k \in 1..n : i = m + k
            <4>1. i - m \in 1..n /\ i = m + (i - m)
                BY <2>2
            <4>2. QED
                BY <4>1
        <3>2. CASE Some(a, R)
            <4>1. PICK j \in 1..m : a[j] \in R
                BY <1>1, <3>2 DEF Some
            <4>2. j \in 1..(i - 1) /\ s[j] \in R
                BY <1>3, <3>1, <4>1
            <4>3. QED
                BY <4>2
        <3>3. CASE Awaits(b, C, R)
            <4>1. b[k] \in C
                BY <1>3, <1>4, <3>1
            <4>2. PICK j \in 1..(k - 1) : b[j] \in R
                BY <1>1, <3>3, <4>1 DEF Awaits
            <4>3. j \in 1..n /\ m + j \in 1..(i - 1)
                BY <3>1, <4>2
            <4>4. s[m + j] \in R
                BY <1>3, <4>2, <4>3
            <4>5. QED
                BY <4>3, <4>4
        <3>4. QED
            BY <3>2, <3>3
    <2>3. QED
        BY <2>1, <2>2
<1>5. Awaits(s, C, R)
    BY <1>3, <1>4 DEF Awaits
<1>6. QED
    BY <1>2, <1>5

LEMMA FollowedJoined ==
    ASSUME NEW X, NEW a \in Seq(X), NEW b \in Seq(X), NEW C, NEW R,
           Followed(b, C, R), Followed(a, C, R) \/ Some(b, R)
    PROVE  Followed(a \o b, C, R)
<1>1. PICK m \in Nat, n \in Nat : m = Len(a) /\ n = Len(b)
    BY LenProperties
<1>2. PICK s \in Seq(X) : s = a \o b
    BY Joined
<1>3. /\ Len(s) = m + n /\ \A i \in 1..m : s[i] = a[i]
      /\ \A i \in 1..n : s[m + i] = b[i]
    BY <1>1, <1>2, Joined
<1>4. ASSUME NEW i \in 1..(m + n), s[i] \in C  PROVE \E j \in (i + 1)..(m + n) : s[j] \in R
    <2>1. CASE i <= m
        <3>1. i \in 1..m /\ a[i] \in C
            BY <1>3, <1>4, <2>1
        <3>2. CASE Followed(a, C, R)
            <4>1. PICK j \in (i + 1)..m : a[j] \in R
                BY <1>1, <3>1, <3>2 DEF Followed
            <4>2. j \in 1..m /\ j \in (i + 1)..(m + n)
                BY <4>1
            <4>3. s[j] \in R
                BY <1>3, <4>1, <4>2
            <4>4. QED
                BY <4>2, <4>3
        <3>3. CASE Some(b, R)
            <4>1. PICK j \in 1..n : b[j] \in R
                BY <1>1, <3>3 DEF Some
            <4>2. m + j \in (i + 1)..(m + n) /\ s[m + j] \in R
                BY <1>3, <2>1, <4>1
            <4>3. QED
                BY <4>2
        <3>4. QED
            BY <3>2, <3>3
    <2>2. CASE ~(i <= m)
        <3>1. PICK k \in 1..n : i = m + k
            <4>1. i - m \in 1..n /\ i = m + (i - m)
                BY <2>2
            <4>2. QED
                BY <4>1
        <3>2. b[k] \in C
            BY <1>3, <1>4, <3>1
        <3>3. PICK j \in (k + 1)..n : b[j] \in R
            BY <1>1, <3>2 DEF Followed
        <3>4. j \in 1..n /\ m + j \in (i + 1)..(m + n)
            BY <3>1, <3>3
        <3>5. s[m + j] \in R
            BY <1>3, <3>3, <3>4
        <3>6. QED
            BY <3>4, <3>5
    <2>3. QED
        BY <2>1, <2>2
<1>5. Followed(s, C, R)
    BY <1>3, <1>4 DEF Followed
<1>6. QED
    BY <1>2, <1>5

LEMMA NeverJoined ==
    ASSUME NEW X, NEW a \in Seq(X), NEW b \in Seq(X), NEW U, NEW C,
           Never(a, U, C), Never(b, U, C), ~Some(a, U) \/ ~Some(b, C)
    PROVE  Never(a \o b, U, C)
<1>1. PICK m \in Nat, n \in Nat : m = Len(a) /\ n = Len(b)
    BY LenProperties
<1>2. PICK s \in Seq(X) : s = a \o b
    BY Joined
<1>3. /\ Len(s) = m + n /\ \A i \in 1..m : s[i] = a[i]
      /\ \A i \in 1..n : s[m + i] = b[i]
    BY <1>1, <1>2, Joined
<1>4. ASSUME NEW i \in 1..(m + n), NEW j \in (i + 1)..(m + n), s[i] \in U, s[j] \in C
      PROVE  FALSE
    <2>1. CASE j <= m
        <3>1. i \in 1..m /\ j \in (i + 1)..m /\ j \in 1..m
            BY <2>1
        <3>2. a[i] \in U /\ a[j] \in C
            BY <1>3, <1>4, <3>1
        <3>3. QED
            BY <1>1, <3>1, <3>2 DEF Never
    <2>2. CASE ~(j <= m)
        <3>1. PICK k \in 1..n : j = m + k
            <4>1. j - m \in 1..n /\ j = m + (j - m)
                BY <2>2
            <4>2. QED
                BY <4>1
        <3>2. b[k] \in C
            BY <1>3, <1>4, <3>1
        <3>3. CASE i <= m
            <4>1. i \in 1..m /\ a[i] \in U
                BY <1>3, <1>4, <3>3
            <4>2. Some(a, U) /\ Some(b, C)
                BY <1>1, <3>1, <3>2, <4>1 DEF Some
            <4>3. QED
                BY <4>2
        <3>4. CASE ~(i <= m)
            <4>1. PICK l \in 1..n : i = m + l
                <5>1. i - m \in 1..n /\ i = m + (i - m)
                    BY <3>4
                <5>2. QED
                    BY <5>1
            <4>2. b[l] \in U /\ k \in (l + 1)..n
                BY <1>3, <1>4, <3>1, <4>1
            <4>3. QED
                BY <1>1, <3>2, <4>1, <4>2 DEF Never
        <3>5. QED
            BY <3>3, <3>4
    <2>3. QED
        BY <2>1, <2>2
<1>5. Never(s, U, C)
    BY <1>3, <1>4 DEF Never
<1>6. QED
    BY <1>2, <1>5

\* What is left when the first call has been taken.
LEMMA SomeRest ==
    ASSUME NEW X, NEW s \in Seq(X), s # <<>>, NEW R
    PROVE  Some(s, R) => Head(s) \in R \/ Some(Tail(s), R)
<1>1. PICK n \in Nat : n = Len(Tail(s))
    BY Rest
<1>2. /\ Len(s) = n + 1 /\ Head(s) = s[1] /\ \A i \in 1..n : Tail(s)[i] = s[i + 1]
    BY <1>1, Rest
<1>3. ASSUME NEW i \in 1..(n + 1), s[i] \in R, Head(s) \notin R  PROVE Some(Tail(s), R)
    <2>1. PICK k \in 1..n : i = k + 1
        <3>1. i # 1
            BY <1>2, <1>3
        <3>2. i - 1 \in 1..n /\ i = (i - 1) + 1
            BY <3>1
        <3>3. QED
            BY <3>2
    <2>2. Tail(s)[k] \in R
        BY <1>2, <1>3, <2>1
    <2>3. QED
        BY <1>1, <2>1, <2>2 DEF Some
<1>4. QED
    BY <1>2, <1>3 DEF Some

LEMMA AwaitsRest ==
    ASSUME NEW X, NEW s \in Seq(X), s # <<>>, NEW C, NEW R, Awaits(s, C, R)
    PROVE  Head(s) \notin C /\ (Head(s) \in R \/ Awaits(Tail(s), C, R))
<1>1. PICK n \in Nat : n = Len(Tail(s))
    BY Rest
<1>2. /\ Len(s) = n + 1 /\ Head(s) = s[1] /\ \A i \in 1..n : Tail(s)[i] = s[i + 1]
    BY <1>1, Rest
<1>3. \A i \in 1..(n + 1) : s[i] \in C => \E j \in 1..(i - 1) : s[j] \in R
    BY <1>2 DEF Awaits
<1>4. Head(s) \notin C
    <2>1. 1 \in 1..(n + 1) /\ 1..(1 - 1) = {}
        OBVIOUS
    <2>2. QED
        BY <1>2, <1>3, <2>1
<1>5. ASSUME NEW i \in 1..n, Tail(s)[i] \in C, Head(s) \notin R
      PROVE  \E j \in 1..(i - 1) : Tail(s)[j] \in R
    <2>1. i + 1 \in 1..(n + 1) /\ s[i + 1] \in C /\ (i + 1) - 1 = i
        BY <1>2, <1>5
    <2>2. PICK j \in 1..i : s[j] \in R
        BY <1>3, <2>1
    <2>3. PICK k \in 1..(i - 1) : j = k + 1
        <3>1. j # 1
            BY <1>2, <1>5, <2>2
        <3>2. j - 1 \in 1..(i - 1) /\ j = (j - 1) + 1
            BY <2>2, <3>1
        <3>3. QED
            BY <3>2
    <2>4. k \in 1..n /\ Tail(s)[k] = s[j]
        BY <1>2, <2>3
    <2>5. QED
        BY <2>2, <2>4
<1>6. Head(s) \notin R => Awaits(Tail(s), C, R)
    BY <1>1, <1>5 DEF Awaits
<1>7. QED
    BY <1>4, <1>6

LEMMA FollowedRest ==
    ASSUME NEW X, NEW s \in Seq(X), s # <<>>, NEW C, NEW R, Followed(s, C, R)
    PROVE  Followed(Tail(s), C, R) /\ (Head(s) \in C => Some(Tail(s), R))
<1>1. PICK n \in Nat : n = Len(Tail(s))
    BY Rest
<1>2. /\ Len(s) = n + 1 /\ Head(s) = s[1] /\ \A i \in 1..n : Tail(s)[i] = s[i + 1]
    BY <1>1, Rest
<1>3. \A i \in 1..(n + 1) : s[i] \in C => \E j \in (i + 1)..(n + 1) : s[j] \in R
    BY <1>2 DEF Followed
<1>4. Head(s) \in C => Some(Tail(s), R)
    <2>1. SUFFICES ASSUME Head(s) \in C  PROVE Some(Tail(s), R)
        OBVIOUS
    <2>2. PICK j \in 2..(n + 1) : s[j] \in R
        <3>1. 1 \in 1..(n + 1) /\ (1 + 1)..(n + 1) = 2..(n + 1)
            OBVIOUS
        <3>2. QED
            BY <1>2, <1>3, <2>1, <3>1
    <2>3. j - 1 \in 1..n /\ Tail(s)[j - 1] = s[j]
        BY <1>2, <2>2
    <2>4. QED
        BY <1>1, <2>2, <2>3 DEF Some
<1>5. ASSUME NEW i \in 1..n, Tail(s)[i] \in C
      PROVE  \E j \in (i + 1)..n : Tail(s)[j] \in R
    <2>1. i + 1 \in 1..(n + 1) /\ s[i + 1] \in C
        BY <1>2, <1>5
    <2>2. PICK j \in ((i + 1) + 1)..(n + 1) : s[j] \in R
        BY <1>3, <2>1
    <2>3. PICK k \in (i + 1)..n : j = k + 1
        <3>1. j - 1 \in (i + 1)..n /\ j = (j - 1) + 1
            BY <2>2
        <3>2. QED
            BY <3>1
    <2>4. Tail(s)[k] = s[j]
        BY <1>2, <2>3
    <2>5. QED
        BY <2>2, <2>4
<1>6. Followed(Tail(s), C, R)
    BY <1>1, <1>5 DEF Followed
<1>7. QED
    BY <1>4, <1>6

LEMMA NeverRest ==
    ASSUME NEW X, NEW s \in Seq(X), s # <<>>, NEW U, NEW C, Never(s, U, C)
    PROVE  Never(Tail(s), U, C) /\ (Head(s) \in U => ~Some(Tail(s), C))
<1>1. PICK n \in Nat : n = Len(Tail(s))
    BY Rest
<1>2. /\ Len(s) = n + 1 /\ Head(s) = s[1] /\ \A i \in 1..n : Tail(s)[i] = s[i + 1]
    BY <1>1, Rest
<1>3. \A i \in 1..(n + 1) : s[i] \in U => \A j \in (i + 1)..(n + 1) : s[j] \notin C
    BY <1>2 DEF Never
<1>4. ASSUME NEW i \in 1..n, Head(s) \in U  PROVE Tail(s)[i] \notin C
    <2>1. 1 \in 1..(n + 1) /\ i + 1 \in (1 + 1)..(n + 1)
        OBVIOUS
    <2>2. s[i + 1] \notin C
        BY <1>2, <1>3, <1>4, <2>1
    <2>3. QED
        BY <1>2, <2>2
<1>5. ASSUME NEW i \in 1..n, NEW j \in (i + 1)..n, Tail(s)[i] \in U  PROVE Tail(s)[j] \notin C
    <2>1. /\ i + 1 \in 1..(n + 1) /\ j + 1 \in ((i + 1) + 1)..(n + 1)
          /\ j \in 1..n
        OBVIOUS
    <2>2. s[i + 1] \in U /\ Tail(s)[j] = s[j + 1]
        BY <1>2, <1>5, <2>1
    <2>3. QED
        BY <1>3, <2>1, <2>2
<1>6. Never(Tail(s), U, C)
    BY <1>1, <1>5 DEF Never
<1>7. Head(s) \in U => ~Some(Tail(s), C)
    BY <1>1, <1>4 DEF Some
<1>8. QED
    BY <1>6, <1>7

\* A sequence without calls of a set.
LEMMA NoneIn ==
    ASSUME NEW X, NEW s \in Seq(X), NEW C, X \cap C = {}
    PROVE  /\ ~Some(s, C)
           /\ \A R : Awaits(s, C, R) /\ Followed(s, C, R) /\ Never(s, C, R) /\ Never(s, R, C)
<1>1. PICK n \in Nat : n = Len(s)
    BY LenProperties
<1>2. \A i \in 1..n : s[i] \notin C
    BY <1>1, ElementOfSeq
<1>3. ~Some(s, C)
    BY <1>1, <1>2 DEF Some
<1>4. ASSUME NEW R, NEW i \in 1..n, NEW j \in (i + 1)..n  PROVE s[j] \notin C
    <2>1. j \in 1..n
        OBVIOUS
    <2>2. QED
        BY <1>2, <2>1
<1>5. ASSUME NEW R
      PROVE  Awaits(s, C, R) /\ Followed(s, C, R) /\ Never(s, C, R) /\ Never(s, R, C)
    <2>1. Awaits(s, C, R)
        BY <1>1, <1>2 DEF Awaits
    <2>2. Followed(s, C, R)
        BY <1>1, <1>2 DEF Followed
    <2>3. Never(s, C, R)
        BY <1>1, <1>2 DEF Never
    <2>4. Never(s, R, C)
        BY <1>1, <1>4 DEF Never
    <2>5. QED
        BY <2>1, <2>2, <2>3, <2>4
<1>6. QED
    BY <1>3, <1>5
-----------------------------------------------------------------------------
(* Events of a kind.                                                        *)

Places(s, e) == {i \in 1..Len(s) : s[i] = e}

LEMMA PlacesFinite ==
    ASSUME NEW X, NEW s \in Seq(X), NEW e
    PROVE  /\ IsFiniteSet(Places(s, e)) /\ Count(s, e) = Cardinality(Places(s, e))
           /\ Count(s, e) \in Nat
<1>1. PICK n \in Nat : n = Len(s) /\ DOMAIN s = 1..n
    BY LenProperties
<1>2. IsFiniteSet(1..n)
    BY FS_Interval
<1>3. Places(s, e) \in SUBSET (1..n)
    BY <1>1 DEF Places
<1>4. IsFiniteSet(Places(s, e))
    BY <1>2, <1>3, FS_Subset
<1>5. Count(s, e) = Cardinality(Places(s, e))
    BY <1>1 DEF Count, Places
<1>6. QED
    BY <1>4, <1>5, FS_CardinalityType

LEMMA CountNone == ASSUME NEW e PROVE Count(<<>>, e) = 0
<1>1. {i \in DOMAIN <<>> : <<>>[i] = e} = {}
    OBVIOUS
<1>2. QED
    BY <1>1, FS_EmptySet DEF Count

LEMMA CountJoined ==
    ASSUME NEW X, NEW a \in Seq(X), NEW b \in Seq(X), NEW e
    PROVE  Count(a \o b, e) = Count(a, e) + Count(b, e)
<1>1. PICK m \in Nat, n \in Nat : m = Len(a) /\ n = Len(b)
    BY LenProperties
<1>2. PICK s \in Seq(X) : s = a \o b
    BY Joined
<1>3. /\ Len(s) = m + n /\ \A i \in 1..m : s[i] = a[i]
      /\ \A i \in 1..n : s[m + i] = b[i]
    BY <1>1, <1>2, Joined
<1>4. PICK A : A = Places(a, e)
    OBVIOUS
<1>5. PICK B : B = Places(b, e)
    OBVIOUS
<1>6. A \subseteq 1..m /\ B \subseteq 1..n
    BY <1>1, <1>4, <1>5 DEF Places
<1>7. PICK D : D = {m + i : i \in B}
    OBVIOUS
<1>8. Places(s, e) = A \cup D
    <2>1. ASSUME NEW i \in 1..(m + n)  PROVE s[i] = e <=> i \in A \cup D
        <3>1. CASE i <= m
            <4>1. i \in 1..m /\ i \notin D
                BY <1>6, <1>7, <3>1
            <4>2. i \in A <=> a[i] = e
                BY <1>1, <1>4, <4>1 DEF Places
            <4>3. QED
                BY <1>3, <4>1, <4>2
        <3>2. CASE ~(i <= m)
            <4>1. PICK k \in 1..n : i = m + k
                <5>1. i - m \in 1..n /\ i = m + (i - m)
                    BY <3>2
                <5>2. QED
                    BY <5>1
            <4>2. i \notin A
                BY <1>6, <3>2
            <4>3. i \in D <=> k \in B
                <5>1. \A l \in B : m + l = m + k => l = k
                    BY <1>6
                <5>2. QED
                    BY <1>7, <4>1, <5>1
            <4>4. k \in B <=> b[k] = e
                BY <1>1, <1>5 DEF Places
            <4>5. QED
                BY <1>3, <4>1, <4>2, <4>3, <4>4
        <3>3. QED
            BY <3>1, <3>2
    <2>2. A \cup D \subseteq 1..(m + n)
        <3>1. \A i \in 1..m : i \in 1..(m + n)
            OBVIOUS
        <3>2. \A i \in 1..n : m + i \in 1..(m + n)
            OBVIOUS
        <3>3. \A d \in D : d \in 1..(m + n)
            BY <1>6, <1>7, <3>2
        <3>4. QED
            BY <1>6, <3>1, <3>3
    <2>3. QED
        BY <1>3, <2>1, <2>2 DEF Places
<1>9. A \cap D = {}
    BY <1>6, <1>7
<1>10. IsFiniteSet(D) /\ Cardinality(D) = Cardinality(B)
    <2>1. PICK f : f = [i \in B |-> m + i]
        OBVIOUS
    <2>2. f \in Bijection(B, D)
        <3>1. f \in [B -> D]
            BY <1>7, <2>1
        <3>2. \A i, j \in B : f[i] = f[j] => i = j
            BY <1>6, <2>1
        <3>3. \A d \in D : \E i \in B : f[i] = d
            BY <1>7, <2>1
        <3>4. QED
            BY <3>1, <3>2, <3>3 DEF Bijection, Injection, Surjection, IsInjective
    <2>3. IsFiniteSet(B) /\ ExistsBijection(B, D)
        BY <1>5, <2>2, PlacesFinite DEF ExistsBijection
    <2>4. QED
        BY <2>3, FS_Bijection
<1>11. Cardinality(A \cup D) = Cardinality(A) + Cardinality(B)
    <2>1. IsFiniteSet(A) /\ Cardinality(A) \in Nat /\ Cardinality(B) \in Nat
        BY <1>4, <1>5, PlacesFinite, FS_CardinalityType
    <2>2. Cardinality(A \cup D) = Cardinality(A) + Cardinality(D) - Cardinality(A \cap D)
        BY <1>10, <2>1, FS_Union
    <2>3. Cardinality(A \cap D) = 0
        BY <1>9, FS_EmptySet
    <2>4. QED
        BY <1>10, <2>1, <2>2, <2>3
<1>12. /\ Count(s, e) = Cardinality(A \cup D) /\ Count(a, e) = Cardinality(A)
       /\ Count(b, e) = Cardinality(B)
    BY <1>4, <1>5, <1>8, PlacesFinite
<1>13. QED
    BY <1>2, <1>11, <1>12

LEMMA CountAppended ==
    ASSUME NEW X, NEW s \in Seq(X), NEW x \in X, NEW e
    PROVE  /\ x = e => Count(Append(s, x), e) = Count(s, e) + 1
           /\ x # e => Count(Append(s, x), e) = Count(s, e)
<1>1. PICK u \in Seq(X) : u = <<x>>
    BY One
<1>2. Count(Append(s, x), e) = Count(s, e) + Count(u, e)
    <2>1. Append(s, x) = s \o u
        BY <1>1, AppendIsConcat
    <2>2. QED
        BY <2>1, CountJoined
<1>3. Len(u) = 1 /\ u[1] = x
    BY <1>1
<1>4. x = e => Count(u, e) = 1
    <2>1. x = e => Places(u, e) = {1}
        BY <1>3 DEF Places
    <2>2. Cardinality({1}) = 1
        BY FS_Singleton
    <2>3. QED
        BY <2>1, <2>2, PlacesFinite
<1>5. x # e => Count(u, e) = 0
    <2>1. x # e => Places(u, e) = {}
        BY <1>3 DEF Places
    <2>2. Cardinality({}) = 0
        BY FS_EmptySet
    <2>3. QED
        BY <2>1, <2>2, PlacesFinite
<1>6. Count(s, e) \in Nat
    BY PlacesFinite
<1>7. QED
    BY <1>2, <1>4, <1>5, <1>6
-----------------------------------------------------------------------------
(* The invariant: an event of the program that is still in a ring has a     *)
(* flush ahead of it before that buffer is closed or freed.                 *)

\* Calls that emit an event of the program; that close or free; that free the buffer of t;
\* that close it, or will; that write it out, or will.
OfProgram == {c \in Calls : c.ev = "user"}
Enders == {c \in Calls : c.do \in {"close_mpits", "Buffer_Free", "Free"}}
Frees(t) == {c \in Calls : c.do = "Free" \/ (c.do = "Buffer_Free" /\ c.buf = t)}
Closes(t) == {c \in Calls : c.do \in {"close_mpits", "FinishIfAny"} /\ c.buf = t}
Sinks(t) == {c \in Calls : c.do = "Free" \/ (c.do \in {"Buffer_Free", "close_mpits"} /\ c.buf = t)}
Writes(t) ==
    {c \in Calls : c.do \in {"FlushIfAny", "FlushCallback", "Buffer_Flush"} /\ c.buf = t}
FinalizeEnd == {c \in Calls : c.do = "FinalizeEnds"}
AnyFree == {c \in Calls : c.do = "Free"}
\* The other calls; and those of them that emit no event of the program.
Light ==
    {c \in Calls : c.do \notin {"close_mpits", "Buffer_Free", "Free", "FinishIfAny",
                                "FinalizeEnds"}}
Neutral == Light \ OfProgram

Unbounded == ~Circular /\ FileLimit = 0

Accounted(t) == owed[t] = 0 /\ Count(file[t], "user") + Count(ring[t], "user") = probes[t]
Ordered(s) ==
    /\ Never(s, OfProgram, Enders)
    /\ \A t \in Threads : Followed(s, Closes(t), Frees(t))
ClosedFreed(t) == live[t] = TRUE /\ table = "live" /\ open[t] = FALSE => Some(stack, Frees(t))
Unwritten(t) ==
    Count(ring[t], "user") # 0 =>
      /\ open[t] = TRUE /\ live[t] = TRUE /\ table = "live"
      /\ Awaits(stack, Sinks(t), Writes(t))
FreedAtEnd == table = "live" => finalized = 0 /\ Awaits(stack, FinalizeEnd, AnyFree)

DiskInv ==
    Unbounded =>
      /\ \A t \in Threads : Accounted(t) /\ ClosedFreed(t) /\ Unwritten(t)
      /\ Ordered(stack)
      /\ FreedAtEnd

LEMMA LightApart ==
    /\ Light \cap Enders = {} /\ Light \cap FinalizeEnd = {}
    /\ \A t \in Threads : Light \cap Closes(t) = {} /\ Light \cap Sinks(t) = {}
    /\ Light \subseteq Calls
BY DEF Light, Enders, FinalizeEnd, Closes, Sinks

LEMMA LightOrdered ==
    ASSUME NEW calls \in Seq(Light), NEW r \in Seq(Calls), Ordered(r),
           ~Some(calls, OfProgram) \/ ~Some(r, Enders)
    PROVE  Ordered(calls \o r)
<1>1. calls \in Seq(Calls)
    BY LightApart, Wider
<1>2. Never(calls, OfProgram, Enders)
    BY LightApart, NoneIn
<1>3. Never(calls \o r, OfProgram, Enders)
    BY <1>1, <1>2, NeverJoined DEF Ordered
<1>4. ASSUME NEW t \in Threads  PROVE Followed(calls \o r, Closes(t), Frees(t))
    <2>1. Light \cap Closes(t) = {}
        BY LightApart
    <2>2. Followed(calls, Closes(t), Frees(t))
        BY <2>1, NoneIn
    <2>3. QED
        BY <1>1, <2>2, FollowedJoined DEF Ordered
<1>5. QED
    BY <1>3, <1>4 DEF Ordered

LEMMA OrderedRest ==
    ASSUME NEW s \in Seq(Calls), s # <<>>, Ordered(s)
    PROVE  Ordered(Tail(s))
<1>1. Never(Tail(s), OfProgram, Enders)
    BY NeverRest DEF Ordered
<1>2. ASSUME NEW t \in Threads  PROVE Followed(Tail(s), Closes(t), Frees(t))
    BY FollowedRest DEF Ordered
<1>3. QED
    BY <1>1, <1>2 DEF Ordered

Data == <<options, owed, ring, file, open, live, table, probes, finalized>>

\* A step that changes only what is pending.
LEMMA PendingKept ==
    ASSUME DiskInv, UNCHANGED Data, Ordered(stack'),
           \A t \in Threads : Some(stack, Frees(t)) => Some(stack', Frees(t)),
           \A t \in Threads : Count(ring[t], "user") # 0 /\ Awaits(stack, Sinks(t), Writes(t))
                                 => Awaits(stack', Sinks(t), Writes(t)),
           Awaits(stack, FinalizeEnd, AnyFree) => Awaits(stack', FinalizeEnd, AnyFree)
    PROVE  DiskInv'
<1>1. SUFFICES ASSUME Unbounded  PROVE DiskInv'
    BY DEF DiskInv, Unbounded, Circular, FileLimit, Data
<1>2. ASSUME NEW t \in Threads  PROVE Accounted(t)'
    BY <1>1 DEF DiskInv, Accounted, Data
<1>3. ASSUME NEW t \in Threads  PROVE ClosedFreed(t)'
    BY <1>1 DEF DiskInv, ClosedFreed, Data
<1>4. ASSUME NEW t \in Threads  PROVE Unwritten(t)'
    BY <1>1 DEF DiskInv, Unwritten, Data
<1>5. FreedAtEnd'
    BY <1>1 DEF DiskInv, FreedAtEnd, Data
<1>6. QED
    BY <1>2, <1>3, <1>4, <1>5 DEF DiskInv

\* A step that puts light calls in the place of the one on top.
LEMMA LightKept ==
    ASSUME stack \in Seq(Calls), stack # <<>>, DiskInv, Unbounded, UNCHANGED Data,
           Head(stack).do \notin {"Free", "Buffer_Free"},
           NEW calls \in Seq(Light), Return(calls),
           calls \in Seq(Neutral) \/ Head(stack).ev = "user",
           \A t \in Threads : Count(ring[t], "user") # 0 /\ Head(stack) \in Writes(t)
                                 => Some(calls, Writes(t))
    PROVE  DiskInv'
<1>1. PICK r \in Seq(Calls) : r = Tail(stack)
    BY Rest
<1>2. stack' = calls \o r /\ calls \in Seq(Calls)
    BY <1>1, LightApart, Wider DEF Return
<1>3. Ordered(stack')
    <2>1. ~Some(calls, OfProgram) \/ ~Some(r, Enders)
        <3>1. CASE calls \in Seq(Neutral)
            <4>1. Neutral \cap OfProgram = {}
                BY DEF Neutral
            <4>2. QED
                BY <3>1, <4>1, NoneIn
        <3>2. CASE Head(stack).ev = "user"
            <4>1. Head(stack) \in OfProgram
                BY <3>2, Rest DEF OfProgram
            <4>2. Never(stack, OfProgram, Enders)
                BY DEF DiskInv, Ordered
            <4>3. QED
                BY <1>1, <4>1, <4>2, NeverRest
        <3>3. QED
            BY <3>1, <3>2
    <2>2. QED
        BY <1>1, <1>2, <2>1, OrderedRest, LightOrdered DEF DiskInv
<1>4. ASSUME NEW t \in Threads, Some(stack, Frees(t))  PROVE Some(stack', Frees(t))
    <2>1. Head(stack) \notin Frees(t)
        BY DEF Frees
    <2>2. Some(r, Frees(t))
        BY <1>1, <1>4, <2>1, SomeRest
    <2>3. QED
        BY <1>2, <2>2, SomeJoined
<1>5. ASSUME NEW t \in Threads, Count(ring[t], "user") # 0, Awaits(stack, Sinks(t), Writes(t))
      PROVE  Awaits(stack', Sinks(t), Writes(t))
    <2>1. Awaits(r, Sinks(t), Writes(t)) \/ Some(calls, Writes(t))
        BY <1>1, <1>5, AwaitsRest
    <2>2. Light \cap Sinks(t) = {}
        BY LightApart
    <2>3. Awaits(calls, Sinks(t), Writes(t))
        BY <2>2, NoneIn
    <2>4. QED
        BY <1>2, <2>1, <2>3, AwaitsJoined
<1>6. ASSUME Awaits(stack, FinalizeEnd, AnyFree)  PROVE Awaits(stack', FinalizeEnd, AnyFree)
    <2>1. Head(stack) \notin AnyFree
        BY DEF AnyFree
    <2>2. Awaits(r, FinalizeEnd, AnyFree)
        BY <1>1, <1>6, <2>1, AwaitsRest
    <2>3. Awaits(calls, FinalizeEnd, AnyFree)
        BY LightApart, NoneIn
    <2>4. QED
        BY <1>2, <2>2, <2>3, AwaitsJoined
<1>7. QED
    BY <1>3, <1>4, <1>5, <1>6, PendingKept
-----------------------------------------------------------------------------
(* What is pushed                                                           *)

LEMMA NeutralCalls ==
    /\ \A t \in Threads : \A name \in Plain \ {"close_mpits", "Buffer_Free", "Free", "FinishIfAny"} :
          Call(name, t) \in Neutral
    /\ \A t \in Threads : \A e \in Kinds \ {"user"} :
          InsertSingle(t, e) \in Neutral /\ Store(t, e) \in Neutral
    /\ Neutral \subseteq Light /\ Light \subseteq Calls
BY DEF Call, InsertSingle, Store, Neutral, Light, OfProgram, Calls, Plain, Kinds

LEMMA NeutralLight == \A s \in Seq(Neutral) : s \in Seq(Light)
BY NeutralCalls, Wider

LEMMA InsertNeutral ==
    ASSUME NEW t \in Threads, NEW e \in Kinds \ {"user"}
    PROVE  BUFFER_INSERT(t, e) \in Seq(Neutral)
BY NeutralCalls, InsertPushed DEF Plain

LEMMA FlushNeutral ==
    ASSUME me \in Threads, NEW t \in Threads
    PROVE  Extrae_Flush_Wrapper(t) \in Seq(Neutral) /\ Some(Extrae_Flush_Wrapper(t), Writes(t))
<1>1. BUFFER_INSERT(t, "flush") \in Seq(Neutral) /\ BUFFER_INSERT(me, "cpu") \in Seq(Neutral)
    BY InsertNeutral DEF Kinds
<1>2. Call("Buffer_Flush", t) \in Neutral /\ Call("CheckFileSize", t) \in Neutral
    BY NeutralCalls DEF Plain
<1>3. Extrae_AnnotateTopology \in Seq(Neutral)
    BY <1>1, AnnotatePushed
<1>4. Extrae_Flush_Wrapper(t) \in Seq(Neutral)
    BY <1>1, <1>2, <1>3, FlushPushed
<1>5. Some(Extrae_Flush_Wrapper(t), Writes(t))
    <2> DEFINE f == <<Call("Buffer_Flush", t)>>
               a == f \o BUFFER_INSERT(t, "flush")
               b == a \o Extrae_AnnotateTopology
               c == b \o BUFFER_INSERT(t, "flush")
               d == c \o Extrae_AnnotateTopology
    <2>1. Call("Buffer_Flush", t) \in Writes(t)
        BY <1>2, NeutralCalls DEF Writes, Call
    <2>2. f \in Seq(Neutral) /\ Some(f, Writes(t))
        BY <1>2, <2>1 DEF Some
    <2> HIDE DEF f
    <2>3. a \in Seq(Neutral) /\ Some(a, Writes(t))
        BY <1>1, <2>2, Joined, SomeJoined
    <2> HIDE DEF a
    <2>4. b \in Seq(Neutral) /\ Some(b, Writes(t))
        BY <1>3, <2>3, Joined, SomeJoined
    <2> HIDE DEF b
    <2>5. c \in Seq(Neutral) /\ Some(c, Writes(t))
        BY <1>1, <2>4, Joined, SomeJoined
    <2> HIDE DEF c
    <2>6. d \in Seq(Neutral) /\ Some(d, Writes(t))
        BY <1>3, <2>5, Joined, SomeJoined
    <2> HIDE DEF d
    <2>7. <<Call("CheckFileSize", t)>> \in Seq(Neutral)
        BY <1>2, One
    <2>8. Some(d \o <<Call("CheckFileSize", t)>>, Writes(t))
        BY <2>6, <2>7, SomeJoined
    <2>9. QED
        BY <2>8 DEF a, b, c, d, f, Extrae_Flush_Wrapper
<1>6. QED
    BY <1>4, <1>5

-----------------------------------------------------------------------------
(* The steps                                                                *)

\* Those that put other calls in the place of the one on top, or none.
LEMMA FlagsDisk ==
    ASSUME StackTyped, VarsTyped, DiskInv, Unbounded,
           \/ Inhibit \/ Desinhibit \/ ExecuteDeferred \/ SigHandler_FlushAndTerminate
           \/ SignalReturns \/ TurnOff \/ SetNotInitialized \/ CheckFileSize
    PROVE  DiskInv'
<1>1. stack \in Seq(Calls)
    BY DEF StackTyped
<1>2. PICK name \in Plain \ {"close_mpits", "Buffer_Free", "Free"} :
         Executes(name) /\ name \notin {"FlushIfAny", "FlushCallback", "Buffer_Flush"}
    <2>1. \/ Executes("Signals_Inhibit") \/ Executes("Signals_Desinhibit")
          \/ Executes("Signals_ExecuteDeferred") \/ Executes("SigHandler")
          \/ Executes("SignalReturns") \/ Executes("TurnOff") \/ Executes("SetNotInitialized")
          \/ Executes("CheckFileSize")
        BY DEF Inhibit, Desinhibit, ExecuteDeferred, SigHandler_FlushAndTerminate, SignalReturns,
           TurnOff, SetNotInitialized, CheckFileSize
    <2>2. QED
        BY <2>1 DEF Plain
<1>3. stack # <<>> /\ Head(stack).do = name
    BY <1>1, <1>2, OnTop
<1>4. UNCHANGED Data
    BY DEF Inhibit, Desinhibit, ExecuteDeferred, SigHandler_FlushAndTerminate, SignalReturns,
       TurnOff, SetNotInitialized, CheckFileSize, Data, buffers, control, history
<1>5. <<>> \in Seq(Neutral)
    BY NonePushed
<1>6. PICK calls \in Seq(Neutral) : Return(calls)
    <2>1. CASE Inhibit \/ Desinhibit \/ SignalReturns \/ TurnOff \/ SetNotInitialized
        BY <1>5, <2>1 DEF Inhibit, Desinhibit, SignalReturns, TurnOff, SetNotInitialized
    <2>2. CASE ExecuteDeferred
        <3>1. Call("SigHandler", 0) \in Neutral
            BY NeutralCalls, ThreadsAre DEF Plain
        <3>2. <<Call("SigHandler", 0)>> \in Seq(Neutral)
            BY <3>1, One
        <3>3. QED
            BY <1>5, <2>2, <3>2 DEF ExecuteDeferred
    <2>3. CASE SigHandler_FlushAndTerminate
        <3>1. Call("Backend_Finalize", 0) \in Neutral /\ Call("TurnOff", 0) \in Neutral
            BY NeutralCalls, ThreadsAre DEF Plain
        <3>2. <<Call("Backend_Finalize", 0), Call("TurnOff", 0)>> \in Seq(Neutral)
            BY <3>1
        <3>3. QED
            BY <1>5, <2>3, <3>2 DEF SigHandler_FlushAndTerminate
    <2>4. CASE CheckFileSize
        <3>1. ~LimitReached(Top)
            BY DEF Unbounded, LimitReached
        <3>2. Return(<<>>)
            BY <2>4, <3>1 DEF CheckFileSize
        <3>3. QED
            BY <1>5, <3>2
    <2>5. QED
        BY <2>1, <2>2, <2>3, <2>4
<1>7. \A t \in Threads : Head(stack) \notin Writes(t)
    BY <1>2, <1>3 DEF Writes
<1>8. Head(stack).do \notin {"Free", "Buffer_Free"}
    BY <1>2, <1>3
<1>9. QED
    BY <1>1, <1>3, <1>4, <1>6, <1>7, <1>8, LightKept, NeutralLight

LEMMA FlushesDisk ==
    ASSUME StackTyped, VarsTyped, DiskInv, Unbounded, Enter \/ FlushCallback \/ FlushIfAny
    PROVE  DiskInv'
<1>1. stack \in Seq(Calls) /\ me \in Threads
    BY DEF StackTyped, VarsTyped
<1>2. PICK name \in {"Enter", "FlushCallback", "FlushIfAny"} : Executes(name)
    BY DEF Enter, FlushCallback, FlushIfAny
<1>3. stack # <<>> /\ Head(stack).do = name /\ Top \in Threads /\ Head(stack) \in Calls
    BY <1>1, <1>2, OnTop
<1>4. UNCHANGED Data
    BY DEF Enter, FlushCallback, FlushIfAny, Data, buffers, control, history
<1>5. <<>> \in Seq(Neutral)
    BY NonePushed
<1>6. /\ <<Call("FlushCallback", Top)>> \in Seq(Neutral)
      /\ Some(<<Call("FlushCallback", Top)>>, Writes(Top))
    <2>1. Call("FlushCallback", Top) \in Neutral
        BY <1>3, NeutralCalls DEF Plain
    <2>2. Call("FlushCallback", Top) \in Writes(Top)
        BY <2>1, NeutralCalls DEF Writes, Call
    <2>3. QED
        BY <2>1, <2>2, One DEF Some
<1>7. Count(ring[Top], "user") # 0 => open[Top] = TRUE /\ live[Top] = TRUE
    BY <1>3 DEF DiskInv, Unwritten
<1>8. \E calls \in Seq(Neutral) :
         /\ Return(calls)
         /\ name # "Enter" /\ Count(ring[Top], "user") # 0 => Some(calls, Writes(Top))
    <2>1. CASE Enter
        <3>1. name = "Enter"
            BY <1>3, <2>1 DEF Enter, Executes
        <3>2. PICK calls \in Seq(Neutral) : Return(calls)
            BY <1>5, <1>6, <2>1 DEF Enter
        <3>3. QED
            BY <3>1, <3>2
    <2>2. CASE FlushCallback
        <3>1. CASE open[Top] = TRUE
            <4>1. Return(Extrae_Flush_Wrapper(Top))
                BY <2>2, <3>1 DEF FlushCallback
            <4>2. QED
                BY <1>1, <1>3, <4>1, FlushNeutral
        <3>2. CASE open[Top] # TRUE
            <4>1. open[Top] = FALSE
                BY <1>3, <3>2 DEF VarsTyped
            <4>2. Return(<<>>)
                BY <2>2, <4>1 DEF FlushCallback
            <4>3. QED
                BY <1>5, <1>7, <3>2, <4>2
        <3>3. QED
            BY <3>1, <3>2
    <2>3. CASE FlushIfAny
        <3>1. CASE live[Top] = TRUE
            <4>1. Return(<<Call("FlushCallback", Top)>>)
                BY <2>3, <3>1 DEF FlushIfAny
            <4>2. QED
                BY <1>6, <4>1
        <3>2. CASE live[Top] # TRUE
            <4>1. live[Top] = FALSE
                BY <1>3, <3>2 DEF VarsTyped
            <4>2. Return(<<>>)
                BY <2>3, <4>1 DEF FlushIfAny
            <4>3. QED
                BY <1>5, <1>7, <3>2, <4>2
        <3>3. QED
            BY <3>1, <3>2
    <2>4. QED
        BY <2>1, <2>2, <2>3
<1>9. PICK calls \in Seq(Neutral) :
         /\ Return(calls)
         /\ name # "Enter" /\ Count(ring[Top], "user") # 0 => Some(calls, Writes(Top))
    BY <1>8
<1>10. ASSUME NEW t \in Threads, Count(ring[t], "user") # 0, Head(stack) \in Writes(t)
       PROVE  Some(calls, Writes(t))
    <2>1. name # "Enter" /\ t = Top
        BY <1>3, <1>10 DEF Writes, Top
    <2>2. QED
        BY <1>9, <1>10, <2>1
<1>11. Head(stack).do \notin {"Free", "Buffer_Free"}
    BY <1>3
<1>12. QED
    BY <1>1, <1>3, <1>4, <1>9, <1>10, <1>11, LightKept, NeutralLight
LEMMA InsertDisk ==
    ASSUME StackTyped, VarsTyped, DiskInv, Unbounded, Buffer_InsertSingle
    PROVE  DiskInv'
<1>1. stack \in Seq(Calls) /\ Executes("InsertSingle")
    BY DEF StackTyped, Buffer_InsertSingle
<1>2. /\ stack # <<>> /\ Head(stack).do = "InsertSingle" /\ Top \in Threads
      /\ Head(stack) \in Calls /\ Head(stack).ev \in Kinds
    BY <1>1, OnTop
<1>3. UNCHANGED Data
    BY DEF Buffer_InsertSingle, Data, buffers, control, history
<1>4. PICK e \in Kinds : e = Head(stack).ev
    BY <1>2
<1>5. PICK f \in Seq(Neutral) : Return(f \o <<Store(Top, e)>>)
    <2>1. <<Call("FlushCallback", Top)>> \in Seq(Neutral)
        BY <1>2, NeutralCalls, One DEF Plain
    <2>2. <<>> \in Seq(Neutral)
        BY NonePushed
    <2>3. QED
        BY <1>4, <2>1, <2>2 DEF Buffer_InsertSingle
<1>6. Store(Top, e) \in Light /\ (e # "user" => Store(Top, e) \in Neutral)
    <2>1. Store(Top, e) \in Light
        BY <1>2 DEF Light, Store, Calls
    <2>2. QED
        BY <1>2, <2>1, NeutralCalls
<1>7. PICK calls : calls = f \o <<Store(Top, e)>>
    OBVIOUS
<1>8. calls \in Seq(Light) /\ (e # "user" => calls \in Seq(Neutral))
    <2>1. f \in Seq(Light)
        BY NeutralLight
    <2>2. calls \in Seq(Light)
        BY <1>6, <1>7, <2>1, One, Joined
    <2>3. e # "user" => calls \in Seq(Neutral)
        BY <1>6, <1>7, One, Joined
    <2>4. QED
        BY <2>2, <2>3
<1>9. \A t \in Threads : Head(stack) \notin Writes(t)
    BY <1>2 DEF Writes
<1>10. Head(stack).do \notin {"Free", "Buffer_Free"}
    BY <1>2
<1>11. Return(calls)
    BY <1>5, <1>7
<1>12. calls \in Seq(Neutral) \/ Head(stack).ev = "user"
    BY <1>4, <1>8
<1>13. QED
    BY <1>1, <1>2, <1>3, <1>8, <1>9, <1>10, <1>11, <1>12, LightKept

\* What is pending when the call on top has returned.
LEMMA PoppedKept ==
    ASSUME stack \in Seq(Calls), stack # <<>>, DiskInv, Unbounded, Return(<<>>)
    PROVE  /\ stack' \in Seq(Calls) /\ stack' = Tail(stack) /\ Ordered(stack')
           /\ Head(stack) \in OfProgram => ~Some(stack', Enders)
           /\ \A t \in Threads :
                 /\ Head(stack) \notin Frees(t) /\ Some(stack, Frees(t)) => Some(stack', Frees(t))
                 /\ Head(stack) \in Closes(t) => Some(stack', Frees(t))
                 /\ Awaits(stack, Sinks(t), Writes(t)) => Head(stack) \notin Sinks(t)
                 /\ Head(stack) \notin Writes(t) /\ Awaits(stack, Sinks(t), Writes(t))
                       => Awaits(stack', Sinks(t), Writes(t))
           /\ Head(stack) \notin AnyFree /\ Awaits(stack, FinalizeEnd, AnyFree)
                 => Awaits(stack', FinalizeEnd, AnyFree)
<1>1. stack' \in Seq(Calls) /\ stack' = Tail(stack)
    BY Rest, ConcatEmptySeq DEF Return
<1>2. Ordered(stack) /\ Never(stack, OfProgram, Enders)
    BY DEF DiskInv, Ordered
<1>3. Ordered(stack')
    BY <1>1, <1>2, OrderedRest
<1>4. Head(stack) \in OfProgram => ~Some(stack', Enders)
    BY <1>1, <1>2, NeverRest
<1>5. ASSUME NEW t \in Threads
      PROVE  /\ Head(stack) \notin Frees(t) /\ Some(stack, Frees(t)) => Some(stack', Frees(t))
             /\ Head(stack) \in Closes(t) => Some(stack', Frees(t))
             /\ Awaits(stack, Sinks(t), Writes(t)) => Head(stack) \notin Sinks(t)
             /\ Head(stack) \notin Writes(t) /\ Awaits(stack, Sinks(t), Writes(t))
                   => Awaits(stack', Sinks(t), Writes(t))
    <2>1. Head(stack) \notin Frees(t) /\ Some(stack, Frees(t)) => Some(stack', Frees(t))
        BY <1>1, SomeRest
    <2>2. Followed(stack, Closes(t), Frees(t))
        BY <1>2 DEF Ordered
    <2>3. Head(stack) \in Closes(t) => Some(stack', Frees(t))
        BY <1>1, <2>2, FollowedRest
    <2>4. Awaits(stack, Sinks(t), Writes(t))
             => /\ Head(stack) \notin Sinks(t)
                /\ Head(stack) \notin Writes(t) => Awaits(stack', Sinks(t), Writes(t))
        BY <1>1, AwaitsRest
    <2>5. QED
        BY <2>1, <2>3, <2>4
<1>6. Head(stack) \notin AnyFree /\ Awaits(stack, FinalizeEnd, AnyFree)
         => Awaits(stack', FinalizeEnd, AnyFree)
    BY <1>1, AwaitsRest
<1>7. QED
    BY <1>1, <1>3, <1>4, <1>5, <1>6

\* An event goes into a ring: one of the program, into a ring with a flush ahead of it.
LEMMA StoreDisk ==
    ASSUME StackTyped, VarsTyped, DiskInv, Unbounded, StoreEvent
    PROVE  DiskInv'
<1>1. stack \in Seq(Calls) /\ Executes("Store") /\ Return(<<>>)
    BY DEF StackTyped, StoreEvent
<1>2. /\ stack # <<>> /\ Head(stack).do = "Store" /\ Top \in Threads
      /\ Head(stack) \in Calls /\ Head(stack).ev \in Kinds
    BY <1>1, OnTop
<1>3. PICK e \in Kinds, u \in Threads : e = Head(stack).ev /\ u = Top
    BY <1>2
<1>4. /\ UNCHANGED <<options, file, open, live, table, finalized>>
      /\ table = "live" /\ live[u] = TRUE
      /\ probes' = IF e = "user" THEN [probes EXCEPT ![u] = @ + 1] ELSE probes
    BY <1>3 DEF StoreEvent, control, Accessible, VarsTyped
<1>5. owed' = owed /\ ring' = [ring EXCEPT ![u] = Append(@, e)]
    <2>1. ~(owed[u] > 0)
        BY DEF DiskInv, Accounted
    <2>2. QED
        BY <1>3, <2>1 DEF StoreEvent
<1>6. /\ ring \in [Threads -> Seq(Kinds)] /\ file \in [Threads -> Seq(Kinds)]
      /\ probes \in [Threads -> Nat] /\ open \in [Threads -> BOOLEAN]
    BY DEF VarsTyped
<1>7. /\ \A t \in Threads \ {u} : ring'[t] = ring[t] /\ probes'[t] = probes[t]
      /\ ring'[u] = Append(ring[u], e)
      /\ e = "user" => probes'[u] = probes[u] + 1
      /\ e # "user" => probes'[u] = probes[u]
    BY <1>4, <1>5, <1>6
<1>8. /\ e = "user" => Count(ring'[u], "user") = Count(ring[u], "user") + 1
      /\ e # "user" => Count(ring'[u], "user") = Count(ring[u], "user")
    <2>1. PICK s \in Seq(Kinds) : s = ring[u]
        BY <1>6
    <2>2. ring'[u] = Append(s, e)
        BY <1>7, <2>1
    <2>3. QED
        BY <2>1, <2>2, CountAppended
<1>9. ASSUME NEW t \in Threads  PROVE Accounted(t)'
    <2>1. owed[t] = 0 /\ Count(file[t], "user") + Count(ring[t], "user") = probes[t]
        BY DEF DiskInv, Accounted
    <2>2. Count(file[t], "user") \in Nat /\ Count(ring[t], "user") \in Nat
        BY <1>6, PlacesFinite
    <2>3. Count(file[t], "user") + Count(ring'[t], "user") = probes'[t]
        <3>1. CASE t = u
            <4>1. PICK m \in Nat, n \in Nat : m = Count(file[t], "user") /\ n = Count(ring[t], "user")
                BY <2>2
            <4>2. CASE e = "user"
                <5>1. Count(ring'[t], "user") = n + 1 /\ probes'[t] = probes[t] + 1
                    BY <1>7, <1>8, <3>1, <4>1, <4>2
                <5>2. probes[t] = m + n
                    BY <2>1, <4>1
                <5>3. QED
                    BY <4>1, <5>1, <5>2
            <4>3. CASE e # "user"
                <5>1. Count(ring'[t], "user") = n /\ probes'[t] = probes[t]
                    BY <1>7, <1>8, <3>1, <4>1, <4>3
                <5>2. QED
                    BY <2>1, <4>1, <5>1
            <4>4. QED
                BY <4>2, <4>3
        <3>2. CASE t # u
            BY <1>7, <2>1, <3>2
        <3>3. QED
            BY <3>1, <3>2
    <2>4. QED
        BY <1>4, <1>5, <2>1, <2>3 DEF Accounted
<1>10. \A t \in Threads : Head(stack) \notin Frees(t) /\ Head(stack) \notin Writes(t)
    BY <1>2 DEF Frees, Writes
<1>11. Head(stack) \notin AnyFree
    BY <1>2 DEF AnyFree
<1>12. ASSUME NEW t \in Threads  PROVE ClosedFreed(t)'
    <2>1. ClosedFreed(t)
        BY DEF DiskInv
    <2>2. Some(stack, Frees(t)) => Some(stack', Frees(t))
        BY <1>1, <1>2, <1>10, PoppedKept
    <2>3. QED
        BY <1>4, <2>1, <2>2 DEF ClosedFreed
<1>13. ASSUME NEW t \in Threads  PROVE Unwritten(t)'
    <2>1. CASE e = "user" /\ t = u
        <3>1. ~Some(stack', Enders)
            <4>1. Head(stack) \in OfProgram
                BY <1>2, <1>3, <2>1 DEF OfProgram
            <4>2. QED
                BY <1>1, <1>2, <4>1, PoppedKept
        <3>2. stack' \in Seq(Calls)
            BY <1>1, <1>2, PoppedKept
        <3>3. \A i \in 1..Len(stack') : stack'[i] \notin Enders
            BY <3>1 DEF Some
        <3>4. Awaits(stack', Sinks(t), Writes(t))
            <4>1. \A c \in Sinks(t) : c \in Enders
                BY DEF Sinks, Enders
            <4>2. QED
                BY <3>3, <4>1 DEF Awaits
        <3>5. open[t] = TRUE
            <4>1. SUFFICES ASSUME open[t] = FALSE  PROVE FALSE
                BY <1>6
            <4>2. ClosedFreed(t)
                BY DEF DiskInv
            <4>3. Some(stack, Frees(t))
                BY <1>4, <2>1, <4>1, <4>2 DEF ClosedFreed
            <4>4. Some(stack', Frees(t))
                BY <1>1, <1>2, <1>10, <4>3, PoppedKept
            <4>5. \A c \in Frees(t) : c \in Enders
                BY DEF Frees, Enders
            <4>6. QED
                BY <3>3, <4>4, <4>5 DEF Some
        <3>6. QED
            BY <1>4, <2>1, <3>4, <3>5 DEF Unwritten
    <2>2. CASE ~(e = "user" /\ t = u)
        <3>1. Count(ring'[t], "user") = Count(ring[t], "user")
            BY <1>7, <1>8, <2>2
        <3>2. Unwritten(t)
            BY DEF DiskInv
        <3>3. Awaits(stack, Sinks(t), Writes(t)) => Awaits(stack', Sinks(t), Writes(t))
            BY <1>1, <1>2, <1>10, PoppedKept
        <3>4. QED
            BY <1>4, <3>1, <3>2, <3>3 DEF Unwritten
    <2>3. QED
        BY <2>1, <2>2
<1>14. FreedAtEnd'
    <2>1. FreedAtEnd
        BY DEF DiskInv
    <2>2. Awaits(stack, FinalizeEnd, AnyFree) => Awaits(stack', FinalizeEnd, AnyFree)
        BY <1>1, <1>2, <1>11, PoppedKept
    <2>3. QED
        BY <1>4, <2>1, <2>2 DEF FreedAtEnd
<1>15. Ordered(stack')
    BY <1>1, <1>2, PoppedKept
<1>16. QED
    BY <1>9, <1>12, <1>13, <1>14, <1>15 DEF DiskInv
\* The ring is empty afterwards, or no event of the program was in it.
LEMMA WritesDisk ==
    ASSUME StackTyped, VarsTyped, DiskInv, Unbounded, Buffer_Flush
    PROVE  DiskInv'
<1>1. stack \in Seq(Calls) /\ Executes("Buffer_Flush") /\ Return(<<>>)
    BY DEF StackTyped, Buffer_Flush
<1>2. /\ stack # <<>> /\ Head(stack).do = "Buffer_Flush" /\ Top \in Threads
      /\ Head(stack) \in Calls
    BY <1>1, OnTop
<1>3. PICK u \in Threads : u = Top
    BY <1>2
<1>4. UNCHANGED <<options, owed, open, live, table, probes, finalized>>
    BY DEF Buffer_Flush, control, history
<1>5. /\ ring \in [Threads -> Seq(Kinds)] /\ file \in [Threads -> Seq(Kinds)]
      /\ open \in [Threads -> BOOLEAN] /\ probes \in [Threads -> Nat]
    BY DEF VarsTyped
<1>6. ring' \in [Threads -> Seq(Kinds)] /\ file' \in [Threads -> Seq(Kinds)]
      /\ (\A t \in Threads \ {u} : ring'[t] = ring[t] /\ file'[t] = file[t])
      /\ Count(ring'[u], "user") = 0
      /\ Count(file'[u], "user") = Count(file[u], "user") + Count(ring[u], "user")
    <2>1. CASE open[u] = TRUE
        <3>1. /\ file' = [file EXCEPT ![u] = @ \o ring[u]]
              /\ ring' = [ring EXCEPT ![u] = <<>>]
            BY <1>3, <2>1 DEF Buffer_Flush
        <3>2. PICK s \in Seq(Kinds), w \in Seq(Kinds) : s = ring[u] /\ w = file[u]
            BY <1>5
        <3>3. file'[u] = w \o s /\ ring'[u] = <<>>
            BY <1>5, <3>1, <3>2
        <3>4. Count(w \o s, "user") = Count(w, "user") + Count(s, "user")
            BY CountJoined
        <3>5. Count(ring'[u], "user") = 0
            BY <3>3, CountNone
        <3>6. ring' \in [Threads -> Seq(Kinds)]
            BY <1>5, <3>1, NonePushed
        <3>7. file' \in [Threads -> Seq(Kinds)]
            <4>1. w \o s \in Seq(Kinds)
                BY Joined
            <4>2. QED
                BY <1>5, <3>1, <3>2, <4>1
        <3>8. \A t \in Threads \ {u} : ring'[t] = ring[t] /\ file'[t] = file[t]
            BY <1>5, <3>1
        <3>9. QED
            BY <3>2, <3>3, <3>4, <3>5, <3>6, <3>7, <3>8
    <2>2. CASE open[u] = FALSE
        <3>1. ring' = ring /\ file' = file
            BY <1>3, <2>2 DEF Buffer_Flush
        <3>2. Count(ring[u], "user") = 0
            BY <2>2 DEF DiskInv, Unwritten
        <3>3. Count(file[u], "user") \in Nat
            BY <1>5, PlacesFinite
        <3>4. QED
            BY <1>5, <3>1, <3>2, <3>3
    <2>3. QED
        BY <1>5, <2>1, <2>2
<1>7. ASSUME NEW t \in Threads  PROVE Accounted(t)'
    <2>1. owed[t] = 0 /\ Count(file[t], "user") + Count(ring[t], "user") = probes[t]
        BY DEF DiskInv, Accounted
    <2>2. Count(file[t], "user") \in Nat /\ Count(ring[t], "user") \in Nat
        BY <1>5, PlacesFinite
    <2>3. Count(file'[t], "user") + Count(ring'[t], "user") = probes[t]
        <3>1. CASE t = u
            BY <1>6, <2>1, <2>2, <3>1
        <3>2. CASE t # u
            BY <1>6, <2>1, <3>2
        <3>3. QED
            BY <3>1, <3>2
    <2>4. QED
        BY <1>4, <2>1, <2>3 DEF Accounted
<1>8. \A t \in Threads : Head(stack) \notin Frees(t) /\ (t # u => Head(stack) \notin Writes(t))
    BY <1>2, <1>3 DEF Frees, Writes, Top
<1>9. Head(stack) \notin AnyFree
    BY <1>2 DEF AnyFree
<1>10. ASSUME NEW t \in Threads  PROVE ClosedFreed(t)'
    <2>1. ClosedFreed(t)
        BY DEF DiskInv
    <2>2. Some(stack, Frees(t)) => Some(stack', Frees(t))
        BY <1>1, <1>2, <1>8, PoppedKept
    <2>3. QED
        BY <1>4, <2>1, <2>2 DEF ClosedFreed
<1>11. ASSUME NEW t \in Threads  PROVE Unwritten(t)'
    <2>1. CASE t = u
        BY <1>6, <2>1 DEF Unwritten
    <2>2. CASE t # u
        <3>1. Unwritten(t)
            BY DEF DiskInv
        <3>2. Awaits(stack, Sinks(t), Writes(t)) => Awaits(stack', Sinks(t), Writes(t))
            BY <1>1, <1>2, <1>8, <2>2, PoppedKept
        <3>3. QED
            BY <1>4, <1>6, <2>2, <3>1, <3>2 DEF Unwritten
    <2>3. QED
        BY <2>1, <2>2
<1>12. FreedAtEnd'
    <2>1. FreedAtEnd
        BY DEF DiskInv
    <2>2. Awaits(stack, FinalizeEnd, AnyFree) => Awaits(stack', FinalizeEnd, AnyFree)
        BY <1>1, <1>2, <1>9, PoppedKept
    <2>3. QED
        BY <1>4, <2>1, <2>2 DEF FreedAtEnd
<1>13. Ordered(stack')
    BY <1>1, <1>2, PoppedKept
<1>14. QED
    BY <1>7, <1>10, <1>11, <1>12, <1>13 DEF DiskInv

\* Closing and freeing: no event of the program is in the ring.
LEMMA EndsDisk ==
    ASSUME StackTyped, VarsTyped, DiskInv, Unbounded, Close_mpits \/ Buffer_Free \/ Free
    PROVE  DiskInv'
<1>1. stack \in Seq(Calls) /\ Return(<<>>)
    BY DEF StackTyped, Close_mpits, Buffer_Free, Free
<1>2. PICK name \in {"close_mpits", "Buffer_Free", "Free"} : Executes(name)
    BY DEF Close_mpits, Buffer_Free, Free
<1>3. /\ stack # <<>> /\ Head(stack).do = name /\ Top \in Threads /\ Head(stack) \in Calls
    BY <1>1, <1>2, OnTop
<1>4. UNCHANGED <<options, owed, ring, file, probes, finalized>>
    BY DEF Close_mpits, Buffer_Free, Free, control, history
<1>5. open \in [Threads -> BOOLEAN] /\ live \in [Threads -> BOOLEAN] /\ table \in {"live", "freed"}
    BY DEF VarsTyped
<1>6. /\ Close_mpits => /\ name = "close_mpits" /\ live' = live /\ table' = table
                        /\ open' = [open EXCEPT ![Top] = FALSE]
      /\ Buffer_Free => /\ name = "Buffer_Free" /\ open' = open /\ table' = table
                        /\ live' = [live EXCEPT ![Top] = FALSE]
      /\ Free => name = "Free" /\ table' = "freed"
    BY <1>3 DEF Close_mpits, Buffer_Free, Free, control, Executes
<1>7. ASSUME NEW t \in Threads  PROVE Accounted(t)'
    BY <1>4 DEF DiskInv, Accounted
<1>8. Ordered(stack')
    BY <1>1, <1>3, PoppedKept
<1>9. \A t \in Threads : Head(stack) \notin Writes(t)
    BY <1>3 DEF Writes
<1>10. ASSUME NEW t \in Threads  PROVE Unwritten(t)'
    <2>1. SUFFICES ASSUME Count(ring[t], "user") # 0  PROVE Unwritten(t)'
        BY <1>4 DEF Unwritten
    <2>2. /\ open[t] = TRUE /\ live[t] = TRUE /\ table = "live"
          /\ Awaits(stack, Sinks(t), Writes(t))
        BY <2>1 DEF DiskInv, Unwritten
    <2>3. Head(stack) \notin Sinks(t) /\ Awaits(stack', Sinks(t), Writes(t))
        BY <1>1, <1>3, <1>9, <2>2, PoppedKept
    <2>4. name # "Free" /\ t # Top
        BY <1>3, <2>3 DEF Sinks, Top
    <2>5. open'[t] = TRUE /\ live'[t] = TRUE /\ table' = "live"
        BY <1>5, <1>6, <2>2, <2>4
    <2>6. QED
        BY <1>4, <2>3, <2>5 DEF Unwritten
<1>11. ASSUME NEW t \in Threads  PROVE ClosedFreed(t)'
    <2>1. CASE Close_mpits
        <3>1. name = "close_mpits" /\ live' = live /\ table' = table
              /\ open' = [open EXCEPT ![Top] = FALSE]
            BY <1>6, <2>1
        <3>2. Head(stack) \notin Frees(t) /\ (t = Top => Head(stack) \in Closes(t))
            BY <1>3, <3>1 DEF Frees, Closes, Top
        <3>3. CASE t = Top
            <4>1. Some(stack', Frees(t))
                BY <1>1, <1>3, <3>2, <3>3, PoppedKept
            <4>2. QED
                BY <4>1 DEF ClosedFreed
        <3>4. CASE t # Top
            <4>1. open'[t] = open[t]
                BY <1>5, <3>1, <3>4
            <4>2. Some(stack, Frees(t)) => Some(stack', Frees(t))
                BY <1>1, <1>3, <3>2, PoppedKept
            <4>3. ClosedFreed(t)
                BY DEF DiskInv
            <4>4. QED
                BY <3>1, <4>1, <4>2, <4>3 DEF ClosedFreed
        <3>5. QED
            BY <3>3, <3>4
    <2>2. CASE Buffer_Free
        <3>1. name = "Buffer_Free" /\ open' = open /\ table' = table
              /\ live' = [live EXCEPT ![Top] = FALSE]
            BY <1>6, <2>2
        <3>2. CASE t = Top
            <4>1. live'[t] = FALSE
                BY <1>5, <3>1, <3>2
            <4>2. QED
                BY <4>1 DEF ClosedFreed
        <3>3. CASE t # Top
            <4>1. live'[t] = live[t]
                BY <1>5, <3>1, <3>3
            <4>2. Head(stack) \notin Frees(t)
                BY <1>3, <3>1, <3>3 DEF Frees, Top
            <4>3. Some(stack, Frees(t)) => Some(stack', Frees(t))
                BY <1>1, <1>3, <4>2, PoppedKept
            <4>4. ClosedFreed(t)
                BY DEF DiskInv
            <4>5. QED
                BY <3>1, <4>1, <4>3, <4>4 DEF ClosedFreed
        <3>4. QED
            BY <3>2, <3>3
    <2>3. CASE Free
        BY <1>6, <2>3 DEF ClosedFreed
    <2>4. QED
        BY <2>1, <2>2, <2>3
<1>12. FreedAtEnd'
    <2>1. CASE Free
        BY <1>6, <2>1 DEF FreedAtEnd
    <2>2. CASE Close_mpits \/ Buffer_Free
        <3>1. Head(stack) \notin AnyFree /\ table' = table
            BY <1>3, <1>6, <2>2 DEF AnyFree
        <3>2. Awaits(stack, FinalizeEnd, AnyFree) => Awaits(stack', FinalizeEnd, AnyFree)
            BY <1>1, <1>3, <3>1, PoppedKept
        <3>3. FreedAtEnd
            BY DEF DiskInv
        <3>4. QED
            BY <1>4, <3>1, <3>2, <3>3 DEF FreedAtEnd
    <2>3. QED
        BY <2>1, <2>2
<1>13. QED
    BY <1>7, <1>8, <1>10, <1>11, <1>12 DEF DiskInv

LEMMA FinalizeEndsDisk ==
    ASSUME StackTyped, VarsTyped, DiskInv, Unbounded, FinalizeEnds
    PROVE  DiskInv'
<1>1. stack \in Seq(Calls) /\ Executes("FinalizeEnds") /\ Return(<<>>)
    BY DEF StackTyped, FinalizeEnds
<1>2. /\ stack # <<>> /\ Head(stack).do = "FinalizeEnds" /\ Head(stack) \in Calls
    BY <1>1, OnTop
<1>3. UNCHANGED <<options, owed, ring, file, open, live, table, probes>>
    BY DEF FinalizeEnds, buffers, control
<1>4. table # "live"
    <2>1. SUFFICES ASSUME table = "live"  PROVE FALSE
        OBVIOUS
    <2>2. Awaits(stack, FinalizeEnd, AnyFree)
        BY <2>1 DEF DiskInv, FreedAtEnd
    <2>3. Head(stack) \notin FinalizeEnd
        BY <1>1, <1>2, <2>2, AwaitsRest
    <2>4. QED
        BY <1>2, <2>3 DEF FinalizeEnd
<1>5. ASSUME NEW t \in Threads  PROVE Accounted(t)' /\ ClosedFreed(t)' /\ Unwritten(t)'
    <2>1. Accounted(t)'
        BY <1>3 DEF DiskInv, Accounted
    <2>2. ClosedFreed(t)'
        BY <1>3, <1>4 DEF ClosedFreed
    <2>3. Unwritten(t)'
        BY <1>3, <1>4 DEF DiskInv, Unwritten
    <2>4. QED
        BY <2>1, <2>2, <2>3
<1>6. Ordered(stack')
    BY <1>1, <1>2, PoppedKept
<1>7. FreedAtEnd'
    BY <1>3, <1>4 DEF FreedAtEnd
<1>8. QED
    BY <1>5, <1>6, <1>7 DEF DiskInv
\* Backend_Finalize: each ring is flushed before anything is freed.
LEMMA FinalizeDisk ==
    ASSUME StackTyped, VarsTyped, DiskInv, Unbounded, Backend_Finalize
    PROVE  DiskInv'
<1>1. stack \in Seq(Calls) /\ Executes("Backend_Finalize") /\ Return(FinalizeCalls)
    BY DEF StackTyped, Backend_Finalize
<1>2. stack # <<>> /\ Head(stack).do = "Backend_Finalize" /\ me \in Threads
    BY <1>1, OnTop DEF VarsTyped
<1>3. UNCHANGED Data
    BY DEF Backend_Finalize, Data, buffers, control
<1>4. PICK r \in Seq(Calls) : r = Tail(stack)
    BY <1>1, <1>2, Rest
<1>5. PICK free \in Calls, off \in Calls, end \in Calls :
         free = Call("Free", 0) /\ off = Call("TurnOff", 0) /\ end = Call("FinalizeEnds", 0)
    BY ThreadsAre DEF Call, Calls
<1>6. /\ free.do = "Free" /\ off.do = "TurnOff" /\ end.do = "FinalizeEnds"
      /\ free.ev = "none" /\ off.ev = "none" /\ end.ev = "none"
    BY <1>5 DEF Call
<1>7. PICK b : b = <<free, off, end>>
    OBVIOUS
<1>8. /\ b \in Seq(Calls) /\ Len(b) = 3
      /\ b[1] = free /\ b[2] = off /\ b[3] = end
    BY <1>7
<1>9. \* the loops: a flush of each buffer, and nothing that frees
      \E a \in Seq(Calls) :
         /\ FinalizeCalls = a \o b
         /\ \A i \in 1..Len(a) : a[i] \in {c \in Calls : c.do = "FinishIfAny" \/ c \in Light}
         /\ ~Some(a, OfProgram)
         /\ \A t \in Threads : Some(a, Writes(t))
    <2> DEFINE Y == {c \in Calls : c.do = "FinishIfAny" \/ c \in Light} \ OfProgram
               x == Extrae_AnnotateTopology
               y == InThreadOrder("FlushIfAny")
               z == InThreadOrder("FinishIfAny")
    <2>1. Neutral \subseteq Y
        BY NeutralCalls DEF Neutral
    <2>2. \A t \in Threads : Call("FlushIfAny", t) \in Neutral
        BY NeutralCalls DEF Plain
    <2>3. \A t \in Threads : Call("FinishIfAny", t) \in Y
        BY DEF Call, Calls, OfProgram
    <2>4. x \in Seq(Y)
        <3>1. BUFFER_INSERT(me, "cpu") \in Seq(Neutral)
            BY <1>2, InsertNeutral DEF Kinds
        <3>2. x \in Seq(Neutral)
            BY <3>1, AnnotatePushed
        <3>3. QED
            BY <2>1, <3>2, Wider
    <2>5. y \in Seq(Y) /\ z \in Seq(Y)
        BY <2>1, <2>2, <2>3, TurnsPushed
    <2>6. \A t \in Threads : Some(y, Writes(t))
        <3>1. SUFFICES ASSUME NEW t \in Threads  PROVE Some(y, Writes(t))
            OBVIOUS
        <3>2. y = [i \in 1..N |-> Call("FlushIfAny", i - 1)]
            BY DEF InThreadOrder, N
        <3>3. t + 1 \in 1..N /\ (t + 1) - 1 = t
            BY ThreadsAre
        <3>4. Len(y) = N
            BY <2>5, <3>2, LenProperties, ThreadsAre
        <3>5. y[t + 1] = Call("FlushIfAny", t)
            BY <3>2, <3>3
        <3>6. Call("FlushIfAny", t) \in Writes(t)
            BY <2>2, NeutralCalls DEF Writes, Call
        <3>7. QED
            BY <3>3, <3>4, <3>5, <3>6 DEF Some
    <2> HIDE DEF x, y, z
    <2>7. x \o y \in Seq(Y) /\ \A t \in Threads : Some(x \o y, Writes(t))
        BY <2>4, <2>5, <2>6, Joined, SomeJoined
    <2>8. PICK w \in Seq(Y) : w = x \o y
        BY <2>7
    <2>9. PICK a \in Seq(Y) : a = w \o z
        BY <2>5, Joined
    <2>10. \A t \in Threads : Some(a, Writes(t))
        BY <2>5, <2>7, <2>8, <2>9, SomeJoined
    <2>11. FinalizeCalls = a \o b
        BY <1>5, <1>7, <2>8, <2>9, FinalizePushed DEF Turns, Ending, x, y, z
    <2>12. a \in Seq(Calls)
        BY Wider
    <2>13. ~Some(a, OfProgram)
        <3>1. Y \cap OfProgram = {}
            OBVIOUS
        <3>2. QED
            BY <3>1, NoneIn
    <2>14. \A i \in 1..Len(a) : a[i] \in {c \in Calls : c.do = "FinishIfAny" \/ c \in Light}
        BY ElementOfSeq
    <2>15. QED
        BY <2>10, <2>11, <2>12, <2>13, <2>14
<1>10. PICK a \in Seq(Calls) :
         /\ FinalizeCalls = a \o b
         /\ \A i \in 1..Len(a) : a[i] \in {c \in Calls : c.do = "FinishIfAny" \/ c \in Light}
         /\ ~Some(a, OfProgram)
         /\ \A t \in Threads : Some(a, Writes(t))
    BY <1>9
<1>11. a \in Seq({c \in Calls : c.do = "FinishIfAny" \/ c \in Light})
    BY <1>10, Narrow
<1>12. PICK calls \in Seq(Calls) : calls = a \o b /\ Return(calls) /\ stack' = calls \o r
    BY <1>1, <1>4, <1>8, <1>10, Joined DEF Return
<1>13. ~Some(b, OfProgram) /\ Some(b, AnyFree) /\ \A t \in Threads : Some(b, Frees(t))
    <2>1. ~Some(b, OfProgram)
        BY <1>6, <1>8 DEF Some, OfProgram
    <2>2. free \in AnyFree /\ \A t \in Threads : free \in Frees(t)
        BY <1>6 DEF AnyFree, Frees
    <2>3. QED
        BY <1>8, <2>1, <2>2 DEF Some
<1>14. ~Some(calls, OfProgram)
    BY <1>8, <1>10, <1>12, <1>13, SomeJoined
<1>15. Ordered(stack')
    <2>1. Never(calls, OfProgram, Enders)
        BY <1>14 DEF Some, Never
    <2>2. Ordered(r)
        BY <1>1, <1>2, <1>4, OrderedRest DEF DiskInv
    <2>3. Never(stack', OfProgram, Enders)
        BY <1>12, <1>14, <2>1, <2>2, NeverJoined DEF Ordered
    <2>4. ASSUME NEW t \in Threads  PROVE Followed(stack', Closes(t), Frees(t))
        <3>1. Followed(b, Closes(t), Frees(t))
            BY <1>6, <1>8 DEF Followed, Closes
        <3>2. Followed(calls, Closes(t), Frees(t))
            BY <1>8, <1>12, <1>13, <3>1, FollowedJoined
        <3>3. QED
            BY <1>12, <2>2, <3>2, FollowedJoined DEF Ordered
    <2>5. QED
        BY <2>3, <2>4 DEF Ordered
<1>16. ASSUME NEW t \in Threads, Some(stack, Frees(t))  PROVE Some(stack', Frees(t))
    <2>1. Some(calls, Frees(t))
        BY <1>8, <1>12, <1>13, SomeJoined
    <2>2. QED
        BY <1>12, <2>1, SomeJoined
<1>17. ASSUME NEW t \in Threads  PROVE Awaits(stack', Sinks(t), Writes(t))
    <2>1. Awaits(a, Sinks(t), Writes(t))
        <3>1. {c \in Calls : c.do = "FinishIfAny" \/ c \in Light} \cap Sinks(t) = {}
            BY DEF Light, Sinks
        <3>2. QED
            BY <1>11, <3>1, NoneIn
    <2>2. Awaits(calls, Sinks(t), Writes(t))
        BY <1>8, <1>10, <1>12, <2>1, AwaitsJoined
    <2>3. Some(calls, Writes(t))
        BY <1>8, <1>10, <1>12, SomeJoined
    <2>4. QED
        BY <1>12, <2>2, <2>3, AwaitsJoined
<1>18. Awaits(stack', FinalizeEnd, AnyFree)
    <2>1. Awaits(a, FinalizeEnd, AnyFree)
        <3>1. {c \in Calls : c.do = "FinishIfAny" \/ c \in Light} \cap FinalizeEnd = {}
            BY DEF Light, FinalizeEnd
        <3>2. QED
            BY <1>11, <3>1, NoneIn
    <2>2. Awaits(b, FinalizeEnd, AnyFree)
        <3>1. free \in AnyFree /\ off \notin FinalizeEnd /\ free \notin FinalizeEnd
            BY <1>6 DEF AnyFree, FinalizeEnd
        <3>2. 1 \in 1..(3 - 1)
            OBVIOUS
        <3>3. QED
            BY <1>8, <3>1, <3>2 DEF Awaits
    <2>3. Awaits(calls, FinalizeEnd, AnyFree)
        BY <1>8, <1>12, <2>1, <2>2, AwaitsJoined
    <2>4. Some(calls, AnyFree)
        BY <1>8, <1>12, <1>13, SomeJoined
    <2>5. QED
        BY <1>12, <2>3, <2>4, AwaitsJoined
<1>19. QED
    BY <1>3, <1>15, <1>16, <1>17, <1>18, PendingKept

\* A turn of its second loop: the flush comes before the close.
LEMMA FinishDisk ==
    ASSUME StackTyped, VarsTyped, DiskInv, Unbounded, FinishIfAny
    PROVE  DiskInv'
<1>1. stack \in Seq(Calls) /\ Executes("FinishIfAny")
    BY DEF StackTyped, FinishIfAny
<1>2. /\ stack # <<>> /\ Head(stack).do = "FinishIfAny" /\ me \in Threads /\ Top \in Threads
      /\ Head(stack) \in Calls
    BY <1>1, OnTop DEF VarsTyped
<1>3. UNCHANGED Data
    BY DEF FinishIfAny, Data, buffers, control, history
<1>4. CASE live[Top] = FALSE
    <2>1. Return(<<>>)
        BY <1>4 DEF FinishIfAny
    <2>2. <<>> \in Seq(Neutral) /\ <<>> \in Seq(Light)
        BY NonePushed
    <2>3. \A t \in Threads : Head(stack) \notin Writes(t)
        BY <1>2 DEF Writes
    <2>4. Head(stack).do \notin {"Free", "Buffer_Free"}
        BY <1>2
    <2>5. QED
        BY <1>1, <1>2, <1>3, <2>1, <2>2, <2>3, <2>4, LightKept
<1>5. CASE live[Top] = TRUE
    <2>1. PICK r \in Seq(Calls) : r = Tail(stack)
        BY <1>1, <1>2, Rest
    <2>2. PICK u \in Threads : u = Top
        BY <1>2
    <2>3. PICK w \in Neutral, c \in Calls :
             w = Call("FlushCallback", u) /\ c = Call("close_mpits", u)
        <3>1. Call("FlushCallback", u) \in Neutral /\ Call("close_mpits", u) \in Calls
            BY NeutralCalls, CallTyped DEF Plain, NoEnd
        <3>2. QED
            BY <3>1
    <2>4. w.do = "FlushCallback" /\ w.buf = u /\ c.do = "close_mpits" /\ c.buf = u /\ c.ev = "none"
          /\ w \in Calls /\ w.ev = "none"
        BY <2>3, NeutralCalls DEF Call
    <2>5. PICK x \in Seq(Neutral) : x = BUFFER_INSERT(me, "end")
        BY <1>2, InsertNeutral DEF Kinds
    <2>6. x \in Seq(Calls) /\ x \in Seq(Light)
        BY NeutralCalls, Wider
    <2>7. PICK y \in Seq(Calls) : y = <<w, c>> /\ Len(y) = 2 /\ y[1] = w /\ y[2] = c
        <3>1. <<w, c>> \in Seq(Calls)
            BY <2>4
        <3>2. QED
            BY <3>1
    <2>8. PICK calls \in Seq(Calls) : calls = x \o y /\ stack' = calls \o r
        <3>1. x \o y \in Seq(Calls)
            BY <2>6, Joined
        <3>2. stack' = Finish(u) \o r
            BY <1>5, <2>1, <2>2 DEF FinishIfAny, Return
        <3>3. Finish(u) = x \o y
            BY <2>3, <2>5, <2>7 DEF Finish
        <3>4. QED
            BY <3>1, <3>2, <3>3
    <2>9. Ordered(r) /\ Some(r, Frees(u))
        <3>1. Ordered(stack)
            BY DEF DiskInv
        <3>2. Followed(stack, Closes(u), Frees(u)) /\ Head(stack) \in Closes(u)
            BY <1>2, <2>2, <3>1 DEF Ordered, Closes, Top
        <3>3. QED
            BY <1>1, <1>2, <2>1, <3>1, <3>2, OrderedRest, FollowedRest
    <2>10. ~Some(calls, OfProgram)
        <3>1. ~Some(y, OfProgram)
            BY <2>4, <2>7 DEF Some, OfProgram
        <3>2. Neutral \cap OfProgram = {}
            BY DEF Neutral
        <3>3. ~Some(x, OfProgram)
            BY <3>2, NoneIn
        <3>4. QED
            BY <2>6, <2>8, <3>1, <3>3, SomeJoined
    <2>11. Ordered(stack')
        <3>1. Never(calls, OfProgram, Enders)
            BY <2>10 DEF Some, Never
        <3>2. Never(stack', OfProgram, Enders)
            BY <2>8, <2>9, <2>10, <3>1, NeverJoined DEF Ordered
        <3>3. ASSUME NEW t \in Threads  PROVE Followed(stack', Closes(t), Frees(t))
            <4>1. Followed(r, Closes(t), Frees(t))
                BY <2>9 DEF Ordered
            <4>2. Followed(calls, Closes(t), Frees(t)) \/ Some(r, Frees(t))
                <5>1. CASE t = u
                    BY <2>9, <5>1
                <5>2. CASE t # u
                    <6>1. Followed(y, Closes(t), Frees(t))
                        BY <2>4, <2>7, <5>2 DEF Followed, Closes
                    <6>2. Light \cap Closes(t) = {}
                        BY LightApart
                    <6>3. Followed(x, Closes(t), Frees(t))
                        BY <2>6, <6>2, NoneIn
                    <6>4. QED
                        BY <2>6, <2>8, <6>1, <6>3, FollowedJoined
                <5>3. QED
                    BY <5>1, <5>2
            <4>3. QED
                BY <2>8, <4>1, <4>2, FollowedJoined
        <3>4. QED
            BY <3>2, <3>3 DEF Ordered
    <2>12. ASSUME NEW t \in Threads, Some(stack, Frees(t))  PROVE Some(stack', Frees(t))
        <3>1. Head(stack) \notin Frees(t)
            BY <1>2 DEF Frees
        <3>2. Some(r, Frees(t))
            BY <1>1, <1>2, <2>1, <2>12, <3>1, SomeRest
        <3>3. QED
            BY <2>8, <3>2, SomeJoined
    <2>13. ASSUME NEW t \in Threads, Awaits(stack, Sinks(t), Writes(t))
           PROVE  Awaits(stack', Sinks(t), Writes(t))
        <3>1. Head(stack) \notin Writes(t)
            BY <1>2 DEF Writes
        <3>2. Awaits(r, Sinks(t), Writes(t))
            BY <1>1, <1>2, <2>1, <2>13, <3>1, AwaitsRest
        <3>3. Awaits(y, Sinks(t), Writes(t))
            <4>1. CASE t = u
                <5>1. w \in Writes(t) /\ w \notin Sinks(t)
                    BY <2>4, <4>1 DEF Writes, Sinks
                <5>2. 1 \in 1..(2 - 1)
                    OBVIOUS
                <5>3. QED
                    BY <2>7, <5>1, <5>2 DEF Awaits
            <4>2. CASE t # u
                <5>1. w \notin Sinks(t) /\ c \notin Sinks(t)
                    BY <2>4, <4>2 DEF Sinks
                <5>2. QED
                    BY <2>7, <5>1 DEF Awaits
            <4>3. QED
                BY <4>1, <4>2
        <3>4. Light \cap Sinks(t) = {}
            BY LightApart
        <3>5. Awaits(x, Sinks(t), Writes(t))
            BY <2>6, <3>4, NoneIn
        <3>6. Awaits(calls, Sinks(t), Writes(t))
            BY <2>6, <2>8, <3>3, <3>5, AwaitsJoined
        <3>7. QED
            BY <2>8, <3>2, <3>6, AwaitsJoined
    <2>14. ASSUME Awaits(stack, FinalizeEnd, AnyFree)  PROVE Awaits(stack', FinalizeEnd, AnyFree)
        <3>1. Head(stack) \notin AnyFree
            BY <1>2 DEF AnyFree
        <3>2. Awaits(r, FinalizeEnd, AnyFree)
            BY <1>1, <1>2, <2>1, <2>14, <3>1, AwaitsRest
        <3>3. Awaits(y, FinalizeEnd, AnyFree)
            BY <2>4, <2>7 DEF Awaits, FinalizeEnd
        <3>4. Awaits(x, FinalizeEnd, AnyFree)
            BY <2>6, LightApart, NoneIn
        <3>5. QED
            BY <2>6, <2>8, <3>2, <3>3, <3>4, AwaitsJoined
    <2>15. QED
        BY <1>3, <2>11, <2>12, <2>13, <2>14, PendingKept
<1>6. QED
    BY <1>2, <1>4, <1>5 DEF VarsTyped
\* A call from outside, when nothing is pending.
LEMMA IdleDisk ==
    ASSUME DiskInv, Idle, stack' \in Seq(Light), UNCHANGED Data
    PROVE  DiskInv'
<1>1. PICK calls \in Seq(Light) : stack' = calls
    OBVIOUS
<1>2. calls \in Seq(Calls)
    BY LightApart, Wider
<1>3. ~Some(stack, Enders) /\ \A t \in Threads : ~Some(stack, Frees(t))
    BY DEF Idle, Some
<1>4. Ordered(stack')
    <2>1. Never(calls, OfProgram, Enders)
        BY LightApart, NoneIn
    <2>2. ASSUME NEW t \in Threads  PROVE Followed(calls, Closes(t), Frees(t))
        <3>1. Light \cap Closes(t) = {}
            BY LightApart
        <3>2. QED
            BY <3>1, NoneIn
    <2>3. QED
        BY <1>1, <2>1, <2>2 DEF Ordered
<1>5. ASSUME NEW t \in Threads  PROVE Awaits(stack', Sinks(t), Writes(t))
    <2>1. Light \cap Sinks(t) = {}
        BY LightApart
    <2>2. QED
        BY <1>1, <2>1, NoneIn
<1>6. Awaits(stack', FinalizeEnd, AnyFree)
    BY <1>1, LightApart, NoneIn
<1>7. QED
    BY <1>3, <1>4, <1>5, <1>6, PendingKept

LEMMA BeginsDisk ==
    ASSUME StackTyped, VarsTyped, DiskInv, Probe \/ Extrae_fini \/ ProgramExits
    PROVE  DiskInv'
<1>1. UNCHANGED Data /\ Idle
    BY DEF Probe, Extrae_fini, ProgramExits, Data, buffers, history
<1>2. stack' \in Seq(Light)
    <2>1. CASE Probe
        <3>1. PICK t \in Threads : stack' = <<Call("Enter", t)>> \o BUFFER_INSERT(t, "user")
            BY <2>1 DEF Probe
        <3>2. /\ \A name \in {"Enter", "Signals_Inhibit", "Signals_Desinhibit",
                             "Signals_ExecuteDeferred"} : Call(name, t) \in Light
              /\ InsertSingle(t, "user") \in Light
            BY DEF Light, Call, InsertSingle, Calls, Kinds
        <3>3. BUFFER_INSERT(t, "user") \in Seq(Light)
            BY <3>2, InsertPushed
        <3>4. <<Call("Enter", t)>> \in Seq(Light)
            BY <3>2, One
        <3>5. QED
            BY <3>1, <3>3, <3>4, Joined
    <2>2. CASE Extrae_fini \/ ProgramExits
        <3>1. Call("Backend_Finalize", 0) \in Light /\ Call("SetNotInitialized", 0) \in Light
            BY ThreadsAre, NeutralCalls DEF Plain
        <3>2. /\ <<Call("Backend_Finalize", 0)>> \in Seq(Light)
              /\ <<Call("Backend_Finalize", 0), Call("SetNotInitialized", 0)>> \in Seq(Light)
            BY <3>1
        <3>3. QED
            BY <2>2, <3>2 DEF Extrae_fini, ProgramExits
    <2>3. QED
        BY <2>1, <2>2
<1>3. QED
    BY <1>1, <1>2, IdleDisk

\* The flush of a thread that ends comes before its buffer is closed and freed.
LEMMA ThreadEndsDisk ==
    ASSUME StackTyped, VarsTyped, DiskInv, ThreadEnds
    PROVE  DiskInv'
<1>1. UNCHANGED Data /\ Idle
    BY DEF ThreadEnds, Data, buffers, history
<1>2. PICK u \in Threads : stack' = FlushThread(u)
    BY DEF ThreadEnds
<1>3. PICK f \in Calls, c \in Calls, b \in Calls :
         f = Call("Buffer_Flush", u) /\ c = Call("close_mpits", u) /\ b = Call("Buffer_Free", u)
    <2>1. /\ Call("Buffer_Flush", u) \in Calls /\ Call("close_mpits", u) \in Calls
          /\ Call("Buffer_Free", u) \in Calls
        BY CallTyped DEF Plain, NoEnd
    <2>2. QED
        BY <2>1
<1>4. /\ f.do = "Buffer_Flush" /\ c.do = "close_mpits" /\ b.do = "Buffer_Free"
      /\ f.buf = u /\ c.buf = u /\ b.buf = u
      /\ f.ev = "none" /\ c.ev = "none" /\ b.ev = "none"
    BY <1>3 DEF Call
<1>5. PICK s \in Seq(Calls) : stack' = s /\ Len(s) = 3 /\ s[1] = f /\ s[2] = c /\ s[3] = b
    <2>1. <<f, c, b>> \in Seq(Calls)
        OBVIOUS
    <2>2. stack' = <<f, c, b>>
        BY <1>2, <1>3 DEF FlushThread
    <2>3. QED
        BY <2>1, <2>2
<1>6. \A t \in Threads : ~Some(stack, Frees(t))
    BY <1>1 DEF Idle, Some
<1>7. Ordered(stack')
    <2>1. Never(s, OfProgram, Enders)
        BY <1>4, <1>5 DEF Never, OfProgram
    <2>2. ASSUME NEW t \in Threads  PROVE Followed(s, Closes(t), Frees(t))
        <3>1. f \notin Closes(t) /\ b \notin Closes(t)
            BY <1>4 DEF Closes
        <3>2. c \in Closes(t) => b \in Frees(t)
            BY <1>4 DEF Closes, Frees
        <3>3. 3 \in (2 + 1)..3
            OBVIOUS
        <3>4. QED
            BY <1>5, <3>1, <3>2, <3>3 DEF Followed
    <2>3. QED
        BY <1>5, <2>1, <2>2 DEF Ordered
<1>8. ASSUME NEW t \in Threads  PROVE Awaits(stack', Sinks(t), Writes(t))
    <2>1. f \notin Sinks(t)
        BY <1>4 DEF Sinks
    <2>2. c \in Sinks(t) \/ b \in Sinks(t) => f \in Writes(t)
        BY <1>4 DEF Sinks, Writes
    <2>3. 1 \in 1..(2 - 1) /\ 1 \in 1..(3 - 1)
        OBVIOUS
    <2>4. QED
        BY <1>5, <2>1, <2>2, <2>3 DEF Awaits
<1>9. Awaits(stack', FinalizeEnd, AnyFree)
    BY <1>4, <1>5 DEF Awaits, FinalizeEnd
<1>10. QED
    BY <1>1, <1>6, <1>7, <1>8, <1>9, PendingKept

\* The handler runs on top of what is pending.
LEMMA SignalDisk ==
    ASSUME StackTyped, VarsTyped, DiskInv, Unbounded, Signal
    PROVE  DiskInv'
<1>1. stack \in Seq(Calls) /\ UNCHANGED Data
    BY DEF StackTyped, Signal, Data, buffers, history
<1>2. PICK calls \in Seq(Neutral) : stack' = calls \o stack
    <2>1. Call("SigHandler", 0) \in Neutral /\ Call("SignalReturns", 0) \in Neutral
        BY NeutralCalls, ThreadsAre DEF Plain
    <2>2. <<Call("SigHandler", 0), Call("SignalReturns", 0)>> \in Seq(Neutral)
        BY <2>1
    <2>3. QED
        BY <2>2 DEF Signal
<1>3. calls \in Seq(Light) /\ calls \in Seq(Calls)
    BY NeutralLight, LightApart, Wider
<1>4. Ordered(stack')
    <2>1. Neutral \cap OfProgram = {}
        BY DEF Neutral
    <2>2. ~Some(calls, OfProgram)
        BY <2>1, NoneIn
    <2>3. QED
        BY <1>1, <1>2, <1>3, <2>2, LightOrdered DEF DiskInv
<1>5. ASSUME NEW t \in Threads, Some(stack, Frees(t))  PROVE Some(stack', Frees(t))
    BY <1>1, <1>2, <1>3, <1>5, SomeJoined
<1>6. ASSUME NEW t \in Threads, Awaits(stack, Sinks(t), Writes(t))
      PROVE  Awaits(stack', Sinks(t), Writes(t))
    <2>1. Light \cap Sinks(t) = {}
        BY LightApart
    <2>2. Awaits(calls, Sinks(t), Writes(t))
        BY <1>3, <2>1, NoneIn
    <2>3. QED
        BY <1>1, <1>2, <1>3, <1>6, <2>2, AwaitsJoined
<1>7. ASSUME Awaits(stack, FinalizeEnd, AnyFree)  PROVE Awaits(stack', FinalizeEnd, AnyFree)
    <2>1. Awaits(calls, FinalizeEnd, AnyFree)
        BY <1>3, LightApart, NoneIn
    <2>2. QED
        BY <1>1, <1>2, <1>3, <1>7, <2>1, AwaitsJoined
<1>8. QED
    BY <1>1, <1>4, <1>5, <1>6, <1>7, PendingKept

LEMMA NextDisk ==
    ASSUME StackTyped, VarsTyped, DiskInv, [Next]_vars
    PROVE  DiskInv'
<1>1. SUFFICES ASSUME Unbounded  PROVE DiskInv'
    <2>1. UNCHANGED options
        BY DEF Next, Step, vars, Probe, ThreadEnds, Extrae_fini, ProgramExits, Signal, Inhibit,
           Desinhibit, ExecuteDeferred, SigHandler_FlushAndTerminate, SignalReturns, Enter,
           Buffer_InsertSingle, StoreEvent, FlushCallback, DiscardOldest, Buffer_Flush,
           CheckFileSize, Close_mpits, Buffer_Free, TurnOff, SetNotInitialized, Backend_Finalize,
           FlushIfAny, FinishIfAny, Free, FinalizeEnds, Crash, control
    <2>2. QED
        BY <2>1 DEF DiskInv, Unbounded, Circular, FileLimit
<1>2. CASE \/ Inhibit \/ Desinhibit \/ ExecuteDeferred \/ SigHandler_FlushAndTerminate
           \/ SignalReturns \/ TurnOff \/ SetNotInitialized \/ CheckFileSize
    BY <1>1, <1>2, FlagsDisk
<1>3. CASE Enter \/ FlushCallback \/ FlushIfAny
    BY <1>1, <1>3, FlushesDisk
<1>4. CASE Buffer_InsertSingle
    BY <1>1, <1>4, InsertDisk
<1>5. CASE StoreEvent
    BY <1>1, <1>5, StoreDisk
<1>6. CASE Buffer_Flush
    BY <1>1, <1>6, WritesDisk
<1>7. CASE Close_mpits \/ Buffer_Free \/ Free
    BY <1>1, <1>7, EndsDisk
<1>8. CASE FinalizeEnds
    BY <1>1, <1>8, FinalizeEndsDisk
<1>9. CASE Backend_Finalize
    BY <1>1, <1>9, FinalizeDisk
<1>10. CASE FinishIfAny
    BY <1>1, <1>10, FinishDisk
<1>11. CASE Probe \/ Extrae_fini \/ ProgramExits
    BY <1>11, BeginsDisk
<1>12. CASE ThreadEnds
    BY <1>12, ThreadEndsDisk
<1>13. CASE Signal
    BY <1>1, <1>13, SignalDisk
<1>14. CASE DiscardOldest
    BY <1>1, <1>14 DEF DiscardOldest, Unbounded
<1>15. CASE Crash \/ UNCHANGED vars
    <2>1. UNCHANGED <<stack, Data>>
        BY <1>15 DEF Crash, vars, Data, buffers, control, history
    <2>2. Ordered(stack')
        BY <1>1, <2>1 DEF DiskInv
    <2>3. QED
        BY <2>1, <2>2, PendingKept
<1>16. QED
    BY <1>2, <1>3, <1>4, <1>5, <1>6, <1>7, <1>8, <1>9, <1>10, <1>11, <1>12, <1>13, <1>14, <1>15
       DEF Next, Step

LEMMA InitDisk == Init => DiskInv
<1>1. SUFFICES ASSUME Init  PROVE DiskInv
    OBVIOUS
<1>2. stack = <<>>
    BY <1>1 DEF Init
<1>3. ASSUME NEW t \in Threads  PROVE Accounted(t) /\ ClosedFreed(t) /\ Unwritten(t)
    <2>1. Count(<<>>, "user") = 0
        BY CountNone
    <2>2. ring[t] = <<>> /\ file[t] = <<>> /\ owed[t] = 0 /\ probes[t] = 0 /\ open[t] = TRUE
        BY <1>1 DEF Init
    <2>3. QED
        BY <2>1, <2>2 DEF Accounted, ClosedFreed, Unwritten
<1>4. Ordered(stack)
    BY <1>2 DEF Ordered, Never, Followed
<1>5. FreedAtEnd
    BY <1>1, <1>2 DEF Init, FreedAtEnd, Awaits
<1>6. QED
    BY <1>3, <1>4, <1>5 DEF DiskInv

LEMMA DiskProbes ==
    ASSUME VarsTyped, DiskInv
    PROVE  ProbesOnDisk
<1>1. SUFFICES ASSUME finalized > 0, ~Circular, FileLimit = 0, NEW t \in Threads
               PROVE  Count(file[t], "user") = probes[t]
    BY DEF ProbesOnDisk
<1>2. Accounted(t) /\ Unwritten(t) /\ FreedAtEnd
    BY <1>1 DEF DiskInv, Unbounded
<1>3. table # "live"
    BY <1>1, <1>2 DEF FreedAtEnd
<1>4. Count(ring[t], "user") = 0
    BY <1>2, <1>3 DEF Unwritten
<1>5. Count(file[t], "user") \in Nat
    BY PlacesFinite DEF VarsTyped
<1>6. QED
    BY <1>2, <1>4, <1>5 DEF Accounted

\* When Backend_Finalize has ended, every event of the program is in a file, whatever
\* signal arrived in between: no buffer is closed or freed while one is in its ring.
THEOREM ProbesReachDisk == Spec => []ProbesOnDisk
<1>1. Init => DiskInv
    BY InitDisk
<1>2. TypeInv /\ DiskInv /\ [Next]_vars => DiskInv'
    BY NextDisk DEF TypeInv
<1>3. TypeInv /\ DiskInv => ProbesOnDisk
    BY DiskProbes DEF TypeInv
<1>4. QED
    BY <1>1, <1>2, <1>3, TypeInvariant, PTL DEF Spec
-----------------------------------------------------------------------------
(* The flush callback never runs inside itself.                             *)
(*                                                                          *)
(* A call may flush a ring only when it finds it full; that it does not is  *)
(* said of all the calls pending at once: along them there is a bound of    *)
(* the number of events in each ring, before the first call and after each, *)
(* that every call respects by what it will insert, and that is never more  *)
(* than the ring can hold.                                                  *)

\* How many events a ring may hold: while its file is open, and while it is closed.
Fills == {n \in Int : n <= MaxEvents}
Bounds == [open : Fills, closed : Fills]
Upto(x, y) == [open |-> x, closed |-> y]

\* n more events; and n more in a ring whose file may be closed meanwhile.
Up(a, n, b) == a.open + n <= b.open /\ a.closed + n <= b.closed
Across(a, n, b) == Up(a, n, b) /\ a.open + n <= b.closed

\* No ring is full, and none whose file is closed holds more than a flush and a probe left.
Left == Upto(MaxEvents - 1, 5)

\* What each call, made by thread w, does to the ring of t: within a before, within b after.
Inserts(t, c, a, b) == IF c.buf = t THEN Up(a, 1, b) ELSE Up(a, 0, b)
Empties(t, c, a, b) ==
    a.closed <= b.closed /\ (IF c.buf = t THEN 0 <= b.open ELSE a.open <= b.open)
Annotates(t, w, n, a, b) == IF t = w THEN Across(a, n, b) ELSE Up(a, 0, b)
CallsBack(t, w, c, a, b) ==
    IF c.buf = t THEN a.closed <= b.closed /\ 4 <= b.open /\ 4 <= b.closed
    ELSE Annotates(t, w, 2, a, b)
Finishes(t, w, c, a, b) ==
    IF c.buf = t
    THEN /\ 4 <= b.open /\ 4 <= b.closed
         /\ IF t = w THEN Across(a, 1, b) ELSE Across(a, 0, b)
    ELSE Annotates(t, w, 3, a, b)
Shuts(v, t, a, b) == Up(a, 0, b) /\ (v = t => a.open <= b.closed)
Enters(t, w, c, a, b) ==
    IF c.buf = t THEN a.closed < 0 /\ MaxEvents - 2 <= b.open /\ 4 <= b.closed
    ELSE t # w /\ Up(a, 0, b)

Moving == {"InsertSingle", "Store", "Buffer_Flush", "FlushCallback", "FlushIfAny", "FinishIfAny",
           "CheckFileSize", "close_mpits", "Enter", "Backend_Finalize", "Free"}

Goes(t, w, c, a, b) ==
    /\ c.do \in {"InsertSingle", "Store"} => Inserts(t, c, a, b)
    /\ c.do = "Buffer_Flush" => Empties(t, c, a, b)
    /\ c.do = "FlushCallback" => CallsBack(t, w, c, a, b)
    /\ c.do = "FlushIfAny" =>
         CallsBack(t, w, c, a, b) /\ (c.buf = t /\ t # 0 => a.open <= b.open)
    /\ c.do = "FinishIfAny" => Finishes(t, w, c, a, b)
    /\ c.do = "CheckFileSize" => Shuts(w, t, a, b)
    /\ c.do = "close_mpits" => Shuts(c.buf, t, a, b)
    /\ c.do = "Enter" => Enters(t, w, c, a, b)
    /\ c.do = "Backend_Finalize" => w = 0 /\ Up(a, 0, Left)
    /\ c.do \notin Moving => Up(a, 0, b)

\* h bounds the ring of t before each of the calls of s, and after the last.
Steps(t, w, s, a, b, h) ==
    /\ h \in [1..(Len(s) + 1) -> Bounds] /\ h[1] = a /\ h[Len(s) + 1] = b
    /\ \A i \in 1..Len(s) : Goes(t, w, s[i], h[i], h[i + 1])
Path(t, w, s, a, b) == \E h : Steps(t, w, s, a, b, h)

LEMMA PathNone ==
    ASSUME NEW t, NEW w, NEW a \in Bounds
    PROVE  Path(t, w, <<>>, a, a)
<1>1. Steps(t, w, <<>>, a, a, [i \in 1..1 |-> a])
    BY DEF Steps
<1>2. QED
    BY <1>1 DEF Path

LEMMA PathLevel ==
    ASSUME NEW t, NEW w, NEW a \in Bounds, NEW X, NEW s \in Seq(X),
           \A i \in 1..Len(s) : Goes(t, w, s[i], a, a)
    PROVE  Path(t, w, s, a, a)
<1>1. PICK k \in Nat : k = Len(s)
    BY LenProperties
<1> DEFINE h == [i \in 1..(k + 1) |-> a]
<1>2. h \in [1..(k + 1) -> Bounds] /\ h[1] = a /\ h[k + 1] = a
    OBVIOUS
<1>3. \A i \in 1..k : h[i] = a /\ h[i + 1] = a
    OBVIOUS
<1> HIDE DEF h
<1>4. Steps(t, w, s, a, a, h)
    BY <1>1, <1>2, <1>3 DEF Steps
<1>5. QED
    BY <1>4 DEF Path

LEMMA PathOne ==
    ASSUME NEW t, NEW w, NEW X, NEW c \in X, NEW a \in Bounds, NEW b \in Bounds, Goes(t, w, c, a, b)
    PROVE  Path(t, w, <<c>>, a, b)
<1>1. PICK s : s = <<c>>
    OBVIOUS
<1>2. Len(s) = 1 /\ s[1] = c
    BY <1>1
<1> DEFINE h == [i \in 1..2 |-> IF i = 1 THEN a ELSE b]
<1>3. h \in [1..2 -> Bounds] /\ h[1] = a /\ h[2] = b
    OBVIOUS
<1> HIDE DEF h
<1>4. \A i \in 1..1 : i = 1
    OBVIOUS
<1>5. Steps(t, w, s, a, b, h)
    BY <1>2, <1>3, <1>4 DEF Steps
<1>6. QED
    BY <1>1, <1>5 DEF Path

LEMMA PathJoined ==
    ASSUME NEW t, NEW w, NEW X, NEW r \in Seq(X), NEW s \in Seq(X),
           NEW a, NEW b, NEW c, Path(t, w, r, a, b), Path(t, w, s, b, c)
    PROVE  Path(t, w, r \o s, a, c)
<1>1. PICK f : Steps(t, w, r, a, b, f)
    BY DEF Path
<1>2. PICK g : Steps(t, w, s, b, c, g)
    BY DEF Path
<1>3. PICK k \in Nat : k = Len(r)
    BY LenProperties
<1>4. PICK l \in Nat : l = Len(s)
    BY LenProperties
<1>5. PICK u : u = r \o s
    OBVIOUS
<1>6. /\ Len(u) = k + l /\ \A i \in 1..k : u[i] = r[i]
      /\ \A i \in 1..l : u[k + i] = s[i]
    BY <1>3, <1>4, <1>5, Joined
<1>7. /\ f \in [1..(k + 1) -> Bounds] /\ f[1] = a /\ f[k + 1] = b
      /\ \A i \in 1..k : Goes(t, w, r[i], f[i], f[i + 1])
    BY <1>1, <1>3 DEF Steps
<1>8. /\ g \in [1..(l + 1) -> Bounds] /\ g[1] = b /\ g[l + 1] = c
      /\ \A i \in 1..l : Goes(t, w, s[i], g[i], g[i + 1])
    BY <1>2, <1>4 DEF Steps
<1> DEFINE h == [i \in 1..(k + l + 1) |-> IF i <= k THEN f[i] ELSE g[i - k]]
<1>9. \A i \in 1..k : h[i] = f[i]
    OBVIOUS
<1>10. \A i \in 1..(l + 1) : h[k + i] = g[i]
    <2>1. ASSUME NEW i \in 1..(l + 1)  PROVE h[k + i] = g[i]
        <3>1. k + i \in 1..(k + l + 1) /\ ~(k + i <= k) /\ k + i - k = i
            OBVIOUS
        <3>2. QED
            BY <3>1
    <2>2. QED
        BY <2>1
<1> HIDE DEF h
<1>11. h \in [1..(k + l + 1) -> Bounds]
    <2>1. ASSUME NEW i \in 1..(k + l + 1)
          PROVE  (IF i <= k THEN f[i] ELSE g[i - k]) \in Bounds
        <3>1. CASE i <= k
            BY <1>7, <3>1
        <3>2. CASE ~(i <= k)
            <4>1. i - k \in 1..(l + 1)
                BY <3>2
            <4>2. QED
                BY <1>8, <3>2, <4>1
        <3>3. QED
            BY <3>1, <3>2
    <2>2. QED
        BY <2>1 DEF h
<1>12. \A i \in 1..(k + 1) : h[i] = f[i]
    <2>1. h[k + 1] = g[1]
        BY <1>10
    <2>2. h[k + 1] = f[k + 1]
        BY <1>7, <1>8, <2>1
    <2>3. \A i \in 1..(k + 1) : i \in 1..k \/ i = k + 1
        OBVIOUS
    <2>4. QED
        BY <1>9, <2>2, <2>3
<1>13. h[1] = a /\ h[k + l + 1] = c
    <2>1. h[1] = f[1]
        BY <1>12
    <2>2. k + l + 1 = k + (l + 1) /\ l + 1 \in 1..(l + 1)
        OBVIOUS
    <2>3. h[k + (l + 1)] = g[l + 1]
        BY <1>10, <2>2
    <2>4. QED
        BY <1>7, <1>8, <2>1, <2>2, <2>3
<1>14. ASSUME NEW i \in 1..(k + l)  PROVE Goes(t, w, u[i], h[i], h[i + 1])
    <2>1. CASE i <= k
        <3>1. i \in 1..k /\ i \in 1..(k + 1) /\ i + 1 \in 1..(k + 1)
            BY <2>1
        <3>2. u[i] = r[i] /\ h[i] = f[i] /\ h[i + 1] = f[i + 1]
            BY <1>6, <1>12, <3>1
        <3>3. QED
            BY <1>7, <3>1, <3>2
    <2>2. CASE ~(i <= k)
        <3>1. PICK j \in 1..l : i = k + j
            <4>1. i - k \in 1..l /\ i = k + (i - k)
                BY <2>2
            <4>2. QED
                BY <4>1
        <3>2. j \in 1..(l + 1) /\ j + 1 \in 1..(l + 1) /\ i + 1 = k + (j + 1)
            BY <3>1
        <3>3. u[i] = s[j] /\ h[i] = g[j]
            BY <1>6, <1>10, <3>1, <3>2
        <3>4. h[i + 1] = g[j + 1]
            <4>1. h[k + (j + 1)] = g[j + 1]
                BY <1>10, <3>2
            <4>2. QED
                BY <3>2, <4>1
        <3>5. QED
            BY <1>8, <3>1, <3>3, <3>4
    <2>3. QED
        BY <2>1, <2>2
<1>15. Steps(t, w, u, a, c, h)
    BY <1>6, <1>11, <1>13, <1>14 DEF Steps
<1>16. QED
    BY <1>5, <1>15 DEF Path

LEMMA PathRest ==
    ASSUME NEW t, NEW w, NEW X, NEW s \in Seq(X), s # <<>>, NEW a, NEW c, Path(t, w, s, a, c)
    PROVE  \E b \in Bounds : Goes(t, w, Head(s), a, b) /\ Path(t, w, Tail(s), b, c)
<1>1. PICK f : Steps(t, w, s, a, c, f)
    BY DEF Path
<1>2. PICK l \in Nat : l = Len(s) - 1
    BY Rest
<1>3. PICK u : u = Tail(s)
    OBVIOUS
<1>4. Len(s) = l + 1 /\ Len(u) = l /\ Head(s) = s[1] /\ \A i \in 1..l : u[i] = s[i + 1]
    BY <1>2, <1>3, Rest
<1>5. /\ f \in [1..(l + 2) -> Bounds] /\ f[1] = a /\ f[l + 2] = c
      /\ \A i \in 1..(l + 1) : Goes(t, w, s[i], f[i], f[i + 1])
    <2>1. Len(s) + 1 = l + 2
        BY <1>4
    <2>2. QED
        BY <1>1, <1>4, <2>1 DEF Steps
<1> DEFINE g == [i \in 1..(l + 1) |-> f[i + 1]]
<1>6. g \in [1..(l + 1) -> Bounds] /\ g[1] = f[2] /\ g[l + 1] = c /\ f[2] \in Bounds
    BY <1>5
<1>7. \A i \in 1..l : g[i] = f[i + 1] /\ g[i + 1] = f[(i + 1) + 1]
    OBVIOUS
<1> HIDE DEF g
<1>8. ASSUME NEW i \in 1..l  PROVE Goes(t, w, u[i], g[i], g[i + 1])
    <2>1. i + 1 \in 1..(l + 1)
        OBVIOUS
    <2>2. Goes(t, w, s[i + 1], f[i + 1], f[(i + 1) + 1])
        BY <1>5, <2>1
    <2>3. QED
        BY <1>4, <1>7, <2>2
<1>9. Steps(t, w, u, f[2], c, g)
    BY <1>4, <1>6, <1>8 DEF Steps
<1>10. Path(t, w, u, f[2], c)
    BY <1>9 DEF Path
<1>11. Goes(t, w, Head(s), a, f[2])
    <2>1. Goes(t, w, s[1], f[1], f[1 + 1])
        BY <1>5
    <2>2. QED
        BY <1>4, <1>5, <2>1
<1>12. QED
    BY <1>3, <1>6, <1>10, <1>11
-----------------------------------------------------------------------------
(* The bounds along what is pushed                                          *)

LEMMA Roomy == MaxEvents \in Nat /\ MaxEvents >= 7 /\ 5 * N + 2 <= MaxEvents
<1>1. N \in Nat \ {0}
    BY ThreadsAre
<1>2. MaxEvents \in Nat /\ MaxEvents >= 2 + 5 * N
    BY BackendAssumption DEF N
<1>3. QED
    BY <1>1, <1>2

LEMMA BoundIs ==
    /\ \A x \in Fills : \A y \in Fills :
         Upto(x, y) \in Bounds /\ Upto(x, y).open = x /\ Upto(x, y).closed = y
    /\ \A a \in Bounds : /\ a.open \in Int /\ a.open <= MaxEvents
                         /\ a.closed \in Int /\ a.closed <= MaxEvents
                         /\ Up(a, 0, a)
    /\ \A x \in Int : x <= 7 => x \in Fills
    /\ MaxEvents \in Fills /\ MaxEvents - 1 \in Fills
    /\ Left \in Bounds /\ Left.open = MaxEvents - 1 /\ Left.closed = 5
<1>1. \A x \in Int : x <= 7 => x \in Fills
    BY Roomy DEF Fills
<1>2. MaxEvents \in Fills /\ MaxEvents - 1 \in Fills
    BY Roomy DEF Fills
<1>3. \A x \in Fills : \A y \in Fills :
         Upto(x, y) \in Bounds /\ Upto(x, y).open = x /\ Upto(x, y).closed = y
    BY DEF Upto, Bounds
<1>4. Left \in Bounds /\ Left.open = MaxEvents - 1 /\ Left.closed = 5
    BY <1>1, <1>2, <1>3 DEF Left
<1>5. ASSUME NEW a \in Bounds
      PROVE  /\ a.open \in Int /\ a.open <= MaxEvents
             /\ a.closed \in Int /\ a.closed <= MaxEvents
             /\ Up(a, 0, a)
    <2>1. a.open \in Fills /\ a.closed \in Fills
        BY DEF Bounds
    <2>2. QED
        BY <2>1 DEF Fills, Up
<1>6. QED
    BY <1>1, <1>2, <1>3, <1>4, <1>5

LEMMA GoesPlain ==
    ASSUME NEW t, NEW w, NEW c, c.do \notin Moving, NEW a, NEW b, Up(a, 0, b)
    PROVE  Goes(t, w, c, a, b)
BY DEF Goes, Moving

LEMMA GoesStore ==
    ASSUME NEW t, NEW w, NEW c, c.do \in {"InsertSingle", "Store"}, NEW a, NEW b
    PROVE  Goes(t, w, c, a, b) <=> Inserts(t, c, a, b)
BY DEF Goes, Moving

LEMMA GoesFree ==
    ASSUME NEW t, NEW w, NEW c, c.do = "Free", NEW a, NEW b
    PROVE  Goes(t, w, c, a, b)
BY DEF Goes, Moving

LEMMA GoesOther ==
    ASSUME NEW t, NEW w, NEW c, NEW a, NEW b
    PROVE  /\ c.do = "Buffer_Flush" => (Goes(t, w, c, a, b) <=> Empties(t, c, a, b))
           /\ c.do = "FlushCallback" => (Goes(t, w, c, a, b) <=> CallsBack(t, w, c, a, b))
           /\ c.do = "FlushIfAny" =>
                (Goes(t, w, c, a, b) <=>
                   CallsBack(t, w, c, a, b) /\ (c.buf = t /\ t # 0 => a.open <= b.open))
           /\ c.do = "FinishIfAny" => (Goes(t, w, c, a, b) <=> Finishes(t, w, c, a, b))
           /\ c.do = "CheckFileSize" => (Goes(t, w, c, a, b) <=> Shuts(w, t, a, b))
           /\ c.do = "close_mpits" => (Goes(t, w, c, a, b) <=> Shuts(c.buf, t, a, b))
           /\ c.do = "Enter" => (Goes(t, w, c, a, b) <=> Enters(t, w, c, a, b))
           /\ c.do = "Backend_Finalize" => (Goes(t, w, c, a, b) <=> w = 0 /\ Up(a, 0, Left))
           /\ c.do \notin Moving => (Goes(t, w, c, a, b) <=> Up(a, 0, b))
BY DEF Goes, Moving

\* The path of each sequence that is pushed.
LEMMA InsertPath ==
    ASSUME NEW t, NEW w, NEW u, NEW e, NEW a \in Bounds, NEW b \in Bounds,
           Inserts(t, InsertSingle(u, e), a, b)
    PROVE  Path(t, w, BUFFER_INSERT(u, e), a, b)
<1>1. PICK s : s = BUFFER_INSERT(u, e)
    OBVIOUS
<1>2. /\ Len(s) = 4 /\ s[1] = Call("Signals_Inhibit", u) /\ s[2] = InsertSingle(u, e)
      /\ s[3] = Call("Signals_Desinhibit", u) /\ s[4] = Call("Signals_ExecuteDeferred", u)
    BY <1>1 DEF BUFFER_INSERT
<1>3. Up(a, 0, a) /\ Up(b, 0, b)
    BY BoundIs
<1>4. Goes(t, w, s[1], a, a)
    BY <1>2, <1>3, GoesPlain DEF Call, Moving
<1>5. Goes(t, w, s[2], a, b)
    <2>1. s[2].do = "InsertSingle"
        BY <1>2 DEF InsertSingle
    <2>2. QED
        BY <1>2, <2>1, GoesStore
<1>6. Goes(t, w, s[3], b, b)
    BY <1>2, <1>3, GoesPlain DEF Call, Moving
<1>7. Goes(t, w, s[4], b, b)
    BY <1>2, <1>3, GoesPlain DEF Call, Moving
<1> DEFINE h == [i \in 1..5 |-> IF i <= 2 THEN a ELSE b]
<1>8. h \in [1..5 -> Bounds] /\ h[1] = a /\ h[2] = a /\ h[3] = b /\ h[4] = b /\ h[5] = b
    OBVIOUS
<1> HIDE DEF h
<1>9. \A i \in 1..4 : i = 1 \/ i = 2 \/ i = 3 \/ i = 4
    OBVIOUS
<1>10. \A i \in 1..4 : Goes(t, w, s[i], h[i], h[i + 1])
    BY <1>4, <1>5, <1>6, <1>7, <1>8, <1>9
<1>11. Steps(t, w, s, a, b, h)
    BY <1>2, <1>8, <1>10 DEF Steps
<1>12. QED
    BY <1>1, <1>11 DEF Path

LEMMA InsertsMore ==
    ASSUME NEW t, NEW u, NEW e, NEW a \in Bounds, NEW b \in Bounds
    PROVE  /\ Up(a, 1, b) => Inserts(t, InsertSingle(u, e), a, b)
           /\ u # t /\ Up(a, 0, b) => Inserts(t, InsertSingle(u, e), a, b)
<1>1. Up(a, 1, b) => Up(a, 0, b)
    BY BoundIs DEF Up
<1>2. InsertSingle(u, e).buf = u
    BY DEF InsertSingle
<1>3. QED
    BY <1>1, <1>2 DEF Inserts

LEMMA WrapperPath ==
    ASSUME NEW t, NEW u \in Threads, me \in Threads,
           NEW a \in Bounds, NEW b1 \in Bounds, NEW b2 \in Bounds, NEW b3 \in Bounds,
           NEW b4 \in Bounds, NEW b5 \in Bounds, NEW b \in Bounds,
           Goes(t, me, Call("Buffer_Flush", u), a, b1),
           Inserts(t, InsertSingle(u, "flush"), b1, b2), Inserts(t, InsertSingle(me, "cpu"), b2, b3),
           Inserts(t, InsertSingle(u, "flush"), b3, b4), Inserts(t, InsertSingle(me, "cpu"), b4, b5),
           Goes(t, me, Call("CheckFileSize", u), b5, b)
    PROVE  Path(t, me, Extrae_Flush_Wrapper(u), a, b)
<1>1. PICK r1 \in Seq(Calls) : r1 = <<Call("Buffer_Flush", u)>> /\ Path(t, me, r1, a, b1)
    <2>1. Call("Buffer_Flush", u) \in Calls
        BY CallTyped DEF Plain, NoEnd
    <2>2. QED
        BY <2>1, One, PathOne
<1>2. PICK r2 \in Seq(Calls) : r2 = BUFFER_INSERT(u, "flush")
    BY InsertTyped, NoEndCalls DEF Kinds
<1>3. PICK r3 \in Seq(Calls) : r3 = Extrae_AnnotateTopology /\ r3 = BUFFER_INSERT(me, "cpu")
    BY InsertTyped, NoEndCalls DEF Kinds, Extrae_AnnotateTopology
<1>4. PICK r4 \in Seq(Calls) : r4 = <<Call("CheckFileSize", u)>> /\ Path(t, me, r4, b5, b)
    <2>1. Call("CheckFileSize", u) \in Calls
        BY CallTyped DEF Plain, NoEnd
    <2>2. QED
        BY <2>1, One, PathOne
<1>5. Path(t, me, r2, b1, b2) /\ Path(t, me, r2, b3, b4)
    BY <1>2, InsertPath
<1>6. Path(t, me, r3, b2, b3) /\ Path(t, me, r3, b4, b5)
    BY <1>3, InsertPath
<1>7a. PICK s2 \in Seq(Calls) : s2 = r1 \o r2
    BY Joined
<1>7. Path(t, me, s2, a, b2)
    BY <1>1, <1>5, <1>7a, PathJoined
<1>8a. PICK s3 \in Seq(Calls) : s3 = s2 \o r3
    BY Joined
<1>8. Path(t, me, s3, a, b3)
    BY <1>6, <1>7, <1>8a, PathJoined
<1>9a. PICK s4 \in Seq(Calls) : s4 = s3 \o r2
    BY Joined
<1>9. Path(t, me, s4, a, b4)
    BY <1>5, <1>8, <1>9a, PathJoined
<1>10a. PICK s5 \in Seq(Calls) : s5 = s4 \o r3
    BY Joined
<1>10. Path(t, me, s5, a, b5)
    BY <1>6, <1>9, <1>10a, PathJoined
<1>11. Path(t, me, s5 \o r4, a, b)
    BY <1>4, <1>10, PathJoined
<1>12. s5 \o r4 = Extrae_Flush_Wrapper(u)
    BY <1>1, <1>2, <1>3, <1>4, <1>7a, <1>8a, <1>9a, <1>10a DEF Extrae_Flush_Wrapper
<1>13. QED
    BY <1>11, <1>12

\* k more events, when there is room for n.
More(a, k) == Upto(a.open + k, a.closed + k)

LEMMA MoreIs ==
    ASSUME NEW a \in Bounds, NEW b \in Bounds, NEW n \in Nat, Up(a, n, b), NEW k \in 0..n
    PROVE  /\ More(a, k) \in Bounds
           /\ More(a, k).open = a.open + k /\ More(a, k).closed = a.closed + k
<1>1. /\ a.open \in Int /\ a.closed \in Int /\ b.open \in Int /\ b.closed \in Int
      /\ b.open <= MaxEvents /\ b.closed <= MaxEvents /\ MaxEvents \in Int
    BY BoundIs, Roomy
<1>2. a.open + k \in Fills /\ a.closed + k \in Fills
    BY <1>1 DEF Up, Fills
<1>3. QED
    BY <1>2, BoundIs DEF More

LEMMA FlushPath ==
    ASSUME NEW t \in Threads, NEW u \in Threads, me \in Threads, NEW a \in Bounds, NEW b \in Bounds,
           CallsBack(t, me, Call("FlushCallback", u), a, b)
    PROVE  \E n \in Bounds : /\ u # t => n = a
                             /\ u = t => n.open = MaxEvents
                             /\ Path(t, me, Extrae_Flush_Wrapper(u), n, b)
<1>0. Call("FlushCallback", u).buf = u
    BY DEF Call
<1>1. /\ a.open \in Int /\ a.closed \in Int /\ b.open \in Int /\ b.closed \in Int
      /\ Up(a, 0, a) /\ Up(b, 0, b)
    BY BoundIs
<1>2. ASSUME NEW x \in Bounds, NEW y \in Bounds
      PROVE  /\ Goes(t, me, Call("Buffer_Flush", u), x, y) <=> Empties(t, Call("Buffer_Flush", u), x, y)
             /\ Goes(t, me, Call("CheckFileSize", u), x, y) <=> Shuts(me, t, x, y)
             /\ Call("Buffer_Flush", u).buf = u
    <2>1. Call("Buffer_Flush", u).do = "Buffer_Flush" /\ Call("CheckFileSize", u).do = "CheckFileSize"
          /\ Call("Buffer_Flush", u).buf = u
        BY DEF Call
    <2>2. QED
        BY <2>1, GoesOther
<1>3. CASE u = t
    <2>1. a.closed <= b.closed /\ 4 <= b.open /\ 4 <= b.closed
        BY <1>0, <1>3 DEF CallsBack
    <2>2. PICK n \in Bounds : n = Upto(MaxEvents, 0) /\ n.open = MaxEvents /\ n.closed = 0
        BY BoundIs
    <2>3. PICK l0 \in Bounds : l0.open = 0 /\ l0.closed = 0
        BY BoundIs
    <2>4. PICK l1 \in Bounds : l1.open = 1 /\ l1.closed = 1
        BY BoundIs
    <2>5. PICK l2 \in Bounds : l2.open = 2 /\ l2.closed = 2
        BY BoundIs
    <2>6. PICK l3 \in Bounds : l3.open = 3 /\ l3.closed = 3
        BY BoundIs
    <2>7. PICK l4 \in Bounds : l4.open = 4 /\ l4.closed = 4
        BY BoundIs
    <2>8. Goes(t, me, Call("Buffer_Flush", u), n, l0)
        <3>1. Empties(t, Call("Buffer_Flush", u), n, l0)
            BY <1>2, <1>3, <2>2, <2>3 DEF Empties
        <3>2. QED
            BY <1>2, <3>1
    <2>9. Goes(t, me, Call("CheckFileSize", u), l4, b)
        <3>1. Shuts(me, t, l4, b)
            BY <1>1, <2>1, <2>7 DEF Shuts, Up
        <3>2. QED
            BY <1>2, <3>1
    <2>10. Up(l0, 1, l1) /\ Up(l1, 1, l2) /\ Up(l2, 1, l3) /\ Up(l3, 1, l4)
        BY <2>3, <2>4, <2>5, <2>6, <2>7 DEF Up
    <2>11. /\ Inserts(t, InsertSingle(u, "flush"), l0, l1) /\ Inserts(t, InsertSingle(me, "cpu"), l1, l2)
           /\ Inserts(t, InsertSingle(u, "flush"), l2, l3) /\ Inserts(t, InsertSingle(me, "cpu"), l3, l4)
        BY <2>10, InsertsMore
    <2>12. Path(t, me, Extrae_Flush_Wrapper(u), n, b)
        BY <2>8, <2>9, <2>11, WrapperPath
    <2>13. QED
        BY <1>3, <2>2, <2>12
<1>4. CASE u # t /\ t = me
    <2>1. Across(a, 2, b) /\ Up(a, 2, b)
        BY <1>0, <1>4 DEF CallsBack, Annotates, Across
    <2>2. PICK m1 \in Bounds : m1.open = a.open + 1 /\ m1.closed = a.closed + 1
        BY <2>1, MoreIs
    <2>3. PICK m2 \in Bounds : m2.open = a.open + 2 /\ m2.closed = a.closed + 2
        BY <2>1, MoreIs
    <2>4. Goes(t, me, Call("Buffer_Flush", u), a, a)
        <3>1. Empties(t, Call("Buffer_Flush", u), a, a)
            BY <1>1, <1>2, <1>4 DEF Empties
        <3>2. QED
            BY <1>2, <3>1
    <2>5. Goes(t, me, Call("CheckFileSize", u), m2, b)
        <3>1. Shuts(me, t, m2, b)
            BY <1>1, <2>1, <2>3 DEF Shuts, Up, Across
        <3>2. QED
            BY <1>2, <3>1
    <2>6. Up(a, 0, a) /\ Up(a, 1, m1) /\ Up(m1, 0, m1) /\ Up(m1, 1, m2)
        BY <1>1, <2>2, <2>3 DEF Up
    <2>7. /\ Inserts(t, InsertSingle(u, "flush"), a, a) /\ Inserts(t, InsertSingle(me, "cpu"), a, m1)
          /\ Inserts(t, InsertSingle(u, "flush"), m1, m1) /\ Inserts(t, InsertSingle(me, "cpu"), m1, m2)
        BY <1>4, <2>6, InsertsMore
    <2>8. Path(t, me, Extrae_Flush_Wrapper(u), a, b)
        BY <2>4, <2>5, <2>7, WrapperPath
    <2>9. QED
        BY <1>4, <2>8
<1>5. CASE u # t /\ t # me
    <2>1. Up(a, 0, b)
        BY <1>0, <1>5 DEF CallsBack, Annotates
    <2>2. Goes(t, me, Call("Buffer_Flush", u), a, a)
        <3>1. Empties(t, Call("Buffer_Flush", u), a, a)
            BY <1>1, <1>2, <1>5 DEF Empties
        <3>2. QED
            BY <1>2, <3>1
    <2>3. Goes(t, me, Call("CheckFileSize", u), a, b)
        <3>1. Shuts(me, t, a, b)
            BY <1>5, <2>1 DEF Shuts
        <3>2. QED
            BY <1>2, <3>1
    <2>4. Inserts(t, InsertSingle(u, "flush"), a, a) /\ Inserts(t, InsertSingle(me, "cpu"), a, a)
        BY <1>1, <1>5, InsertsMore
    <2>5. Path(t, me, Extrae_Flush_Wrapper(u), a, b)
        BY <2>2, <2>3, <2>4, WrapperPath
    <2>6. QED
        BY <1>5, <2>5
<1>6. QED
    BY <1>3, <1>4, <1>5

LEMMA PairOf ==
    ASSUME NEW X, NEW x \in X, NEW y \in X
    PROVE  <<x>> \o <<y>> = <<x, y>>
<1>1. PICK s \in Seq(X) : s = <<x>> \o <<y>>
    BY One, Joined
<1>2. Len(s) = 2 /\ s[1] = x /\ s[2] = y
    <2>1. /\ <<x>> \in Seq(X) /\ Len(<<x>>) = 1 /\ <<x>>[1] = x
          /\ <<y>> \in Seq(X) /\ Len(<<y>>) = 1 /\ <<y>>[1] = y
        BY One
    <2>2. /\ Len(s) = 1 + 1 /\ (\A i \in 1..1 : s[i] = <<x>>[i])
          /\ \A i \in 1..1 : s[1 + i] = <<y>>[i]
        BY <1>1, <2>1, Joined
    <2>3. QED
        BY <2>1, <2>2
<1>3. <<x, y>> \in Seq(X) /\ Len(<<x, y>>) = 2 /\ <<x, y>>[1] = x /\ <<x, y>>[2] = y
    OBVIOUS
<1>4. PICK r \in Seq(X) : r = <<x, y>>
    BY <1>3
<1>5. Len(r) = 2 /\ r[1] = x /\ r[2] = y
    BY <1>3, <1>4
<1>6. s = r
    BY <1>2, <1>5, SeqEqual
<1>7. QED
    BY <1>1, <1>4, <1>6

LEMMA FinishPath ==
    ASSUME NEW t \in Threads, NEW u \in Threads, me \in Threads, NEW a \in Bounds, NEW b \in Bounds,
           Finishes(t, me, Call("FinishIfAny", u), a, b)
    PROVE  Path(t, me, Finish(u), a, b)
<1>0. Call("FinishIfAny", u).buf = u
    BY DEF Call
<1>1. /\ a.open \in Int /\ a.closed \in Int /\ b.open \in Int /\ b.closed \in Int
      /\ Up(a, 0, a) /\ Up(b, 0, b)
    BY BoundIs
<1>2. PICK r1 \in Seq(Calls) : r1 = BUFFER_INSERT(me, "end")
    BY InsertTyped, NoEndCalls DEF Kinds
<1>3. Call("FlushCallback", u) \in Calls /\ Call("close_mpits", u) \in Calls
    BY CallTyped DEF Plain, NoEnd
<1>4. PICK r2 \in Seq(Calls) : r2 = <<Call("FlushCallback", u)>>
    BY <1>3, One
<1>5. PICK r3 \in Seq(Calls) : r3 = <<Call("close_mpits", u)>>
    BY <1>3, One
<1>6. r2 \o r3 = <<Call("FlushCallback", u), Call("close_mpits", u)>>
    BY <1>3, <1>4, <1>5, PairOf
<1>7. Finish(u) = r1 \o (r2 \o r3)
    BY <1>2, <1>6 DEF Finish
<1>8. ASSUME NEW m \in Bounds, NEW n \in Bounds, Inserts(t, InsertSingle(me, "end"), a, m),
             CallsBack(t, me, Call("FlushCallback", u), m, n), Shuts(u, t, n, b)
      PROVE  Path(t, me, Finish(u), a, b)
    <2>1. Path(t, me, r1, a, m)
        BY <1>2, <1>8, InsertPath
    <2>2. Goes(t, me, Call("FlushCallback", u), m, n)
        <3>1. Call("FlushCallback", u).do = "FlushCallback"
            BY DEF Call
        <3>2. QED
            BY <1>8, <3>1, GoesOther
    <2>3. Goes(t, me, Call("close_mpits", u), n, b)
        <3>1. Call("close_mpits", u).do = "close_mpits" /\ Call("close_mpits", u).buf = u
            BY DEF Call
        <3>2. QED
            BY <1>8, <3>1, GoesOther
    <2>4. Path(t, me, r2, m, n) /\ Path(t, me, r3, n, b)
        BY <1>3, <1>4, <1>5, <2>2, <2>3, PathOne
    <2>5. PICK r \in Seq(Calls) : r = r2 \o r3
        BY Joined
    <2>6. Path(t, me, r, m, b)
        BY <2>4, <2>5, PathJoined
    <2>7. Path(t, me, r1 \o r, a, b)
        BY <2>1, <2>6, PathJoined
    <2>8. QED
        BY <1>7, <2>5, <2>7
<1>9. Call("FlushCallback", u).buf = u /\ InsertSingle(me, "end").buf = me
    BY DEF Call, InsertSingle
<1>10. CASE u = t
    <2>1. 4 <= b.open /\ 4 <= b.closed /\ (t = me => Across(a, 1, b)) /\ (t # me => Across(a, 0, b))
        BY <1>0, <1>10 DEF Finishes
    <2>2. PICK n \in Bounds : n.open = 4 /\ n.closed = b.closed
        <3>1. PICK x \in Fills : x = b.closed
            BY DEF Bounds
        <3>2. PICK y \in Fills : y = 4
            BY BoundIs
        <3>3. Upto(y, x) \in Bounds /\ Upto(y, x).open = 4 /\ Upto(y, x).closed = b.closed
            BY <3>1, <3>2, BoundIs
        <3>4. QED
            BY <3>3
    <2>3. Shuts(u, t, n, b)
        BY <1>1, <2>1, <2>2 DEF Shuts, Up
    <2>4. CASE t = me
        <3>1. Up(a, 1, b)
            BY <2>1, <2>4 DEF Across
        <3>2. PICK m \in Bounds : m.open = a.open + 1 /\ m.closed = a.closed + 1
            BY <3>1, MoreIs
        <3>3. Up(a, 1, m)
            BY <1>1, <3>2 DEF Up
        <3>4. Inserts(t, InsertSingle(me, "end"), a, m)
            BY <3>3, InsertsMore
        <3>5. CallsBack(t, me, Call("FlushCallback", u), m, n)
            BY <1>1, <1>9, <1>10, <2>1, <2>2, <3>1, <3>2 DEF CallsBack, Up
        <3>6. QED
            BY <1>8, <2>3, <3>4, <3>5
    <2>5. CASE t # me
        <3>1. Inserts(t, InsertSingle(me, "end"), a, a)
            BY <1>1, <2>5, InsertsMore
        <3>2. Up(a, 0, b)
            BY <2>1, <2>5 DEF Across
        <3>3. CallsBack(t, me, Call("FlushCallback", u), a, n)
            BY <1>1, <1>9, <1>10, <2>1, <2>2, <3>2 DEF CallsBack, Up
        <3>4. QED
            BY <1>8, <2>3, <3>1, <3>3
    <2>6. QED
        BY <2>4, <2>5
<1>11. CASE u # t /\ t = me
    <2>1. Across(a, 3, b) /\ Up(a, 3, b)
        BY <1>0, <1>11 DEF Finishes, Annotates, Across
    <2>2. PICK m \in Bounds : m.open = a.open + 1 /\ m.closed = a.closed + 1
        BY <2>1, MoreIs
    <2>3. Up(a, 1, m) /\ Across(m, 2, b)
        <3>1. /\ a.open + 3 <= b.open /\ a.closed + 3 <= b.closed /\ a.open + 3 <= b.closed
            BY <2>1 DEF Up, Across
        <3>2. m.open + 2 = a.open + 3 /\ m.closed + 2 = a.closed + 3
            BY <1>1, <2>2
        <3>3. Across(m, 2, b)
            BY <3>1, <3>2 DEF Up, Across
        <3>4. Up(a, 1, m)
            BY <1>1, <2>2 DEF Up
        <3>5. QED
            BY <3>3, <3>4
    <2>4. Inserts(t, InsertSingle(me, "end"), a, m)
        BY <2>3, InsertsMore
    <2>5. CallsBack(t, me, Call("FlushCallback", u), m, b)
        BY <1>9, <1>11, <2>3 DEF CallsBack, Annotates
    <2>6. Shuts(u, t, b, b)
        BY <1>1, <1>11 DEF Shuts
    <2>7. QED
        BY <1>8, <2>4, <2>5, <2>6
<1>12. CASE u # t /\ t # me
    <2>1. Up(a, 0, b)
        BY <1>0, <1>12 DEF Finishes, Annotates
    <2>2. Inserts(t, InsertSingle(me, "end"), a, a)
        BY <1>1, <1>12, InsertsMore
    <2>3. CallsBack(t, me, Call("FlushCallback", u), a, b)
        BY <1>9, <1>12, <2>1 DEF CallsBack, Annotates
    <2>4. Shuts(u, t, b, b)
        BY <1>1, <1>12 DEF Shuts
    <2>5. QED
        BY <1>8, <2>2, <2>3, <2>4
<1>13. QED
    BY <1>10, <1>11, <1>12

\* The loops of Backend_Finalize, with the bound of each turn.
LEMMA OrderPath ==
    ASSUME NEW t, NEW w, NEW name, NEW g \in [1..(N + 1) -> Bounds],
           \A i \in 1..N : Goes(t, w, Call(name, i - 1), g[i], g[i + 1])
    PROVE  Path(t, w, InThreadOrder(name), g[1], g[N + 1])
<1>1. N \in Nat
    BY ThreadsAre
<1>2. PICK s : s = InThreadOrder(name)
    OBVIOUS
<1>3. s = [i \in 1..N |-> Call(name, i - 1)]
    BY <1>2 DEF InThreadOrder, N
<1>4. Len(s) = N /\ \A i \in 1..N : s[i] = Call(name, i - 1)
    BY <1>1, <1>3
<1>5. Steps(t, w, s, g[1], g[N + 1], g)
    BY <1>4 DEF Steps
<1>6. QED
    BY <1>2, <1>5 DEF Path

Even(x) == Upto(x, x)

LEMMA EvenIs ==
    ASSUME NEW x \in Int, x <= MaxEvents
    PROVE  Even(x) \in Bounds /\ Even(x).open = x /\ Even(x).closed = x
BY BoundIs DEF Even, Fills

\* The rings of the other threads: they are only emptied.
LEMMA OthersPath ==
    ASSUME NEW t \in Threads, NEW w \in Threads, t # w, NEW b \in Bounds, b = Even(MaxEvents)
    PROVE  /\ Path(t, w, InThreadOrder("FlushIfAny"), b, b)
           /\ Path(t, w, InThreadOrder("FinishIfAny"), b, b)
<1>1. b.open = MaxEvents /\ b.closed = MaxEvents /\ MaxEvents \in Nat /\ MaxEvents >= 7
    BY EvenIs, Roomy
<1>2. Up(b, 0, b) /\ Across(b, 0, b)
    BY <1>1 DEF Up, Across
<1>3. ASSUME NEW c, c.do = "FlushIfAny"  PROVE Goes(t, w, c, b, b)
    <2>1. CallsBack(t, w, c, b, b)
        BY <1>1, <1>2 DEF CallsBack, Annotates
    <2>2. b.open <= b.open
        BY <1>1
    <2>3. QED
        BY <1>3, <2>1, <2>2, GoesOther
<1>4. ASSUME NEW c, c.do = "FinishIfAny"  PROVE Goes(t, w, c, b, b)
    <2>1. Finishes(t, w, c, b, b)
        BY <1>1, <1>2 DEF Finishes, Annotates
    <2>2. QED
        BY <1>4, <2>1, GoesOther
<1> DEFINE g == [i \in 1..(N + 1) |-> b]
<1>5. g \in [1..(N + 1) -> Bounds] /\ g[1] = b /\ g[N + 1] = b /\ \A i \in 1..N : g[i] = b /\ g[i + 1] = b
    BY ThreadsAre
<1> HIDE DEF g
<1>6. \A i \in 1..N : Goes(t, w, Call("FlushIfAny", i - 1), g[i], g[i + 1])
    <2>1. ASSUME NEW i \in 1..N  PROVE Goes(t, w, Call("FlushIfAny", i - 1), b, b)
        BY <1>3 DEF Call
    <2>2. QED
        BY <1>5, <2>1
<1>7. \A i \in 1..N : Goes(t, w, Call("FinishIfAny", i - 1), g[i], g[i + 1])
    <2>1. ASSUME NEW i \in 1..N  PROVE Goes(t, w, Call("FinishIfAny", i - 1), b, b)
        BY <1>4 DEF Call
    <2>2. QED
        BY <1>5, <2>1
<1>8. Path(t, w, InThreadOrder("FlushIfAny"), g[1], g[N + 1])
    BY <1>5, <1>6, OrderPath
<1>9. Path(t, w, InThreadOrder("FinishIfAny"), g[1], g[N + 1])
    BY <1>5, <1>7, OrderPath
<1>10. QED
    BY <1>5, <1>8, <1>9

\* That of the finalizing thread is emptied once, its file perhaps closed already: then
\* each of the other buffers it flushes leaves two events there, and three the second time.
LEMMA FirstLoop ==
    ASSUME NEW a \in Bounds, a = Upto(MaxEvents, 6), NEW b \in Bounds, b = Even(2 * N + 4)
    PROVE  Path(0, 0, InThreadOrder("FlushIfAny"), a, b)
<1>1. PICK n \in Nat \ {0} : n = N
    BY ThreadsAre
<1>2. MaxEvents \in Nat /\ 5 * n + 2 <= MaxEvents /\ MaxEvents >= 7
    BY <1>1, Roomy
<1>3. a.open = MaxEvents /\ a.closed = 6 /\ b.open = 2 * n + 4 /\ b.closed = 2 * n + 4
    BY <1>1, <1>2, BoundIs, EvenIs
<1> DEFINE g == [i \in 1..(n + 1) |-> IF i = 1 THEN a ELSE Even(2 * i + 2)]
<1>4. \A i \in 2..(n + 1) : /\ Even(2 * i + 2) \in Bounds /\ Even(2 * i + 2).open = 2 * i + 2
                            /\ Even(2 * i + 2).closed = 2 * i + 2
    <2>1. ASSUME NEW i \in 2..(n + 1)
          PROVE  /\ Even(2 * i + 2) \in Bounds /\ Even(2 * i + 2).open = 2 * i + 2
                 /\ Even(2 * i + 2).closed = 2 * i + 2
        <3>1. PICK x \in Int : x = 2 * i + 2
            OBVIOUS
        <3>2. x <= MaxEvents
            BY <1>2, <3>1
        <3>3. Even(x) \in Bounds /\ Even(x).open = x /\ Even(x).closed = x
            BY <3>2, EvenIs
        <3>4. QED
            BY <3>1, <3>3
    <2>2. QED
        BY <2>1
<1>5. g \in [1..(n + 1) -> Bounds]
    <2>1. ASSUME NEW i \in 1..(n + 1)  PROVE (IF i = 1 THEN a ELSE Even(2 * i + 2)) \in Bounds
        BY <1>4
    <2>2. QED
        BY <2>1
<1>6. g[1] = a /\ \A i \in 2..(n + 1) : g[i] = Even(2 * i + 2)
    OBVIOUS
<1> HIDE DEF g
<1>7. \A i \in 2..(n + 1) : g[i].open = 2 * i + 2 /\ g[i].closed = 2 * i + 2
    BY <1>4, <1>6
<1>8. ASSUME NEW i \in 1..n  PROVE Goes(0, 0, Call("FlushIfAny", i - 1), g[i], g[i + 1])
    <2>1. PICK c : c = Call("FlushIfAny", i - 1)
        OBVIOUS
    <2>2. c.do = "FlushIfAny" /\ c.buf = i - 1
        BY <2>1 DEF Call
    <2>3. i + 1 \in 2..(n + 1) /\ g[i + 1].open = 2 * i + 4 /\ g[i + 1].closed = 2 * i + 4
        <3>1. i + 1 \in 2..(n + 1) /\ 2 * (i + 1) + 2 = 2 * i + 4
            OBVIOUS
        <3>2. QED
            BY <1>7, <3>1
    <2>4. CASE i = 1
        <3>1. c.buf = 0 /\ g[i] = a /\ g[i + 1].open = 6 /\ g[i + 1].closed = 6
            BY <1>6, <2>2, <2>3, <2>4
        <3>2. CallsBack(0, 0, c, g[i], g[i + 1])
            BY <1>3, <3>1 DEF CallsBack
        <3>3. QED
            BY <2>1, <2>2, <3>2, GoesOther
    <2>5. CASE i # 1
        <3>1. i \in 2..(n + 1) /\ c.buf # 0
            BY <2>2, <2>5
        <3>2. g[i].open = 2 * i + 2 /\ g[i].closed = 2 * i + 2
            BY <1>7, <3>1
        <3>3. Across(g[i], 2, g[i + 1])
            BY <2>3, <3>2 DEF Across, Up
        <3>4. CallsBack(0, 0, c, g[i], g[i + 1])
            BY <3>1, <3>3 DEF CallsBack, Annotates
        <3>5. QED
            BY <2>1, <2>2, <3>1, <3>4, GoesOther
    <2>6. QED
        BY <2>4, <2>5
<1>9. g[n + 1] = b
    <2>1. n + 1 \in 2..(n + 1) /\ 2 * (n + 1) + 2 = 2 * n + 4
        OBVIOUS
    <2>2. g[n + 1] = Even(2 * n + 4)
        BY <1>6, <2>1
    <2>3. QED
        BY <1>1, <2>2
<1>10. Path(0, 0, InThreadOrder("FlushIfAny"), g[1], g[n + 1])
    BY <1>1, <1>5, <1>8, OrderPath
<1>11. QED
    BY <1>6, <1>9, <1>10

LEMMA SecondLoop ==
    ASSUME NEW a \in Bounds, a = Even(2 * N + 4), NEW b \in Bounds, b = Even(5 * N + 2)
    PROVE  Path(0, 0, InThreadOrder("FinishIfAny"), a, b)
<1>1. PICK n \in Nat \ {0} : n = N
    BY ThreadsAre
<1>2. MaxEvents \in Nat /\ 5 * n + 2 <= MaxEvents
    BY <1>1, Roomy
<1>3. a.open = 2 * n + 4 /\ a.closed = 2 * n + 4
    BY <1>1, <1>2, EvenIs
<1> DEFINE g == [i \in 1..(n + 1) |-> IF i = 1 THEN a ELSE Even(2 * n + 3 * i - 1)]
<1>4. \A i \in 2..(n + 1) : /\ Even(2 * n + 3 * i - 1) \in Bounds
                            /\ Even(2 * n + 3 * i - 1).open = 2 * n + 3 * i - 1
                            /\ Even(2 * n + 3 * i - 1).closed = 2 * n + 3 * i - 1
    <2>1. ASSUME NEW i \in 2..(n + 1)
          PROVE  /\ Even(2 * n + 3 * i - 1) \in Bounds
                 /\ Even(2 * n + 3 * i - 1).open = 2 * n + 3 * i - 1
                 /\ Even(2 * n + 3 * i - 1).closed = 2 * n + 3 * i - 1
        <3>1. PICK x \in Int : x = 2 * n + 3 * i - 1
            OBVIOUS
        <3>2. x <= MaxEvents
            BY <1>2, <3>1
        <3>3. Even(x) \in Bounds /\ Even(x).open = x /\ Even(x).closed = x
            BY <3>2, EvenIs
        <3>4. QED
            BY <3>1, <3>3
    <2>2. QED
        BY <2>1
<1>5. g \in [1..(n + 1) -> Bounds]
    <2>1. ASSUME NEW i \in 1..(n + 1)
          PROVE (IF i = 1 THEN a ELSE Even(2 * n + 3 * i - 1)) \in Bounds
        BY <1>4
    <2>2. QED
        BY <2>1
<1>6. g[1] = a /\ \A i \in 2..(n + 1) : g[i] = Even(2 * n + 3 * i - 1)
    OBVIOUS
<1> HIDE DEF g
<1>7. \A i \in 2..(n + 1) : g[i].open = 2 * n + 3 * i - 1 /\ g[i].closed = 2 * n + 3 * i - 1
    BY <1>4, <1>6
<1>8. ASSUME NEW i \in 1..n  PROVE Goes(0, 0, Call("FinishIfAny", i - 1), g[i], g[i + 1])
    <2>1. PICK c : c = Call("FinishIfAny", i - 1)
        OBVIOUS
    <2>2. c.do = "FinishIfAny" /\ c.buf = i - 1
        BY <2>1 DEF Call
    <2>3. i + 1 \in 2..(n + 1) /\ g[i + 1].open = 2 * n + 3 * i + 2
          /\ g[i + 1].closed = 2 * n + 3 * i + 2
        <3>1. i + 1 \in 2..(n + 1) /\ 2 * n + 3 * (i + 1) - 1 = 2 * n + 3 * i + 2
            OBVIOUS
        <3>2. QED
            BY <1>7, <3>1
    <2>4. CASE i = 1
        <3>1. c.buf = 0 /\ g[i] = a /\ g[i + 1].open = 2 * n + 5 /\ g[i + 1].closed = 2 * n + 5
            BY <1>6, <2>2, <2>3, <2>4
        <3>2. Across(g[i], 1, g[i + 1])
            BY <1>3, <3>1 DEF Across, Up
        <3>3. 4 <= g[i + 1].open /\ 4 <= g[i + 1].closed
            BY <3>1
        <3>4. Finishes(0, 0, c, g[i], g[i + 1])
            BY <3>1, <3>2, <3>3 DEF Finishes
        <3>5. QED
            BY <2>1, <2>2, <3>4, GoesOther
    <2>5. CASE i # 1
        <3>1. i \in 2..(n + 1) /\ c.buf # 0
            BY <2>2, <2>5
        <3>2. g[i].open = 2 * n + 3 * i - 1 /\ g[i].closed = 2 * n + 3 * i - 1
            BY <1>7, <3>1
        <3>3. Across(g[i], 3, g[i + 1])
            BY <2>3, <3>2 DEF Across, Up
        <3>4. Finishes(0, 0, c, g[i], g[i + 1])
            BY <3>1, <3>3 DEF Finishes, Annotates
        <3>5. QED
            BY <2>1, <2>2, <3>4, GoesOther
    <2>6. QED
        BY <2>4, <2>5
<1>9. g[n + 1] = b
    <2>1. n + 1 \in 2..(n + 1) /\ 2 * n + 3 * (n + 1) - 1 = 5 * n + 2
        OBVIOUS
    <2>2. g[n + 1] = Even(5 * n + 2)
        BY <1>6, <2>1
    <2>3. QED
        BY <1>1, <2>2
<1>10. Path(0, 0, InThreadOrder("FinishIfAny"), g[1], g[n + 1])
    BY <1>1, <1>5, <1>8, OrderPath
<1>11. QED
    BY <1>6, <1>9, <1>10

LEMMA FinalizePath ==
    ASSUME me = 0, NEW t \in Threads, NEW c \in Bounds
    PROVE  Path(t, 0, FinalizeCalls, Left, c)
<1>1. N \in Nat \ {0} /\ 0 \in Threads
    BY ThreadsAre
<1>2. MaxEvents \in Nat /\ MaxEvents >= 7 /\ 5 * N + 2 <= MaxEvents
    BY Roomy
<1>3. Left \in Bounds /\ Left.open = MaxEvents - 1 /\ Left.closed = 5
    BY BoundIs
<1>4. PICK r1 \in Seq(Calls) : r1 = Extrae_AnnotateTopology /\ r1 = BUFFER_INSERT(0, "cpu")
    BY <1>1, InsertTyped, NoEndCalls DEF Kinds, Extrae_AnnotateTopology
<1>5. PICK r2 \in Seq(Calls) : r2 = InThreadOrder("FlushIfAny")
    BY TurnsPushed, CallTyped, NoEndCalls DEF Plain
<1>6. PICK r3 \in Seq(Calls) : r3 = InThreadOrder("FinishIfAny")
    BY TurnsPushed, CallTyped, NoEndCalls DEF Plain
<1>7. \E a \in Bounds : Path(t, 0, r1, Left, a) /\ \E b \in Bounds : Path(t, 0, r2, a, b)
                            /\ \E d \in Bounds : Path(t, 0, r3, b, d)
    <2>1. CASE t = 0
        <3>1. PICK a \in Bounds : a = Upto(MaxEvents, 6) /\ a.open = MaxEvents /\ a.closed = 6
            BY <1>2, BoundIs
        <3>2. PICK b \in Bounds : b = Even(2 * N + 4)
            <4>1. 2 * N + 4 \in Int /\ 2 * N + 4 <= MaxEvents
                BY <1>1, <1>2
            <4>2. QED
                BY <4>1, EvenIs
        <3>3. PICK d \in Bounds : d = Even(5 * N + 2)
            <4>1. 5 * N + 2 \in Int
                BY <1>1
            <4>2. QED
                BY <1>2, <4>1, EvenIs
        <3>4. Up(Left, 1, a)
            BY <1>2, <1>3, <3>1 DEF Up
        <3>5. Inserts(t, InsertSingle(0, "cpu"), Left, a)
            BY <1>3, <3>4, InsertsMore
        <3>6. Path(t, 0, r1, Left, a)
            BY <1>3, <1>4, <3>5, InsertPath
        <3>7. Path(t, 0, r2, a, b)
            BY <1>5, <2>1, <3>1, <3>2, FirstLoop
        <3>8. Path(t, 0, r3, b, d)
            BY <1>6, <2>1, <3>2, <3>3, SecondLoop
        <3>9. QED
            BY <3>6, <3>7, <3>8
    <2>2. CASE t # 0
        <3>1. PICK b \in Bounds : b = Even(MaxEvents) /\ b.open = MaxEvents /\ b.closed = MaxEvents
            BY <1>2, EvenIs
        <3>2. Up(Left, 0, b)
            BY <1>2, <1>3, <3>1 DEF Up
        <3>3. Inserts(t, InsertSingle(0, "cpu"), Left, b)
            BY <1>3, <2>2, <3>2, InsertsMore
        <3>4. Path(t, 0, r1, Left, b)
            BY <1>3, <1>4, <3>3, InsertPath
        <3>5. Path(t, 0, r2, b, b) /\ Path(t, 0, r3, b, b)
            BY <1>1, <1>5, <1>6, <2>2, <3>1, OthersPath
        <3>6. QED
            BY <3>4, <3>5
    <2>3. QED
        BY <2>1, <2>2
<1>8. PICK a \in Bounds, b \in Bounds, d \in Bounds :
          Path(t, 0, r1, Left, a) /\ Path(t, 0, r2, a, b) /\ Path(t, 0, r3, b, d)
    BY <1>7
<1>9. PICK e \in Seq(Calls) : e = Ending /\ Path(t, 0, e, d, c)
    <2>1. /\ Call("Free", 0) \in Calls /\ Call("TurnOff", 0) \in Calls
          /\ Call("FinalizeEnds", 0) \in Calls
        BY <1>1, CallTyped DEF Plain, NoEnd
    <2>2. Call("Free", 0).do = "Free" /\ Call("TurnOff", 0).do \notin Moving
          /\ Call("FinalizeEnds", 0).do \notin Moving
        BY DEF Call, Moving
    <2>3a. /\ Ending \in Seq(Calls) /\ Len(Ending) = 3 /\ Ending[1] = Call("Free", 0)
           /\ Ending[2] = Call("TurnOff", 0) /\ Ending[3] = Call("FinalizeEnds", 0)
        BY <2>1 DEF Ending
    <2>3b. PICK e \in Seq(Calls) : e = Ending
        BY <2>3a
    <2>3. /\ Len(e) = 3 /\ e[1] = Call("Free", 0)
          /\ e[2] = Call("TurnOff", 0) /\ e[3] = Call("FinalizeEnds", 0)
        BY <2>3a, <2>3b
    <2>4. Goes(t, 0, e[1], d, c)
        BY <2>2, <2>3, GoesFree
    <2>5. Up(c, 0, c)
        BY BoundIs
    <2>6. Goes(t, 0, e[2], c, c) /\ Goes(t, 0, e[3], c, c)
        BY <2>2, <2>3, <2>5, GoesPlain
    <2> DEFINE h == [i \in 1..4 |-> IF i = 1 THEN d ELSE c]
    <2>7. h \in [1..4 -> Bounds] /\ h[1] = d /\ h[2] = c /\ h[3] = c /\ h[4] = c
        OBVIOUS
    <2> HIDE DEF h
    <2>8. \A i \in 1..3 : i = 1 \/ i = 2 \/ i = 3
        OBVIOUS
    <2>9. \A i \in 1..3 : Goes(t, 0, e[i], h[i], h[i + 1])
        BY <2>4, <2>6, <2>7, <2>8
    <2>10. Steps(t, 0, e, d, c, h)
        BY <2>3, <2>7, <2>9 DEF Steps
    <2>11. QED
        BY <2>3b, <2>10 DEF Path
<1>10. PICK s2 \in Seq(Calls) : s2 = r1 \o r2
    BY Joined
<1>11. Path(t, 0, s2, Left, b)
    BY <1>8, <1>10, PathJoined
<1>12. PICK s3 \in Seq(Calls) : s3 = s2 \o r3
    BY Joined
<1>13. Path(t, 0, s3, Left, d)
    BY <1>8, <1>11, <1>12, PathJoined
<1>14. Path(t, 0, s3 \o e, Left, c)
    BY <1>9, <1>13, PathJoined
<1>15. s3 \o e = FinalizeCalls
    BY <1>4, <1>5, <1>6, <1>9, <1>10, <1>12, FinalizePushed DEF Turns
<1>16. QED
    BY <1>14, <1>15
-----------------------------------------------------------------------------
(* The invariant: when events are flushed, not discarded                    *)

\* The calls that may lead to a flush, and that which ends one.
Starters ==
    {c \in Calls : c.do \in {"Enter", "FlushIfAny", "FinishIfAny", "FlushCallback",
                             "Backend_Finalize", "CheckFileSize"}}
Checks == {c \in Calls : c.do = "CheckFileSize"}
\* The calls after which no probe reaches the ring of t.
Stops(t) ==
    {c \in Calls : c.do \in {"TurnOff", "Free"} \/ (c.do = "Buffer_Free" /\ c.buf = t)}

Orderly(s) ==
    /\ Never(s, Starters, Checks)
    /\ \A t \in Threads : Followed(s, Closes(t), Stops(t))

Within(t, a) ==
    /\ open[t] = TRUE => Len(ring[t]) <= a.open
    /\ open[t] = FALSE => Len(ring[t]) <= a.closed
Room(t) == \E a \in Bounds : Within(t, a) /\ Path(t, me, stack, a, Left)
Off(t) == live[t] = TRUE /\ open[t] = FALSE => mpitrace_on = FALSE \/ Some(stack, Stops(t))

Holds == \A t \in Threads : Len(ring[t]) <= MaxEvents
Unnested ==
    /\ Holds
    /\ \A t \in Threads : owed[t] = 0
    /\ Orderly(stack)
    /\ table = "live" => \A t \in Threads : Room(t) /\ Off(t)

LEMMA WithinUp ==
    ASSUME VarsTyped, NEW t \in Threads, NEW a \in Bounds, NEW b \in Bounds, Within(t, a), Up(a, 0, b)
    PROVE  Within(t, b)
<1>1. PICK l \in Nat : l = Len(ring[t])
    BY LenProperties DEF VarsTyped
<1>2. /\ a.open \in Int /\ a.closed \in Int /\ b.open \in Int /\ b.closed \in Int
    BY BoundIs
<1>3. a.open <= b.open /\ a.closed <= b.closed
    BY <1>2 DEF Up
<1>4. QED
    BY <1>1, <1>2, <1>3 DEF Within

\* What is left of an orderly sequence, and what is put before it.
LEMMA OrderlyStays ==
    ASSUME stack \in Seq(Calls), stack # <<>>, Orderly(stack),
           NEW calls \in Seq(Calls), Return(calls), Never(calls, Starters, Checks),
           Head(stack) \in Starters \/ ~Some(calls, Starters),
           \A t \in Threads : Followed(calls, Closes(t), Stops(t)) \/ Head(stack) \in Closes(t)
    PROVE  /\ Orderly(stack')
           /\ \A t \in Threads : Some(stack, Stops(t)) =>
                 Head(stack) \in Stops(t) \/ Some(stack', Stops(t))
<1>1. PICK r \in Seq(Calls) : r = Tail(stack)
    BY Rest
<1>2. stack' = calls \o r
    BY <1>1 DEF Return
<1>3. Never(r, Starters, Checks) /\ (Head(stack) \in Starters => ~Some(r, Checks))
    BY <1>1, NeverRest DEF Orderly
<1>4. Never(stack', Starters, Checks)
    BY <1>2, <1>3, NeverJoined
<1>5. ASSUME NEW t \in Threads
      PROVE  /\ Followed(stack', Closes(t), Stops(t))
             /\ Some(stack, Stops(t)) => Head(stack) \in Stops(t) \/ Some(stack', Stops(t))
    <2>1. Followed(stack, Closes(t), Stops(t))
        BY DEF Orderly
    <2>2. Followed(r, Closes(t), Stops(t)) /\ (Head(stack) \in Closes(t) => Some(r, Stops(t)))
        BY <1>1, <2>1, FollowedRest
    <2>3. Followed(calls, Closes(t), Stops(t)) \/ Some(r, Stops(t))
        BY <2>2
    <2>4. Followed(stack', Closes(t), Stops(t))
        BY <1>2, <2>2, <2>3, FollowedJoined
    <2>5. Some(stack, Stops(t)) => Head(stack) \in Stops(t) \/ Some(r, Stops(t))
        BY <1>1, SomeRest
    <2>6. Some(r, Stops(t)) => Some(stack', Stops(t))
        BY <1>2, SomeJoined
    <2>7. QED
        BY <2>4, <2>5, <2>6
<1>6. QED
    BY <1>4, <1>5 DEF Orderly

LEMMA RoomStays ==
    ASSUME stack \in Seq(Calls), stack # <<>>, NEW t \in Threads, Room(t),
           NEW calls \in Seq(Calls), Return(calls), me' = me,
           \A a \in Bounds : \A b \in Bounds :
              Within(t, a) /\ Goes(t, me, Head(stack), a, b)
                => \E n \in Bounds : Within(t, n)' /\ Path(t, me, calls, n, b)
    PROVE  Room(t)'
<1>1. PICK a \in Bounds : Within(t, a) /\ Path(t, me, stack, a, Left)
    BY DEF Room
<1>2. PICK b \in Bounds : Goes(t, me, Head(stack), a, b) /\ Path(t, me, Tail(stack), b, Left)
    BY <1>1, PathRest
<1>3. PICK n \in Bounds : Within(t, n)' /\ Path(t, me, calls, n, b)
    BY <1>1, <1>2
<1>4. PICK r \in Seq(Calls) : r = Tail(stack)
    BY Rest
<1>5. Path(t, me, calls \o r, n, Left)
    BY <1>2, <1>3, <1>4, PathJoined
<1>6. stack' = calls \o r
    BY <1>4 DEF Return
<1>7. Path(t, me', stack', n, Left)
    BY <1>5, <1>6
<1>8. QED
    BY <1>3, <1>7 DEF Room

\* What the calls that replace the one on top do to the ring of t is what it does.
Replaces(t, calls) ==
    \A a \in Bounds : \A b \in Bounds :
       Within(t, a) /\ Goes(t, me, Head(stack), a, b)
         => \E n \in Bounds : Within(t, n) /\ Path(t, me, calls, n, b)

LEMMA ReplacesByNone ==
    ASSUME VarsTyped, NEW t \in Threads,
           \A a \in Bounds : \A b \in Bounds :
              Within(t, a) /\ Goes(t, me, Head(stack), a, b) => Within(t, b)
    PROVE  Replaces(t, <<>>)
BY PathNone DEF Replaces

\* A step that only changes what is pending.
LEMMA PushUnnested ==
    ASSUME stack \in Seq(Calls), stack # <<>>, Unnested,
           UNCHANGED <<ring, owed, open, live, table, me>>,
           mpitrace_on' = mpitrace_on \/ mpitrace_on' = FALSE,
           NEW calls \in Seq(Calls), Return(calls), Never(calls, Starters, Checks),
           Head(stack) \in Starters \/ ~Some(calls, Starters),
           \A t \in Threads : Followed(calls, Closes(t), Stops(t)) \/ Head(stack) \in Closes(t),
           \A t \in Threads : Head(stack) \in Stops(t) => mpitrace_on' = FALSE,
           table = "live" => \A t \in Threads : Replaces(t, calls)
    PROVE  Unnested'
<1>1. /\ Orderly(stack')
      /\ \A t \in Threads : Some(stack, Stops(t)) =>
            Head(stack) \in Stops(t) \/ Some(stack', Stops(t))
    BY OrderlyStays DEF Unnested
<1>2. Holds' /\ (\A t \in Threads : owed'[t] = 0)
    BY DEF Unnested, Holds
<1>3. ASSUME table' = "live", NEW t \in Threads  PROVE Room(t)' /\ Off(t)'
    <2>1. table = "live" /\ Room(t) /\ Off(t) /\ Replaces(t, calls)
        BY <1>3 DEF Unnested
    <2>2. ASSUME NEW a \in Bounds, NEW b \in Bounds, Within(t, a), Goes(t, me, Head(stack), a, b)
          PROVE  \E n \in Bounds : Within(t, n)' /\ Path(t, me, calls, n, b)
        <3>1. PICK n \in Bounds : Within(t, n) /\ Path(t, me, calls, n, b)
            BY <2>1, <2>2 DEF Replaces
        <3>2. Within(t, n)'
            BY <3>1 DEF Within
        <3>3. QED
            BY <3>1, <3>2
    <2>3. Room(t)'
        BY <2>1, <2>2, RoomStays
    <2>4. Off(t)'
        BY <1>1, <2>1 DEF Off, Stops
    <2>5. QED
        BY <2>3, <2>4
<1>4. Orderly(stack)'
    BY <1>1 DEF Orderly
<1>5. QED
    BY <1>2, <1>3, <1>4 DEF Unnested

-----------------------------------------------------------------------------
(* The steps                                                                *)

LEMMA NoCalls ==
    /\ <<>> \in Seq(Calls) /\ Never(<<>>, Starters, Checks) /\ ~Some(<<>>, Starters)
    /\ \A t \in Threads : Followed(<<>>, Closes(t), Stops(t))
BY DEF Never, Some, Followed

LEMMA OneCall ==
    ASSUME NEW c \in Calls
    PROVE  /\ <<c>> \in Seq(Calls) /\ Never(<<c>>, Starters, Checks)
           /\ c \notin Starters => ~Some(<<c>>, Starters)
           /\ \A t \in Threads : c \notin Closes(t) => Followed(<<c>>, Closes(t), Stops(t))
<1>1. PICK s \in Seq(Calls) : s = <<c>>
    BY One
<1>2. Len(s) = 1 /\ s[1] = c
    BY <1>1
<1>3. \A i \in 1..1 : i = 1 /\ ~(\E j \in (i + 1)..1 : TRUE)
    OBVIOUS
<1>4. Never(s, Starters, Checks)
    BY <1>2, <1>3 DEF Never
<1>5. c \notin Starters => ~Some(s, Starters)
    BY <1>2, <1>3 DEF Some
<1>6. ASSUME NEW t \in Threads, c \notin Closes(t)  PROVE Followed(s, Closes(t), Stops(t))
    BY <1>2, <1>3, <1>6 DEF Followed
<1>7. QED
    BY <1>1, <1>4, <1>5, <1>6

\* The ring of t is left as it was, or the file of one of another thread is closed.
LEMMA Slack ==
    ASSUME NEW a \in Bounds, NEW b \in Bounds, NEW n \in Nat, Up(a, n, b)
    PROVE  Up(a, 0, b)
BY BoundIs DEF Up

LEMMA AnnotatesUp ==
    ASSUME NEW t, NEW w, NEW n \in Nat, NEW a \in Bounds, NEW b \in Bounds, Annotates(t, w, n, a, b)
    PROVE  Up(a, 0, b)
<1>1. Up(a, n, b) \/ Up(a, 0, b)
    BY DEF Annotates, Across
<1>2. QED
    BY <1>1, Slack

LEMMA FlagsUnnested ==
    ASSUME StackTyped, VarsTyped, Safe, Unnested,
           \/ Inhibit \/ Desinhibit \/ ExecuteDeferred \/ TurnOff \/ SetNotInitialized
           \/ FinalizeEnds
    PROVE  Unnested'
<1>0. stack \in Seq(Calls) /\ deferred = FALSE
    BY DEF StackTyped, Safe
<1>1. PICK name \in {"Signals_Inhibit", "Signals_Desinhibit", "Signals_ExecuteDeferred", "TurnOff",
                     "SetNotInitialized", "FinalizeEnds"} : Executes(name)
    BY DEF Inhibit, Desinhibit, ExecuteDeferred, TurnOff, SetNotInitialized, FinalizeEnds
<1>2. stack # <<>> /\ Head(stack).do = name
    BY <1>0, <1>1, OnTop
<1>3. Return(<<>>)
    BY <1>0 DEF Inhibit, Desinhibit, ExecuteDeferred, TurnOff, SetNotInitialized, FinalizeEnds
<1>4. UNCHANGED <<ring, owed, open, live, table, me>>
    BY DEF Inhibit, Desinhibit, ExecuteDeferred, TurnOff, SetNotInitialized, FinalizeEnds,
       buffers, control
<1>5. /\ mpitrace_on' = mpitrace_on \/ mpitrace_on' = FALSE
      /\ name = "TurnOff" => mpitrace_on' = FALSE
    <2>1. CASE TurnOff
        BY <2>1 DEF TurnOff
    <2>2. CASE Inhibit \/ Desinhibit \/ ExecuteDeferred \/ SetNotInitialized \/ FinalizeEnds
        BY <1>2, <2>2 DEF Inhibit, Desinhibit, ExecuteDeferred, SetNotInitialized, FinalizeEnds,
           control, Executes
    <2>3. QED
        BY <2>1, <2>2
<1>6. \A t \in Threads : Head(stack) \in Stops(t) => mpitrace_on' = FALSE
    BY <1>1, <1>2, <1>5 DEF Stops
<1>7. ASSUME NEW t \in Threads  PROVE Replaces(t, <<>>)
    <2>1. ASSUME NEW a \in Bounds, NEW b \in Bounds, Within(t, a), Goes(t, me, Head(stack), a, b)
          PROVE  Within(t, b)
        <3>1. Head(stack).do \notin Moving
            BY <1>1, <1>2 DEF Moving
        <3>2. Up(a, 0, b)
            BY <2>1, <3>1, GoesOther
        <3>3. QED
            BY <2>1, <3>2, WithinUp
    <2>2. QED
        BY <2>1, ReplacesByNone
<1>8. QED
    BY <1>0, <1>2, <1>3, <1>4, <1>5, <1>6, <1>7, NoCalls, PushUnnested

\* Calls that are in neither set the invariant looks at.
LEMMA NotStops ==
    ASSUME NEW c, c.do \notin {"TurnOff", "Free", "Buffer_Free"}, NEW t
    PROVE  c \notin Stops(t)
BY DEF Stops

LEMMA CallbackIs ==
    ASSUME NEW u \in Threads
    PROVE  /\ Call("FlushCallback", u) \in Calls /\ Call("FlushCallback", u).do = "FlushCallback"
           /\ Call("FlushCallback", u).buf = u /\ \A t : Call("FlushCallback", u) \notin Closes(t)
<1>1. Call("FlushCallback", u) \in Calls
    BY CallTyped DEF Plain, NoEnd
<1>2. QED
    BY <1>1 DEF Call, Closes

LEMMA EnterUnnested ==
    ASSUME StackTyped, VarsTyped, Safe, Unnested, Enter
    PROVE  Unnested'
<1>0. stack \in Seq(Calls) /\ Executes("Enter")
    BY DEF StackTyped, Enter
<1>1. /\ stack # <<>> /\ Head(stack) \in Calls /\ Head(stack).do = "Enter" /\ Top \in Threads
      /\ Head(stack).buf = Top
    BY <1>0, OnTop DEF Top
<1>2. UNCHANGED <<ring, owed, open, live, table, me, mpitrace_on>>
    BY DEF Enter, buffers, control
<1>3. Head(stack) \in Starters /\ \A t \in Threads : Head(stack) \notin Stops(t)
    BY <1>1, NotStops DEF Starters
<1>4. PICK l \in Nat : l = Len(ring[Top])
    BY <1>1, LenProperties DEF VarsTyped
<1>5. MaxEvents \in Nat /\ MaxEvents >= 7
    BY Roomy
<1>6. ASSUME NEW t, NEW a, NEW b, Goes(t, me, Head(stack), a, b)
      PROVE  /\ t = Top => a.closed < 0 /\ MaxEvents - 2 <= b.open /\ 4 <= b.closed
             /\ t # Top => t # me /\ Up(a, 0, b)
    <2>1. Enters(t, me, Head(stack), a, b)
        BY <1>1, <1>6, GoesOther
    <2>2. QED
        BY <1>1, <2>1 DEF Enters
<1>7. CASE MaxEvents - Len(ring[Top]) <= 1
    <2>1. Return(<<Call("FlushCallback", Top)>>)
        BY <1>7 DEF Enter
    <2>2. PICK c \in Calls : /\ c = Call("FlushCallback", Top) /\ c.do = "FlushCallback"
                             /\ c.buf = Top /\ \A t : c \notin Closes(t)
        BY <1>1, CallbackIs
    <2>3. ASSUME NEW t \in Threads  PROVE Replaces(t, <<c>>)
        <3>1. ASSUME NEW a \in Bounds, NEW b \in Bounds, Within(t, a), Goes(t, me, Head(stack), a, b)
              PROVE  Path(t, me, <<c>>, a, b)
            <4>1. CallsBack(t, me, c, a, b)
                <5>1. a.closed \in Int /\ b.closed \in Int /\ b.open \in Int
                    BY BoundIs
                <5>2. CASE t = Top
                    BY <1>5, <1>6, <2>2, <3>1, <5>1, <5>2 DEF CallsBack
                <5>3. CASE t # Top
                    <6>1. t # me /\ Up(a, 0, b)
                        BY <1>6, <3>1, <5>3
                    <6>2. QED
                        BY <2>2, <5>3, <6>1 DEF CallsBack, Annotates
                <5>4. QED
                    BY <5>2, <5>3
            <4>2. Goes(t, me, c, a, b)
                BY <2>2, <4>1, GoesOther
            <4>3. QED
                BY <4>2, PathOne
        <3>2. QED
            BY <3>1 DEF Replaces
    <2>4. QED
        BY <1>0, <1>1, <1>2, <1>3, <2>1, <2>2, <2>3, OneCall, PushUnnested
<1>8. CASE ~(MaxEvents - Len(ring[Top]) <= 1)
    <2>1. Return(<<>>)
        BY <1>8 DEF Enter
    <2>2. ASSUME NEW t \in Threads, NEW a \in Bounds, NEW b \in Bounds, Within(t, a),
                 Goes(t, me, Head(stack), a, b)
          PROVE  Within(t, b)
        <3>1. a.closed \in Int /\ b.open \in Int
            BY BoundIs
        <3>2. CASE t = Top
            <4>1. a.closed < 0 /\ MaxEvents - 2 <= b.open
                BY <1>6, <2>2, <3>2
            <4>2. open[t] # FALSE
                <5>1. SUFFICES ASSUME open[t] = FALSE PROVE FALSE
                    OBVIOUS
                <5>2. l <= a.closed
                    BY <1>4, <2>2, <3>2, <5>1 DEF Within
                <5>3. PICK x \in Int : x = a.closed
                    BY <3>1
                <5>4. l <= x /\ x < 0
                    BY <4>1, <5>2, <5>3
                <5>5. QED
                    BY <1>4, <5>3, <5>4
            <4>3. Len(ring[t]) <= b.open
                BY <1>4, <1>5, <1>8, <3>1, <3>2, <4>1
            <4>4. QED
                BY <4>2, <4>3 DEF Within
        <3>3. CASE t # Top
            BY <1>6, <2>2, <3>3, WithinUp
        <3>4. QED
            BY <3>2, <3>3
    <2>3. \A t \in Threads : Replaces(t, <<>>)
        BY <2>2, ReplacesByNone
    <2>4. QED
        BY <1>0, <1>1, <1>2, <1>3, <2>1, <2>3, NoCalls, PushUnnested
<1>9. QED
    BY <1>7, <1>8

LEMMA FlushIfAnyUnnested ==
    ASSUME StackTyped, VarsTyped, Safe, Unnested, FlushIfAny
    PROVE  Unnested'
<1>0. stack \in Seq(Calls) /\ Executes("FlushIfAny") /\ table = "live"
    BY DEF StackTyped, FlushIfAny
<1>1. /\ stack # <<>> /\ Head(stack) \in Calls /\ Head(stack).do = "FlushIfAny" /\ Top \in Threads
      /\ Head(stack).buf = Top
    BY <1>0, OnTop DEF Top
<1>2. UNCHANGED <<ring, owed, open, live, table, me, mpitrace_on>>
    BY DEF FlushIfAny, buffers, control
<1>3. Head(stack) \in Starters /\ \A t \in Threads : Head(stack) \notin Stops(t)
    BY <1>1, NotStops DEF Starters
<1>4. live[0] = TRUE
    BY <1>0 DEF Safe, Buffers
<1>5. ASSUME NEW t, NEW a, NEW b, Goes(t, me, Head(stack), a, b)
      PROVE  /\ CallsBack(t, me, Head(stack), a, b)
             /\ t = Top /\ t # 0 => a.open <= b.open
    BY <1>1, <1>5, GoesOther
<1>6. CASE live[Top] = TRUE
    <2>1. Return(<<Call("FlushCallback", Top)>>)
        BY <1>6 DEF FlushIfAny
    <2>2. PICK c \in Calls : /\ c = Call("FlushCallback", Top) /\ c.do = "FlushCallback"
                             /\ c.buf = Top /\ \A t : c \notin Closes(t)
        BY <1>1, CallbackIs
    <2>3. ASSUME NEW t \in Threads  PROVE Replaces(t, <<c>>)
        <3>1. ASSUME NEW a \in Bounds, NEW b \in Bounds, Within(t, a), Goes(t, me, Head(stack), a, b)
              PROVE  Path(t, me, <<c>>, a, b)
            <4>1. CallsBack(t, me, Head(stack), a, b)
                BY <1>5, <3>1
            <4>2. CallsBack(t, me, c, a, b)
                BY <1>1, <2>2, <4>1 DEF CallsBack
            <4>3. Goes(t, me, c, a, b)
                BY <2>2, <4>2, GoesOther
            <4>4. QED
                BY <4>3, PathOne
        <3>2. QED
            BY <3>1 DEF Replaces
    <2>4. QED
        BY <1>0, <1>1, <1>2, <1>3, <2>1, <2>2, <2>3, OneCall, PushUnnested
<1>7. CASE live[Top] = FALSE
    <2>1. Return(<<>>)
        BY <1>7 DEF FlushIfAny
    <2>2. Top # 0
        BY <1>4, <1>7
    <2>3. ASSUME NEW t \in Threads, NEW a \in Bounds, NEW b \in Bounds, Within(t, a),
                 Goes(t, me, Head(stack), a, b)
          PROVE  Within(t, b)
        <3>1. CallsBack(t, me, Head(stack), a, b)
            BY <1>5, <2>3
        <3>2. a.open \in Int /\ b.open \in Int /\ a.closed \in Int /\ b.closed \in Int
            BY BoundIs
        <3>3. Up(a, 0, b)
            <4>1. CASE t = Top
                <5>1. a.closed <= b.closed
                    BY <1>1, <3>1, <4>1 DEF CallsBack
                <5>2. a.open <= b.open
                    BY <1>5, <2>2, <2>3, <4>1
                <5>3. QED
                    BY <3>2, <5>1, <5>2 DEF Up
            <4>2. CASE t # Top
                <5>1. Annotates(t, me, 2, a, b)
                    BY <1>1, <3>1, <4>2 DEF CallsBack
                <5>2. QED
                    BY <5>1, AnnotatesUp
            <4>3. QED
                BY <4>1, <4>2
        <3>4. QED
            BY <2>3, <3>3, WithinUp
    <2>4. \A t \in Threads : Replaces(t, <<>>)
        BY <2>3, ReplacesByNone
    <2>5. QED
        BY <1>0, <1>1, <1>2, <1>3, <2>1, <2>4, NoCalls, PushUnnested
<1>8. QED
    BY <1>1, <1>6, <1>7 DEF VarsTyped

\* No event is ever inserted in a ring that is full: the insertion does not flush.
LEMMA NotFull ==
    ASSUME StackTyped, VarsTyped, Safe, Unnested, Executes("InsertSingle")
    PROVE  Len(ring[Top]) - owed[Top] # MaxEvents
<1>0. stack \in Seq(Calls)
    BY DEF StackTyped
<1>1. /\ stack # <<>> /\ Head(stack) \in Calls /\ Head(stack).do = "InsertSingle" /\ Top \in Threads
      /\ Head(stack).buf = Top
    BY <1>0, OnTop DEF Top
<1>2. table = "live"
    BY <1>0, TopUses DEF Accesses
<1>3. ASSUME NEW b, NEW a, Goes(Top, me, Head(stack), a, b)
      PROVE  Up(a, 1, b)
    <2>1. Inserts(Top, Head(stack), a, b)
        BY <1>1, <1>3, GoesStore
    <2>2. QED
        BY <1>1, <2>1 DEF Inserts
<1>4. PICK a \in Bounds : Within(Top, a) /\ Path(Top, me, stack, a, Left)
    BY <1>1, <1>2 DEF Unnested, Room
<1>5. PICK b \in Bounds : Goes(Top, me, Head(stack), a, b)
    BY <1>0, <1>1, <1>4, PathRest
<1>6. Up(a, 1, b)
    BY <1>3, <1>5
<1>7. /\ a.open \in Int /\ b.open \in Int /\ a.closed \in Int /\ b.closed \in Int
      /\ b.open <= MaxEvents /\ b.closed <= MaxEvents /\ MaxEvents \in Nat
    BY BoundIs, Roomy
<1>8. PICK l \in Nat : l = Len(ring[Top])
    BY <1>1, LenProperties DEF VarsTyped
<1>9. l <= a.open \/ l <= a.closed
    <2>1. open[Top] = TRUE \/ open[Top] = FALSE
        BY <1>1 DEF VarsTyped
    <2>2. QED
        BY <1>4, <1>8, <2>1 DEF Within
<1>10. a.open + 1 <= b.open /\ a.closed + 1 <= b.closed
    BY <1>6 DEF Up
<1>11. l < MaxEvents
    BY <1>7, <1>9, <1>10
<1>12. owed[Top] = 0
    BY <1>1 DEF Unnested
<1>13. QED
    BY <1>7, <1>8, <1>11, <1>12

LEMMA InsertUnnested ==
    ASSUME StackTyped, VarsTyped, Safe, Unnested, Buffer_InsertSingle
    PROVE  Unnested'
<1>0. stack \in Seq(Calls) /\ Executes("InsertSingle")
    BY DEF StackTyped, Buffer_InsertSingle
<1>1. /\ stack # <<>> /\ Head(stack) \in Calls /\ Head(stack).do = "InsertSingle" /\ Top \in Threads
      /\ Head(stack).buf = Top /\ Head(stack).ev \in Kinds
    BY <1>0, OnTop DEF Top
<1>2. UNCHANGED <<ring, owed, open, live, table, me, mpitrace_on>>
    BY DEF Buffer_InsertSingle, buffers, control
<1>3. \A t \in Threads : Head(stack) \notin Stops(t)
    BY <1>1, NotStops
<1>4. ASSUME NEW t, NEW a, NEW b, Goes(t, me, Head(stack), a, b)
      PROVE  Inserts(t, Head(stack), a, b)
    BY <1>1, <1>4, GoesStore
<1>5. Len(ring[Top]) - owed[Top] # MaxEvents
    BY <1>0, NotFull
<1>6. PICK c \in Calls : c = Store(Top, Head(stack).ev)
    BY <1>1, CallTyped DEF NoEnd
<1>7. c.do = "Store" /\ c.buf = Top
    BY <1>6 DEF Store
<1>8. Return(<<c>>)
    <2>1. Return((IF Len(ring[Top]) - owed[Top] = MaxEvents
                    THEN <<Call("FlushCallback", Top)>> ELSE <<>>) \o <<c>>)
        BY <1>6 DEF Buffer_InsertSingle
    <2>2. Return(<<>> \o <<c>>)
        BY <1>5, <2>1
    <2>3. <<>> \o <<c>> = <<c>>
        BY One, ConcatEmptySeq
    <2>4. QED
        BY <2>2, <2>3
<1>9. ASSUME NEW t \in Threads  PROVE Replaces(t, <<c>>)
    <2>1. ASSUME NEW a \in Bounds, NEW b \in Bounds, Within(t, a), Goes(t, me, Head(stack), a, b)
          PROVE  Path(t, me, <<c>>, a, b)
        <3>1. Inserts(t, Head(stack), a, b)
            BY <1>4, <2>1
        <3>2. Inserts(t, c, a, b)
            BY <1>1, <1>7, <3>1 DEF Inserts
        <3>3. Goes(t, me, c, a, b)
            BY <1>7, <3>2, GoesStore
        <3>4. QED
            BY <3>3, PathOne
    <2>2. QED
        BY <2>1 DEF Replaces
<1>10. c \notin Starters /\ \A t : c \notin Closes(t)
    BY <1>7 DEF Starters, Closes
<1>11. QED
    BY <1>0, <1>1, <1>2, <1>3, <1>8, <1>9, <1>10, OneCall, PushUnnested

\* What a flush pushes starts no other, and its file is looked at once.
LEMMA WrapperOrderly ==
    ASSUME me \in Threads, NEW u \in Threads
    PROVE  /\ Extrae_Flush_Wrapper(u) \in Seq(Calls)
           /\ Never(Extrae_Flush_Wrapper(u), Starters, Checks)
           /\ \A t \in Threads : Followed(Extrae_Flush_Wrapper(u), Closes(t), Stops(t))
<1> DEFINE X == Calls \ Starters
<1>1. /\ \A t \in Threads : \A name \in {"Buffer_Flush", "Signals_Inhibit", "Signals_Desinhibit",
                                         "Signals_ExecuteDeferred"} : Call(name, t) \in X
      /\ \A t \in Threads : \A e \in Kinds : InsertSingle(t, e) \in X
    BY DEF Starters, Call, InsertSingle, Calls
<1>2. X \subseteq Calls /\ X \cap Starters = {}
    OBVIOUS
<1> HIDE DEF X
<1>3. \A t \in Threads : \A e \in Kinds : BUFFER_INSERT(t, e) \in Seq(X)
    BY <1>1, InsertPushed
<1>4. PICK r1 \in Seq(X) : r1 = <<Call("Buffer_Flush", u)>>
    BY <1>1, One
<1>5. PICK r2 \in Seq(X) : r2 = BUFFER_INSERT(u, "flush")
    BY <1>3 DEF Kinds
<1>6. PICK r3 \in Seq(X) : r3 = Extrae_AnnotateTopology
    BY <1>3 DEF Kinds, Extrae_AnnotateTopology
<1>7. PICK s2 \in Seq(X) : s2 = r1 \o r2
    BY Joined
<1>8. PICK s3 \in Seq(X) : s3 = s2 \o r3
    BY Joined
<1>9. PICK s4 \in Seq(X) : s4 = s3 \o r2
    BY Joined
<1>10. PICK s5 \in Seq(X) : s5 = s4 \o r3
    BY Joined
<1>11. PICK c \in Calls : c = Call("CheckFileSize", u)
    BY CallTyped DEF Plain, NoEnd
<1>12. Extrae_Flush_Wrapper(u) = s5 \o <<c>>
    BY <1>4, <1>5, <1>6, <1>7, <1>8, <1>9, <1>10, <1>11 DEF Extrae_Flush_Wrapper
<1>13. s5 \in Seq(Calls) /\ ~Some(s5, Starters) /\ Never(s5, Starters, Checks)
    BY <1>2, Wider, NoneIn
<1>14. <<c>> \in Seq(Calls) /\ Never(<<c>>, Starters, Checks)
    BY OneCall
<1>15. s5 \o <<c>> \in Seq(Calls) /\ Never(s5 \o <<c>>, Starters, Checks)
    <2>1. PICK r \in Seq(Calls) : r = <<c>>
        BY <1>14
    <2>2. Never(r, Starters, Checks)
        BY <1>14, <2>1
    <2>3. s5 \o r \in Seq(Calls)
        BY <1>13, Joined
    <2>4. Never(s5 \o r, Starters, Checks)
        BY <1>13, <2>2, NeverJoined
    <2>5. QED
        BY <2>1, <2>3, <2>4
<1>16. ASSUME NEW t \in Threads  PROVE Followed(Extrae_Flush_Wrapper(u), Closes(t), Stops(t))
    <2>1. Extrae_Flush_Wrapper(u) \in Seq(Light) /\ Light \cap Closes(t) = {}
        BY FlushNeutral, NeutralLight, LightApart
    <2>2. QED
        BY <2>1, NoneIn
<1>17. QED
    BY <1>12, <1>15, <1>16

LEMMA FlushUnnested ==
    ASSUME StackTyped, VarsTyped, Safe, Unnested, FlushCallback
    PROVE  Unnested'
<1>0. stack \in Seq(Calls) /\ Executes("FlushCallback") /\ me \in Threads
    BY DEF StackTyped, FlushCallback, VarsTyped
<1>1. /\ stack # <<>> /\ Head(stack) \in Calls /\ Head(stack).do = "FlushCallback" /\ Top \in Threads
      /\ Head(stack).buf = Top
    BY <1>0, OnTop DEF Top
<1>2. UNCHANGED <<ring, owed, open, live, table, me, mpitrace_on>>
    BY DEF FlushCallback, buffers, control
<1>3. Head(stack) \in Starters /\ \A t \in Threads : Head(stack) \notin Stops(t)
    BY <1>1, NotStops DEF Starters
<1>4. ASSUME NEW t, NEW a, NEW b, Goes(t, me, Head(stack), a, b)
      PROVE  CallsBack(t, me, Head(stack), a, b)
    BY <1>1, <1>4, GoesOther
<1>5. CASE open[Top] = TRUE
    <2>1. Return(Extrae_Flush_Wrapper(Top))
        BY <1>5 DEF FlushCallback
    <2>2. ASSUME NEW t \in Threads, NEW a \in Bounds, NEW b \in Bounds, Within(t, a),
                 Goes(t, me, Head(stack), a, b)
          PROVE  \E n \in Bounds : Within(t, n) /\ Path(t, me, Extrae_Flush_Wrapper(Top), n, b)
        <3>1. CallsBack(t, me, Call("FlushCallback", Top), a, b)
            <4>1. CallsBack(t, me, Head(stack), a, b)
                BY <1>4, <2>2
            <4>2. Call("FlushCallback", Top).buf = Top
                BY DEF Call
            <4>3. QED
                BY <1>1, <4>1, <4>2 DEF CallsBack
        <3>2. PICK n \in Bounds : /\ Top # t => n = a
                                  /\ Top = t => n.open = MaxEvents
                                  /\ Path(t, me, Extrae_Flush_Wrapper(Top), n, b)
            BY <1>0, <1>1, <3>1, FlushPath
        <3>3. Within(t, n)
            <4>1. CASE Top # t
                BY <2>2, <3>2, <4>1
            <4>2. CASE Top = t
                <5>1. open[t] = TRUE /\ Len(ring[t]) <= MaxEvents
                    BY <1>5, <4>2 DEF Unnested, Holds
                <5>2. QED
                    BY <3>2, <4>2, <5>1 DEF Within
            <4>3. QED
                BY <4>1, <4>2
        <3>4. QED
            BY <3>2, <3>3
    <2>3. \A t \in Threads : Replaces(t, Extrae_Flush_Wrapper(Top))
        BY <2>2 DEF Replaces
    <2>4. QED
        BY <1>0, <1>1, <1>2, <1>3, <2>1, <2>3, WrapperOrderly, PushUnnested
<1>6. CASE open[Top] = FALSE
    <2>1. Return(<<>>)
        BY <1>6 DEF FlushCallback
    <2>2. ASSUME NEW t \in Threads, NEW a \in Bounds, NEW b \in Bounds, Within(t, a),
                 Goes(t, me, Head(stack), a, b)
          PROVE  Within(t, b)
        <3>1. CallsBack(t, me, Head(stack), a, b)
            BY <1>4, <2>2
        <3>2. CASE t = Top
            <4>1. PICK l \in Nat : l = Len(ring[t])
                BY <1>1, <3>2, LenProperties DEF VarsTyped
            <4>2. a.closed \in Int /\ b.closed \in Int /\ a.closed <= b.closed
                BY <1>1, <3>1, <3>2, BoundIs DEF CallsBack
            <4>3. l <= a.closed
                BY <1>6, <2>2, <3>2, <4>1 DEF Within
            <4>4. l <= b.closed
                BY <4>2, <4>3
            <4>5. QED
                BY <1>6, <3>2, <4>1, <4>4 DEF Within
        <3>3. CASE t # Top
            <4>1. Annotates(t, me, 2, a, b)
                BY <1>1, <3>1, <3>3 DEF CallsBack
            <4>2. Up(a, 0, b)
                BY <4>1, AnnotatesUp
            <4>3. QED
                BY <2>2, <4>2, WithinUp
        <3>4. QED
            BY <3>2, <3>3
    <2>3. \A t \in Threads : Replaces(t, <<>>)
        BY <2>2, ReplacesByNone
    <2>4. QED
        BY <1>0, <1>1, <1>2, <1>3, <2>1, <2>3, NoCalls, PushUnnested
<1>7. QED
    BY <1>1, <1>5, <1>6 DEF VarsTyped

LEMMA CheckUnnested ==
    ASSUME StackTyped, VarsTyped, Safe, Unnested, CheckFileSize
    PROVE  Unnested'
<1>0. stack \in Seq(Calls) /\ Executes("CheckFileSize") /\ me \in Threads
    BY DEF StackTyped, CheckFileSize, VarsTyped
<1>1. stack # <<>> /\ Head(stack) \in Calls /\ Head(stack).do = "CheckFileSize"
    BY <1>0, OnTop
<1>2. UNCHANGED <<ring, owed, open, live, table, me, mpitrace_on>>
    BY DEF CheckFileSize, buffers, control
<1>3. Head(stack) \in Starters /\ \A t \in Threads : Head(stack) \notin Stops(t)
    BY <1>1, NotStops DEF Starters
<1>4. ASSUME NEW t, NEW a, NEW b, Goes(t, me, Head(stack), a, b)
      PROVE  Shuts(me, t, a, b) /\ Up(a, 0, b)
    <2>1. Shuts(me, t, a, b)
        BY <1>1, <1>4, GoesOther
    <2>2. QED
        BY <2>1 DEF Shuts
<1>5. CASE Return(<<Call("close_mpits", me), Call("TurnOff", 0)>>)
    <2>1. PICK c \in Calls : c = Call("close_mpits", me)
        BY <1>0, CallTyped DEF Plain, NoEnd
    <2>2. PICK d \in Calls : d = Call("TurnOff", 0)
        BY ThreadsAre, CallTyped DEF Plain, NoEnd
    <2>3. c.do = "close_mpits" /\ c.buf = me /\ d.do = "TurnOff"
        BY <2>1, <2>2 DEF Call
    <2>4. PICK r \in Seq(Calls) : r = <<c>>
        BY One
    <2>5. PICK s \in Seq(Calls) : s = <<d>>
        BY One
    <2>6. r \o s = <<c, d>> /\ r \o s \in Seq(Calls)
        BY <2>4, <2>5, PairOf, Joined
    <2>7. Return(r \o s)
        BY <1>5, <2>1, <2>2, <2>6
    <2>8. c \notin Starters /\ d \notin Starters /\ c \notin Checks /\ d \notin Checks
        BY <2>3 DEF Starters, Checks
    <2>9. Never(r \o s, Starters, Checks)
        <3>1. Never(r, Starters, Checks) /\ ~Some(r, Starters) /\ Never(s, Starters, Checks)
            BY <2>4, <2>5, <2>8, OneCall
        <3>2. QED
            BY <3>1, NeverJoined
    <2>10. ASSUME NEW t \in Threads  PROVE Followed(r \o s, Closes(t), Stops(t))
        <3>1. d \in Stops(t) /\ d \notin Closes(t)
            BY <2>3 DEF Stops, Closes
        <3>2. Some(s, Stops(t))
            BY <2>5, <3>1 DEF Some
        <3>3. Followed(s, Closes(t), Stops(t))
            BY <2>5, <3>1, OneCall
        <3>4. QED
            BY <3>2, <3>3, FollowedJoined
    <2>11. ASSUME NEW t \in Threads  PROVE Replaces(t, r \o s)
        <3>1. ASSUME NEW a \in Bounds, NEW b \in Bounds, Within(t, a), Goes(t, me, Head(stack), a, b)
              PROVE  Path(t, me, r \o s, a, b)
            <4>1. Shuts(c.buf, t, a, b)
                BY <1>4, <2>3, <3>1
            <4>2. Goes(t, me, c, a, b)
                BY <2>3, <4>1, GoesOther
            <4>3. d.do \notin Moving /\ Up(b, 0, b)
                BY <2>3, BoundIs DEF Moving
            <4>4. Goes(t, me, d, b, b)
                BY <4>3, GoesPlain
            <4>5. Path(t, me, r, a, b) /\ Path(t, me, s, b, b)
                BY <2>4, <2>5, <4>2, <4>4, PathOne
            <4>6. QED
                BY <4>5, PathJoined
        <3>2. QED
            BY <3>1 DEF Replaces
    <2>12. QED
        BY <1>0, <1>1, <1>2, <1>3, <2>6, <2>7, <2>9, <2>10, <2>11, PushUnnested
<1>6. CASE Return(<<>>)
    <2>1. ASSUME NEW t \in Threads, NEW a \in Bounds, NEW b \in Bounds, Within(t, a),
                 Goes(t, me, Head(stack), a, b)
          PROVE  Within(t, b)
        BY <1>4, <2>1, WithinUp
    <2>2. \A t \in Threads : Replaces(t, <<>>)
        BY <2>1, ReplacesByNone
    <2>3. QED
        BY <1>0, <1>1, <1>2, <1>3, <1>6, <2>2, NoCalls, PushUnnested
<1>7. QED
    BY <1>5, <1>6 DEF CheckFileSize

LEMMA FinishUnnested ==
    ASSUME StackTyped, VarsTyped, Safe, Unnested, FinishIfAny
    PROVE  Unnested'
<1>0. stack \in Seq(Calls) /\ Executes("FinishIfAny") /\ me \in Threads
    BY DEF StackTyped, FinishIfAny, VarsTyped
<1>1. /\ stack # <<>> /\ Head(stack) \in Calls /\ Head(stack).do = "FinishIfAny" /\ Top \in Threads
      /\ Head(stack).buf = Top
    BY <1>0, OnTop DEF Top
<1>2. UNCHANGED <<ring, owed, open, live, table, me, mpitrace_on>>
    BY DEF FinishIfAny, buffers, control
<1>3. /\ Head(stack) \in Starters /\ \A t \in Threads : Head(stack) \notin Stops(t)
      /\ Head(stack) \in Closes(Top)
    BY <1>1, NotStops DEF Starters, Closes
<1>4. ASSUME NEW t, NEW a, NEW b, Goes(t, me, Head(stack), a, b)
      PROVE  Finishes(t, me, Head(stack), a, b)
    BY <1>1, <1>4, GoesOther
<1>5. CASE live[Top] = TRUE
    <2>1. Return(Finish(Top))
        BY <1>5 DEF FinishIfAny
    <2>2. ASSUME NEW X, \A name \in {"Signals_Inhibit", "Signals_Desinhibit", "Signals_ExecuteDeferred"} :
                            Call(name, me) \in X,
                 InsertSingle(me, "end") \in X, Call("FlushCallback", Top) \in X,
                 Call("close_mpits", Top) \in X
          PROVE  Finish(Top) \in Seq(X)
        <3>1. BUFFER_INSERT(me, "end") \in Seq(X)
            BY <2>2, InsertPushed
        <3>2. QED
            BY <2>2, <3>1, FinishPushed
    <2>3. Finish(Top) \in Seq(Calls) /\ Never(Finish(Top), Starters, Checks)
        <3> DEFINE X == Calls \ Checks
        <3>1. /\ \A name \in {"Signals_Inhibit", "Signals_Desinhibit", "Signals_ExecuteDeferred"} :
                    Call(name, me) \in X
              /\ InsertSingle(me, "end") \in X /\ Call("FlushCallback", Top) \in X
              /\ Call("close_mpits", Top) \in X
            BY <1>0, <1>1 DEF Checks, Call, InsertSingle, Calls, Kinds
        <3>2. X \subseteq Calls /\ X \cap Checks = {}
            OBVIOUS
        <3> HIDE DEF X
        <3>3. Finish(Top) \in Seq(X)
            BY <2>2, <3>1
        <3>4. QED
            BY <3>2, <3>3, Wider, NoneIn
    <2>4. ASSUME NEW t \in Threads, t # Top  PROVE Followed(Finish(Top), Closes(t), Stops(t))
        <3> DEFINE X == Calls \ Closes(t)
        <3>1. /\ \A name \in {"Signals_Inhibit", "Signals_Desinhibit", "Signals_ExecuteDeferred"} :
                    Call(name, me) \in X
              /\ InsertSingle(me, "end") \in X /\ Call("FlushCallback", Top) \in X
              /\ Call("close_mpits", Top) \in X
            BY <1>0, <1>1, <2>4 DEF Closes, Call, InsertSingle, Calls, Kinds
        <3>2. X \cap Closes(t) = {}
            OBVIOUS
        <3> HIDE DEF X
        <3>3. Finish(Top) \in Seq(X)
            BY <2>2, <3>1
        <3>4. QED
            BY <3>2, <3>3, NoneIn
    <2>5. \A t \in Threads : Followed(Finish(Top), Closes(t), Stops(t)) \/ Head(stack) \in Closes(t)
        BY <1>3, <2>4
    <2>6. ASSUME NEW t \in Threads  PROVE Replaces(t, Finish(Top))
        <3>1. ASSUME NEW a \in Bounds, NEW b \in Bounds, Within(t, a), Goes(t, me, Head(stack), a, b)
              PROVE  Path(t, me, Finish(Top), a, b)
            <4>1. Finishes(t, me, Head(stack), a, b)
                BY <1>4, <3>1
            <4>2. Call("FinishIfAny", Top).buf = Top
                BY DEF Call
            <4>3. Finishes(t, me, Call("FinishIfAny", Top), a, b)
                BY <1>1, <4>1, <4>2 DEF Finishes
            <4>4. QED
                BY <1>0, <1>1, <4>3, FinishPath
        <3>2. QED
            BY <3>1 DEF Replaces
    <2>7. QED
        BY <1>0, <1>1, <1>2, <1>3, <2>1, <2>3, <2>5, <2>6, PushUnnested
<1>6. CASE live[Top] = FALSE
    <2>1. Return(<<>>)
        BY <1>6 DEF FinishIfAny
    <2>2. ASSUME NEW t \in Threads, NEW a \in Bounds, NEW b \in Bounds, Within(t, a),
                 Goes(t, me, Head(stack), a, b)
          PROVE  Within(t, b)
        <3>1. Finishes(t, me, Head(stack), a, b)
            BY <1>4, <2>2
        <3>2. Up(a, 1, b) \/ Up(a, 0, b) \/ Annotates(t, me, 3, a, b)
            BY <3>1 DEF Finishes, Across
        <3>3. Up(a, 0, b)
            BY <3>2, Slack, AnnotatesUp
        <3>4. QED
            BY <2>2, <3>3, WithinUp
    <2>3. \A t \in Threads : Replaces(t, <<>>)
        BY <2>2, ReplacesByNone
    <2>4. QED
        BY <1>0, <1>1, <1>2, <1>3, <2>1, <2>3, NoCalls, PushUnnested
<1>7. QED
    BY <1>1, <1>5, <1>6 DEF VarsTyped

LEMMA FinalizeUnnested ==
    ASSUME StackTyped, VarsTyped, Safe, Unnested, Backend_Finalize
    PROVE  Unnested'
<1>0. stack \in Seq(Calls) /\ Executes("Backend_Finalize") /\ me \in Threads
    BY DEF StackTyped, Backend_Finalize, VarsTyped
<1>1. stack # <<>> /\ Head(stack) \in Calls /\ Head(stack).do = "Backend_Finalize"
    BY <1>0, OnTop
<1>2. UNCHANGED <<ring, owed, open, live, table, me, mpitrace_on>> /\ Return(FinalizeCalls)
    BY DEF Backend_Finalize, buffers, control
<1>3. Head(stack) \in Starters /\ \A t \in Threads : Head(stack) \notin Stops(t)
    BY <1>1, NotStops DEF Starters
<1>4. PICK e \in Seq(Calls) : /\ e = Ending /\ Never(e, Starters, Checks)
                              /\ \A t \in Threads : Followed(e, Closes(t), Stops(t)) /\ Some(e, Stops(t))
    <2>1. /\ Call("Free", 0) \in Calls /\ Call("TurnOff", 0) \in Calls
          /\ Call("FinalizeEnds", 0) \in Calls
        BY ThreadsAre, CallTyped DEF Plain, NoEnd
    <2>2. /\ Ending \in Seq(Calls) /\ Len(Ending) = 3 /\ Ending[1] = Call("Free", 0)
          /\ Ending[2] = Call("TurnOff", 0) /\ Ending[3] = Call("FinalizeEnds", 0)
        BY <2>1 DEF Ending
    <2>3. PICK e \in Seq(Calls) : e = Ending
        BY <2>2
    <2>4. Len(e) = 3 /\ e[1].do = "Free" /\ e[2].do = "TurnOff" /\ e[3].do = "FinalizeEnds"
        BY <2>2, <2>3 DEF Call
    <2>5. \A i \in 1..3 : i = 1 \/ i = 2 \/ i = 3
        OBVIOUS
    <2>6. Never(e, Starters, Checks)
        BY <2>4, <2>5 DEF Never, Starters
    <2>7. ASSUME NEW t \in Threads  PROVE Followed(e, Closes(t), Stops(t)) /\ Some(e, Stops(t))
        <3>1. Followed(e, Closes(t), Stops(t))
            BY <2>4, <2>5 DEF Followed, Closes
        <3>2. e[1] \in Stops(t) /\ 1 \in 1..3
            BY <2>1, <2>2, <2>3, <2>4 DEF Stops
        <3>3. Some(e, Stops(t))
            BY <2>4, <3>2 DEF Some
        <3>4. QED
            BY <3>1, <3>3
    <2>8. QED
        BY <2>3, <2>6, <2>7
<1>5. PICK r \in Seq(Calls) : r = Turns /\ ~Some(r, Checks) /\ Never(r, Starters, Checks)
    <2> DEFINE X == Calls \ Checks
    <2>1. /\ \A t \in Threads : \A name \in {"Signals_Inhibit", "Signals_Desinhibit",
                  "Signals_ExecuteDeferred", "FlushIfAny", "FinishIfAny"} : Call(name, t) \in X
          /\ \A t \in Threads : InsertSingle(t, "cpu") \in X
        BY DEF Checks, Call, InsertSingle, Calls, Kinds
    <2>2. X \subseteq Calls /\ X \cap Checks = {}
        OBVIOUS
    <2> HIDE DEF X
    <2>3. BUFFER_INSERT(me, "cpu") \in Seq(X)
        BY <1>0, <2>1, InsertPushed
    <2>4. Extrae_AnnotateTopology \in Seq(X)
        BY <2>3, AnnotatePushed
    <2>5. PICK r \in Seq(X) : r = Turns
        BY <2>1, <2>4, TurnsOver
    <2>6. r \in Seq(Calls) /\ ~Some(r, Checks) /\ Never(r, Starters, Checks)
        BY <2>2, Wider, NoneIn
    <2>7. QED
        BY <2>5, <2>6
<1>6. PICK s \in Seq(Calls) : s = r \o e
    BY Joined
<1>7. s = FinalizeCalls
    BY <1>4, <1>5, <1>6, FinalizePushed
<1>8. Never(s, Starters, Checks)
    <2>1. ~Some(e, Checks)
        <3>1. PICK n \in Nat : n = Len(e)
            BY LenProperties
        <3>2. e = Ending /\ Len(Ending) = 3 /\ Ending[1] = Call("Free", 0)
              /\ Ending[2] = Call("TurnOff", 0) /\ Ending[3] = Call("FinalizeEnds", 0)
            BY <1>4 DEF Ending
        <3>3. Len(e) = 3 /\ e[1].do = "Free" /\ e[2].do = "TurnOff" /\ e[3].do = "FinalizeEnds"
            BY <3>2 DEF Call
        <3>4. \A i \in 1..3 : i = 1 \/ i = 2 \/ i = 3
            OBVIOUS
        <3>5. QED
            BY <3>3, <3>4 DEF Some, Checks
    <2>2. QED
        BY <1>4, <1>5, <1>6, <2>1, NeverJoined
<1>9. ASSUME NEW t \in Threads  PROVE Followed(s, Closes(t), Stops(t))
    BY <1>4, <1>6, FollowedJoined
<1>10. ASSUME NEW t \in Threads  PROVE Replaces(t, s)
    <2>1. ASSUME NEW a \in Bounds, NEW b \in Bounds, Within(t, a), Goes(t, me, Head(stack), a, b)
          PROVE  \E n \in Bounds : Within(t, n) /\ Path(t, me, s, n, b)
        <3>1. me = 0 /\ Up(a, 0, Left)
            BY <1>1, <2>1, GoesOther
        <3>2. Left \in Bounds
            BY BoundIs
        <3>3. Within(t, Left)
            BY <2>1, <3>1, <3>2, WithinUp
        <3>4. Path(t, 0, FinalizeCalls, Left, b)
            BY <3>1, FinalizePath
        <3>5. QED
            BY <1>7, <3>1, <3>2, <3>3, <3>4
    <2>2. QED
        BY <2>1 DEF Replaces
<1>11. Return(s) /\ s \in Seq(Calls)
    BY <1>2, <1>7
<1>12. QED
    BY <1>0, <1>1, <1>2, <1>3, <1>8, <1>9, <1>10, <1>11, PushUnnested

\* A step that makes the call on top, and puts none in its place.
LEMMA PopUnnested ==
    ASSUME stack \in Seq(Calls), stack # <<>>, Unnested, VarsTyped', table = "live",
           Return(<<>>), me' = me, \A t \in Threads : owed'[t] = 0,
           \A t \in Threads : \A a \in Bounds : \A b \in Bounds :
              Within(t, a) /\ Goes(t, me, Head(stack), a, b) => Within(t, b)',
           \A t \in Threads : Off(t)'
    PROVE  Unnested'
<1>1. Orderly(stack)'
    BY OrderlyStays, NoCalls DEF Unnested, Orderly
<1>2. ASSUME NEW t \in Threads  PROVE Room(t)'
    <2>1. Room(t)
        BY DEF Unnested
    <2>2. ASSUME NEW a \in Bounds, NEW b \in Bounds, Within(t, a), Goes(t, me, Head(stack), a, b)
          PROVE  \E n \in Bounds : Within(t, n)' /\ Path(t, me, <<>>, n, b)
        BY <2>2, PathNone
    <2>3. <<>> \in Seq(Calls)
        BY NoCalls
    <2>4. QED
        BY <2>1, <2>2, <2>3, RoomStays
<1>3. ASSUME NEW t \in Threads  PROVE Len(ring'[t]) <= MaxEvents
    <2>1. PICK n \in Bounds : Within(t, n)'
        BY <1>2 DEF Room
    <2>2. open'[t] = TRUE \/ open'[t] = FALSE
        BY DEF VarsTyped
    <2>3. PICK l \in Nat : l = Len(ring'[t])
        BY LenProperties DEF VarsTyped
    <2>4. l <= n.open \/ l <= n.closed
        BY <2>1, <2>2, <2>3 DEF Within
    <2>5. /\ n.open \in Int /\ n.open <= MaxEvents /\ n.closed \in Int /\ n.closed <= MaxEvents
          /\ MaxEvents \in Nat
        BY BoundIs, Roomy
    <2>6. l <= MaxEvents
        BY <2>4, <2>5
    <2>7. QED
        BY <2>3, <2>6
<1>4. QED
    BY <1>1, <1>2, <1>3 DEF Unnested, Holds

\* While the files and the buffers stay, so does what stops the probes.
LEMMA OffStays ==
    ASSUME stack \in Seq(Calls), stack # <<>>, Unnested, table = "live", Return(<<>>),
           NEW t \in Threads, live'[t] = live[t], open'[t] = open[t], mpitrace_on' = mpitrace_on,
           Head(stack) \notin Stops(t)
    PROVE  Off(t)'
<1>1. Some(stack, Stops(t)) => Head(stack) \in Stops(t) \/ Some(stack', Stops(t))
    BY OrderlyStays, NoCalls DEF Unnested
<1>2. Off(t)
    BY DEF Unnested
<1>3. QED
    BY <1>1, <1>2 DEF Off, Stops

LEMMA StoreUnnested ==
    ASSUME StackTyped, VarsTyped, VarsTyped', Safe, Unnested, StoreEvent
    PROVE  Unnested'
<1>0. stack \in Seq(Calls) /\ Executes("Store")
    BY DEF StackTyped, StoreEvent
<1>1. /\ stack # <<>> /\ Head(stack) \in Calls /\ Head(stack).do = "Store" /\ Top \in Threads
      /\ Head(stack).buf = Top /\ Head(stack).ev \in Kinds
    BY <1>0, OnTop DEF Top
<1>2. UNCHANGED <<open, live, me, mpitrace_on>> /\ Return(<<>>)
    BY DEF StoreEvent, control
<1>3. table = "live"
    BY <1>0, TopUses DEF Accesses
<1>4. owed[Top] = 0 /\ ring \in [Threads -> Seq(Kinds)]
    BY <1>1 DEF Unnested, VarsTyped
<1>5. ring' = [ring EXCEPT ![Top] = Append(@, Head(stack).ev)] /\ owed' = owed
    BY <1>4 DEF StoreEvent
<1>6. \A t \in Threads : owed'[t] = 0
    BY <1>5 DEF Unnested
<1>7. ASSUME NEW t \in Threads, NEW a \in Bounds, NEW b \in Bounds, Within(t, a),
             Goes(t, me, Head(stack), a, b)
      PROVE  Within(t, b)'
    <2>1. Inserts(t, Head(stack), a, b)
        BY <1>1, <1>7, GoesStore
    <2>2. /\ a.open \in Int /\ a.closed \in Int /\ b.open \in Int /\ b.closed \in Int
        BY BoundIs
    <2>3. PICK l \in Nat : l = Len(ring[t])
        BY <1>4, LenProperties
    <2>4. CASE t = Top
        <3>1. a.open + 1 <= b.open /\ a.closed + 1 <= b.closed
            BY <1>1, <2>1, <2>4 DEF Inserts, Up
        <3>2. ring'[t] = Append(ring[t], Head(stack).ev)
            BY <1>1, <1>4, <1>5, <2>4
        <3>3. Len(ring'[t]) = l + 1
            BY <1>1, <1>4, <2>3, <3>2, AppendProperties
        <3>4. open[t] = TRUE => l + 1 <= b.open
            <4>1. open[t] = TRUE => l <= a.open
                BY <1>7, <2>3 DEF Within
            <4>2. l <= a.open => l + 1 <= b.open
                BY <2>2, <3>1
            <4>3. QED
                BY <4>1, <4>2
        <3>5. open[t] = FALSE => l + 1 <= b.closed
            <4>1. open[t] = FALSE => l <= a.closed
                BY <1>7, <2>3 DEF Within
            <4>2. l <= a.closed => l + 1 <= b.closed
                BY <2>2, <3>1
            <4>3. QED
                BY <4>1, <4>2
        <3>6. QED
            BY <1>2, <3>3, <3>4, <3>5 DEF Within
    <2>5. CASE t # Top
        <3>1. Up(a, 0, b)
            BY <1>1, <2>1, <2>5 DEF Inserts
        <3>2. Within(t, b)
            BY <1>7, <3>1, WithinUp
        <3>3. ring'[t] = ring[t]
            BY <1>4, <1>5, <2>5
        <3>4. QED
            BY <1>2, <3>2, <3>3 DEF Within
    <2>6. QED
        BY <2>4, <2>5
<1>8. ASSUME NEW t \in Threads  PROVE Off(t)'
    <2>1. Head(stack) \notin Stops(t)
        BY <1>1, NotStops
    <2>2. QED
        BY <1>0, <1>1, <1>2, <1>3, <2>1, OffStays
<1>9. QED
    BY <1>0, <1>1, <1>2, <1>3, <1>6, <1>7, <1>8, PopUnnested

LEMMA WritesUnnested ==
    ASSUME StackTyped, VarsTyped, VarsTyped', Safe, Unnested, Buffer_Flush
    PROVE  Unnested'
<1>0. stack \in Seq(Calls) /\ Executes("Buffer_Flush")
    BY DEF StackTyped, Buffer_Flush
<1>1. /\ stack # <<>> /\ Head(stack) \in Calls /\ Head(stack).do = "Buffer_Flush" /\ Top \in Threads
      /\ Head(stack).buf = Top
    BY <1>0, OnTop DEF Top
<1>2. UNCHANGED <<owed, open, live, me, mpitrace_on>> /\ Return(<<>>)
    BY DEF Buffer_Flush, control
<1>3. table = "live"
    BY <1>0, TopUses DEF Accesses
<1>4. ring \in [Threads -> Seq(Kinds)]
    BY DEF VarsTyped
<1>5. /\ open[Top] = TRUE => ring' = [ring EXCEPT ![Top] = <<>>]
      /\ open[Top] = FALSE => ring' = ring
    BY DEF Buffer_Flush
<1>6. \A t \in Threads : owed'[t] = 0
    BY <1>2 DEF Unnested
<1>7. ASSUME NEW t \in Threads, NEW a \in Bounds, NEW b \in Bounds, Within(t, a),
             Goes(t, me, Head(stack), a, b)
      PROVE  Within(t, b)'
    <2>1. Empties(t, Head(stack), a, b)
        BY <1>1, <1>7, GoesOther
    <2>2. /\ a.open \in Int /\ a.closed \in Int /\ b.open \in Int /\ b.closed \in Int
        BY BoundIs
    <2>3. a.closed <= b.closed /\ (t = Top => 0 <= b.open) /\ (t # Top => a.open <= b.open)
        BY <1>1, <2>1 DEF Empties
    <2>4. CASE t # Top
        <3>1. Up(a, 0, b)
            BY <2>2, <2>3, <2>4 DEF Up
        <3>2. Within(t, b)
            BY <1>7, <3>1, WithinUp
        <3>3. ring'[t] = ring[t]
            <4>1. open[Top] = TRUE \/ open[Top] = FALSE
                BY <1>1 DEF VarsTyped
            <4>2. QED
                BY <1>4, <1>5, <2>4, <4>1
        <3>4. QED
            BY <1>2, <3>2, <3>3 DEF Within
    <2>5. CASE t = Top /\ open[Top] = TRUE
        <3>1. ring'[t] = <<>>
            BY <1>1, <1>4, <1>5, <2>5
        <3>2. Len(ring'[t]) = 0
            BY <3>1
        <3>3. 0 <= b.open
            BY <2>3, <2>5
        <3>4. open'[t] = TRUE
            BY <1>2, <2>5
        <3>5. QED
            BY <3>2, <3>3, <3>4 DEF Within
    <2>6. CASE t = Top /\ open[Top] = FALSE
        <3>1. PICK l \in Nat : l = Len(ring[t])
            BY <1>4, LenProperties
        <3>2. l <= a.closed
            BY <1>7, <2>6, <3>1 DEF Within
        <3>3. l <= b.closed
            BY <2>2, <2>3, <3>2
        <3>4. Len(ring'[t]) = l /\ open'[t] = FALSE
            BY <1>2, <1>5, <2>6, <3>1
        <3>5. QED
            BY <3>3, <3>4 DEF Within
    <2>7. QED
        BY <1>1, <2>4, <2>5, <2>6 DEF VarsTyped
<1>8. ASSUME NEW t \in Threads  PROVE Off(t)'
    <2>1. Head(stack) \notin Stops(t)
        BY <1>1, NotStops
    <2>2. QED
        BY <1>0, <1>1, <1>2, <1>3, <2>1, OffStays
<1>9. QED
    BY <1>0, <1>1, <1>2, <1>3, <1>6, <1>7, <1>8, PopUnnested

LEMMA CloseUnnested ==
    ASSUME StackTyped, VarsTyped, VarsTyped', Safe, Unnested, Close_mpits
    PROVE  Unnested'
<1>0. stack \in Seq(Calls) /\ Executes("close_mpits")
    BY DEF StackTyped, Close_mpits
<1>1. /\ stack # <<>> /\ Head(stack) \in Calls /\ Head(stack).do = "close_mpits" /\ Top \in Threads
      /\ Head(stack).buf = Top
    BY <1>0, OnTop DEF Top
<1>2. UNCHANGED <<ring, owed, live, me, mpitrace_on>> /\ Return(<<>>)
    BY DEF Close_mpits, control
<1>3. table = "live"
    BY <1>0, TopUses DEF Accesses
<1>4. open \in [Threads -> BOOLEAN]
    BY DEF VarsTyped
<1>5. open' = [open EXCEPT ![Top] = FALSE]
    BY DEF Close_mpits
<1>6. \A t \in Threads : owed'[t] = 0
    BY <1>2 DEF Unnested
<1>7. ASSUME NEW t \in Threads, NEW a \in Bounds, NEW b \in Bounds, Within(t, a),
             Goes(t, me, Head(stack), a, b)
      PROVE  Within(t, b)'
    <2>1. Shuts(Top, t, a, b)
        BY <1>1, <1>7, GoesOther
    <2>2. Up(a, 0, b) /\ (t = Top => a.open <= b.closed)
        BY <2>1 DEF Shuts
    <2>3. Within(t, b)
        BY <1>7, <2>2, WithinUp
    <2>4. CASE t # Top
        <3>1. open'[t] = open[t]
            BY <1>4, <1>5, <2>4
        <3>2. QED
            BY <1>2, <2>3, <3>1 DEF Within
    <2>5. CASE t = Top
        <3>1. open'[t] = FALSE
            BY <1>1, <1>4, <1>5, <2>5
        <3>2. PICK l \in Nat : l = Len(ring[t])
            BY LenProperties DEF VarsTyped
        <3>3. /\ a.open \in Int /\ b.closed \in Int
            BY BoundIs
        <3>4. l <= b.closed
            <4>1. CASE open[t] = TRUE
                <5>1. l <= a.open
                    BY <1>7, <3>2, <4>1 DEF Within
                <5>2. QED
                    BY <2>2, <2>5, <3>3, <5>1
            <4>2. CASE open[t] = FALSE
                BY <2>3, <3>2, <4>2 DEF Within
            <4>3. QED
                BY <1>4, <4>1, <4>2
        <3>5. Len(ring'[t]) = l
            BY <1>2, <3>2
        <3>6. QED
            BY <3>1, <3>4, <3>5 DEF Within
    <2>6. QED
        BY <2>4, <2>5
<1>8. ASSUME NEW t \in Threads  PROVE Off(t)'
    <2>1. Head(stack) \notin Stops(t)
        BY <1>1, NotStops
    <2>2. CASE t # Top
        <3>1. open'[t] = open[t]
            BY <1>4, <1>5, <2>2
        <3>2. QED
            BY <1>0, <1>1, <1>2, <1>3, <2>1, <3>1, OffStays
    <2>3. CASE t = Top
        <3>1. Head(stack) \in Closes(t)
            BY <1>1, <2>3 DEF Closes
        <3>2. Followed(stack, Closes(t), Stops(t))
            BY DEF Unnested, Orderly
        <3>3. PICK r \in Seq(Calls) : r = Tail(stack)
            BY <1>0, <1>1, Rest
        <3>4. Some(r, Stops(t))
            BY <1>0, <1>1, <3>1, <3>2, <3>3, FollowedRest
        <3>5. stack' = r
            BY <1>2, <3>3, ConcatEmptySeq DEF Return
        <3>6. QED
            BY <3>4, <3>5 DEF Off, Stops
    <2>4. QED
        BY <2>2, <2>3
<1>9. QED
    BY <1>0, <1>1, <1>2, <1>3, <1>6, <1>7, <1>8, PopUnnested

LEMMA BufferFreeUnnested ==
    ASSUME StackTyped, VarsTyped, VarsTyped', Safe, Unnested, Buffer_Free
    PROVE  Unnested'
<1>0. stack \in Seq(Calls) /\ Executes("Buffer_Free")
    BY DEF StackTyped, Buffer_Free
<1>1. /\ stack # <<>> /\ Head(stack) \in Calls /\ Head(stack).do = "Buffer_Free" /\ Top \in Threads
      /\ Head(stack).buf = Top
    BY <1>0, OnTop DEF Top
<1>2. UNCHANGED <<ring, owed, open, me, mpitrace_on>> /\ Return(<<>>)
    BY DEF Buffer_Free, control
<1>3. table = "live"
    BY <1>0, TopUses
<1>4. live \in [Threads -> BOOLEAN]
    BY DEF VarsTyped
<1>5. live' = [live EXCEPT ![Top] = FALSE]
    BY DEF Buffer_Free
<1>6. \A t \in Threads : owed'[t] = 0
    BY <1>2 DEF Unnested
<1>7. ASSUME NEW t \in Threads, NEW a \in Bounds, NEW b \in Bounds, Within(t, a),
             Goes(t, me, Head(stack), a, b)
      PROVE  Within(t, b)'
    <2>1. Head(stack).do \notin Moving
        BY <1>1 DEF Moving
    <2>2. Up(a, 0, b)
        BY <1>7, <2>1, GoesOther
    <2>3. Within(t, b)
        BY <1>7, <2>2, WithinUp
    <2>4. QED
        BY <1>2, <2>3 DEF Within
<1>8. ASSUME NEW t \in Threads  PROVE Off(t)'
    <2>1. CASE t # Top
        <3>1. Head(stack) \notin Stops(t) /\ live'[t] = live[t]
            BY <1>1, <1>4, <1>5, <2>1 DEF Stops
        <3>2. QED
            BY <1>0, <1>1, <1>2, <1>3, <3>1, OffStays
    <2>2. CASE t = Top
        <3>1. live'[t] = FALSE
            BY <1>1, <1>4, <1>5, <2>2
        <3>2. QED
            BY <3>1 DEF Off
    <2>3. QED
        BY <2>1, <2>2
<1>9. QED
    BY <1>0, <1>1, <1>2, <1>3, <1>6, <1>7, <1>8, PopUnnested

LEMMA FreeUnnested ==
    ASSUME StackTyped, Unnested, Free
    PROVE  Unnested'
<1>0. stack \in Seq(Calls) /\ Executes("Free")
    BY DEF StackTyped, Free
<1>1. stack # <<>>
    BY <1>0, OnTop
<1>2. UNCHANGED <<ring, owed>> /\ Return(<<>>) /\ table' = "freed"
    BY DEF Free
<1>3. Orderly(stack)'
    BY <1>0, <1>1, <1>2, OrderlyStays, NoCalls DEF Unnested, Orderly
<1>4. QED
    BY <1>2, <1>3 DEF Unnested, Holds

\* Nothing is pending: a call from outside.
LEMMA IdleUnnested ==
    ASSUME Unnested, UNCHANGED <<ring, owed, open, live, table, mpitrace_on>>, stack = <<>>,
           NEW calls \in Seq(Calls), stack' = calls, Never(calls, Starters, Checks),
           \A t \in Threads : Followed(calls, Closes(t), Stops(t)),
           table = "live" => \A t \in Threads : \E a \in Bounds :
                                Within(t, a) /\ Path(t, me', calls, a, Left)
    PROVE  Unnested'
<1>1. Orderly(stack)'
    BY DEF Orderly
<1>2. ASSUME table' = "live", NEW t \in Threads  PROVE Room(t)' /\ Off(t)'
    <2>1. PICK a \in Bounds : Within(t, a) /\ Path(t, me', calls, a, Left)
        BY <1>2
    <2>2. Within(t, a)'
        BY <2>1 DEF Within
    <2>3. Room(t)'
        BY <2>1, <2>2 DEF Room
    <2>4. live[t] = TRUE /\ open[t] = FALSE => mpitrace_on = FALSE
        BY <1>2 DEF Unnested, Off, Some
    <2>5. QED
        BY <2>3, <2>4 DEF Off
<1>3. QED
    BY <1>1, <1>2 DEF Unnested, Holds

LEMMA IdleWithin ==
    ASSUME Unnested, stack = <<>>, table = "live", NEW t \in Threads
    PROVE  /\ Within(t, Left)
           /\ live[t] = TRUE /\ open[t] = FALSE => mpitrace_on = FALSE
<1>1. PICK a \in Bounds : Within(t, a) /\ Path(t, me, stack, a, Left)
    BY DEF Unnested, Room
<1>2. PICK h : Steps(t, me, stack, a, Left, h)
    BY <1>1 DEF Path
<1>3. Len(stack) = 0
    OBVIOUS
<1>4. h[1] = a /\ h[0 + 1] = Left
    BY <1>2, <1>3 DEF Steps
<1>5. a = Left
    BY <1>4
<1>6. live[t] = TRUE /\ open[t] = FALSE => mpitrace_on = FALSE
    BY DEF Unnested, Off, Some
<1>7. QED
    BY <1>1, <1>5, <1>6

LEMMA ProbeUnnested ==
    ASSUME StackTyped, VarsTyped, Unnested, Probe
    PROVE  Unnested'
<1>0. stack = <<>> /\ UNCHANGED <<ring, owed, open, live, table, mpitrace_on>>
    BY DEF Probe, Idle, buffers
<1>1. mpitrace_on = TRUE
    BY DEF Probe, VarsTyped
<1>2. PICK u \in Threads : /\ live[u] = TRUE /\ me' = u
                           /\ stack' = <<Call("Enter", u)>> \o BUFFER_INSERT(u, "user")
    BY DEF Probe, VarsTyped
<1>3. PICK c \in Calls : c = Call("Enter", u)
    BY CallTyped DEF Plain, NoEnd
<1>4. c.do = "Enter" /\ c.buf = u
    BY <1>3 DEF Call
<1>5. PICK r \in Seq(Calls) : r = BUFFER_INSERT(u, "user")
    BY InsertTyped, NoEndCalls DEF Kinds
<1>6. PICK q \in Seq(Calls) : q = <<c>>
    BY One
<1>7. PICK s \in Seq(Calls) : s = q \o r
    BY Joined
<1>8. stack' = s
    BY <1>2, <1>3, <1>5, <1>6, <1>7
<1>9. ~Some(r, Checks) /\ Never(r, Starters, Checks) /\ \A t \in Threads : Followed(r, Closes(t), Stops(t))
    <2> DEFINE X == Calls \ (Starters \cup {d \in Calls : d.do \in {"close_mpits", "FinishIfAny"}})
    <2>1. /\ \A name \in {"Signals_Inhibit", "Signals_Desinhibit", "Signals_ExecuteDeferred"} :
                Call(name, u) \in X
          /\ InsertSingle(u, "user") \in X
        BY DEF Starters, Call, InsertSingle, Calls, Kinds
    <2>2. /\ X \subseteq Calls /\ X \cap Starters = {} /\ X \cap Checks = {}
          /\ \A t \in Threads : X \cap Closes(t) = {}
        BY DEF Starters, Checks, Closes
    <2> HIDE DEF X
    <2>3. r \in Seq(X)
        BY <1>5, <2>1, InsertPushed
    <2>4. QED
        BY <2>2, <2>3, NoneIn
<1>10. Never(s, Starters, Checks)
    <2>1. Never(q, Starters, Checks)
        BY <1>6, OneCall
    <2>2. QED
        BY <1>7, <1>9, <2>1, NeverJoined
<1>11. ASSUME NEW t \in Threads  PROVE Followed(s, Closes(t), Stops(t))
    <2>1. c \notin Closes(t)
        BY <1>4 DEF Closes
    <2>2. Followed(q, Closes(t), Stops(t))
        BY <1>6, <2>1, OneCall
    <2>3. QED
        BY <1>7, <1>9, <2>2, FollowedJoined
<1>12. ASSUME table = "live", NEW t \in Threads
       PROVE  \E a \in Bounds : Within(t, a) /\ Path(t, me', s, a, Left)
    <2>1. Within(t, Left)
        BY <1>0, <1>12, IdleWithin
    <2>2. MaxEvents \in Nat /\ MaxEvents >= 7
        BY Roomy
    <2>3. Left \in Bounds /\ Left.open = MaxEvents - 1 /\ Left.closed = 5 /\ Up(Left, 0, Left)
        BY BoundIs
    <2>4. CASE t = u
        <3>1. open[t] = TRUE
            <4>1. open[t] # FALSE
                BY <1>0, <1>1, <1>2, <1>12, <2>4, IdleWithin
            <4>2. QED
                BY <4>1 DEF VarsTyped
        <3>2. PICK a \in Bounds : a.open = MaxEvents - 1 /\ a.closed = -1
            <4>1. PICK x \in Fills, y \in Fills : x = MaxEvents - 1 /\ y = -1
                BY <2>2 DEF Fills
            <4>2. Upto(x, y) \in Bounds /\ Upto(x, y).open = x /\ Upto(x, y).closed = y
                BY BoundIs
            <4>3. QED
                BY <4>1, <4>2
        <3>3. PICK b \in Bounds : b.open = MaxEvents - 2 /\ b.closed = 4
            <4>1. PICK x \in Fills, y \in Fills : x = MaxEvents - 2 /\ y = 4
                BY <2>2 DEF Fills
            <4>2. Upto(x, y) \in Bounds /\ Upto(x, y).open = x /\ Upto(x, y).closed = y
                BY BoundIs
            <4>3. QED
                BY <4>1, <4>2
        <3>4. Within(t, a)
            BY <2>1, <2>3, <3>1, <3>2 DEF Within
        <3>5. Goes(t, u, c, a, b)
            <4>1. Enters(t, u, c, a, b)
                BY <1>4, <2>2, <2>4, <3>2, <3>3 DEF Enters
            <4>2. QED
                BY <1>4, <4>1, GoesOther
        <3>6. Path(t, u, q, a, b)
            BY <1>6, <3>5, PathOne
        <3>7. Up(b, 1, Left)
            BY <2>2, <2>3, <3>3 DEF Up
        <3>8. Inserts(t, InsertSingle(u, "user"), b, Left)
            BY <2>3, <3>7, InsertsMore
        <3>9. Path(t, u, r, b, Left)
            BY <1>5, <2>3, <3>8, InsertPath
        <3>10. Path(t, u, s, a, Left)
            BY <1>7, <3>6, <3>9, PathJoined
        <3>11. QED
            BY <1>2, <3>4, <3>10
    <2>5. CASE t # u
        <3>1. Goes(t, u, c, Left, Left)
            <4>1. Enters(t, u, c, Left, Left)
                BY <1>4, <2>3, <2>5 DEF Enters
            <4>2. QED
                BY <1>4, <4>1, GoesOther
        <3>2. Path(t, u, q, Left, Left)
            BY <1>6, <2>3, <3>1, PathOne
        <3>3. Inserts(t, InsertSingle(u, "user"), Left, Left)
            BY <2>3, <2>5, InsertsMore
        <3>4. Path(t, u, r, Left, Left)
            BY <1>5, <2>3, <3>3, InsertPath
        <3>5. Path(t, u, s, Left, Left)
            BY <1>7, <3>2, <3>4, PathJoined
        <3>6. QED
            BY <1>2, <2>1, <2>3, <3>5
    <2>6. QED
        BY <2>4, <2>5
<1>13. QED
    BY <1>0, <1>8, <1>10, <1>11, <1>12, IdleUnnested

LEMMA ThreadEndsUnnested ==
    ASSUME StackTyped, VarsTyped, Unnested, ThreadEnds
    PROVE  Unnested'
<1>0. stack = <<>> /\ UNCHANGED <<ring, owed, open, live, table, mpitrace_on>>
    BY DEF ThreadEnds, Idle, buffers
<1>1. PICK u \in Threads : me' = u /\ stack' = FlushThread(u)
    BY DEF ThreadEnds
<1>2. PICK c1 \in Calls, c2 \in Calls, c3 \in Calls :
         /\ c1 = Call("Buffer_Flush", u) /\ c2 = Call("close_mpits", u) /\ c3 = Call("Buffer_Free", u)
    BY CallTyped DEF Plain, NoEnd
<1>3. /\ c1.do = "Buffer_Flush" /\ c1.buf = u /\ c2.do = "close_mpits" /\ c2.buf = u
      /\ c3.do = "Buffer_Free" /\ c3.buf = u
    BY <1>2 DEF Call
<1>4. PICK s \in Seq(Calls) : s = <<c1, c2, c3>>
    <2>1. <<c1, c2, c3>> \in Seq(Calls)
        OBVIOUS
    <2>2. QED
        BY <2>1
<1>5. Len(s) = 3 /\ s[1] = c1 /\ s[2] = c2 /\ s[3] = c3 /\ \A i \in 1..3 : i = 1 \/ i = 2 \/ i = 3
    BY <1>4
<1>6. stack' = s
    BY <1>1, <1>2, <1>4 DEF FlushThread
<1>7. Never(s, Starters, Checks)
    <2>1. c1 \notin Starters /\ c2 \notin Starters /\ c3 \notin Starters
        BY <1>3 DEF Starters
    <2>2. QED
        BY <1>5, <2>1 DEF Never
<1>8. ASSUME NEW t \in Threads  PROVE Followed(s, Closes(t), Stops(t))
    <2>1. c1 \notin Closes(t) /\ c3 \notin Closes(t)
        BY <1>3 DEF Closes
    <2>2. c2 \in Closes(t) => c3 \in Stops(t)
        BY <1>3 DEF Closes, Stops
    <2>3. 3 \in (2 + 1)..3
        OBVIOUS
    <2>4. QED
        BY <1>5, <2>1, <2>2, <2>3 DEF Followed
<1>9. ASSUME table = "live", NEW t \in Threads
      PROVE  \E a \in Bounds : Within(t, a) /\ Path(t, me', s, a, Left)
    <2>1. Within(t, Left)
        BY <1>0, <1>9, IdleWithin
    <2>2. MaxEvents \in Nat /\ MaxEvents >= 7
        BY Roomy
    <2>3. Left \in Bounds /\ Left.open = MaxEvents - 1 /\ Left.closed = 5 /\ Up(Left, 0, Left)
        BY BoundIs
    <2>4. PICK b \in Bounds : /\ Goes(t, u, c1, Left, b) /\ Goes(t, u, c2, b, Left)
        <3>1. CASE t = u
            <4>1. PICK b \in Bounds : b.open = 0 /\ b.closed = 5
                BY BoundIs
            <4>2. Empties(t, c1, Left, b)
                BY <1>3, <2>3, <3>1, <4>1 DEF Empties
            <4>3. Shuts(c2.buf, t, b, Left)
                BY <1>3, <2>2, <2>3, <4>1 DEF Shuts, Up
            <4>4. Goes(t, u, c1, Left, b) /\ Goes(t, u, c2, b, Left)
                BY <1>3, <4>2, <4>3, GoesOther
            <4>5. QED
                BY <4>4
        <3>2. CASE t # u
            <4>1. Left.open <= Left.open /\ Left.closed <= Left.closed
                BY <2>2, <2>3
            <4>2. Empties(t, c1, Left, Left)
                BY <1>3, <3>2, <4>1 DEF Empties
            <4>3. Shuts(c2.buf, t, Left, Left)
                BY <1>3, <2>3, <3>2 DEF Shuts
            <4>4. Goes(t, u, c1, Left, Left) /\ Goes(t, u, c2, Left, Left)
                BY <1>3, <4>2, <4>3, GoesOther
            <4>5. QED
                BY <2>3, <4>4
        <3>3. QED
            BY <3>1, <3>2
    <2>5. Goes(t, u, c3, Left, Left)
        <3>1. c3.do \notin Moving
            BY <1>3 DEF Moving
        <3>2. QED
            BY <2>3, <3>1, GoesPlain
    <2> DEFINE h == [i \in 1..4 |-> IF i = 2 THEN b ELSE Left]
    <2>6. h \in [1..4 -> Bounds] /\ h[1] = Left /\ h[2] = b /\ h[3] = Left /\ h[4] = Left
        BY <2>3
    <2> HIDE DEF h
    <2>7. \A i \in 1..3 : Goes(t, u, s[i], h[i], h[i + 1])
        BY <1>5, <2>4, <2>5, <2>6
    <2>8. Steps(t, u, s, Left, Left, h)
        BY <1>5, <2>6, <2>7 DEF Steps
    <2>9. Path(t, me', s, Left, Left)
        BY <1>1, <2>8 DEF Path
    <2>10. QED
        BY <2>1, <2>3, <2>9
<1>10. QED
    BY <1>0, <1>6, <1>7, <1>8, <1>9, IdleUnnested

LEMMA EndingsUnnested ==
    ASSUME StackTyped, VarsTyped, Unnested, Extrae_fini \/ ProgramExits
    PROVE  Unnested'
<1>0. stack = <<>> /\ UNCHANGED <<ring, owed, open, live, table, mpitrace_on>> /\ me' = 0
    BY DEF Extrae_fini, ProgramExits, Idle, buffers
<1>1. PICK c \in Calls, d \in Calls :
         c = Call("Backend_Finalize", 0) /\ d = Call("SetNotInitialized", 0)
    BY ThreadsAre, CallTyped DEF Plain, NoEnd
<1>2. c.do = "Backend_Finalize" /\ d.do = "SetNotInitialized"
    BY <1>1 DEF Call
<1>3. PICK q \in Seq(Calls), r \in Seq(Calls) : q = <<c>> /\ r = <<d>>
    BY One
<1>4. /\ Never(q, Starters, Checks) /\ ~Some(r, Checks) /\ Never(r, Starters, Checks)
      /\ \A t \in Threads : Followed(q, Closes(t), Stops(t)) /\ Followed(r, Closes(t), Stops(t))
    <2>1. /\ d \notin Starters /\ d \notin Checks
          /\ \A t \in Threads : c \notin Closes(t) /\ d \notin Closes(t)
        BY <1>2 DEF Starters, Checks, Closes
    <2>2. ~Some(r, Checks)
        <3>1. Len(r) = 1 /\ r[1] = d /\ \A i \in 1..1 : i = 1
            BY <1>3
        <3>2. QED
            BY <2>1, <3>1 DEF Some
    <2>3. QED
        BY <1>3, <2>1, <2>2, OneCall
<1>5. PICK s \in Seq(Calls) : s = q \o r
    BY Joined
<1>6. Never(s, Starters, Checks) /\ \A t \in Threads : Followed(s, Closes(t), Stops(t))
    BY <1>4, <1>5, NeverJoined, FollowedJoined
<1>7. s = <<c, d>>
    BY <1>3, <1>5, PairOf
<1>8. stack' = q \/ stack' = s
    BY <1>1, <1>3, <1>7 DEF Extrae_fini, ProgramExits
<1>9. ASSUME table = "live", NEW t \in Threads
      PROVE  Within(t, Left) /\ Left \in Bounds /\ Path(t, me', q, Left, Left) /\ Path(t, me', s, Left, Left)
    <2>1. Within(t, Left)
        BY <1>0, <1>9, IdleWithin
    <2>2. Left \in Bounds /\ Up(Left, 0, Left)
        BY BoundIs
    <2>3. Goes(t, 0, c, Left, Left)
        BY <1>2, <2>2, GoesOther
    <2>4. Goes(t, 0, d, Left, Left)
        <3>1. d.do \notin Moving
            BY <1>2 DEF Moving
        <3>2. QED
            BY <2>2, <3>1, GoesPlain
    <2>5. Path(t, 0, q, Left, Left) /\ Path(t, 0, r, Left, Left)
        BY <1>3, <2>2, <2>3, <2>4, PathOne
    <2>6. Path(t, 0, s, Left, Left)
        BY <1>5, <2>5, PathJoined
    <2>7. QED
        BY <1>0, <2>1, <2>2, <2>5, <2>6
<1>10. CASE stack' = q
    <2>1. table = "live" => \A t \in Threads : \E a \in Bounds : Within(t, a) /\ Path(t, me', q, a, Left)
        BY <1>9
    <2>2. QED
        BY <1>0, <1>4, <1>10, <2>1, IdleUnnested
<1>11. CASE stack' = s
    <2>1. table = "live" => \A t \in Threads : \E a \in Bounds : Within(t, a) /\ Path(t, me', s, a, Left)
        BY <1>9
    <2>2. QED
        BY <1>0, <1>6, <1>11, <2>1, IdleUnnested
<1>12. QED
    BY <1>8, <1>10, <1>11
-----------------------------------------------------------------------------
(* The invariant: when the oldest event is discarded                        *)

\* An event is stored right after there was found to be room for it, or the callback
\* that makes room is the next call.
Passive == {c \in Calls : c.do \notin {"Store", "CheckFileSize"}}
Ready(t) == owed[t] > 0 \/ Len(ring[t]) < MaxEvents
Storing == Head(stack).do = "Store" /\ Ready(Top) /\ Tail(stack) \in Seq(Passive)
MakingRoom ==
    /\ Head(stack).do = "FlushCallback"
    /\ \E c \in Calls : \E s \in Seq(Passive) :
          c.do = "Store" /\ c.buf = Top /\ Tail(stack) = <<c>> \o s
Discarding ==
    /\ Holds
    /\ \/ stack \in Seq(Passive)
       \/ stack # <<>> /\ (Storing \/ MakingRoom)

LEMMA PassiveTop ==
    ASSUME stack \in Seq(Calls), stack # <<>>, Discarding
    PROVE  /\ Head(stack).do = "Store" => Storing
           /\ Head(stack).do # "CheckFileSize"
           /\ Head(stack).do \notin {"Store", "FlushCallback"} => stack \in Seq(Passive)
           /\ Head(stack).do = "FlushCallback" => stack \in Seq(Passive) \/ MakingRoom
           /\ stack \in Seq(Passive) => Tail(stack) \in Seq(Passive)
<1>1. stack \in Seq(Passive) => Head(stack) \in Passive /\ Tail(stack) \in Seq(Passive)
    BY Rest
<1>2. stack \in Seq(Passive) => Head(stack).do # "Store" /\ Head(stack).do # "CheckFileSize"
    BY <1>1 DEF Passive
<1>3. (Storing => Head(stack).do = "Store") /\ (MakingRoom => Head(stack).do = "FlushCallback")
    BY DEF Storing, MakingRoom
<1>4. stack \in Seq(Passive) \/ Storing \/ MakingRoom
    BY DEF Discarding
<1>5. QED
    BY <1>1, <1>2, <1>3, <1>4

\* A step that leaves the rings as they are, or empties them.
LEMMA PassiveStays ==
    ASSUME stack \in Seq(Calls), stack # <<>>, Discarding,
           Head(stack).do \notin {"Store", "FlushCallback"},
           NEW calls \in Seq(Passive), Return(calls), Holds'
    PROVE  Discarding'
<1>1. PICK r \in Seq(Passive) : r = Tail(stack)
    BY PassiveTop
<1>2. calls \o r \in Seq(Passive)
    BY Joined
<1>3. stack' \in Seq(Passive)
    BY <1>1, <1>2 DEF Return
<1>4. Passive' = Passive
    BY DEF Passive
<1>5. QED
    BY <1>3, <1>4 DEF Discarding

LEMMA PassiveCalls ==
    /\ \A t \in Threads : \A name \in (Plain \cup {"FinalizeEnds"}) \ {"CheckFileSize"} :
          Call(name, t) \in Passive
    /\ \A t \in Threads : \A e \in Kinds : InsertSingle(t, e) \in Passive
    /\ Passive \subseteq Calls /\ Passive \cap Checks = {}
BY DEF Plain, Passive, Call, InsertSingle, Calls, Checks

LEMMA PassiveInsert ==
    ASSUME NEW t \in Threads, NEW e \in Kinds
    PROVE  BUFFER_INSERT(t, e) \in Seq(Passive)
BY PassiveCalls, InsertPushed DEF Plain

LEMMA PassiveFinalize ==
    ASSUME me \in Threads
    PROVE  FinalizeCalls \in Seq(Passive)
<1>1. PICK r \in Seq(Passive) : r = Turns
    <2>1. Extrae_AnnotateTopology \in Seq(Passive)
        BY PassiveInsert DEF Extrae_AnnotateTopology, Kinds
    <2>2. Turns \in Seq(Passive)
        BY <2>1, PassiveCalls, TurnsOver DEF Plain
    <2>3. QED
        BY <2>2
<1>2. PICK e \in Seq(Passive) : e = Ending
    <2>1. /\ Call("Free", 0) \in Passive /\ Call("TurnOff", 0) \in Passive
          /\ Call("FinalizeEnds", 0) \in Passive
        BY ThreadsAre, PassiveCalls DEF Plain
    <2>2. Ending \in Seq(Passive)
        BY <2>1 DEF Ending
    <2>3. QED
        BY <2>2
<1>3. r \o e \in Seq(Passive)
    BY Joined
<1>4. QED
    BY <1>1, <1>2, <1>3, FinalizePushed

LEMMA PushDiscards ==
    ASSUME StackTyped, VarsTyped, Safe, Discarding,
           \/ Inhibit \/ Desinhibit \/ ExecuteDeferred \/ TurnOff \/ SetNotInitialized
           \/ FinalizeEnds \/ Enter \/ Backend_Finalize \/ FlushIfAny \/ FinishIfAny
           \/ Close_mpits \/ Buffer_Free \/ Free \/ Buffer_Flush
    PROVE  Discarding'
<1>0. stack \in Seq(Calls) /\ deferred = FALSE /\ me \in Threads
    BY DEF StackTyped, Safe, VarsTyped
<1>1. PICK name \in {"Signals_Inhibit", "Signals_Desinhibit", "Signals_ExecuteDeferred", "TurnOff",
                     "SetNotInitialized", "FinalizeEnds", "Enter", "Backend_Finalize", "FlushIfAny",
                     "FinishIfAny", "close_mpits", "Buffer_Free", "Free", "Buffer_Flush"} :
          Executes(name)
    BY DEF Inhibit, Desinhibit, ExecuteDeferred, TurnOff, SetNotInitialized, FinalizeEnds, Enter,
       Backend_Finalize, FlushIfAny, FinishIfAny, Close_mpits, Buffer_Free, Free, Buffer_Flush
<1>2. stack # <<>> /\ Head(stack).do = name /\ Top \in Threads
    BY <1>0, <1>1, OnTop
<1>3. Head(stack).do \notin {"Store", "FlushCallback"}
    BY <1>1, <1>2
<1>4. <<>> \in Seq(Passive) /\ <<Call("FlushCallback", Top)>> \in Seq(Passive)
    <2>1. Call("FlushCallback", Top) \in Passive
        BY <1>2, PassiveCalls DEF Plain
    <2>2. QED
        BY <2>1, One, NonePushed
<1>5. CASE \/ Inhibit \/ Desinhibit \/ ExecuteDeferred \/ TurnOff \/ SetNotInitialized
           \/ FinalizeEnds \/ Close_mpits \/ Buffer_Free \/ Free
    <2>1. Return(<<>>) /\ ring' = ring
        BY <1>0, <1>5 DEF Inhibit, Desinhibit, ExecuteDeferred, TurnOff, SetNotInitialized,
           FinalizeEnds, Close_mpits, Buffer_Free, Free, buffers
    <2>2. Holds'
        BY <2>1 DEF Discarding, Holds
    <2>3. QED
        BY <1>0, <1>2, <1>3, <1>4, <2>1, <2>2, PassiveStays
<1>6. CASE Enter \/ FlushIfAny
    <2>1. (Return(<<>>) \/ Return(<<Call("FlushCallback", Top)>>)) /\ ring' = ring
        BY <1>6 DEF Enter, FlushIfAny, buffers
    <2>2. Holds'
        BY <2>1 DEF Discarding, Holds
    <2>3. QED
        BY <1>0, <1>2, <1>3, <1>4, <2>1, <2>2, PassiveStays
<1>7. CASE Backend_Finalize
    <2>1. Return(FinalizeCalls) /\ ring' = ring
        BY <1>7 DEF Backend_Finalize, buffers
    <2>2. Holds'
        BY <2>1 DEF Discarding, Holds
    <2>3. FinalizeCalls \in Seq(Passive)
        BY <1>0, PassiveFinalize
    <2>4. QED
        BY <1>0, <1>2, <1>3, <2>1, <2>2, <2>3, PassiveStays
<1>8. CASE FinishIfAny
    <2>1. (Return(<<>>) \/ Return(Finish(Top))) /\ ring' = ring
        BY <1>8 DEF FinishIfAny, buffers
    <2>2. Holds'
        BY <2>1 DEF Discarding, Holds
    <2>3. BUFFER_INSERT(me, "end") \in Seq(Passive)
        BY <1>0, PassiveInsert DEF Kinds
    <2>4. Call("FlushCallback", Top) \in Passive /\ Call("close_mpits", Top) \in Passive
        BY <1>2, PassiveCalls DEF Plain
    <2>5. Finish(Top) \in Seq(Passive)
        BY <2>3, <2>4, FinishPushed
    <2>6. QED
        BY <1>0, <1>2, <1>3, <1>4, <2>1, <2>2, <2>5, PassiveStays
<1>9. CASE Buffer_Flush
    <2>1. Return(<<>>) /\ (ring' = ring \/ ring' = [ring EXCEPT ![Top] = <<>>])
        BY <1>9 DEF Buffer_Flush
    <2>2. ring \in [Threads -> Seq(Kinds)] /\ MaxEvents \in Nat
        BY Roomy DEF VarsTyped
    <2>3. ASSUME NEW t \in Threads  PROVE Len(ring'[t]) <= MaxEvents
        <3>1. ring'[t] = ring[t] \/ ring'[t] = <<>>
            BY <2>1, <2>2
        <3>2. Len(<<>>) = 0 /\ Len(ring[t]) <= MaxEvents
            BY DEF Discarding, Holds
        <3>3. QED
            BY <2>2, <3>1, <3>2
    <2>4. Holds'
        BY <2>3 DEF Holds
    <2>5. QED
        BY <1>0, <1>2, <1>3, <1>4, <2>1, <2>4, PassiveStays
<1>10. QED
    BY <1>5, <1>6, <1>7, <1>8, <1>9

LEMMA InsertDiscards ==
    ASSUME StackTyped, VarsTyped, Discarding, Buffer_InsertSingle
    PROVE  Discarding'
<1>0. stack \in Seq(Calls) /\ Executes("InsertSingle")
    BY DEF StackTyped, Buffer_InsertSingle
<1>1. /\ stack # <<>> /\ Head(stack) \in Calls /\ Head(stack).do = "InsertSingle" /\ Top \in Threads
      /\ Head(stack).ev \in Kinds
    BY <1>0, OnTop
<1>2. UNCHANGED <<ring, owed>>
    BY DEF Buffer_InsertSingle, buffers
<1>3. Holds'
    BY <1>2 DEF Discarding, Holds
<1>4. PICK r \in Seq(Passive) : r = Tail(stack)
    <2>1. Tail(stack) \in Seq(Passive)
        BY <1>0, <1>1, PassiveTop
    <2>2. QED
        BY <2>1
<1>5. r \in Seq(Calls)
    BY PassiveCalls, Wider
<1>6. PICK c \in Calls : c = Store(Top, Head(stack).ev)
    BY <1>1, CallTyped DEF NoEnd
<1>7. c.do = "Store" /\ c.buf = Top
    BY <1>6 DEF Store
<1>8. Passive' = Passive /\ Calls' = Calls
    BY DEF Passive
<1>9. CASE Len(ring[Top]) - owed[Top] = MaxEvents
    <2>1. Return(<<Call("FlushCallback", Top)>> \o <<c>>)
        BY <1>6, <1>9 DEF Buffer_InsertSingle
    <2>2. PICK d \in Calls : d = Call("FlushCallback", Top) /\ d.do = "FlushCallback" /\ d.buf = Top
        BY <1>1, CallbackIs
    <2>3. PICK p \in Seq(Calls), q \in Seq(Calls) : p = <<d>> /\ q = <<c>>
        BY One
    <2>4. PICK s \in Seq(Calls) : s = q \o r
        BY <1>5, Joined
    <2>5. p \o s = (p \o q) \o r
        BY SMTT(40), <1>5, <2>4, Associates
    <2>6. stack' = <<d>> \o s
        BY <1>4, <2>1, <2>2, <2>3, <2>5 DEF Return
    <2>7. Head(stack') = d /\ Tail(stack') = s
        BY <2>6, SecondOf
    <2>8. stack' # <<>>
        <3>1. Len(<<d>>) = 1 /\ Len(stack') = Len(<<d>>) + Len(s) /\ Len(s) \in Nat
            BY <2>3, <2>6, Joined, LenProperties, One
        <3>2. Len(stack') # 0
            BY <3>1
        <3>3. QED
            BY <3>2
    <2>9. Tail(stack') = <<c>> \o r
        BY <2>3, <2>4, <2>7
    <2>10. MakingRoom'
        BY <1>7, <1>8, <2>2, <2>7, <2>9 DEF MakingRoom, Top
    <2>11. QED
        BY <1>3, <2>8, <2>10 DEF Discarding
<1>10. CASE Len(ring[Top]) - owed[Top] # MaxEvents
    <2>1. Return(<<>> \o <<c>>)
        BY <1>6, <1>10 DEF Buffer_InsertSingle
    <2>2. PICK q \in Seq(Calls) : q = <<c>> /\ Len(q) = 1
        BY One
    <2>3. <<>> \o q = q
        BY ConcatEmptySeq
    <2>4. stack' = <<c>> \o r
        BY <1>4, <2>1, <2>2, <2>3 DEF Return
    <2>5. Head(stack') = c /\ Tail(stack') = r
        BY <1>5, <2>4, SecondOf
    <2>6. stack' # <<>>
        <3>1. PICK l \in Nat : l = Len(r)
            BY LenProperties
        <3>2. Len(stack') = Len(q) + Len(r)
            BY <1>5, <2>2, <2>4, Joined
        <3>3. Len(stack') # 0
            BY <2>2, <3>1, <3>2
        <3>4. QED
            BY <3>3
    <2>7. Ready(Top)
        <3>1. PICK l \in Nat : l = Len(ring[Top])
            BY <1>1, LenProperties DEF VarsTyped
        <3>2. PICK o \in Nat : o = owed[Top]
            BY <1>1 DEF VarsTyped
        <3>3. MaxEvents \in Nat /\ l <= MaxEvents
            BY <1>1, <3>1, Roomy DEF Discarding, Holds
        <3>4. l - o # MaxEvents
            BY <1>10, <3>1, <3>2
        <3>5. o > 0 \/ l < MaxEvents
            BY <3>3, <3>4
        <3>6. QED
            BY <3>1, <3>2, <3>5 DEF Ready
    <2>8. Storing'
        BY <1>2, <1>4, <1>7, <1>8, <2>5, <2>7 DEF Storing, Ready, Top
    <2>9. QED
        BY <1>3, <2>6, <2>8 DEF Discarding
<1>11. QED
    BY <1>9, <1>10

LEMMA StoreDiscards ==
    ASSUME StackTyped, VarsTyped, Discarding, StoreEvent
    PROVE  Discarding'
<1>0. stack \in Seq(Calls) /\ Executes("Store")
    BY DEF StackTyped, StoreEvent
<1>1. stack # <<>> /\ Head(stack).do = "Store" /\ Top \in Threads /\ Head(stack).ev \in Kinds
    BY <1>0, OnTop
<1>2. Ready(Top) /\ Tail(stack) \in Seq(Passive)
    BY <1>0, <1>1, PassiveTop DEF Storing
<1>3. stack' \in Seq(Passive)
    <2>1. PICK r \in Seq(Passive) : r = Tail(stack)
        BY <1>2
    <2>2. <<>> \o r = r
        BY ConcatEmptySeq
    <2>3. QED
        BY <2>1, <2>2 DEF StoreEvent, Return
<1>4. Passive' = Passive
    BY DEF Passive
<1>5. ring \in [Threads -> Seq(Kinds)] /\ MaxEvents \in Nat /\ owed[Top] \in Nat
    BY <1>1, Roomy DEF VarsTyped
<1>6. ASSUME NEW t \in Threads  PROVE Len(ring'[t]) <= MaxEvents
    <2>1. Len(ring[t]) <= MaxEvents
        BY DEF Discarding, Holds
    <2>2. CASE owed[Top] > 0
        BY <2>1, <2>2 DEF StoreEvent
    <2>3. CASE ~(owed[Top] > 0)
        <3>1. ring' = [ring EXCEPT ![Top] = Append(@, Head(stack).ev)]
            BY <2>3 DEF StoreEvent
        <3>2. CASE t # Top
            <4>1. ring'[t] = ring[t]
                BY <1>5, <3>1, <3>2
            <4>2. QED
                BY <2>1, <4>1
        <3>3. CASE t = Top
            <4>1. ring'[t] = Append(ring[t], Head(stack).ev)
                BY <1>1, <1>5, <3>1, <3>3
            <4>2. PICK l \in Nat : l = Len(ring[t])
                BY <1>5, LenProperties
            <4>3. Len(ring'[t]) = l + 1
                BY <1>1, <1>5, <4>1, <4>2, AppendProperties
            <4>4. l < MaxEvents
                BY <1>2, <2>3, <3>3, <4>2 DEF Ready
            <4>5. l + 1 <= MaxEvents
                BY <1>5, <4>4
            <4>6. QED
                BY <4>3, <4>5
        <3>4. QED
            BY <3>2, <3>3
    <2>4. QED
        BY <2>2, <2>3
<1>7. QED
    BY <1>3, <1>4, <1>6 DEF Discarding, Holds

LEMMA OldestDiscards ==
    ASSUME StackTyped, VarsTyped, Discarding, DiscardOldest
    PROVE  Discarding'
<1>0. stack \in Seq(Calls) /\ Executes("FlushCallback")
    BY DEF StackTyped, DiscardOldest
<1>1. stack # <<>> /\ Head(stack).do = "FlushCallback" /\ Top \in Threads
    BY <1>0, OnTop
<1>2. stack' = Tail(stack)
    <2>1. PICK r \in Seq(Calls) : r = Tail(stack)
        BY <1>0, <1>1, Rest
    <2>2. <<>> \o r = r
        BY ConcatEmptySeq
    <2>3. QED
        BY <2>1, <2>2 DEF DiscardOldest, Return
<1>3. Passive' = Passive
    BY DEF Passive
<1>4. /\ ring \in [Threads -> Seq(Kinds)] /\ MaxEvents \in Nat /\ owed \in [Threads -> Nat]
      /\ ring[Top] \in Seq(Kinds) /\ owed[Top] \in Nat
    BY <1>1, Roomy DEF VarsTyped
<1>5. ASSUME ring[Top] = <<>>
      PROVE  Holds' /\ (owed'[Top] > 0 \/ Len(ring'[Top]) < MaxEvents)
    <2>1. owed' = [owed EXCEPT ![Top] = @ + 1] /\ ring' = ring
        BY <1>5 DEF DiscardOldest
    <2>2. owed'[Top] = owed[Top] + 1
        BY <1>1, <1>4, <2>1
    <2>3. owed'[Top] > 0
        BY <1>4, <2>2
    <2>4. Holds'
        BY <2>1 DEF Discarding, Holds
    <2>5. QED
        BY <2>3, <2>4
<1>6. ASSUME ring[Top] # <<>>
      PROVE  Holds' /\ (owed'[Top] > 0 \/ Len(ring'[Top]) < MaxEvents)
    <2>1. ring' = [ring EXCEPT ![Top] = Tail(@)] /\ owed' = owed
        BY <1>6 DEF DiscardOldest
    <2>2. ring'[Top] = Tail(ring[Top])
        BY <1>1, <1>4, <2>1
    <2>3. PICK l \in Nat : Len(ring[Top]) = l + 1
        <3>1. Len(ring[Top]) \in Nat \ {0}
            BY <1>4, <1>6, Rest
        <3>2. Len(ring[Top]) = (Len(ring[Top]) - 1) + 1 /\ Len(ring[Top]) - 1 \in Nat
            BY <3>1
        <3>3. QED
            BY <3>2
    <2>4. Len(ring'[Top]) = l
        <3>1. Len(Tail(ring[Top])) = Len(ring[Top]) - 1
            BY <1>4, <1>6, Rest
        <3>2. QED
            BY <2>2, <2>3, <3>1
    <2>5. Len(ring'[Top]) < MaxEvents
        <3>1. l + 1 <= MaxEvents
            BY <1>1, <2>3 DEF Discarding, Holds
        <3>2. l < MaxEvents
            BY <1>4, <3>1
        <3>3. QED
            BY <2>4, <3>2
    <2>6. ASSUME NEW t \in Threads  PROVE Len(ring'[t]) <= MaxEvents
        <3>1. CASE t = Top
            <4>1. l <= MaxEvents
                BY <1>4, <2>4, <2>5
            <4>2. QED
                BY <2>4, <3>1, <4>1
        <3>2. CASE t # Top
            <4>1. ring'[t] = ring[t]
                BY <1>4, <2>1, <3>2
            <4>2. QED
                BY <4>1 DEF Discarding, Holds
        <3>3. QED
            BY <3>1, <3>2
    <2>7. QED
        BY <2>5, <2>6 DEF Holds
<1>7. Holds' /\ (owed'[Top] > 0 \/ Len(ring'[Top]) < MaxEvents)
    BY <1>5, <1>6
<1>8. CASE stack \in Seq(Passive)
    <2>1. stack' \in Seq(Passive)
        BY <1>0, <1>1, <1>2, <1>8, PassiveTop
    <2>2. QED
        BY <1>3, <1>7, <2>1 DEF Discarding
<1>9. CASE MakingRoom
    <2>1. PICK c \in Calls, s \in Seq(Passive) : c.do = "Store" /\ c.buf = Top /\ Tail(stack) = <<c>> \o s
        BY <1>9 DEF MakingRoom
    <2>2. PICK r \in Seq(Calls) : r = s
        BY PassiveCalls, Wider
    <2>3. Head(stack') = c /\ Tail(stack') = s
        BY <1>2, <2>1, <2>2, SecondOf
    <2>4. stack' # <<>>
        <3>1. PICK q \in Seq(Calls) : q = <<c>> /\ Len(q) = 1
            BY One
        <3>2. PICK l \in Nat : l = Len(r)
            BY LenProperties
        <3>3. Len(stack') = Len(q) + Len(r)
            BY <1>2, <2>1, <2>2, <3>1, Joined
        <3>4. Len(stack') # 0
            BY <3>1, <3>2, <3>3
        <3>5. QED
            BY <3>4
    <2>5. Storing'
        BY <1>3, <1>7, <2>1, <2>3 DEF Storing, Ready, Top
    <2>6. QED
        BY <1>7, <2>4, <2>5 DEF Discarding
<1>10. QED
    BY <1>0, <1>1, <1>8, <1>9, PassiveTop

LEMMA BeginsDiscard ==
    ASSUME VarsTyped, Discarding, Probe \/ ThreadEnds \/ Extrae_fini \/ ProgramExits
    PROVE  Discarding'
<1>1. ring' = ring
    BY DEF Probe, ThreadEnds, Extrae_fini, ProgramExits, buffers
<1>2. Holds'
    BY <1>1 DEF Discarding, Holds
<1>3. Passive' = Passive
    BY DEF Passive
<1>4. \A t \in Threads : \A name \in {"Enter", "Buffer_Flush", "close_mpits", "Buffer_Free",
                                      "Backend_Finalize", "SetNotInitialized"} : Call(name, t) \in Passive
    BY PassiveCalls DEF Plain
<1>5. CASE Probe
    <2>1. PICK t \in Threads : stack' = <<Call("Enter", t)>> \o BUFFER_INSERT(t, "user")
        BY <1>5 DEF Probe
    <2>2. PICK p \in Seq(Passive) : p = <<Call("Enter", t)>>
        BY <1>4, One
    <2>3. PICK q \in Seq(Passive) : q = BUFFER_INSERT(t, "user")
        BY PassiveInsert DEF Kinds
    <2>4. p \o q \in Seq(Passive)
        BY Joined
    <2>5. stack' \in Seq(Passive)
        BY <2>1, <2>2, <2>3, <2>4
    <2>6. QED
        BY <1>2, <1>3, <2>5 DEF Discarding
<1>6. CASE ThreadEnds
    <2>1. PICK t \in Threads : stack' = FlushThread(t)
        BY <1>6 DEF ThreadEnds
    <2>2. stack' \in Seq(Passive)
        BY <1>4, <2>1 DEF FlushThread
    <2>3. QED
        BY <1>2, <1>3, <2>2 DEF Discarding
<1>7. CASE Extrae_fini \/ ProgramExits
    <2>1. \/ stack' = <<Call("Backend_Finalize", 0)>>
          \/ stack' = <<Call("Backend_Finalize", 0), Call("SetNotInitialized", 0)>>
        BY <1>7 DEF Extrae_fini, ProgramExits
    <2>2. stack' \in Seq(Passive)
        <3>1. PICK c \in Passive, d \in Passive :
                 c = Call("Backend_Finalize", 0) /\ d = Call("SetNotInitialized", 0)
            BY <1>4, ThreadsAre
        <3>2. <<c>> \in Seq(Passive) /\ <<c, d>> \in Seq(Passive)
            OBVIOUS
        <3>3. QED
            BY <2>1, <3>1, <3>2
    <2>3. QED
        BY <1>2, <1>3, <2>2 DEF Discarding
<1>8. QED
    BY <1>5, <1>6, <1>7

-----------------------------------------------------------------------------
(* The two together                                                         *)

NestInv == signals = 0 => IF Circular THEN Discarding ELSE Unnested

LEMMA NextNested ==
    ASSUME StackTyped, VarsTyped, VarsTyped', UInv, NestInv, [Next]_vars
    PROVE  NestInv'
<1>1. CASE Signal
    <2>1. signals \in Nat
        BY BackendAssumption DEF VarsTyped
    <2>2. signals' # 0
        BY <1>1, <2>1 DEF Signal
    <2>3. QED
        BY <2>2 DEF NestInv
<1>2. CASE UNCHANGED vars
    <2>1. UNCHANGED <<Circular, signals>>
        BY <1>2 DEF vars, Circular
    <2>2. Discarding => Discarding'
        BY <1>2 DEF vars, Discarding, Holds, Storing, MakingRoom, Ready, Top, Passive
    <2>3. Unnested => Unnested'
        <3>1. UNCHANGED <<ring, owed, open, live, table, me, stack, mpitrace_on>>
            BY <1>2 DEF vars
        <3>2. \A t \in Threads : (Room(t) => Room(t)') /\ (Off(t) => Off(t)')
            BY <3>1 DEF Room, Within, Off, Stops
        <3>3. QED
            BY <3>1, <3>2 DEF Unnested, Holds
    <2>4. QED
        BY <2>1, <2>2, <2>3 DEF NestInv
<1>3. CASE Next /\ ~Signal
    <2>1. signals' = signals /\ options' = options
        BY <1>3 DEF Next, Step, Probe, ThreadEnds, Extrae_fini, ProgramExits, Inhibit, Desinhibit,
           ExecuteDeferred, SigHandler_FlushAndTerminate, SignalReturns, Enter,
           Buffer_InsertSingle, StoreEvent, FlushCallback, DiscardOldest, Buffer_Flush,
           CheckFileSize, Close_mpits, Buffer_Free, TurnOff, SetNotInitialized,
           Backend_Finalize, FlushIfAny, FinishIfAny, Free, FinalizeEnds, Crash, signalling, control
    <2>2. Circular' = Circular
        BY <2>1 DEF Circular
    <2>3. SUFFICES ASSUME signals = 0
                   PROVE  IF Circular THEN Discarding' ELSE Unnested'
        BY <2>1, <2>2 DEF NestInv
    <2>4. Safe
        BY <2>3 DEF UInv
    <2>5. ~SigHandler_FlushAndTerminate /\ ~SignalReturns /\ ~Crash
        BY <2>4, NoSignalCalls
    <2>6. CASE Circular
        <3>1. Discarding
            BY <2>3, <2>6 DEF NestInv
        <3>2. ~FlushCallback
            BY <2>6 DEF FlushCallback
        <3>3. ~CheckFileSize
            BY <3>1, PassiveTop, OnTop DEF CheckFileSize, StackTyped
        <3>4. Discarding'
            BY <1>3, <2>4, <2>5, <3>1, <3>2, <3>3, PushDiscards, InsertDiscards, StoreDiscards,
               OldestDiscards, BeginsDiscard DEF Next, Step
        <3>5. QED
            BY <2>6, <3>4
    <2>7. CASE ~Circular
        <3>0. SUFFICES Unnested'
            BY <2>7
        <3>1. Unnested
            BY <2>3, <2>7 DEF NestInv
        <3>2. ~DiscardOldest
            BY <2>7 DEF DiscardOldest
        <3>3. CASE Probe \/ ThreadEnds \/ Extrae_fini \/ ProgramExits
            BY <3>1, <3>3, ProbeUnnested, ThreadEndsUnnested, EndingsUnnested
        <3>4. CASE Enter \/ Buffer_InsertSingle \/ FlushCallback \/ FlushIfAny \/ FinishIfAny
            BY <2>4, <3>1, <3>4, EnterUnnested, InsertUnnested, FlushUnnested, FlushIfAnyUnnested,
               FinishUnnested
        <3>5. CASE CheckFileSize \/ Backend_Finalize
            BY <2>4, <3>1, <3>5, CheckUnnested, FinalizeUnnested
        <3>6. CASE StoreEvent \/ Buffer_Flush \/ Close_mpits \/ Buffer_Free \/ Free
            BY <2>4, <3>1, <3>6, StoreUnnested, WritesUnnested, CloseUnnested, BufferFreeUnnested,
               FreeUnnested
        <3>7. CASE \/ Inhibit \/ Desinhibit \/ ExecuteDeferred \/ TurnOff \/ SetNotInitialized
                   \/ FinalizeEnds
            BY <2>4, <3>1, <3>7, FlagsUnnested
        <3>8. QED
            BY <1>3, <2>5, <3>2, <3>3, <3>4, <3>5, <3>6, <3>7 DEF Next, Step
    <2>8. QED
        BY <2>6, <2>7
<1>4. QED
    BY <1>1, <1>2, <1>3

LEMMA InitNested == Init => NestInv
<1>1. SUFFICES ASSUME Init  PROVE Discarding /\ Unnested
    BY DEF NestInv
<1>2. stack = <<>> /\ me = 0
    BY <1>1 DEF Init
<1>3. MaxEvents \in Nat /\ MaxEvents >= 7 /\ Left \in Bounds /\ Left.open = MaxEvents - 1
    BY Roomy, BoundIs
<1>4. \A t \in Threads : Len(ring[t]) = 0 /\ open[t] = TRUE /\ owed[t] = 0
    BY <1>1 DEF Init
<1>5. Holds
    BY <1>3, <1>4 DEF Holds
<1>6. Discarding
    BY <1>2, <1>5, NonePushed DEF Discarding
<1>7. Orderly(stack)
    BY <1>2, NoCalls DEF Orderly
<1>8. ASSUME NEW t \in Threads  PROVE Room(t) /\ Off(t)
    <2>1. Within(t, Left)
        BY <1>3, <1>4 DEF Within
    <2>2. Path(t, me, stack, Left, Left)
        BY <1>2, <1>3, PathNone
    <2>3. QED
        BY <1>3, <1>4, <2>1, <2>2 DEF Room, Off
<1>9. QED
    BY <1>4, <1>5, <1>6, <1>7, <1>8 DEF Unnested

LEMMA NestedOnce ==
    ASSUME stack \in Seq(Calls), Holds, Never(stack, Starters, Checks)
    PROVE  FlushNeverNests
<1>1. PICK n \in Nat : n = Len(stack) /\ DOMAIN stack = 1..n
    BY LenProperties
<1>2. ASSUME NEW t \in Threads
      PROVE  Cardinality({i \in DOMAIN stack : stack[i] = Call("CheckFileSize", t)}) <= 1
    <2>1. PICK P : P = {i \in DOMAIN stack : stack[i] = Call("CheckFileSize", t)}
        OBVIOUS
    <2>2. ASSUME NEW i \in P, NEW j \in P  PROVE i = j
        <3>1. i \in 1..n /\ j \in 1..n /\ stack[i] = Call("CheckFileSize", t)
              /\ stack[j] = Call("CheckFileSize", t)
            BY <1>1, <2>1
        <3>2. Call("CheckFileSize", t) \in Calls /\ Call("CheckFileSize", t).do = "CheckFileSize"
            BY CallTyped DEF Plain, NoEnd, Call
        <3>3. Call("CheckFileSize", t) \in Starters /\ Call("CheckFileSize", t) \in Checks
            BY <3>2 DEF Starters, Checks
        <3>4. \A k \in 1..n : \A l \in (k + 1)..n :
                 ~(stack[k] \in Starters /\ stack[l] \in Checks)
            BY <1>1 DEF Never
        <3>5. ~(i < j) /\ ~(j < i)
            <4>1. i < j => j \in (i + 1)..n
                BY <3>1
            <4>2. j < i => i \in (j + 1)..n
                BY <3>1
            <4>3. QED
                BY <3>1, <3>3, <3>4, <4>1, <4>2
        <3>6. QED
            BY <3>1, <3>5
    <2>3. CASE P = {}
        <3>1. Cardinality(P) = 0
            BY <2>3, FS_EmptySet
        <3>2. QED
            BY <2>1, <3>1
    <2>4. CASE P # {}
        <3>1. PICK i : P = {i}
            BY <2>2, <2>4
        <3>2. Cardinality(P) = 1
            BY <3>1, FS_Singleton
        <3>3. QED
            BY <2>1, <3>2
    <2>5. QED
        BY <2>3, <2>4
<1>3. QED
    BY <1>2 DEF FlushNeverNests, Holds

LEMMA NestedNever ==
    ASSUME StackTyped, NestInv
    PROVE  FlushNeverNests
<1>0. stack \in Seq(Calls)
    BY DEF StackTyped
<1>1. SUFFICES ASSUME signals = 0  PROVE FlushNeverNests
    BY DEF FlushNeverNests
<1>2. CASE Unnested
    BY <1>0, <1>2, NestedOnce DEF Unnested, Orderly
<1>3. CASE Discarding
    <2>1. ASSUME NEW s \in Seq(Passive)  PROVE ~Some(s, Checks)
        BY PassiveCalls, NoneIn
    <2>2. ~Some(stack, Checks)
        <3>1. CASE stack \in Seq(Passive)
            BY <2>1, <3>1
        <3>2. CASE stack # <<>> /\ Storing
            <4>1. Head(stack) \notin Checks /\ ~Some(Tail(stack), Checks)
                BY <2>1, <3>2 DEF Storing, Checks
            <4>2. QED
                BY <1>0, <3>2, <4>1, SomeRest
        <3>3. CASE stack # <<>> /\ MakingRoom
            <4>1. Head(stack) \notin Checks
                BY <3>3 DEF MakingRoom, Checks
            <4>2. PICK c \in Calls, s \in Seq(Passive) : c.do = "Store" /\ Tail(stack) = <<c>> \o s
                BY <3>3 DEF MakingRoom
            <4>3. PICK q \in Seq(Calls) : q = <<c>> /\ Len(q) = 1 /\ q[1] = c
                BY One
            <4>4. ~Some(q, Checks)
                BY <4>2, <4>3 DEF Some, Checks
            <4>5. PICK r \in Seq(Calls) : r = s
                BY PassiveCalls, Wider
            <4>6. ~Some(r, Checks)
                BY <2>1, <4>5
            <4>7. ~Some(q \o r, Checks)
                BY <4>4, <4>6, SomeJoined
            <4>8. QED
                BY <1>0, <3>3, <4>1, <4>2, <4>3, <4>5, <4>7, SomeRest
        <3>4. QED
            BY <1>3, <3>1, <3>2, <3>3 DEF Discarding
    <2>3. PICK n \in Nat : n = Len(stack)
        BY <1>0, LenProperties
    <2>4. ASSUME NEW i \in 1..n, NEW j \in (i + 1)..n  PROVE stack[j] \notin Checks
        <3>1. j \in 1..n
            OBVIOUS
        <3>2. QED
            BY <2>2, <2>3, <3>1 DEF Some
    <2>5. Never(stack, Starters, Checks)
        BY <2>3, <2>4 DEF Never
    <2>6. QED
        BY <1>0, <1>3, <2>5, NestedOnce DEF Discarding
<1>4. QED
    BY <1>1, <1>2, <1>3 DEF NestInv

\* The flush callback emits events into the ring it has just emptied, and
\* Backend_Finalize emits some for every buffer it flushes; while no signal arrives none of
\* them finds its ring full: no flush of a ring is ever pending twice, and no ring holds
\* more events than it has slots, for any number of threads and buffers of at least
\* 2 + 5 * threads events, and whether events are flushed or the oldest discarded.
THEOREM NeverNested == Spec => []FlushNeverNests
<1>1. Init => UInv /\ NestInv
    BY InitSafe, InitNested
<1>2. TypeInv /\ UInv /\ [Next]_vars => UInv'
    BY NextSafe DEF TypeInv
<1>3. TypeInv /\ TypeInv' /\ UInv /\ NestInv /\ [Next]_vars => NestInv'
    BY NextNested DEF TypeInv
<1>4. TypeInv /\ NestInv => FlushNeverNests
    BY NestedNever DEF TypeInv
<1>5. QED
    BY <1>1, <1>2, <1>3, <1>4, TypeInvariant, PTL DEF Spec
-----------------------------------------------------------------------------
(* The files near their limit.                                              *)
(*                                                                          *)
(* A file that has reached the limit may be written again only when another *)
(* thread finalizes.  Along the calls pending there is, for each thread, a  *)
(* bound of the events of such a file and its ring together; it is negative *)
(* where the file has not reached the limit, or is closed.                  *)

Full(o) == o.limit + MaxEvents + 1

\* n more events, if the file has reached the limit.
Keeps(a, n, b) == a < 0 \/ a + n <= b

\* What each call, made by thread w with the configuration o, does to the file of t.
Adds(t, c, a, b) == IF c.buf = t THEN Keeps(a, 1, b) ELSE Keeps(a, 0, b)
Drains(o, t, c, a, b) ==
    IF c.buf = t THEN a <= Full(o) /\ a <= b /\ Full(o) - 2 <= b ELSE Keeps(a, 0, b)
Fires(o, t, w, c, a, b) ==
    /\ o.circular = FALSE /\ c.buf = t =>
         a <= Full(o) /\ (t # w => a + 2 <= b /\ Full(o) <= b)
    /\ o.circular = FALSE /\ c.buf # t /\ t = w => Keeps(a, 2, b)
    /\ o.circular = FALSE /\ c.buf # t /\ t # w => Keeps(a, 0, b)
    /\ o.circular # FALSE => Keeps(a, 0, b)
Lasts(o, t, w, c, a, b) ==
    \/ a < 0
    \/ o.circular = FALSE /\ t # w /\ (c.buf = t => a <= Full(o)) /\ (c.buf # t => a <= b)

Grows(o, t, w, c, a, b) ==
    /\ c.do \in {"InsertSingle", "Store"} => Adds(t, c, a, b)
    /\ c.do = "Buffer_Flush" => Drains(o, t, c, a, b)
    /\ c.do \in {"FlushCallback", "FlushIfAny"} => Fires(o, t, w, c, a, b)
    /\ c.do = "FinishIfAny" => Lasts(o, t, w, c, a, b)
    /\ c.do = "CheckFileSize" => (w = t /\ c.buf = t) \/ Keeps(a, 0, b)
    /\ c.do = "close_mpits" => c.buf = t \/ Keeps(a, 0, b)
    /\ c.do = "Enter" => a < 0 /\ (c.buf = t => w = t)
    /\ c.do = "Backend_Finalize" => a < 0 /\ w = 0
    /\ c.do \notin Moving => Keeps(a, 0, b)

\* h bounds the file and the ring of t before each of the calls of s, and after the last.
Tracks(o, t, w, s, a, b, h) ==
    /\ h \in [1..(Len(s) + 1) -> Int] /\ h[1] = a /\ h[Len(s) + 1] = b
    /\ \A i \in 1..Len(s) : Grows(o, t, w, s[i], h[i], h[i + 1])
Track(o, t, w, s, a, b) == \E h : Tracks(o, t, w, s, a, b, h)

LEMMA TrackNone ==
    ASSUME NEW o, NEW t, NEW w, NEW a \in Int
    PROVE  Track(o, t, w, <<>>, a, a)
<1>1. Tracks(o, t, w, <<>>, a, a, [i \in 1..1 |-> a])
    BY DEF Tracks
<1>2. QED
    BY <1>1 DEF Track

LEMMA TrackOne ==
    ASSUME NEW o, NEW t, NEW w, NEW X, NEW c \in X, NEW a \in Int, NEW b \in Int, Grows(o, t, w, c, a, b)
    PROVE  Track(o, t, w, <<c>>, a, b)
<1>1. PICK s : s = <<c>>
    OBVIOUS
<1>2. Len(s) = 1 /\ s[1] = c
    BY <1>1
<1> DEFINE h == [i \in 1..2 |-> IF i = 1 THEN a ELSE b]
<1>3. h \in [1..2 -> Int] /\ h[1] = a /\ h[2] = b
    OBVIOUS
<1> HIDE DEF h
<1>4. \A i \in 1..1 : i = 1
    OBVIOUS
<1>5. Tracks(o, t, w, s, a, b, h)
    BY <1>2, <1>3, <1>4 DEF Tracks
<1>6. QED
    BY <1>1, <1>5 DEF Track

LEMMA TrackJoined ==
    ASSUME NEW o, NEW t, NEW w, NEW X, NEW r \in Seq(X), NEW s \in Seq(X),
           NEW a, NEW b, NEW c, Track(o, t, w, r, a, b), Track(o, t, w, s, b, c)
    PROVE  Track(o, t, w, r \o s, a, c)
<1>1. PICK f : Tracks(o, t, w, r, a, b, f)
    BY DEF Track
<1>2. PICK g : Tracks(o, t, w, s, b, c, g)
    BY DEF Track
<1>3. PICK k \in Nat : k = Len(r)
    BY LenProperties
<1>4. PICK l \in Nat : l = Len(s)
    BY LenProperties
<1>5. PICK u : u = r \o s
    OBVIOUS
<1>6. /\ Len(u) = k + l /\ \A i \in 1..k : u[i] = r[i]
      /\ \A i \in 1..l : u[k + i] = s[i]
    BY <1>3, <1>4, <1>5, Joined
<1>7. /\ f \in [1..(k + 1) -> Int] /\ f[1] = a /\ f[k + 1] = b
      /\ \A i \in 1..k : Grows(o, t, w, r[i], f[i], f[i + 1])
    BY <1>1, <1>3 DEF Tracks
<1>8. /\ g \in [1..(l + 1) -> Int] /\ g[1] = b /\ g[l + 1] = c
      /\ \A i \in 1..l : Grows(o, t, w, s[i], g[i], g[i + 1])
    BY <1>2, <1>4 DEF Tracks
<1> DEFINE h == [i \in 1..(k + l + 1) |-> IF i <= k THEN f[i] ELSE g[i - k]]
<1>9. \A i \in 1..k : h[i] = f[i]
    OBVIOUS
<1>10. \A i \in 1..(l + 1) : h[k + i] = g[i]
    <2>1. ASSUME NEW i \in 1..(l + 1)  PROVE h[k + i] = g[i]
        <3>1. k + i \in 1..(k + l + 1) /\ ~(k + i <= k) /\ k + i - k = i
            OBVIOUS
        <3>2. QED
            BY <3>1
    <2>2. QED
        BY <2>1
<1> HIDE DEF h
<1>11. h \in [1..(k + l + 1) -> Int]
    <2>1. ASSUME NEW i \in 1..(k + l + 1)
          PROVE  (IF i <= k THEN f[i] ELSE g[i - k]) \in Int
        <3>1. CASE i <= k
            BY <1>7, <3>1
        <3>2. CASE ~(i <= k)
            <4>1. i - k \in 1..(l + 1)
                BY <3>2
            <4>2. QED
                BY <1>8, <3>2, <4>1
        <3>3. QED
            BY <3>1, <3>2
    <2>2. QED
        BY <2>1 DEF h
<1>12. \A i \in 1..(k + 1) : h[i] = f[i]
    <2>1. h[k + 1] = g[1]
        BY <1>10
    <2>2. h[k + 1] = f[k + 1]
        BY <1>7, <1>8, <2>1
    <2>3. \A i \in 1..(k + 1) : i \in 1..k \/ i = k + 1
        OBVIOUS
    <2>4. QED
        BY <1>9, <2>2, <2>3
<1>13. h[1] = a /\ h[k + l + 1] = c
    <2>1. h[1] = f[1]
        BY <1>12
    <2>2. k + l + 1 = k + (l + 1) /\ l + 1 \in 1..(l + 1)
        OBVIOUS
    <2>3. h[k + (l + 1)] = g[l + 1]
        BY <1>10, <2>2
    <2>4. QED
        BY <1>7, <1>8, <2>1, <2>2, <2>3
<1>14. ASSUME NEW i \in 1..(k + l)  PROVE Grows(o, t, w, u[i], h[i], h[i + 1])
    <2>1. CASE i <= k
        <3>1. i \in 1..k /\ i \in 1..(k + 1) /\ i + 1 \in 1..(k + 1)
            BY <2>1
        <3>2. u[i] = r[i] /\ h[i] = f[i] /\ h[i + 1] = f[i + 1]
            BY <1>6, <1>12, <3>1
        <3>3. QED
            BY <1>7, <3>1, <3>2
    <2>2. CASE ~(i <= k)
        <3>1. PICK j \in 1..l : i = k + j
            <4>1. i - k \in 1..l /\ i = k + (i - k)
                BY <2>2
            <4>2. QED
                BY <4>1
        <3>2. j \in 1..(l + 1) /\ j + 1 \in 1..(l + 1) /\ i + 1 = k + (j + 1)
            BY <3>1
        <3>3. u[i] = s[j] /\ h[i] = g[j]
            BY <1>6, <1>10, <3>1, <3>2
        <3>4. h[i + 1] = g[j + 1]
            <4>1. h[k + (j + 1)] = g[j + 1]
                BY <1>10, <3>2
            <4>2. QED
                BY <3>2, <4>1
        <3>5. QED
            BY <1>8, <3>1, <3>3, <3>4
    <2>3. QED
        BY <2>1, <2>2
<1>15. Tracks(o, t, w, u, a, c, h)
    BY <1>6, <1>11, <1>13, <1>14 DEF Tracks
<1>16. QED
    BY <1>5, <1>15 DEF Track

LEMMA TrackRest ==
    ASSUME NEW o, NEW t, NEW w, NEW X, NEW s \in Seq(X), s # <<>>, NEW a, NEW c, Track(o, t, w, s, a, c)
    PROVE  \E b \in Int : Grows(o, t, w, Head(s), a, b) /\ Track(o, t, w, Tail(s), b, c)
<1>1. PICK f : Tracks(o, t, w, s, a, c, f)
    BY DEF Track
<1>2. PICK l \in Nat : l = Len(s) - 1
    BY Rest
<1>3. PICK u : u = Tail(s)
    OBVIOUS
<1>4. Len(s) = l + 1 /\ Len(u) = l /\ Head(s) = s[1] /\ \A i \in 1..l : u[i] = s[i + 1]
    BY <1>2, <1>3, Rest
<1>5. /\ f \in [1..(l + 2) -> Int] /\ f[1] = a /\ f[l + 2] = c
      /\ \A i \in 1..(l + 1) : Grows(o, t, w, s[i], f[i], f[i + 1])
    <2>1. Len(s) + 1 = l + 2
        BY <1>4
    <2>2. QED
        BY <1>1, <1>4, <2>1 DEF Tracks
<1> DEFINE g == [i \in 1..(l + 1) |-> f[i + 1]]
<1>6. g \in [1..(l + 1) -> Int] /\ g[1] = f[2] /\ g[l + 1] = c /\ f[2] \in Int
    BY <1>5
<1>7. \A i \in 1..l : g[i] = f[i + 1] /\ g[i + 1] = f[(i + 1) + 1]
    OBVIOUS
<1> HIDE DEF g
<1>8. ASSUME NEW i \in 1..l  PROVE Grows(o, t, w, u[i], g[i], g[i + 1])
    <2>1. i + 1 \in 1..(l + 1)
        OBVIOUS
    <2>2. Grows(o, t, w, s[i + 1], f[i + 1], f[(i + 1) + 1])
        BY <1>5, <2>1
    <2>3. QED
        BY <1>4, <1>7, <2>2
<1>9. Tracks(o, t, w, u, f[2], c, g)
    BY <1>4, <1>6, <1>8 DEF Tracks
<1>10. Track(o, t, w, u, f[2], c)
    BY <1>9 DEF Track
<1>11. Grows(o, t, w, Head(s), a, f[2])
    <2>1. Grows(o, t, w, s[1], f[1], f[1 + 1])
        BY <1>5
    <2>2. QED
        BY <1>4, <1>5, <2>1
<1>12. QED
    BY <1>3, <1>6, <1>10, <1>11

-----------------------------------------------------------------------------
(* The same, along what is pushed                                           *)

LEMMA GrowsAre ==
    ASSUME NEW o, NEW t, NEW w, NEW c, NEW a, NEW b
    PROVE  /\ c.do \in {"InsertSingle", "Store"} => (Grows(o, t, w, c, a, b) <=> Adds(t, c, a, b))
           /\ c.do = "Buffer_Flush" => (Grows(o, t, w, c, a, b) <=> Drains(o, t, c, a, b))
           /\ c.do \in {"FlushCallback", "FlushIfAny"} =>
                (Grows(o, t, w, c, a, b) <=> Fires(o, t, w, c, a, b))
           /\ c.do = "FinishIfAny" => (Grows(o, t, w, c, a, b) <=> Lasts(o, t, w, c, a, b))
           /\ c.do = "CheckFileSize" =>
                (Grows(o, t, w, c, a, b) <=> (w = t /\ c.buf = t) \/ Keeps(a, 0, b))
           /\ c.do = "close_mpits" => (Grows(o, t, w, c, a, b) <=> c.buf = t \/ Keeps(a, 0, b))
           /\ c.do = "Enter" => (Grows(o, t, w, c, a, b) <=> a < 0 /\ (c.buf = t => w = t))
           /\ c.do = "Backend_Finalize" => (Grows(o, t, w, c, a, b) <=> a < 0 /\ w = 0)
           /\ c.do = "Free" => Grows(o, t, w, c, a, b)
           /\ c.do \notin Moving => (Grows(o, t, w, c, a, b) <=> Keeps(a, 0, b))
BY DEF Grows, Moving

LEMMA KeepsLevel == \A a \in Int : Keeps(a, 0, a)
BY DEF Keeps

LEMMA KeepsMore ==
    ASSUME NEW a \in Int, NEW b \in Int, NEW n \in Nat, Keeps(a, n, b)
    PROVE  Keeps(a, 0, b)
BY DEF Keeps

LEMMA AddsMore ==
    ASSUME NEW t, NEW u, NEW e, NEW a \in Int, NEW b \in Int
    PROVE  /\ Keeps(a, 1, b) => Adds(t, InsertSingle(u, e), a, b)
           /\ u # t /\ Keeps(a, 0, b) => Adds(t, InsertSingle(u, e), a, b)
<1>1. Keeps(a, 1, b) => Keeps(a, 0, b)
    BY KeepsMore
<1>2. InsertSingle(u, e).buf = u
    BY DEF InsertSingle
<1>3. QED
    BY <1>1, <1>2 DEF Adds

LEMMA InsertTrack ==
    ASSUME NEW o, NEW t, NEW w, NEW u, NEW e, NEW a \in Int, NEW b \in Int,
           Adds(t, InsertSingle(u, e), a, b)
    PROVE  Track(o, t, w, BUFFER_INSERT(u, e), a, b)
<1>1. PICK s : s = BUFFER_INSERT(u, e)
    OBVIOUS
<1>2. /\ Len(s) = 4 /\ s[1] = Call("Signals_Inhibit", u) /\ s[2] = InsertSingle(u, e)
      /\ s[3] = Call("Signals_Desinhibit", u) /\ s[4] = Call("Signals_ExecuteDeferred", u)
    BY <1>1 DEF BUFFER_INSERT
<1>3. Keeps(a, 0, a) /\ Keeps(b, 0, b)
    BY KeepsLevel
<1>4. /\ s[1].do \notin Moving /\ s[3].do \notin Moving /\ s[4].do \notin Moving
      /\ s[2].do = "InsertSingle"
    BY <1>2 DEF Call, InsertSingle, Moving
<1>5. Grows(o, t, w, s[1], a, a) /\ Grows(o, t, w, s[3], b, b) /\ Grows(o, t, w, s[4], b, b)
    BY <1>3, <1>4, GrowsAre
<1>6. Grows(o, t, w, s[2], a, b)
    BY <1>2, <1>4, GrowsAre
<1> DEFINE h == [i \in 1..5 |-> IF i <= 2 THEN a ELSE b]
<1>7. h \in [1..5 -> Int] /\ h[1] = a /\ h[2] = a /\ h[3] = b /\ h[4] = b /\ h[5] = b
    OBVIOUS
<1> HIDE DEF h
<1>8. \A i \in 1..4 : i = 1 \/ i = 2 \/ i = 3 \/ i = 4
    OBVIOUS
<1>9. \A i \in 1..4 : Grows(o, t, w, s[i], h[i], h[i + 1])
    BY <1>5, <1>6, <1>7, <1>8
<1>10. Tracks(o, t, w, s, a, b, h)
    BY <1>2, <1>7, <1>9 DEF Tracks
<1>11. QED
    BY <1>1, <1>10 DEF Track

LEMMA WrapperTrack ==
    ASSUME NEW o, NEW t, NEW u \in Threads, me \in Threads,
           NEW a \in Int, NEW b1 \in Int, NEW b2 \in Int, NEW b3 \in Int,
           NEW b4 \in Int, NEW b5 \in Int, NEW b \in Int,
           Drains(o, t, Call("Buffer_Flush", u), a, b1),
           Adds(t, InsertSingle(u, "flush"), b1, b2), Adds(t, InsertSingle(me, "cpu"), b2, b3),
           Adds(t, InsertSingle(u, "flush"), b3, b4), Adds(t, InsertSingle(me, "cpu"), b4, b5),
           (me = t /\ u = t) \/ Keeps(b5, 0, b)
    PROVE  Track(o, t, me, Extrae_Flush_Wrapper(u), a, b)
<1>1. PICK r1 \in Seq(Calls) : r1 = <<Call("Buffer_Flush", u)>> /\ Track(o, t, me, r1, a, b1)
    <2>1. PICK c \in Calls : c = Call("Buffer_Flush", u)
        BY CallTyped DEF Plain, NoEnd
    <2>2. c.do = "Buffer_Flush"
        BY <2>1 DEF Call
    <2>3. Grows(o, t, me, c, a, b1)
        BY <2>1, <2>2, GrowsAre
    <2>4. QED
        BY <2>1, <2>3, One, TrackOne
<1>2. PICK r2 \in Seq(Calls) : r2 = BUFFER_INSERT(u, "flush")
    BY InsertTyped, NoEndCalls DEF Kinds
<1>3. PICK r3 \in Seq(Calls) : r3 = Extrae_AnnotateTopology /\ r3 = BUFFER_INSERT(me, "cpu")
    BY InsertTyped, NoEndCalls DEF Kinds, Extrae_AnnotateTopology
<1>4. PICK r4 \in Seq(Calls) : r4 = <<Call("CheckFileSize", u)>> /\ Track(o, t, me, r4, b5, b)
    <2>1. PICK c \in Calls : c = Call("CheckFileSize", u)
        BY CallTyped DEF Plain, NoEnd
    <2>2. c.do = "CheckFileSize" /\ c.buf = u
        BY <2>1 DEF Call
    <2>3. Grows(o, t, me, c, b5, b)
        BY <2>2, GrowsAre
    <2>4. QED
        BY <2>1, <2>3, One, TrackOne
<1>5. Track(o, t, me, r2, b1, b2) /\ Track(o, t, me, r2, b3, b4)
    BY <1>2, InsertTrack
<1>6. Track(o, t, me, r3, b2, b3) /\ Track(o, t, me, r3, b4, b5)
    BY <1>3, InsertTrack
<1>7a. PICK s2 \in Seq(Calls) : s2 = r1 \o r2
    BY Joined
<1>7. Track(o, t, me, s2, a, b2)
    BY <1>1, <1>5, <1>7a, TrackJoined
<1>8a. PICK s3 \in Seq(Calls) : s3 = s2 \o r3
    BY Joined
<1>8. Track(o, t, me, s3, a, b3)
    BY <1>6, <1>7, <1>8a, TrackJoined
<1>9a. PICK s4 \in Seq(Calls) : s4 = s3 \o r2
    BY Joined
<1>9. Track(o, t, me, s4, a, b4)
    BY <1>5, <1>8, <1>9a, TrackJoined
<1>10a. PICK s5 \in Seq(Calls) : s5 = s4 \o r3
    BY Joined
<1>10. Track(o, t, me, s5, a, b5)
    BY <1>6, <1>9, <1>10a, TrackJoined
<1>11. Track(o, t, me, s5 \o r4, a, b)
    BY <1>4, <1>10, TrackJoined
<1>12. s5 \o r4 = Extrae_Flush_Wrapper(u)
    BY <1>1, <1>2, <1>3, <1>4, <1>7a, <1>8a, <1>9a, <1>10a DEF Extrae_Flush_Wrapper
<1>13. QED
    BY <1>11, <1>12

\* What the configuration is, as far as the limit matters.
Limited(o) == o.limit \in Nat /\ o.circular \in BOOLEAN

LEMMA FullIs ==
    ASSUME NEW o, Limited(o)
    PROVE  Full(o) \in Int
BY Roomy DEF Full, Limited

LEMMA FlushTrack ==
    ASSUME NEW o, Limited(o), o.circular = FALSE, NEW t \in Threads, NEW u \in Threads,
           me \in Threads, NEW a \in Int, NEW b \in Int,
           NEW c, c.buf = u, Fires(o, t, me, c, a, b)
    PROVE  Track(o, t, me, Extrae_Flush_Wrapper(u), a, b)
<1>1. Call("Buffer_Flush", u).buf = u
    BY DEF Call
<1>2. PICK k \in Int : k = Full(o)
    BY FullIs
<1>3. CASE u = t
    <2>1. a <= k /\ (t # me => a + 2 <= b /\ k <= b)
        BY <1>2, <1>3 DEF Fires
    <2>2. PICK b1 \in Int : a <= b1 /\ k - 2 <= b1 /\ (b1 = a \/ b1 = k - 2)
        BY <1>2
    <2>3. Drains(o, t, Call("Buffer_Flush", u), a, b1)
        BY <1>1, <1>2, <1>3, <2>1, <2>2 DEF Drains
    <2>4. PICK b2 \in Int, b3 \in Int, b4 \in Int : b2 = b1 + 1 /\ b3 = b1 + 2 /\ b4 = b1 + 3
        OBVIOUS
    <2>5. PICK b5 \in Int : b5 = b1 + 4
        OBVIOUS
    <2>6. CASE t = me
        <3>1. Keeps(b1, 1, b2) /\ Keeps(b2, 1, b3) /\ Keeps(b3, 1, b4) /\ Keeps(b4, 1, b5)
            BY <2>4, <2>5 DEF Keeps
        <3>2. /\ Adds(t, InsertSingle(u, "flush"), b1, b2) /\ Adds(t, InsertSingle(me, "cpu"), b2, b3)
              /\ Adds(t, InsertSingle(u, "flush"), b3, b4) /\ Adds(t, InsertSingle(me, "cpu"), b4, b5)
            BY <3>1, AddsMore
        <3>3. QED
            BY <1>3, <2>3, <2>6, <3>2, WrapperTrack
    <2>7. CASE t # me
        <3>1. Keeps(b1, 1, b2) /\ Keeps(b2, 1, b3) /\ Keeps(b2, 0, b2) /\ Keeps(b3, 0, b3)
            BY <2>4 DEF Keeps
        <3>2. /\ Adds(t, InsertSingle(u, "flush"), b1, b2) /\ Adds(t, InsertSingle(me, "cpu"), b2, b2)
              /\ Adds(t, InsertSingle(u, "flush"), b2, b3) /\ Adds(t, InsertSingle(me, "cpu"), b3, b3)
            BY <2>7, <3>1, AddsMore
        <3>3. b3 <= b
            BY <2>1, <2>2, <2>4, <2>7
        <3>4. Keeps(b3, 0, b)
            BY <3>3 DEF Keeps
        <3>5. QED
            BY <2>3, <3>2, <3>4, WrapperTrack
    <2>8. QED
        BY <2>6, <2>7
<1>4. CASE u # t /\ t = me
    <2>1. Keeps(a, 2, b)
        BY <1>4 DEF Fires
    <2>2. PICK a1 \in Int, a2 \in Int : Keeps(a, 1, a1) /\ Keeps(a1, 1, a2) /\ Keeps(a2, 0, b)
        <3>1. CASE a < 0
            BY <3>1 DEF Keeps
        <3>2. CASE ~(a < 0)
            <4>1. Keeps(a, 1, a + 1) /\ Keeps(a + 1, 1, a + 2) /\ Keeps(a + 2, 0, b)
                BY <2>1, <3>2 DEF Keeps
            <4>2. a + 1 \in Int /\ a + 2 \in Int
                OBVIOUS
            <4>3. QED
                BY <4>1, <4>2
        <3>3. QED
            BY <3>1, <3>2
    <2>3. Keeps(a, 0, a) /\ Keeps(a1, 0, a1)
        BY KeepsLevel
    <2>4. Drains(o, t, Call("Buffer_Flush", u), a, a)
        BY <1>1, <1>4, <2>3 DEF Drains
    <2>5. /\ Adds(t, InsertSingle(u, "flush"), a, a) /\ Adds(t, InsertSingle(me, "cpu"), a, a1)
          /\ Adds(t, InsertSingle(u, "flush"), a1, a1) /\ Adds(t, InsertSingle(me, "cpu"), a1, a2)
        BY <1>4, <2>2, <2>3, AddsMore
    <2>6. QED
        BY <2>2, <2>4, <2>5, WrapperTrack
<1>5. CASE u # t /\ t # me
    <2>1. Keeps(a, 0, b) /\ Keeps(a, 0, a)
        BY <1>5, KeepsLevel DEF Fires
    <2>2. Drains(o, t, Call("Buffer_Flush", u), a, a)
        BY <1>1, <1>5, <2>1 DEF Drains
    <2>3. Adds(t, InsertSingle(u, "flush"), a, a) /\ Adds(t, InsertSingle(me, "cpu"), a, a)
        BY <1>5, <2>1, AddsMore
    <2>4. QED
        BY <2>1, <2>2, <2>3, WrapperTrack
<1>6. QED
    BY <1>3, <1>4, <1>5

LEMMA FinishTrack ==
    ASSUME NEW o, Limited(o), NEW t \in Threads, NEW u \in Threads, me \in Threads,
           NEW a \in Int, NEW b \in Int, NEW d, d.buf = u, Lasts(o, t, me, d, a, b)
    PROVE  Track(o, t, me, Finish(u), a, b)
<1>1. PICK r1 \in Seq(Calls) : r1 = BUFFER_INSERT(me, "end")
    BY InsertTyped, NoEndCalls DEF Kinds
<1>2. PICK c \in Calls, e \in Calls : c = Call("FlushCallback", u) /\ e = Call("close_mpits", u)
    BY CallTyped DEF Plain, NoEnd
<1>3. c.do = "FlushCallback" /\ c.buf = u /\ e.do = "close_mpits" /\ e.buf = u
    BY <1>2 DEF Call
<1>4. PICK r2 \in Seq(Calls), r3 \in Seq(Calls) : r2 = <<c>> /\ r3 = <<e>>
    BY One
<1>5. r2 \o r3 = <<c, e>>
    BY <1>4, PairOf
<1>6. Finish(u) = r1 \o (r2 \o r3)
    BY <1>1, <1>2, <1>5 DEF Finish
<1>7. ASSUME NEW n \in Int, Adds(t, InsertSingle(me, "end"), a, a), Fires(o, t, me, c, a, n),
             u = t \/ Keeps(n, 0, b)
      PROVE  Track(o, t, me, Finish(u), a, b)
    <2>1. Track(o, t, me, r1, a, a)
        BY <1>1, <1>7, InsertTrack
    <2>2. Grows(o, t, me, c, a, n) /\ Grows(o, t, me, e, n, b)
        BY <1>3, <1>7, GrowsAre
    <2>3. Track(o, t, me, r2, a, n) /\ Track(o, t, me, r3, n, b)
        BY <1>4, <2>2, TrackOne
    <2>4. PICK r \in Seq(Calls) : r = r2 \o r3
        BY Joined
    <2>5. Track(o, t, me, r, a, b)
        BY <2>3, <2>4, TrackJoined
    <2>6. Track(o, t, me, r1 \o r, a, b)
        BY <2>1, <2>5, TrackJoined
    <2>7. QED
        BY <1>6, <2>4, <2>6
<1>8. Keeps(a, 0, a)
    BY KeepsLevel
<1>9. PICK k \in Int : k = Full(o) /\ 0 <= k
    BY FullIs, Roomy DEF Full, Limited
<1>10. CASE a < 0
    <2>1. \A n \in Int : Keeps(a, 0, n) /\ Keeps(a, 1, n) /\ Keeps(a, 2, n)
        BY <1>10 DEF Keeps
    <2>2. Adds(t, InsertSingle(me, "end"), a, a)
        BY <2>1, AddsMore
    <2>3. CASE u = t
        <3>1. PICK n \in Int : n = k + 2
            BY <1>9
        <3>2. a <= k /\ a + 2 <= n /\ k <= n
            BY <1>9, <1>10, <3>1
        <3>3. Fires(o, t, me, c, a, n)
            BY <1>3, <1>9, <2>1, <2>3, <3>2 DEF Fires
        <3>4. QED
            BY <1>7, <2>2, <2>3, <3>3
    <2>4. CASE u # t
        <3>1. Fires(o, t, me, c, a, a)
            BY <1>3, <2>1, <2>4 DEF Fires
        <3>2. QED
            BY <1>7, <2>1, <2>2, <3>1
    <2>5. QED
        BY <2>3, <2>4
<1>11. CASE o.circular = FALSE /\ t # me /\ (d.buf = t => a <= Full(o)) /\ (d.buf # t => a <= b)
    <2>1. Adds(t, InsertSingle(me, "end"), a, a)
        BY <1>8, <1>11, AddsMore
    <2>2. CASE u = t
        <3>1. PICK n \in Int : n = k + 2
            BY <1>9
        <3>2. a <= k /\ a + 2 <= n /\ k <= n
            BY <1>9, <1>11, <2>2, <3>1
        <3>3. Fires(o, t, me, c, a, n)
            BY <1>3, <1>9, <1>11, <2>2, <3>2 DEF Fires
        <3>4. QED
            BY <1>7, <2>1, <2>2, <3>3
    <2>3. CASE u # t
        <3>1. Fires(o, t, me, c, a, a)
            BY <1>3, <1>8, <1>11, <2>3 DEF Fires
        <3>2. Keeps(a, 0, b)
            BY <1>11, <2>3 DEF Keeps
        <3>3. QED
            BY <1>7, <2>1, <3>1, <3>2
    <2>4. QED
        BY <2>2, <2>3
<1>12. QED
    BY <1>10, <1>11 DEF Lasts

\* The loops of Backend_Finalize: from its turn in the first to its turn in the second a file
\* may have reached the limit, unless it is that of the finalizing thread.
LEMMA OrderTrack ==
    ASSUME NEW o, NEW t, NEW w, NEW name, NEW g \in [1..(N + 1) -> Int],
           \A i \in 1..N : Grows(o, t, w, Call(name, i - 1), g[i], g[i + 1])
    PROVE  Track(o, t, w, InThreadOrder(name), g[1], g[N + 1])
<1>1. N \in Nat
    BY ThreadsAre
<1>2. PICK s : s = InThreadOrder(name)
    OBVIOUS
<1>3. s = [i \in 1..N |-> Call(name, i - 1)]
    BY <1>2 DEF InThreadOrder, N
<1>4. Len(s) = N /\ \A i \in 1..N : s[i] = Call(name, i - 1)
    BY <1>1, <1>3
<1>5. Tracks(o, t, w, s, g[1], g[N + 1], g)
    BY <1>4 DEF Tracks
<1>6. QED
    BY <1>2, <1>5 DEF Track

LEMMA TurnsTrack ==
    ASSUME NEW o, NEW t \in Threads, NEW name, NEW a \in Int, NEW b \in Int,
           \A c : c.do = name /\ c.buf # t =>
                     Grows(o, t, 0, c, a, a) /\ Grows(o, t, 0, c, b, b),
           \A c : c.do = name /\ c.buf = t => Grows(o, t, 0, c, a, b)
    PROVE  Track(o, t, 0, InThreadOrder(name), a, b)
<1>1. PICK n \in Nat \ {0} : n = N
    BY ThreadsAre
<1>2. t \in 0..(n - 1)
    BY <1>1, ThreadsAre
<1> DEFINE g == [i \in 1..(n + 1) |-> IF i <= t + 1 THEN a ELSE b]
<1>3. g \in [1..(n + 1) -> Int] /\ g[1] = a /\ g[n + 1] = b
    BY <1>2
<1>4. \A i \in 1..n : /\ i - 1 < t => g[i] = a /\ g[i + 1] = a
                      /\ i - 1 = t => g[i] = a /\ g[i + 1] = b
                      /\ i - 1 > t => g[i] = b /\ g[i + 1] = b
    BY <1>2
<1> HIDE DEF g
<1>5. ASSUME NEW i \in 1..n  PROVE Grows(o, t, 0, Call(name, i - 1), g[i], g[i + 1])
    <2>1. PICK j \in Int : j = i - 1
        OBVIOUS
    <2>2. PICK c : c = Call(name, j)
        OBVIOUS
    <2>3. c.do = name /\ c.buf = j
        BY <2>2 DEF Call
    <2>4. j < t \/ j = t \/ j > t
        BY <1>2
    <2>5. CASE j < t
        <3>1. g[i] = a /\ g[i + 1] = a /\ c.buf # t
            BY <1>2, <1>4, <2>1, <2>3, <2>5
        <3>2. QED
            BY <2>1, <2>2, <2>3, <3>1
    <2>6. CASE j = t
        <3>1. g[i] = a /\ g[i + 1] = b /\ c.buf = t
            BY <1>4, <2>1, <2>3, <2>6
        <3>2. QED
            BY <2>1, <2>2, <2>3, <3>1
    <2>7. CASE j > t
        <3>1. g[i] = b /\ g[i + 1] = b /\ c.buf # t
            BY <1>2, <1>4, <2>1, <2>3, <2>7
        <3>2. QED
            BY <2>1, <2>2, <2>3, <3>1
    <2>8. QED
        BY <2>4, <2>5, <2>6, <2>7
<1>6. Track(o, t, 0, InThreadOrder(name), g[1], g[N + 1])
    BY <1>1, <1>3, <1>5, OrderTrack
<1>7. QED
    BY <1>1, <1>3, <1>6

LEMMA FinalizeTrack ==
    ASSUME me = 0, NEW o, Limited(o), NEW t \in Threads, NEW a \in Int, a < 0, NEW b \in Int
    PROVE  Track(o, t, 0, FinalizeCalls, a, b)
<1>1. 0 \in Threads
    BY ThreadsAre
<1>2. PICK r1 \in Seq(Calls) : r1 = Extrae_AnnotateTopology /\ r1 = BUFFER_INSERT(0, "cpu")
    BY <1>1, InsertTyped, NoEndCalls DEF Kinds, Extrae_AnnotateTopology
<1>3. PICK r2 \in Seq(Calls) : r2 = InThreadOrder("FlushIfAny")
    BY TurnsPushed, CallTyped, NoEndCalls DEF Plain
<1>4. PICK r3 \in Seq(Calls) : r3 = InThreadOrder("FinishIfAny")
    BY TurnsPushed, CallTyped, NoEndCalls DEF Plain
<1>5. PICK k \in Int : k = Full(o) /\ 1 <= k
    BY FullIs, Roomy DEF Full, Limited
<1>6. \A n \in Int : Keeps(a, 0, n) /\ Keeps(a, 1, n) /\ Keeps(a, 2, n)
    BY DEF Keeps
<1>7. Track(o, t, 0, r1, a, a)
    <2>1. Adds(t, InsertSingle(0, "cpu"), a, a)
        BY <1>6, AddsMore
    <2>2. QED
        BY <1>2, <2>1, InsertTrack
<1>8. PICK m \in Int : Track(o, t, 0, r2, a, m) /\ Track(o, t, 0, r3, m, a)
    <2>1. CASE t = 0 \/ o.circular # FALSE
        <3>1. \A c : c.do = "FlushIfAny" => Grows(o, t, 0, c, a, a)
            <4>1. ASSUME NEW c, c.do = "FlushIfAny"  PROVE Grows(o, t, 0, c, a, a)
                <5>1. a <= Full(o)
                    BY <1>5
                <5>2. Fires(o, t, 0, c, a, a)
                    BY <1>6, <2>1, <5>1 DEF Fires
                <5>3. QED
                    BY <4>1, <5>2, GrowsAre
            <4>2. QED
                BY <4>1
        <3>2. \A c : c.do = "FinishIfAny" => Grows(o, t, 0, c, a, a)
            <4>1. ASSUME NEW c, c.do = "FinishIfAny"  PROVE Grows(o, t, 0, c, a, a)
                <5>1. Lasts(o, t, 0, c, a, a)
                    BY DEF Lasts
                <5>2. QED
                    BY <4>1, <5>1, GrowsAre
            <4>2. QED
                BY <4>1
        <3>3. Track(o, t, 0, InThreadOrder("FlushIfAny"), a, a)
            BY <3>1, TurnsTrack
        <3>4. Track(o, t, 0, InThreadOrder("FinishIfAny"), a, a)
            BY <3>2, TurnsTrack
        <3>5. QED
            BY <1>3, <1>4, <3>3, <3>4
    <2>2. CASE t # 0 /\ o.circular = FALSE
        <3>1. Keeps(k, 0, k) /\ a + 2 <= k
            BY <1>5 DEF Keeps
        <3>2. ASSUME NEW c, c.do = "FlushIfAny"
              PROVE  /\ c.buf # t => Grows(o, t, 0, c, a, a) /\ Grows(o, t, 0, c, k, k)
                     /\ c.buf = t => Grows(o, t, 0, c, a, k)
            <4>1. c.buf # t => Fires(o, t, 0, c, a, a) /\ Fires(o, t, 0, c, k, k)
                BY <1>6, <2>2, <3>1 DEF Fires
            <4>2. c.buf = t => Fires(o, t, 0, c, a, k)
                <5>1. a <= Full(o) /\ Full(o) <= k
                    BY <1>5
                <5>2. QED
                    BY <2>2, <3>1, <5>1 DEF Fires
            <4>3. QED
                BY <3>2, <4>1, <4>2, GrowsAre
        <3>3. ASSUME NEW c, c.do = "FinishIfAny"
              PROVE  /\ c.buf # t => Grows(o, t, 0, c, k, k) /\ Grows(o, t, 0, c, a, a)
                     /\ c.buf = t => Grows(o, t, 0, c, k, a)
            <4>1. k <= Full(o) /\ k <= k
                BY <1>5
            <4>2. c.buf # t => Lasts(o, t, 0, c, k, k) /\ Lasts(o, t, 0, c, a, a)
                BY <2>2, <4>1 DEF Lasts
            <4>3. c.buf = t => Lasts(o, t, 0, c, k, a)
                BY <2>2, <4>1 DEF Lasts
            <4>4. QED
                BY <3>3, <4>2, <4>3, GrowsAre
        <3>4. Track(o, t, 0, InThreadOrder("FlushIfAny"), a, k)
            BY <3>2, TurnsTrack
        <3>5. Track(o, t, 0, InThreadOrder("FinishIfAny"), k, a)
            BY <3>3, TurnsTrack
        <3>6. QED
            BY <1>3, <1>4, <3>4, <3>5
    <2>3. QED
        BY <2>1, <2>2
<1>9. PICK e \in Seq(Calls) : e = Ending /\ Track(o, t, 0, e, a, b)
    <2>1. PICK c1 \in Calls, c2 \in Calls, c3 \in Calls :
             c1 = Call("Free", 0) /\ c2 = Call("TurnOff", 0) /\ c3 = Call("FinalizeEnds", 0)
        BY <1>1, CallTyped DEF Plain, NoEnd
    <2>2. c1.do = "Free" /\ c2.do \notin Moving /\ c3.do \notin Moving
        BY <2>1 DEF Call, Moving
    <2>3. Grows(o, t, 0, c1, a, b) /\ Grows(o, t, 0, c2, b, b) /\ Grows(o, t, 0, c3, b, b)
        BY <2>2, KeepsLevel, GrowsAre
    <2>4. <<c1, c2, c3>> \in Seq(Calls)
        OBVIOUS
    <2>5. PICK e \in Seq(Calls) : e = <<c1, c2, c3>>
        BY <2>4
    <2>6. Len(e) = 3 /\ e[1] = c1 /\ e[2] = c2 /\ e[3] = c3
        BY <2>5
    <2> DEFINE h == [i \in 1..4 |-> IF i = 1 THEN a ELSE b]
    <2>7. h \in [1..4 -> Int] /\ h[1] = a /\ h[2] = b /\ h[3] = b /\ h[4] = b
        OBVIOUS
    <2> HIDE DEF h
    <2>8. \A i \in 1..3 : i = 1 \/ i = 2 \/ i = 3
        OBVIOUS
    <2>9. \A i \in 1..3 : Grows(o, t, 0, e[i], h[i], h[i + 1])
        BY <2>3, <2>6, <2>7, <2>8
    <2>10. Tracks(o, t, 0, e, a, b, h)
        BY <2>6, <2>7, <2>9 DEF Tracks
    <2>11. e = Ending
        BY <2>1, <2>5 DEF Ending
    <2>12. QED
        BY <2>10, <2>11 DEF Track
<1>10. PICK s2 \in Seq(Calls) : s2 = r1 \o r2
    BY Joined
<1>11. Track(o, t, 0, s2, a, m)
    BY <1>7, <1>8, <1>10, TrackJoined
<1>12. PICK s3 \in Seq(Calls) : s3 = s2 \o r3
    BY Joined
<1>13. Track(o, t, 0, s3, a, a)
    BY <1>8, <1>11, <1>12, TrackJoined
<1>14. Track(o, t, 0, s3 \o e, a, b)
    BY <1>9, <1>13, TrackJoined
<1>15. s3 \o e = FinalizeCalls
    BY <1>2, <1>3, <1>4, <1>9, <1>10, <1>12, FinalizePushed DEF Turns
<1>16. QED
    BY <1>14, <1>15

-----------------------------------------------------------------------------
(* The invariant                                                            *)

\* The file of t takes events, and has reached the limit.
Grown(t) == live[t] = TRUE /\ open[t] = TRUE /\ options.limit <= Len(file[t])
Under(t, a) == Grown(t) => Len(file[t]) + Len(ring[t]) <= a
Bounded(t) == \E a \in Int : Under(t, a) /\ Track(options, t, me, stack, a, -1)
Small == \A t \in Threads : Len(file[t]) <= Full(options)
Sized == Small /\ (table = "live" => \A t \in Threads : Bounded(t))

LEMMA SizesAre ==
    ASSUME VarsTyped
    PROVE  /\ Limited(options)
           /\ \A t \in Threads : Len(file[t]) \in Nat /\ Len(ring[t]) \in Nat
<1>1. options \in Options
    BY DEF VarsTyped
<1>2. Limited(options)
    BY <1>1, BackendAssumption DEF Limited
<1>3. QED
    BY <1>2, LenProperties DEF VarsTyped

LEMMA UnderKept ==
    ASSUME VarsTyped, NEW t \in Threads, NEW a \in Int, NEW b \in Int, Under(t, a), Keeps(a, 0, b)
    PROVE  Under(t, b)
<1>1. PICK f \in Nat, r \in Nat : f = Len(file[t]) /\ r = Len(ring[t])
    BY SizesAre
<1>2. Grown(t) => f + r <= a
    BY <1>1 DEF Under
<1>3. a < 0 \/ a <= b
    BY DEF Keeps
<1>4. Grown(t) => f + r <= b
    BY <1>2, <1>3
<1>5. QED
    BY <1>1, <1>4 DEF Under

LEMMA UnderNone ==
    ASSUME VarsTyped, NEW t \in Threads, NEW a \in Int, a < 0, Under(t, a)
    PROVE  ~Grown(t)
<1>1. PICK f \in Nat, r \in Nat : f = Len(file[t]) /\ r = Len(ring[t])
    BY SizesAre
<1>2. SUFFICES ASSUME Grown(t)  PROVE FALSE
    OBVIOUS
<1>3. f + r <= a
    BY <1>1, <1>2 DEF Under
<1>4. QED
    BY <1>3

LEMMA BoundedStays ==
    ASSUME stack \in Seq(Calls), stack # <<>>, NEW t \in Threads, Bounded(t),
           NEW calls \in Seq(Calls), Return(calls), UNCHANGED <<me, options>>,
           \A a \in Int : \A b \in Int :
              Under(t, a) /\ Grows(options, t, me, Head(stack), a, b)
                => \E n \in Int : Under(t, n)' /\ Track(options, t, me, calls, n, b)
    PROVE  Bounded(t)'
<1>0. -1 \in Int
    OBVIOUS
<1>1. PICK a \in Int : Under(t, a) /\ Track(options, t, me, stack, a, -1)
    BY DEF Bounded
<1>2. PICK b \in Int : /\ Grows(options, t, me, Head(stack), a, b)
                       /\ Track(options, t, me, Tail(stack), b, -1)
    BY <1>0, <1>1, TrackRest
<1>3. PICK n \in Int : Under(t, n)' /\ Track(options, t, me, calls, n, b)
    BY <1>1, <1>2
<1>4. PICK r \in Seq(Calls) : r = Tail(stack)
    BY Rest
<1>5. Track(options, t, me, calls \o r, n, -1)
    BY <1>2, <1>3, <1>4, TrackJoined
<1>6. stack' = calls \o r
    BY <1>4 DEF Return
<1>7. Track(options', t, me', stack', n, -1)
    BY <1>5, <1>6
<1>8. QED
    BY <1>3, <1>7 DEF Bounded

\* What the calls that replace the one on top do to the file of t is what it does.
Stands(t, calls) ==
    \A a \in Int : \A b \in Int :
       Under(t, a) /\ Grows(options, t, me, Head(stack), a, b)
         => \E n \in Int : Under(t, n) /\ Track(options, t, me, calls, n, b)

LEMMA StandsNone ==
    ASSUME NEW t,
           \A a \in Int : \A b \in Int :
              Under(t, a) /\ Grows(options, t, me, Head(stack), a, b) => Under(t, b)
    PROVE  Stands(t, <<>>)
BY TrackNone DEF Stands

LEMMA StandsOne ==
    ASSUME NEW t, NEW c \in Calls,
           \A a \in Int : \A b \in Int :
              Under(t, a) /\ Grows(options, t, me, Head(stack), a, b)
                => Grows(options, t, me, c, a, b)
    PROVE  Stands(t, <<c>>)
<1>1. ASSUME NEW a \in Int, NEW b \in Int, Under(t, a), Grows(options, t, me, Head(stack), a, b)
      PROVE  Track(options, t, me, <<c>>, a, b)
    <2>1. Grows(options, t, me, c, a, b)
        BY <1>1
    <2>2. QED
        BY <2>1, TrackOne
<1>2. QED
    BY <1>1 DEF Stands

\* A step that only changes what is pending.
LEMMA PushSized ==
    ASSUME stack \in Seq(Calls), stack # <<>>, Sized,
           UNCHANGED <<ring, file, open, live, table, me, options>>,
           NEW calls \in Seq(Calls), Return(calls),
           table = "live" => \A t \in Threads : Stands(t, calls)
    PROVE  Sized'
<1>1. Small'
    BY DEF Sized, Small
<1>2. ASSUME table' = "live", NEW t \in Threads  PROVE Bounded(t)'
    <2>1. Bounded(t) /\ Stands(t, calls)
        BY <1>2 DEF Sized
    <2>2. ASSUME NEW a \in Int, NEW b \in Int, Under(t, a), Grows(options, t, me, Head(stack), a, b)
          PROVE  \E n \in Int : Under(t, n)' /\ Track(options, t, me, calls, n, b)
        <3>1. PICK n \in Int : Under(t, n) /\ Track(options, t, me, calls, n, b)
            BY <2>1, <2>2 DEF Stands
        <3>2. Under(t, n)'
            BY <3>1 DEF Under, Grown
        <3>3. QED
            BY <3>1, <3>2
    <2>3. QED
        BY <2>1, <2>2, BoundedStays
<1>3. QED
    BY <1>1, <1>2 DEF Sized

\* A step that makes the call on top, and puts none in its place.
LEMMA PopSized ==
    ASSUME stack \in Seq(Calls), stack # <<>>, Sized, table = "live",
           Return(<<>>), UNCHANGED <<me, options>>, Small',
           \A t \in Threads : \A a \in Int : \A b \in Int :
              Under(t, a) /\ Grows(options, t, me, Head(stack), a, b) => Under(t, b)'
    PROVE  Sized'
<1>1. ASSUME NEW t \in Threads  PROVE Bounded(t)'
    <2>1. Bounded(t)
        BY DEF Sized
    <2>2. ASSUME NEW a \in Int, NEW b \in Int, Under(t, a), Grows(options, t, me, Head(stack), a, b)
          PROVE  \E n \in Int : Under(t, n)' /\ Track(options, t, me, <<>>, n, b)
        BY <2>2, TrackNone
    <2>3. <<>> \in Seq(Calls)
        BY NoCalls
    <2>4. QED
        BY <2>1, <2>2, <2>3, BoundedStays
<1>2. QED
    BY <1>1 DEF Sized

-----------------------------------------------------------------------------
(* The steps                                                                *)

LEMMA FlagsSized ==
    ASSUME StackTyped, VarsTyped, Safe, Sized,
           \/ Inhibit \/ Desinhibit \/ ExecuteDeferred \/ TurnOff \/ SetNotInitialized
           \/ FinalizeEnds
    PROVE  Sized'
<1>0. stack \in Seq(Calls) /\ deferred = FALSE
    BY DEF StackTyped, Safe
<1>1. PICK name \in {"Signals_Inhibit", "Signals_Desinhibit", "Signals_ExecuteDeferred", "TurnOff",
                     "SetNotInitialized", "FinalizeEnds"} : Executes(name)
    BY DEF Inhibit, Desinhibit, ExecuteDeferred, TurnOff, SetNotInitialized, FinalizeEnds
<1>2. stack # <<>> /\ Head(stack).do = name
    BY <1>0, <1>1, OnTop
<1>3. Return(<<>>)
    BY <1>0 DEF Inhibit, Desinhibit, ExecuteDeferred, TurnOff, SetNotInitialized, FinalizeEnds
<1>4. UNCHANGED <<ring, file, open, live, table, me, options>>
    BY DEF Inhibit, Desinhibit, ExecuteDeferred, TurnOff, SetNotInitialized, FinalizeEnds,
       buffers, control
<1>5. Head(stack).do \notin Moving
    BY <1>1, <1>2 DEF Moving
<1>6. ASSUME NEW t \in Threads  PROVE Stands(t, <<>>)
    <2>1. ASSUME NEW a \in Int, NEW b \in Int, Under(t, a), Grows(options, t, me, Head(stack), a, b)
          PROVE  Under(t, b)
        <3>1. Keeps(a, 0, b)
            BY <1>5, <2>1, GrowsAre
        <3>2. QED
            BY <2>1, <3>1, UnderKept
    <2>2. QED
        BY <2>1, StandsNone
<1>7. QED
    BY <1>0, <1>2, <1>3, <1>4, <1>6, NoCalls, PushSized

LEMMA EnterSized ==
    ASSUME StackTyped, VarsTyped, Sized, Enter
    PROVE  Sized'
<1>0. stack \in Seq(Calls) /\ Executes("Enter")
    BY DEF StackTyped, Enter
<1>1. stack # <<>> /\ Head(stack).do = "Enter" /\ Top \in Threads /\ Head(stack).buf = Top
    BY <1>0, OnTop DEF Top
<1>2. UNCHANGED <<ring, file, open, live, table, me, options>>
    BY DEF Enter, buffers, control
<1>3. ASSUME NEW t, NEW a, NEW b, Grows(options, t, me, Head(stack), a, b)
      PROVE  a < 0 /\ (Top = t => me = t)
    BY <1>1, <1>3, GrowsAre
<1>4. CASE Return(<<Call("FlushCallback", Top)>>)
    <2>1. PICK c \in Calls : c = Call("FlushCallback", Top) /\ c.do = "FlushCallback" /\ c.buf = Top
        BY <1>1, CallbackIs
    <2>2. PICK k \in Int : k = Full(options) /\ 0 <= k
        BY SizesAre, FullIs, Roomy DEF Full, Limited
    <2>3. ASSUME NEW t \in Threads  PROVE Stands(t, <<c>>)
        <3>1. ASSUME NEW a \in Int, NEW b \in Int, Under(t, a),
                     Grows(options, t, me, Head(stack), a, b)
              PROVE  Grows(options, t, me, c, a, b)
            <4>1. a < 0 /\ (Top = t => me = t)
                BY <1>3, <3>1
            <4>2. Keeps(a, 0, b) /\ Keeps(a, 2, b)
                BY <4>1 DEF Keeps
            <4>3. a <= Full(options)
                BY <2>2, <4>1
            <4>4. Fires(options, t, me, c, a, b)
                BY <2>1, <4>1, <4>2, <4>3 DEF Fires
            <4>5. QED
                BY <2>1, <4>4, GrowsAre
        <3>2. QED
            BY <3>1, StandsOne
    <2>4. PICK s \in Seq(Calls) : s = <<c>>
        BY One
    <2>5. QED
        BY <1>0, <1>1, <1>2, <1>4, <2>1, <2>3, <2>4, PushSized
<1>5. CASE Return(<<>>)
    <2>1. ASSUME NEW t \in Threads, NEW a \in Int, NEW b \in Int, Under(t, a),
                 Grows(options, t, me, Head(stack), a, b)
          PROVE  Under(t, b)
        <3>1. a < 0
            BY <1>3, <2>1
        <3>2. Keeps(a, 0, b)
            BY <3>1 DEF Keeps
        <3>3. QED
            BY <2>1, <3>2, UnderKept
    <2>2. \A t \in Threads : Stands(t, <<>>)
        BY <2>1, StandsNone
    <2>3. QED
        BY <1>0, <1>1, <1>2, <1>5, <2>2, NoCalls, PushSized
<1>6. QED
    BY <1>4, <1>5 DEF Enter

LEMMA FlushIfAnySized ==
    ASSUME StackTyped, VarsTyped, Sized, FlushIfAny
    PROVE  Sized'
<1>0. stack \in Seq(Calls) /\ Executes("FlushIfAny")
    BY DEF StackTyped, FlushIfAny
<1>1. stack # <<>> /\ Head(stack).do = "FlushIfAny" /\ Top \in Threads /\ Head(stack).buf = Top
    BY <1>0, OnTop DEF Top
<1>2. UNCHANGED <<ring, file, open, live, table, me, options>>
    BY DEF FlushIfAny, buffers, control
<1>3. ASSUME NEW t, NEW a, NEW b, Grows(options, t, me, Head(stack), a, b)
      PROVE  Fires(options, t, me, Head(stack), a, b)
    BY <1>1, <1>3, GrowsAre
<1>4. CASE live[Top] = TRUE
    <2>1. Return(<<Call("FlushCallback", Top)>>)
        BY <1>4 DEF FlushIfAny
    <2>2. PICK c \in Calls : c = Call("FlushCallback", Top) /\ c.do = "FlushCallback" /\ c.buf = Top
        BY <1>1, CallbackIs
    <2>3. ASSUME NEW t \in Threads  PROVE Stands(t, <<c>>)
        <3>1. ASSUME NEW a \in Int, NEW b \in Int, Under(t, a),
                     Grows(options, t, me, Head(stack), a, b)
              PROVE  Grows(options, t, me, c, a, b)
            <4>1. Fires(options, t, me, Head(stack), a, b)
                BY <1>3, <3>1
            <4>2. Fires(options, t, me, c, a, b)
                BY <1>1, <2>2, <4>1 DEF Fires
            <4>3. QED
                BY <2>2, <4>2, GrowsAre
        <3>2. QED
            BY <3>1, StandsOne
    <2>4. PICK s \in Seq(Calls) : s = <<c>>
        BY One
    <2>5. QED
        BY <1>0, <1>1, <1>2, <2>1, <2>2, <2>3, <2>4, PushSized
<1>5. CASE live[Top] = FALSE
    <2>1. Return(<<>>)
        BY <1>5 DEF FlushIfAny
    <2>2. ASSUME NEW t \in Threads, NEW a \in Int, NEW b \in Int, Under(t, a),
                 Grows(options, t, me, Head(stack), a, b)
          PROVE  Under(t, b)
        <3>1. CASE t = Top
            BY <1>5, <3>1 DEF Under, Grown
        <3>2. CASE t # Top
            <4>1. Fires(options, t, me, Head(stack), a, b)
                BY <1>3, <2>2
            <4>2. Keeps(a, 2, b) \/ Keeps(a, 0, b)
                BY <1>1, <3>2, <4>1 DEF Fires
            <4>3. Keeps(a, 0, b)
                BY <4>2, KeepsMore
            <4>4. QED
                BY <2>2, <4>3, UnderKept
        <3>3. QED
            BY <3>1, <3>2
    <2>3. \A t \in Threads : Stands(t, <<>>)
        BY <2>2, StandsNone
    <2>4. QED
        BY <1>0, <1>1, <1>2, <2>1, <2>3, NoCalls, PushSized
<1>6. QED
    BY <1>1, <1>4, <1>5 DEF VarsTyped

\* The insertion flushes only if the oldest event is discarded.
LEMMA InsertSized ==
    ASSUME StackTyped, VarsTyped, Safe, Circular \/ Unnested, Sized, Buffer_InsertSingle
    PROVE  Sized'
<1>0. stack \in Seq(Calls) /\ Executes("InsertSingle")
    BY DEF StackTyped, Buffer_InsertSingle
<1>1. /\ stack # <<>> /\ Head(stack) \in Calls /\ Head(stack).do = "InsertSingle" /\ Top \in Threads
      /\ Head(stack).buf = Top /\ Head(stack).ev \in Kinds
    BY <1>0, OnTop DEF Top
<1>2. UNCHANGED <<ring, file, open, live, table, me, options>>
    BY DEF Buffer_InsertSingle, buffers, control
<1>3. ASSUME NEW t, NEW a, NEW b, Grows(options, t, me, Head(stack), a, b)
      PROVE  Adds(t, Head(stack), a, b)
    BY <1>1, <1>3, GrowsAre
<1>4. PICK c \in Calls : c = Store(Top, Head(stack).ev)
    BY <1>1, CallTyped DEF NoEnd
<1>5. c.do = "Store" /\ c.buf = Top
    BY <1>4 DEF Store
<1>6. ASSUME NEW t, NEW a, NEW b, Grows(options, t, me, Head(stack), a, b)
      PROVE  Grows(options, t, me, c, a, b)
    <2>1. Adds(t, Head(stack), a, b)
        BY <1>3, <1>6
    <2>2. Adds(t, c, a, b)
        BY <1>1, <1>5, <2>1 DEF Adds
    <2>3. QED
        BY <1>5, <2>2, GrowsAre
<1>7. PICK q \in Seq(Calls) : q = <<c>>
    BY One
<1>8. CASE Len(ring[Top]) - owed[Top] # MaxEvents
    <2>1. Return(<<>> \o <<c>>)
        BY <1>4, <1>8 DEF Buffer_InsertSingle
    <2>2. Return(q)
        BY <1>7, <2>1, ConcatEmptySeq
    <2>3. \A t \in Threads : Stands(t, q)
        BY <1>6, <1>7, StandsOne
    <2>4. QED
        BY <1>0, <1>1, <1>2, <2>2, <2>3, PushSized
<1>9. CASE Circular /\ Len(ring[Top]) - owed[Top] = MaxEvents
    <2>1. Return(<<Call("FlushCallback", Top)>> \o <<c>>)
        BY <1>4, <1>9 DEF Buffer_InsertSingle
    <2>2. PICK d \in Calls : d = Call("FlushCallback", Top) /\ d.do = "FlushCallback" /\ d.buf = Top
        BY <1>1, CallbackIs
    <2>3. PICK p \in Seq(Calls) : p = <<d>>
        BY One
    <2>4. PICK s \in Seq(Calls) : s = p \o q
        BY Joined
    <2>5. Return(s)
        BY <1>7, <2>1, <2>2, <2>3, <2>4
    <2>6. options.circular # FALSE
        BY <1>9 DEF Circular
    <2>7. ASSUME NEW t \in Threads, NEW a \in Int, NEW b \in Int,
                 Grows(options, t, me, Head(stack), a, b)
          PROVE  Track(options, t, me, s, a, b)
        <3>1. Fires(options, t, me, d, a, a)
            BY <2>6, KeepsLevel DEF Fires
        <3>2. Grows(options, t, me, d, a, a)
            BY <2>2, <3>1, GrowsAre
        <3>3. Track(options, t, me, p, a, a)
            BY <2>3, <3>2, TrackOne
        <3>4. Grows(options, t, me, c, a, b)
            BY <1>6, <2>7
        <3>5. Track(options, t, me, q, a, b)
            BY <1>7, <3>4, TrackOne
        <3>6. QED
            BY <2>4, <3>3, <3>5, TrackJoined
    <2>8. \A t \in Threads : Stands(t, s)
        BY <2>7 DEF Stands
    <2>9. QED
        BY <1>0, <1>1, <1>2, <2>5, <2>8, PushSized
<1>10. CASE Unnested
    <2>1. Len(ring[Top]) - owed[Top] # MaxEvents
        BY <1>0, <1>10, NotFull
    <2>2. QED
        BY <1>8, <2>1
<1>11. QED
    BY <1>8, <1>9, <1>10

LEMMA FlushSized ==
    ASSUME StackTyped, VarsTyped, Sized, FlushCallback
    PROVE  Sized'
<1>0. stack \in Seq(Calls) /\ Executes("FlushCallback") /\ me \in Threads
    BY DEF StackTyped, FlushCallback, VarsTyped
<1>1. stack # <<>> /\ Head(stack).do = "FlushCallback" /\ Top \in Threads /\ Head(stack).buf = Top
    BY <1>0, OnTop DEF Top
<1>2. UNCHANGED <<ring, file, open, live, table, me, options>>
    BY DEF FlushCallback, buffers, control
<1>3. Limited(options) /\ options.circular = FALSE
    BY SizesAre DEF FlushCallback, Circular, Limited
<1>4. ASSUME NEW t, NEW a, NEW b, Grows(options, t, me, Head(stack), a, b)
      PROVE  Fires(options, t, me, Head(stack), a, b)
    BY <1>1, <1>4, GrowsAre
<1>5. CASE open[Top] = TRUE
    <2>1. Return(Extrae_Flush_Wrapper(Top))
        BY <1>5 DEF FlushCallback
    <2>2. ASSUME NEW t \in Threads, NEW a \in Int, NEW b \in Int,
                 Grows(options, t, me, Head(stack), a, b)
          PROVE  Track(options, t, me, Extrae_Flush_Wrapper(Top), a, b)
        <3>1. Fires(options, t, me, Head(stack), a, b)
            BY <1>4, <2>2
        <3>2. QED
            BY <1>0, <1>1, <1>3, <3>1, FlushTrack
    <2>3. \A t \in Threads : Stands(t, Extrae_Flush_Wrapper(Top))
        BY <2>2 DEF Stands
    <2>4. QED
        BY <1>0, <1>1, <1>2, <2>1, <2>3, WrapperOrderly, PushSized
<1>6. CASE open[Top] = FALSE
    <2>1. Return(<<>>)
        BY <1>6 DEF FlushCallback
    <2>2. ASSUME NEW t \in Threads, NEW a \in Int, NEW b \in Int, Under(t, a),
                 Grows(options, t, me, Head(stack), a, b)
          PROVE  Under(t, b)
        <3>1. CASE t = Top
            BY <1>6, <3>1 DEF Under, Grown
        <3>2. CASE t # Top
            <4>1. Fires(options, t, me, Head(stack), a, b)
                BY <1>4, <2>2
            <4>2. Keeps(a, 2, b) \/ Keeps(a, 0, b)
                BY <1>1, <3>2, <4>1 DEF Fires
            <4>3. Keeps(a, 0, b)
                BY <4>2, KeepsMore
            <4>4. QED
                BY <2>2, <4>3, UnderKept
        <3>3. QED
            BY <3>1, <3>2
    <2>3. \A t \in Threads : Stands(t, <<>>)
        BY <2>2, StandsNone
    <2>4. QED
        BY <1>0, <1>1, <1>2, <2>1, <2>3, NoCalls, PushSized
<1>7. QED
    BY <1>1, <1>5, <1>6 DEF VarsTyped

LEMMA CheckSized ==
    ASSUME StackTyped, VarsTyped, Sized, FileLimit > 0, CheckFileSize
    PROVE  Sized'
<1>0. stack \in Seq(Calls) /\ Executes("CheckFileSize") /\ me \in Threads
    BY DEF StackTyped, CheckFileSize, VarsTyped
<1>1. stack # <<>> /\ Head(stack).do = "CheckFileSize" /\ Top \in Threads /\ Head(stack).buf = Top
    BY <1>0, OnTop DEF Top
<1>2. UNCHANGED <<ring, file, open, live, table, me, options>>
    BY DEF CheckFileSize, buffers, control
<1>3. ASSUME NEW t, NEW a, NEW b, Grows(options, t, me, Head(stack), a, b)
      PROVE  (me = t /\ Top = t) \/ Keeps(a, 0, b)
    BY <1>1, <1>3, GrowsAre
<1>4. CASE open[Top] /\ LimitReached(Top)
    <2>1. Return(<<Call("close_mpits", me), Call("TurnOff", 0)>>)
        BY <1>4 DEF CheckFileSize
    <2>2. PICK c \in Calls : c = Call("close_mpits", me)
        BY <1>0, CallTyped DEF Plain, NoEnd
    <2>3. PICK d \in Calls : d = Call("TurnOff", 0)
        BY ThreadsAre, CallTyped DEF Plain, NoEnd
    <2>4. c.do = "close_mpits" /\ c.buf = me /\ d.do \notin Moving
        BY <2>2, <2>3 DEF Call, Moving
    <2>5. PICK p \in Seq(Calls), q \in Seq(Calls) : p = <<c>> /\ q = <<d>>
        BY One
    <2>6. p \o q = <<c, d>> /\ p \o q \in Seq(Calls)
        BY <2>5, PairOf, Joined
    <2>7. Return(p \o q)
        BY <2>1, <2>2, <2>3, <2>6
    <2>8. ASSUME NEW t \in Threads, NEW a \in Int, NEW b \in Int,
                 Grows(options, t, me, Head(stack), a, b)
          PROVE  Track(options, t, me, p \o q, a, b)
        <3>1. me = t \/ Keeps(a, 0, b)
            BY <1>3, <2>8
        <3>2. Grows(options, t, me, c, a, b)
            BY <2>4, <3>1, GrowsAre
        <3>3. Grows(options, t, me, d, b, b)
            BY <2>4, KeepsLevel, GrowsAre
        <3>4. Track(options, t, me, p, a, b) /\ Track(options, t, me, q, b, b)
            BY <2>5, <3>2, <3>3, TrackOne
        <3>5. QED
            BY <3>4, TrackJoined
    <2>9. \A t \in Threads : Stands(t, p \o q)
        BY <2>8 DEF Stands
    <2>10. QED
        BY <1>0, <1>1, <1>2, <2>6, <2>7, <2>9, PushSized
<1>5. CASE ~(open[Top] /\ LimitReached(Top))
    <2>1. Return(<<>>)
        BY <1>5 DEF CheckFileSize
    <2>2. ~Grown(Top)
        <3>1. PICK f \in Nat, l \in Nat : f = Len(file[Top]) /\ l = options.limit
            BY <1>1, SizesAre DEF Limited
        <3>2. l <= f <=> f >= l
            OBVIOUS
        <3>3. QED
            BY <1>5, <3>1, <3>2 DEF Grown, LimitReached, FileLimit
    <2>3. ASSUME NEW t \in Threads, NEW a \in Int, NEW b \in Int, Under(t, a),
                 Grows(options, t, me, Head(stack), a, b)
          PROVE  Under(t, b)
        <3>1. CASE me = t /\ Top = t
            BY <2>2, <3>1 DEF Under
        <3>2. CASE Keeps(a, 0, b)
            BY <2>3, <3>2, UnderKept
        <3>3. QED
            BY <1>3, <2>3, <3>1, <3>2
    <2>4. \A t \in Threads : Stands(t, <<>>)
        BY <2>3, StandsNone
    <2>5. QED
        BY <1>0, <1>1, <1>2, <2>1, <2>4, NoCalls, PushSized
<1>6. QED
    BY <1>4, <1>5

LEMMA FinishSized ==
    ASSUME StackTyped, VarsTyped, Sized, FinishIfAny
    PROVE  Sized'
<1>0. stack \in Seq(Calls) /\ Executes("FinishIfAny") /\ me \in Threads
    BY DEF StackTyped, FinishIfAny, VarsTyped
<1>1. stack # <<>> /\ Head(stack).do = "FinishIfAny" /\ Top \in Threads /\ Head(stack).buf = Top
    BY <1>0, OnTop DEF Top
<1>2. UNCHANGED <<ring, file, open, live, table, me, options>>
    BY DEF FinishIfAny, buffers, control
<1>3. ASSUME NEW t, NEW a, NEW b, Grows(options, t, me, Head(stack), a, b)
      PROVE  Lasts(options, t, me, Head(stack), a, b)
    BY <1>1, <1>3, GrowsAre
<1>4. CASE live[Top] = TRUE
    <2>1. Return(Finish(Top))
        BY <1>4 DEF FinishIfAny
    <2>2. Finish(Top) \in Seq(Calls)
        <3>1. BUFFER_INSERT(me, "end") \in Seq(Calls)
            BY <1>0, InsertTyped, NoEndCalls DEF Kinds
        <3>2. Call("FlushCallback", Top) \in Calls /\ Call("close_mpits", Top) \in Calls
            BY <1>1, CallTyped DEF Plain, NoEnd
        <3>3. QED
            BY <3>1, <3>2, FinishPushed
    <2>3. ASSUME NEW t \in Threads, NEW a \in Int, NEW b \in Int,
                 Grows(options, t, me, Head(stack), a, b)
          PROVE  Track(options, t, me, Finish(Top), a, b)
        <3>1. Lasts(options, t, me, Head(stack), a, b)
            BY <1>3, <2>3
        <3>2. QED
            BY <1>0, <1>1, <3>1, SizesAre, FinishTrack
    <2>4. \A t \in Threads : Stands(t, Finish(Top))
        BY <2>3 DEF Stands
    <2>5. QED
        BY <1>0, <1>1, <1>2, <2>1, <2>2, <2>4, PushSized
<1>5. CASE live[Top] = FALSE
    <2>1. Return(<<>>)
        BY <1>5 DEF FinishIfAny
    <2>2. ASSUME NEW t \in Threads, NEW a \in Int, NEW b \in Int, Under(t, a),
                 Grows(options, t, me, Head(stack), a, b)
          PROVE  Under(t, b)
        <3>1. CASE t = Top
            BY <1>5, <3>1 DEF Under, Grown
        <3>2. CASE t # Top
            <4>1. Lasts(options, t, me, Head(stack), a, b)
                BY <1>3, <2>2
            <4>2. a < 0 \/ a <= b
                BY <1>1, <3>2, <4>1 DEF Lasts
            <4>3. Keeps(a, 0, b)
                BY <4>2 DEF Keeps
            <4>4. QED
                BY <2>2, <4>3, UnderKept
        <3>3. QED
            BY <3>1, <3>2
    <2>3. \A t \in Threads : Stands(t, <<>>)
        BY <2>2, StandsNone
    <2>4. QED
        BY <1>0, <1>1, <1>2, <2>1, <2>3, NoCalls, PushSized
<1>6. QED
    BY <1>1, <1>4, <1>5 DEF VarsTyped

LEMMA FinalizeSized ==
    ASSUME StackTyped, VarsTyped, Sized, Backend_Finalize
    PROVE  Sized'
<1>0. stack \in Seq(Calls) /\ Executes("Backend_Finalize") /\ me \in Threads
    BY DEF StackTyped, Backend_Finalize, VarsTyped
<1>1. stack # <<>> /\ Head(stack).do = "Backend_Finalize"
    BY <1>0, OnTop
<1>2. UNCHANGED <<ring, file, open, live, table, me, options>> /\ Return(FinalizeCalls)
    BY DEF Backend_Finalize, buffers, control
<1>3. FinalizeCalls \in Seq(Calls)
    BY <1>0, PassiveFinalize, PassiveCalls, Wider
<1>4. ASSUME NEW t \in Threads, NEW a \in Int, NEW b \in Int,
             Grows(options, t, me, Head(stack), a, b)
      PROVE  Track(options, t, me, FinalizeCalls, a, b)
    <2>1. a < 0 /\ me = 0
        BY <1>1, <1>4, GrowsAre
    <2>2. Track(options, t, 0, FinalizeCalls, a, b)
        BY <2>1, SizesAre, FinalizeTrack
    <2>3. QED
        BY <2>1, <2>2
<1>5. \A t \in Threads : Stands(t, FinalizeCalls)
    BY <1>4 DEF Stands
<1>6. QED
    BY <1>0, <1>1, <1>2, <1>3, <1>5, PushSized

LEMMA StoreSized ==
    ASSUME StackTyped, VarsTyped, Safe, Sized, StoreEvent
    PROVE  Sized'
<1>0. stack \in Seq(Calls) /\ Executes("Store")
    BY DEF StackTyped, StoreEvent
<1>1. /\ stack # <<>> /\ Head(stack).do = "Store" /\ Top \in Threads
      /\ Head(stack).buf = Top /\ Head(stack).ev \in Kinds
    BY <1>0, OnTop DEF Top
<1>2. UNCHANGED <<file, open, live, table, me, options>> /\ Return(<<>>)
    BY DEF StoreEvent, control
<1>3. table = "live"
    BY <1>0, TopUses DEF Accesses
<1>4. ring \in [Threads -> Seq(Kinds)] /\ ring[Top] \in Seq(Kinds)
    BY <1>1 DEF VarsTyped
<1>5. ring' = ring \/ ring' = [ring EXCEPT ![Top] = Append(@, Head(stack).ev)]
    BY DEF StoreEvent
<1>6. Small'
    BY <1>2 DEF Sized, Small
<1>7. ASSUME NEW t \in Threads, NEW a \in Int, NEW b \in Int, Under(t, a),
             Grows(options, t, me, Head(stack), a, b)
      PROVE  Under(t, b)'
    <2>1. Adds(t, Head(stack), a, b)
        BY <1>1, <1>7, GrowsAre
    <2>2. Keeps(a, 1, b) => Keeps(a, 0, b)
        BY KeepsMore
    <2>3. Keeps(a, 0, b)
        BY <2>1, <2>2 DEF Adds
    <2>4. Under(t, b)
        BY <1>7, <2>3, UnderKept
    <2>5. CASE ring'[t] = ring[t]
        BY <1>2, <2>4, <2>5 DEF Under, Grown
    <2>6. CASE t = Top /\ ring'[t] = Append(ring[t], Head(stack).ev)
        <3>1. PICK f \in Nat, r \in Nat : f = Len(file[t]) /\ r = Len(ring[t])
            BY SizesAre
        <3>2. Len(ring'[t]) = r + 1
            BY <1>1, <1>4, <2>6, <3>1, AppendProperties
        <3>3. Keeps(a, 1, b)
            BY <1>1, <2>1, <2>6 DEF Adds
        <3>4. ASSUME Grown(t)  PROVE f + (r + 1) <= b
            <4>1. f + r <= a
                BY <1>7, <3>1, <3>4 DEF Under
            <4>2. a < 0 \/ a + 1 <= b
                BY <3>3 DEF Keeps
            <4>3. QED
                BY <4>1, <4>2
        <3>5. Grown(t)' => Grown(t)
            BY <1>2 DEF Grown
        <3>6. QED
            BY <1>2, <3>1, <3>2, <3>4, <3>5 DEF Under
    <2>7. ring'[t] = ring[t] \/ (t = Top /\ ring'[t] = Append(ring[t], Head(stack).ev))
        BY <1>1, <1>4, <1>5
    <2>8. QED
        BY <2>5, <2>6, <2>7
<1>8. QED
    BY <1>0, <1>1, <1>2, <1>3, <1>6, <1>7, PopSized

LEMMA OldestSized ==
    ASSUME StackTyped, VarsTyped, Safe, Sized, DiscardOldest
    PROVE  Sized'
<1>0. stack \in Seq(Calls) /\ Executes("FlushCallback")
    BY DEF StackTyped, DiscardOldest
<1>1. stack # <<>> /\ Head(stack).do = "FlushCallback" /\ Top \in Threads
    BY <1>0, OnTop
<1>2. UNCHANGED <<file, open, live, table, me, options>> /\ Return(<<>>)
    BY DEF DiscardOldest, control
<1>3. table = "live"
    BY <1>0, TopUses DEF Accesses
<1>4. ring \in [Threads -> Seq(Kinds)] /\ ring[Top] \in Seq(Kinds)
    BY <1>1 DEF VarsTyped
<1>5. ring' = ring \/ (ring[Top] # <<>> /\ ring' = [ring EXCEPT ![Top] = Tail(@)])
    BY DEF DiscardOldest
<1>6. Small'
    BY <1>2 DEF Sized, Small
<1>7. options.circular # FALSE
    BY SizesAre DEF DiscardOldest, Circular, Limited
<1>8. ASSUME NEW t \in Threads, NEW a \in Int, NEW b \in Int, Under(t, a),
             Grows(options, t, me, Head(stack), a, b)
      PROVE  Under(t, b)'
    <2>1. Fires(options, t, me, Head(stack), a, b)
        BY <1>1, <1>8, GrowsAre
    <2>2. Keeps(a, 0, b)
        BY <1>7, <2>1 DEF Fires
    <2>3. Under(t, b)
        BY <1>8, <2>2, UnderKept
    <2>4. CASE ring'[t] = ring[t]
        BY <1>2, <2>3, <2>4 DEF Under, Grown
    <2>5. CASE t = Top /\ ring[t] # <<>> /\ ring'[t] = Tail(ring[t])
        <3>1. PICK f \in Nat, r \in Nat : f = Len(file[t]) /\ r = Len(ring[t])
            BY SizesAre
        <3>2. Len(ring'[t]) = r - 1
            BY <1>4, <2>5, <3>1, Rest
        <3>3. ASSUME Grown(t)  PROVE f + (r - 1) <= b
            <4>1. f + r <= b
                BY <2>3, <3>1, <3>3 DEF Under
            <4>2. QED
                BY <4>1
        <3>4. Grown(t)' => Grown(t)
            BY <1>2 DEF Grown
        <3>5. QED
            BY <1>2, <3>1, <3>2, <3>3, <3>4 DEF Under
    <2>6. ring'[t] = ring[t] \/ (t = Top /\ ring[t] # <<>> /\ ring'[t] = Tail(ring[t]))
        BY <1>1, <1>4, <1>5
    <2>7. QED
        BY <2>4, <2>5, <2>6
<1>9. QED
    BY <1>0, <1>1, <1>2, <1>3, <1>6, <1>8, PopSized

\* A file below the limit takes a ring at most; one that has reached it, what it is bound to.
LEMMA WritesSized ==
    ASSUME StackTyped, VarsTyped, Safe, Holds, Sized, Buffer_Flush
    PROVE  Sized'
<1>0. stack \in Seq(Calls) /\ Executes("Buffer_Flush")
    BY DEF StackTyped, Buffer_Flush
<1>1. /\ stack # <<>> /\ Head(stack).do = "Buffer_Flush" /\ Top \in Threads
      /\ Head(stack).buf = Top
    BY <1>0, OnTop DEF Top
<1>2. UNCHANGED <<open, live, table, me, options>> /\ Return(<<>>) /\ live[Top] = TRUE
    BY <1>1 DEF Buffer_Flush, control, Accessible, VarsTyped
<1>3. table = "live"
    BY <1>0, TopUses DEF Accesses
<1>4. ring \in [Threads -> Seq(Kinds)] /\ file \in [Threads -> Seq(Kinds)]
    BY DEF VarsTyped
<1>5. /\ open[Top] = TRUE => /\ file' = [file EXCEPT ![Top] = @ \o ring[Top]]
                             /\ ring' = [ring EXCEPT ![Top] = <<>>]
      /\ open[Top] = FALSE => ring' = ring /\ file' = file
    BY DEF Buffer_Flush
<1>6. PICK f \in Nat, r \in Nat, l \in Nat : f = Len(file[Top]) /\ r = Len(ring[Top]) /\ l = options.limit
    BY <1>1, SizesAre DEF Limited
<1>7. MaxEvents \in Nat /\ r <= MaxEvents
    BY <1>1, <1>6, Roomy DEF Holds
<1>8. PICK k \in Int : k = Full(options) /\ k = l + MaxEvents + 1
    BY <1>6, <1>7 DEF Full
<1>9. \/ open[Top] = FALSE /\ ring' = ring /\ file' = file
      \/ /\ open[Top] = TRUE /\ Len(file'[Top]) = f + r /\ Len(ring'[Top]) = 0
         /\ \A t \in Threads \ {Top} : file'[t] = file[t] /\ ring'[t] = ring[t]
    <2>1. CASE open[Top] = TRUE
        <3>1. file'[Top] = file[Top] \o ring[Top] /\ ring'[Top] = <<>>
            BY <1>1, <1>4, <1>5, <2>1
        <3>2. Len(file'[Top]) = f + r
            BY <1>1, <1>4, <1>6, <3>1, Joined
        <3>3. \A t \in Threads \ {Top} : file'[t] = file[t] /\ ring'[t] = ring[t]
            BY <1>4, <1>5, <2>1
        <3>4. Len(ring'[Top]) = 0
            BY <3>1
        <3>5. QED
            BY <2>1, <3>2, <3>3, <3>4
    <2>2. CASE open[Top] = FALSE
        BY <1>5, <2>2
    <2>3. QED
        BY <1>1, <2>1, <2>2 DEF VarsTyped
<1>10. ASSUME NEW a \in Int, NEW b \in Int, Under(Top, a), open[Top] = TRUE,
              Grows(options, Top, me, Head(stack), a, b)
       PROVE  f + r <= b /\ f + r <= k
    <2>1. Drains(options, Top, Head(stack), a, b)
        BY <1>1, <1>10, GrowsAre
    <2>2. a <= k /\ a <= b /\ k - 2 <= b
        BY <1>1, <1>8, <2>1 DEF Drains
    <2>3. CASE l <= f
        <3>1. Grown(Top)
            BY <1>2, <1>6, <1>10, <2>3 DEF Grown
        <3>2. f + r <= a
            BY <1>6, <1>10, <3>1 DEF Under
        <3>3. QED
            BY <2>2, <3>2
    <2>4. CASE f < l
        <3>1. r <= MaxEvents /\ k = l + MaxEvents + 1
            BY <1>7, <1>8
        <3>2. f + r <= k - 2
            BY <1>7, <2>4, <3>1
        <3>3. QED
            BY <2>2, <3>2
    <2>5. QED
        BY <2>3, <2>4
<1>11. Small'
    <2>1. ASSUME NEW t \in Threads  PROVE Len(file'[t]) <= Full(options)
        <3>1. CASE file'[t] = file[t]
            BY <3>1 DEF Sized, Small
        <3>2. CASE t = Top /\ open[Top] = TRUE /\ Len(file'[Top]) = f + r
            <4>1. PICK a \in Int : Under(Top, a) /\ Track(options, Top, me, stack, a, -1)
                BY <1>1, <1>3 DEF Sized, Bounded
            <4>2. PICK b \in Int : Grows(options, Top, me, Head(stack), a, b)
                <5>1. -1 \in Int
                    OBVIOUS
                <5>2. QED
                    BY <1>0, <1>1, <4>1, <5>1, TrackRest
            <4>3. f + r <= k
                BY <1>10, <3>2, <4>1, <4>2
            <4>4. QED
                BY <1>8, <3>2, <4>3
        <3>3. QED
            BY <1>9, <3>1, <3>2
    <2>2. QED
        BY <1>2, <2>1 DEF Small, Full
<1>12. ASSUME NEW t \in Threads, NEW a \in Int, NEW b \in Int, Under(t, a),
              Grows(options, t, me, Head(stack), a, b)
       PROVE  Under(t, b)'
    <2>1. CASE t # Top
        <3>1. Drains(options, t, Head(stack), a, b)
            BY <1>1, <1>12, GrowsAre
        <3>2. Keeps(a, 0, b)
            BY <1>1, <2>1, <3>1 DEF Drains
        <3>3. Under(t, b)
            BY <1>12, <3>2, UnderKept
        <3>4. file'[t] = file[t] /\ ring'[t] = ring[t]
            BY <1>9, <2>1
        <3>5. QED
            BY <1>2, <3>3, <3>4 DEF Under, Grown
    <2>2. CASE t = Top /\ open[Top] = FALSE
        BY <1>2, <2>2 DEF Under, Grown
    <2>3. CASE t = Top /\ open[Top] = TRUE
        <3>1. f + r <= b
            BY <1>10, <1>12, <2>3
        <3>2. Len(file'[t]) = f + r /\ Len(ring'[t]) = 0
            BY <1>9, <2>3
        <3>3. (f + r) + 0 <= b
            BY <3>1
        <3>4. QED
            BY <3>2, <3>3 DEF Under
    <2>4. QED
        BY <1>1, <2>1, <2>2, <2>3 DEF VarsTyped
<1>13. QED
    BY <1>0, <1>1, <1>2, <1>3, <1>11, <1>12, PopSized

LEMMA CloseSized ==
    ASSUME StackTyped, VarsTyped, Safe, Sized, Close_mpits
    PROVE  Sized'
<1>0. stack \in Seq(Calls) /\ Executes("close_mpits")
    BY DEF StackTyped, Close_mpits
<1>1. /\ stack # <<>> /\ Head(stack).do = "close_mpits" /\ Top \in Threads
      /\ Head(stack).buf = Top
    BY <1>0, OnTop DEF Top
<1>2. UNCHANGED <<ring, file, live, table, me, options>> /\ Return(<<>>)
    BY DEF Close_mpits, control
<1>3. table = "live"
    BY <1>0, TopUses DEF Accesses
<1>4. open \in [Threads -> BOOLEAN] /\ open' = [open EXCEPT ![Top] = FALSE]
    BY DEF VarsTyped, Close_mpits
<1>5. Small'
    BY <1>2 DEF Sized, Small
<1>6. ASSUME NEW t \in Threads, NEW a \in Int, NEW b \in Int, Under(t, a),
             Grows(options, t, me, Head(stack), a, b)
      PROVE  Under(t, b)'
    <2>1. CASE t = Top
        <3>1. open'[t] = FALSE
            BY <1>1, <1>4, <2>1
        <3>2. QED
            BY <3>1 DEF Under, Grown
    <2>2. CASE t # Top
        <3>1. Keeps(a, 0, b)
            BY <1>1, <1>6, <2>2, GrowsAre
        <3>2. Under(t, b)
            BY <1>6, <3>1, UnderKept
        <3>3. open'[t] = open[t]
            BY <1>4, <2>2
        <3>4. QED
            BY <1>2, <3>2, <3>3 DEF Under, Grown
    <2>3. QED
        BY <2>1, <2>2
<1>7. QED
    BY <1>0, <1>1, <1>2, <1>3, <1>5, <1>6, PopSized

LEMMA BufferFreeSized ==
    ASSUME StackTyped, VarsTyped, Safe, Sized, Buffer_Free
    PROVE  Sized'
<1>0. stack \in Seq(Calls) /\ Executes("Buffer_Free")
    BY DEF StackTyped, Buffer_Free
<1>1. stack # <<>> /\ Head(stack).do = "Buffer_Free" /\ Top \in Threads
    BY <1>0, OnTop
<1>2. UNCHANGED <<ring, file, open, table, me, options>> /\ Return(<<>>)
    BY DEF Buffer_Free, control
<1>3. table = "live"
    BY <1>0, TopUses
<1>4. live \in [Threads -> BOOLEAN] /\ live' = [live EXCEPT ![Top] = FALSE]
    BY DEF VarsTyped, Buffer_Free
<1>5. Small'
    BY <1>2 DEF Sized, Small
<1>6. ASSUME NEW t \in Threads, NEW a \in Int, NEW b \in Int, Under(t, a),
             Grows(options, t, me, Head(stack), a, b)
      PROVE  Under(t, b)'
    <2>1. Head(stack).do \notin Moving
        BY <1>1 DEF Moving
    <2>2. Keeps(a, 0, b)
        BY <1>6, <2>1, GrowsAre
    <2>3. Under(t, b)
        BY <1>6, <2>2, UnderKept
    <2>4. live'[t] = FALSE \/ live'[t] = live[t]
        BY <1>1, <1>4
    <2>5. QED
        BY <1>2, <2>3, <2>4 DEF Under, Grown
<1>7. QED
    BY <1>0, <1>1, <1>2, <1>3, <1>5, <1>6, PopSized

LEMMA FreeSized ==
    ASSUME Sized, Free
    PROVE  Sized'
BY DEF Free, Sized, Small

\* Nothing is pending: a call from outside.
LEMMA IdleSized ==
    ASSUME Sized, UNCHANGED <<ring, file, open, live, table, options>>, stack = <<>>,
           NEW calls \in Seq(Calls), stack' = calls,
           \A t \in Threads : Track(options, t, me', calls, -1, -1)
    PROVE  Sized'
<1>1. Small'
    BY DEF Sized, Small
<1>2. ASSUME table' = "live", NEW t \in Threads  PROVE Bounded(t)'
    <2>1. PICK m \in Int : m = -1
        OBVIOUS
    <2>2. PICK a \in Int : Under(t, a) /\ Track(options, t, me, stack, a, m)
        BY <1>2, <2>1 DEF Sized, Bounded
    <2>3. PICK h : Tracks(options, t, me, stack, a, m, h)
        BY <2>2 DEF Track
    <2>4. Len(stack) = 0
        OBVIOUS
    <2>5. h[1] = a /\ h[0 + 1] = m
        BY <2>3, <2>4 DEF Tracks
    <2>6. Under(t, m)
        BY <2>2, <2>5
    <2>7. Under(t, m)'
        BY <2>6 DEF Under, Grown
    <2>8. Track(options', t, me', stack', m, -1)
        BY <2>1
    <2>9. QED
        BY <2>7, <2>8 DEF Bounded
<1>3. QED
    BY <1>1, <1>2 DEF Sized

LEMMA ProbeSized ==
    ASSUME Sized, Probe
    PROVE  Sized'
<1>0. stack = <<>> /\ UNCHANGED <<ring, file, open, live, table, options>>
    BY DEF Probe, Idle, buffers
<1>1. PICK u \in Threads : me' = u /\ stack' = <<Call("Enter", u)>> \o BUFFER_INSERT(u, "user")
    BY DEF Probe
<1>2. PICK c \in Calls : c = Call("Enter", u)
    BY CallTyped DEF Plain, NoEnd
<1>3. c.do = "Enter" /\ c.buf = u
    BY <1>2 DEF Call
<1>4. PICK r \in Seq(Calls) : r = BUFFER_INSERT(u, "user")
    BY InsertTyped, NoEndCalls DEF Kinds
<1>5. PICK q \in Seq(Calls) : q = <<c>>
    BY One
<1>6. PICK s \in Seq(Calls) : s = q \o r
    BY Joined
<1>7. stack' = s
    BY <1>1, <1>2, <1>4, <1>5, <1>6
<1>8. PICK m \in Int : m = -1 /\ m < 0
    OBVIOUS
<1>9. ASSUME NEW t \in Threads  PROVE Track(options, t, u, s, m, m)
    <2>1. Grows(options, t, u, c, m, m)
        BY <1>3, <1>8, GrowsAre
    <2>2. Track(options, t, u, q, m, m)
        BY <1>5, <2>1, TrackOne
    <2>3. Keeps(m, 1, m) /\ Keeps(m, 0, m)
        BY <1>8 DEF Keeps
    <2>4. Adds(t, InsertSingle(u, "user"), m, m)
        BY <2>3, AddsMore
    <2>5. Track(options, t, u, r, m, m)
        BY <1>4, <2>4, InsertTrack
    <2>6. QED
        BY <1>6, <2>2, <2>5, TrackJoined
<1>10. QED
    BY <1>0, <1>1, <1>7, <1>8, <1>9, IdleSized

LEMMA ThreadEndsSized ==
    ASSUME VarsTyped, Sized, ThreadEnds
    PROVE  Sized'
<1>0. stack = <<>> /\ UNCHANGED <<ring, file, open, live, table, options>>
    BY DEF ThreadEnds, Idle, buffers
<1>1. PICK u \in Threads : me' = u /\ stack' = FlushThread(u)
    BY DEF ThreadEnds
<1>2. PICK c1 \in Calls, c2 \in Calls, c3 \in Calls :
         /\ c1 = Call("Buffer_Flush", u) /\ c2 = Call("close_mpits", u) /\ c3 = Call("Buffer_Free", u)
    BY CallTyped DEF Plain, NoEnd
<1>3. /\ c1.do = "Buffer_Flush" /\ c1.buf = u /\ c2.do = "close_mpits" /\ c2.buf = u
      /\ c3.do \notin Moving
    BY <1>2 DEF Call, Moving
<1>4. PICK s \in Seq(Calls) : s = <<c1, c2, c3>>
    <2>1. <<c1, c2, c3>> \in Seq(Calls)
        OBVIOUS
    <2>2. QED
        BY <2>1
<1>5. Len(s) = 3 /\ s[1] = c1 /\ s[2] = c2 /\ s[3] = c3 /\ \A i \in 1..3 : i = 1 \/ i = 2 \/ i = 3
    BY <1>4
<1>6. stack' = s
    BY <1>1, <1>2, <1>4 DEF FlushThread
<1>7. PICK m \in Int : m = -1 /\ m < 0
    OBVIOUS
<1>8. PICK k \in Int : k = Full(options) /\ 8 <= k
    BY SizesAre, FullIs, Roomy DEF Full, Limited
<1>9. Keeps(m, 0, m)
    BY <1>7 DEF Keeps
<1>10. ASSUME NEW t \in Threads  PROVE Track(options, t, u, s, m, m)
    <2>1. PICK n \in Int : Grows(options, t, u, c1, m, n) /\ Grows(options, t, u, c2, n, m)
        <3>1. CASE t = u
            <4>1. PICK n \in Int : n = k - 2
                OBVIOUS
            <4>2. m <= k /\ m <= n /\ k - 2 <= n
                BY <1>7, <1>8, <4>1
            <4>3. Drains(options, t, c1, m, n)
                BY <1>3, <1>8, <3>1, <4>2 DEF Drains
            <4>4. QED
                BY <1>3, <3>1, <4>3, GrowsAre
        <3>2. CASE t # u
            <4>1. Drains(options, t, c1, m, m)
                BY <1>3, <1>9, <3>2 DEF Drains
            <4>2. QED
                BY <1>3, <1>9, <4>1, GrowsAre
        <3>3. QED
            BY <3>1, <3>2
    <2>2. Grows(options, t, u, c3, m, m)
        BY <1>3, <1>9, GrowsAre
    <2> DEFINE h == [i \in 1..4 |-> IF i = 2 THEN n ELSE m]
    <2>3. h \in [1..4 -> Int] /\ h[1] = m /\ h[2] = n /\ h[3] = m /\ h[4] = m
        OBVIOUS
    <2> HIDE DEF h
    <2>4. \A i \in 1..3 : Grows(options, t, u, s[i], h[i], h[i + 1])
        BY <1>5, <2>1, <2>2, <2>3
    <2>5. Tracks(options, t, u, s, m, m, h)
        BY <1>5, <2>3, <2>4 DEF Tracks
    <2>6. QED
        BY <2>5 DEF Track
<1>11. QED
    BY <1>0, <1>1, <1>6, <1>7, <1>10, IdleSized

LEMMA EndingsSized ==
    ASSUME Sized, Extrae_fini \/ ProgramExits
    PROVE  Sized'
<1>0. stack = <<>> /\ UNCHANGED <<ring, file, open, live, table, options>> /\ me' = 0
    BY DEF Extrae_fini, ProgramExits, Idle, buffers
<1>1. PICK c \in Calls, d \in Calls :
         c = Call("Backend_Finalize", 0) /\ d = Call("SetNotInitialized", 0)
    BY ThreadsAre, CallTyped DEF Plain, NoEnd
<1>2. c.do = "Backend_Finalize" /\ d.do \notin Moving
    BY <1>1 DEF Call, Moving
<1>3. PICK q \in Seq(Calls), r \in Seq(Calls) : q = <<c>> /\ r = <<d>>
    BY One
<1>4. PICK s \in Seq(Calls) : s = q \o r
    BY Joined
<1>5. s = <<c, d>>
    BY <1>3, <1>4, PairOf
<1>6. stack' = q \/ stack' = s
    BY <1>1, <1>3, <1>5 DEF Extrae_fini, ProgramExits
<1>7. PICK m \in Int : m = -1 /\ m < 0
    OBVIOUS
<1>8. ASSUME NEW t \in Threads  PROVE Track(options, t, 0, q, m, m) /\ Track(options, t, 0, s, m, m)
    <2>1. Grows(options, t, 0, c, m, m)
        BY <1>2, <1>7, GrowsAre
    <2>2. Grows(options, t, 0, d, m, m)
        BY <1>2, KeepsLevel, GrowsAre
    <2>3. Track(options, t, 0, q, m, m) /\ Track(options, t, 0, r, m, m)
        BY <1>3, <2>1, <2>2, TrackOne
    <2>4. Track(options, t, 0, s, m, m)
        BY <1>4, <2>3, TrackJoined
    <2>5. QED
        BY <2>3, <2>4
<1>9. CASE stack' = q
    BY <1>0, <1>7, <1>8, <1>9, IdleSized
<1>10. CASE stack' = s
    BY <1>0, <1>7, <1>8, <1>10, IdleSized
<1>11. QED
    BY <1>6, <1>9, <1>10

-----------------------------------------------------------------------------
(* Every step, and the theorem                                              *)

SizeInv == signals = 0 /\ FileLimit > 0 => Sized

LEMMA NextSized ==
    ASSUME StackTyped, VarsTyped, UInv, NestInv, SizeInv, [Next]_vars
    PROVE  SizeInv'
<1>1. CASE Signal
    <2>1. signals \in Nat
        BY BackendAssumption DEF VarsTyped
    <2>2. signals' # 0
        BY <1>1, <2>1 DEF Signal
    <2>3. QED
        BY <2>2 DEF SizeInv
<1>2. CASE UNCHANGED vars
    <2>1. UNCHANGED <<ring, file, open, live, table, me, options, stack, signals>>
        BY <1>2 DEF vars
    <2>2. \A t \in Threads : Bounded(t) => Bounded(t)'
        BY <2>1 DEF Bounded, Under, Grown
    <2>3. Sized => Sized'
        BY <2>1, <2>2 DEF Sized, Small
    <2>4. QED
        BY <2>1, <2>3 DEF SizeInv, FileLimit
<1>3. CASE Next /\ ~Signal
    <2>1. signals' = signals /\ options' = options
        BY <1>3 DEF Next, Step, Probe, ThreadEnds, Extrae_fini, ProgramExits, Inhibit, Desinhibit,
           ExecuteDeferred, SigHandler_FlushAndTerminate, SignalReturns, Enter,
           Buffer_InsertSingle, StoreEvent, FlushCallback, DiscardOldest, Buffer_Flush,
           CheckFileSize, Close_mpits, Buffer_Free, TurnOff, SetNotInitialized,
           Backend_Finalize, FlushIfAny, FinishIfAny, Free, FinalizeEnds, Crash, signalling, control
    <2>2. FileLimit' = FileLimit
        BY <2>1 DEF FileLimit
    <2>3. SUFFICES ASSUME signals = 0, FileLimit > 0
                   PROVE  Sized'
        BY <2>1, <2>2 DEF SizeInv
    <2>4. Safe /\ Sized
        BY <2>3 DEF UInv, SizeInv
    <2>5. ~SigHandler_FlushAndTerminate /\ ~SignalReturns /\ ~Crash
        BY <2>4, NoSignalCalls
    <2>6. Circular \/ Unnested
        BY <2>3 DEF NestInv
    <2>7. Holds
        BY <2>3 DEF NestInv, Unnested, Discarding
    <2>8. CASE Probe \/ ThreadEnds \/ Extrae_fini \/ ProgramExits
        BY <2>4, <2>8, ProbeSized, ThreadEndsSized, EndingsSized
    <2>9. CASE Enter \/ Buffer_InsertSingle \/ FlushCallback \/ FlushIfAny \/ FinishIfAny
        BY <2>4, <2>6, <2>9, EnterSized, InsertSized, FlushSized, FlushIfAnySized, FinishSized
    <2>10. CASE CheckFileSize \/ Backend_Finalize
        BY <2>3, <2>4, <2>10, CheckSized, FinalizeSized
    <2>11. CASE StoreEvent \/ DiscardOldest \/ Buffer_Flush \/ Close_mpits \/ Buffer_Free \/ Free
        BY <2>4, <2>7, <2>11, StoreSized, OldestSized, WritesSized, CloseSized, BufferFreeSized,
           FreeSized
    <2>12. CASE \/ Inhibit \/ Desinhibit \/ ExecuteDeferred \/ TurnOff \/ SetNotInitialized
                \/ FinalizeEnds
        BY <2>4, <2>12, FlagsSized
    <2>13. QED
        BY <1>3, <2>5, <2>8, <2>9, <2>10, <2>11, <2>12 DEF Next, Step
<1>4. QED
    BY <1>1, <1>2, <1>3

LEMMA InitSized == Init => SizeInv
<1>1. SUFFICES ASSUME Init, FileLimit > 0  PROVE Sized
    BY DEF SizeInv
<1>2. stack = <<>> /\ \A t \in Threads : file[t] = <<>>
    BY <1>1 DEF Init
<1>3. options \in Options
    BY <1>1 DEF Init
<1>4. Limited(options)
    BY <1>3, BackendAssumption DEF Limited
<1>5. PICK l \in Nat : l = options.limit /\ l > 0
    BY <1>1, <1>4 DEF Limited, FileLimit
<1>6. PICK k \in Int : k = Full(options) /\ 0 <= k
    BY <1>4, FullIs, Roomy DEF Full, Limited
<1>7. \A t \in Threads : Len(file[t]) = 0
    BY <1>2
<1>8. Small
    BY <1>6, <1>7 DEF Small
<1>9. ASSUME NEW t \in Threads  PROVE Bounded(t)
    <2>1. ~(l <= 0)
        BY <1>5
    <2>2. ~Grown(t)
        BY <1>5, <1>7, <2>1 DEF Grown
    <2>3. PICK m \in Int : m = -1
        OBVIOUS
    <2>4. Under(t, m)
        BY <2>2 DEF Under
    <2>5. Track(options, t, me, stack, m, m)
        BY <1>2, TrackNone
    <2>6. QED
        BY <2>3, <2>4, <2>5 DEF Bounded
<1>10. QED
    BY <1>8, <1>9 DEF Sized

LEMMA SizedBounds ==
    ASSUME VarsTyped, SizeInv
    PROVE  SizeBounded
<1>1. SUFFICES ASSUME signals = 0, FileLimit > 0, NEW t \in Threads
               PROVE  Len(file[t]) < FileLimit + MaxEvents + 2
    BY DEF SizeBounded
<1>2. PICK f \in Nat, l \in Nat : f = Len(file[t]) /\ l = FileLimit /\ l = options.limit
    BY SizesAre DEF Limited, FileLimit
<1>3. f <= l + MaxEvents + 1
    BY <1>1, <1>2 DEF SizeInv, Sized, Small, Full
<1>4. f < l + MaxEvents + 2
    BY <1>2, <1>3, Roomy
<1>5. QED
    BY <1>2, <1>4

\* The size of a file is looked at only after a flush, and only the calling thread's file is
\* then closed: Backend_Finalize writes another's twice more.  While no signal arrives no
\* file outgrows the limit by more than one ring of events and one event more, for any number
\* of threads, any limit, and buffers of at least 2 + 5 * threads events.
THEOREM NearTheLimit == Spec => []SizeBounded
<1>1. Init => UInv /\ NestInv /\ SizeInv
    BY InitSafe, InitNested, InitSized
<1>2. TypeInv /\ UInv /\ [Next]_vars => UInv'
    BY NextSafe DEF TypeInv
<1>3. TypeInv /\ TypeInv' /\ UInv /\ NestInv /\ [Next]_vars => NestInv'
    BY NextNested DEF TypeInv
<1>4. TypeInv /\ UInv /\ NestInv /\ SizeInv /\ [Next]_vars => SizeInv'
    BY NextSized DEF TypeInv
<1>5. TypeInv /\ SizeInv => SizeBounded
    BY SizedBounds DEF TypeInv
<1>6. QED
    BY <1>1, <1>2, <1>3, <1>4, <1>5, TypeInvariant, PTL DEF Spec
=============================================================================
