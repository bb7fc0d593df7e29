------------------------- MODULE OnlineControlProofs -------------------------
(***************************************************************************)
(* Proofs about OnlineControl, for any number of threads and rings of any  *)
(* size: the types, and that nobody waits for a lock it holds.             *)
(***************************************************************************)
EXTENDS OnlineControl, SequenceTheorems, WellFoundedInduction, TLAPS

-----------------------------------------------------------------------------
(* What an application thread has still to do: insertions, after what the   *)
(* first of them is in the middle of.                                       *)

First(a, name, t) == todo[a] # <<>> /\ todo[a][1] = Op(name, t)
Inserts(t, i) == \A k \in i..Len(todo[t]) : todo[t][k] = Op("Buffer_InsertSingle", t)
Flushing == {"Buffer_Flush", "Dump", "Take"}

\* In an open ring there is room for what it is to insert.
Room(t) ==
    /\ Len(todo[t]) <= MaxEvents
    /\ ring[t].open => ring[t].fill + Len(todo[t]) <= MaxEvents

AboutToInsert(t) == Inserts(t, 1) /\ lock[t] # t /\ Room(t)
Inserting(t) == First(t, "Store", t) /\ Inserts(t, 2) /\ lock[t] = t /\ Room(t)
InsertingClosed(t) ==
    /\ First(t, "Extrae_Flush_Wrapper", t) /\ Inserts(t, 3) /\ lock[t] = t
    /\ Len(todo[t]) \in 2..(MaxEvents + 1) /\ todo[t][2] = Op("Store", t)
    /\ ~ring[t].open
AboutToFlush(t) ==
    /\ First(t, "Extrae_Flush_Wrapper", t) /\ Inserts(t, 2) /\ lock[t] # t
    /\ ring[t].fill >= 0 /\ Len(todo[t]) - 1 + FlushEvents <= MaxEvents
InFlush(t) ==
    /\ \E name \in Flushing : First(t, name, t)
    /\ Inserts(t, 2) /\ lock[t] # t
    /\ ring[t].fill >= 0 /\ Len(todo[t]) - 1 <= MaxEvents

AppOk(t) ==
    AboutToInsert(t) \/ Inserting(t) \/ InsertingClosed(t) \/ AboutToFlush(t) \/ InFlush(t)

Application == \A t \in Threads : AppOk(t)

\* What the analysis has still to do: it locks a buffer before it works on it, and
\* unlocks it once, at the end.
Work == {"MaskAll", "UnmaskAll", "Buffer_Close"} \cup Flushing
Orderly(q, i) ==
    /\ q[i].do \in Work \cup {"Buffer_Lock", "Buffer_Unlock"}
    /\ q[i].do \in {"Dump", "Take"} => i = 1
    /\ q[i].do # "Buffer_Lock" => \/ lock[q[i].buf] = BE_thread
                                  \/ \E j \in 1..(i - 1) : q[j] = Op("Buffer_Lock", q[i].buf)
    /\ q[i].do = "Buffer_Lock" =>
          /\ lock[q[i].buf] # BE_thread
          /\ \A j \in 1..Len(q) : j # i => q[j] # q[i]
          /\ \E j \in 1..Len(q) : q[j] = Op("Buffer_Unlock", q[i].buf)
    /\ q[i].do = "Buffer_Unlock" => \A j \in (i + 1)..Len(q) : q[j].buf # q[i].buf

Returned(q) ==
    \A t \in Threads : lock[t] = BE_thread => \E i \in 1..Len(q) : q[i] = Op("Buffer_Unlock", t)

Analysis ==
    /\ \A i \in 1..Len(todo[BE_thread]) : Orderly(todo[BE_thread], i)
    /\ Returned(todo[BE_thread])

\* What a flush has read is not less than what the ring holds, so that the ring does
\* not hold more after it than before.
Busy(t) == AboutToFlush(t) \/ InFlush(t)
ReadOk(t) ==
    LET l == at[t]  m == at[BE_thread]  fill == ring[t].fill
    IN  /\ First(t, "Dump", t) => l.num >= fill /\ l.num > 0
        /\ First(t, "Take", t) => l.fill <= l.num
        /\ First(BE_thread, "Dump", t) => m.num = fill \/ (fill <= 0 /\ m.num >= 0 /\ ~Busy(t))
        /\ First(BE_thread, "Take", t) =>
             /\ m.fill <= m.num
             /\ (m.fill = fill /\ m.num = fill) \/ (fill <= 0 /\ ~Busy(t))

Readings == \A t \in Threads : ReadOk(t)

\* A buffer is locked by its thread or by the analysis.
Owned == \A t \in Threads : lock[t] \in {t, BE_thread, Nobody}

LockInv == TypeOK /\ Application /\ Analysis /\ Readings

-----------------------------------------------------------------------------
(* Sequences of operations                                                  *)

\* What is still to do when an operation has been replaced by ops.
LEMMA Replaced ==
    ASSUME NEW S, NEW q \in Seq(S), q # <<>>, NEW ops \in Seq(S)
    PROVE  /\ ops \o Tail(q) \in Seq(S)
           /\ Len(ops \o Tail(q)) = Len(ops) + Len(q) - 1
           /\ \A i \in 1..Len(ops) : (ops \o Tail(q))[i] = ops[i]
           /\ \A i \in (Len(ops) + 1)..(Len(ops) + Len(q) - 1) :
                 (ops \o Tail(q))[i] = q[i - Len(ops) + 1]
  <1>1. /\ Tail(q) \in Seq(S) /\ Len(Tail(q)) = Len(q) - 1
        /\ \A i \in 1..Len(Tail(q)) : Tail(q)[i] = q[i + 1]
    BY HeadTailProperties
  <1>2. Len(q) \in Nat /\ Len(q) > 0 /\ Len(ops) \in Nat
    BY LenProperties, EmptySeq
  <1>3. /\ ops \o Tail(q) \in Seq(S)
        /\ Len(ops \o Tail(q)) = Len(ops) + Len(Tail(q))
        /\ \A i \in 1..(Len(ops) + Len(Tail(q))) :
              (ops \o Tail(q))[i] = IF i <= Len(ops) THEN ops[i] ELSE Tail(q)[i - Len(ops)]
    BY <1>1, ConcatProperties
  <1>4. ASSUME NEW i \in (Len(ops) + 1)..(Len(ops) + Len(q) - 1)
        PROVE  (ops \o Tail(q))[i] = q[i - Len(ops) + 1]
    <2>1. i \in 1..(Len(ops) + Len(Tail(q))) /\ ~(i <= Len(ops)) /\ i - Len(ops) \in 1..Len(Tail(q))
      BY <1>1, <1>2
    <2> QED
      BY <1>1, <1>3, <2>1
  <1> QED
    BY <1>1, <1>2, <1>3, <1>4

\* The actor's next operation is the first of what it has to do.
LEMMA NextIsFirst ==
    ASSUME TypeOK, NEW a \in Actors, todo[a] # <<>>
    PROVE  /\ todo[a] \in Seq(Operation) /\ Len(todo[a]) \in Nat \ {0}
           /\ NextOp(a) = todo[a][1] /\ NextOp(a) \in Operation /\ Buf(a) \in Threads
           /\ todo[a][1] = Op(NextOp(a).do, Buf(a))
  <1>1. todo[a] \in Seq(Operation)
    BY DEF TypeOK, Operation
  <1>2. Len(todo[a]) \in Nat \ {0} /\ Head(todo[a]) = todo[a][1] /\ todo[a][1] \in Operation
    BY <1>1, LenProperties, EmptySeq, HeadTailProperties, ElementOfSeq
  <1> QED
    BY <1>1, <1>2 DEF NextOp, Buf, Op, Operation

\* An operation that is done leaves the others, in their order.
LEMMA DoneLeaves ==
    ASSUME TypeOK, NEW a \in Actors, todo[a] # <<>>, Done(a)
    PROVE  /\ todo' \in [Actors -> Seq(Operation)]
           /\ Len(todo'[a]) = Len(todo[a]) - 1
           /\ \A i \in 1..(Len(todo[a]) - 1) : todo'[a][i] = todo[a][i + 1]
           /\ \A u \in Actors \ {a} : todo'[u] = todo[u]
  <1>1. todo \in [Actors -> Seq(Operation)] /\ <<>> \in Seq(Operation)
    BY EmptySeq DEF TypeOK, Operation
  <1>2. todo' = [todo EXCEPT ![a] = <<>> \o Tail(todo[a])]
    BY <1>1 DEF Done, Becomes
  <1>3. todo'[a] = <<>> \o Tail(todo[a]) /\ \A u \in Actors \ {a} : todo'[u] = todo[u]
    BY <1>1, <1>2
  <1>4. Len(<<>>) = 0 /\ Len(todo[a]) \in Nat
    BY <1>1, EmptySeq, LenProperties
  <1>5. /\ todo'[a] \in Seq(Operation) /\ Len(todo'[a]) = Len(todo[a]) - 1
        /\ \A i \in 1..(Len(todo[a]) - 1) : todo'[a][i] = todo[a][i + 1]
    BY <1>1, <1>3, <1>4, Replaced
  <1> QED
    BY <1>1, <1>2, <1>3, <1>5

\* An operation that becomes another one leaves the others where they are.
LEMMA BecomesOne ==
    ASSUME TypeOK, NEW a \in Actors, todo[a] # <<>>, NEW op \in Operation, Becomes(a, <<op>>)
    PROVE  /\ todo' \in [Actors -> Seq(Operation)]
           /\ Len(todo'[a]) = Len(todo[a]) /\ todo'[a] # <<>> /\ todo'[a][1] = op
           /\ \A i \in 2..Len(todo[a]) : todo'[a][i] = todo[a][i]
           /\ \A u \in Actors \ {a} : todo'[u] = todo[u]
  <1>0. <<op>> \in Seq(Operation) /\ Len(<<op>>) = 1 /\ <<op>>[1] = op
    OBVIOUS
  <1>1. todo \in [Actors -> Seq(Operation)]
    BY DEF TypeOK, Operation
  <1>2. todo' = [todo EXCEPT ![a] = <<op>> \o Tail(todo[a])]
    BY <1>1 DEF Becomes
  <1>3. todo'[a] = <<op>> \o Tail(todo[a]) /\ \A u \in Actors \ {a} : todo'[u] = todo[u]
    BY <1>1, <1>2
  <1>4. Len(todo[a]) \in Nat \ {0}
    BY <1>1, EmptySeq, LenProperties
  <1>5. /\ todo'[a] \in Seq(Operation) /\ Len(todo'[a]) = Len(todo[a])
        /\ todo'[a][1] = op
        /\ \A i \in 2..Len(todo[a]) : todo'[a][i] = todo[a][i]
    BY <1>0, <1>1, <1>3, <1>4, Replaced
  <1>6. todo'[a] # <<>>
    BY <1>4, <1>5, EmptySeq
  <1> QED
    BY <1>1, <1>2, <1>3, <1>5, <1>6

\* An operation that becomes several.
LEMMA BecomesMany ==
    ASSUME TypeOK, NEW a \in Actors, todo[a] # <<>>, NEW ops \in Seq(Operation), Len(ops) > 0, Becomes(a, ops)
    PROVE  /\ todo' \in [Actors -> Seq(Operation)]
           /\ Len(todo'[a]) = Len(ops) + Len(todo[a]) - 1 /\ todo'[a] # <<>>
           /\ \A i \in 1..Len(ops) : todo'[a][i] = ops[i]
           /\ \A i \in (Len(ops) + 1)..Len(todo'[a]) : todo'[a][i] = todo[a][i - Len(ops) + 1]
           /\ \A u \in Actors \ {a} : todo'[u] = todo[u]
  <1>1. todo \in [Actors -> Seq(Operation)]
    BY DEF TypeOK, Operation
  <1>2. todo' = [todo EXCEPT ![a] = ops \o Tail(todo[a])]
    BY <1>1 DEF Becomes
  <1>3. todo'[a] = ops \o Tail(todo[a]) /\ \A u \in Actors \ {a} : todo'[u] = todo[u]
    BY <1>1, <1>2
  <1>4. Len(todo[a]) \in Nat \ {0} /\ Len(ops) \in Nat
    BY <1>1, EmptySeq, LenProperties
  <1>5. /\ todo'[a] \in Seq(Operation) /\ Len(todo'[a]) = Len(ops) + Len(todo[a]) - 1
        /\ \A i \in 1..Len(ops) : todo'[a][i] = ops[i]
        /\ \A i \in (Len(ops) + 1)..Len(todo'[a]) : todo'[a][i] = todo[a][i - Len(ops) + 1]
    BY <1>1, <1>3, Replaced
  <1>6. todo'[a] # <<>>
    BY <1>4, <1>5, EmptySeq
  <1> QED
    BY <1>1, <1>2, <1>3, <1>5, <1>6

-----------------------------------------------------------------------------
(* Types                                                                    *)

RingSet == [slots : [Slots -> Nat], masked : SUBSET Slots, head : Slots, cur : Slots,
            fill : Int, open : BOOLEAN]

LEMMA ModRange ==
    ASSUME NEW x \in Int
    PROVE  x % MaxEvents \in Slots
  BY OnlineAssumption DEF Slots, FlushEvents

LEMMA RingTyped == ASSUME TypeOK, NEW t \in Threads
                   PROVE  /\ ring[t] \in RingSet /\ ring[t].slots \in [Slots -> Nat]
                          /\ ring[t].masked \subseteq Slots /\ ring[t].head \in Slots
                          /\ ring[t].cur \in Slots /\ ring[t].fill \in Int
                          /\ ring[t].open \in BOOLEAN
  BY DEF TypeOK, RingSet

LEMMA AtTyped == ASSUME TypeOK, NEW a \in Actors
                 PROVE  at[a].head \in Slots /\ at[a].num \in Int /\ at[a].fill \in Int
  BY DEF TypeOK

\* Filter_Buffer, unfolded: what it has kept after k slots of its path.
Keeps(b, path, kept) ==
    kept = [k \in 0..Len(path) |->
              IF k = 0 THEN <<>>
              ELSE IF path[k] \in b.masked THEN kept[k - 1]
              ELSE Append(kept[k - 1], b.slots[path[k]])]

\* Induction on the naturals: a set of them that is not empty has a least member.
LEMMA LeastNatural ==
    ASSUME NEW T \in SUBSET Nat, NEW n \in T
    PROVE  \E m \in T : \A k \in T : m <= k
  <1>1. PICK m \in T : \A k \in T : ~(<<k, m>> \in OpToRel(<, Nat))
    BY NatLessThanWellFounded, WFMin
  <1>2. \A k \in T : ~(k < m)
    BY <1>1 DEF OpToRel
  <1> QED
    BY <1>2

\* The recursion of Filter_Buffer defines a function.
LEMMA KeepsExists ==
    ASSUME NEW b, NEW S, NEW path \in Seq(S), b.slots \in [S -> Nat]
    PROVE  \E kept \in [0..Len(path) -> Seq(Nat)] : Keeps(b, path, kept)
  <1> DEFINE N == Len(path)
             Upto(n) == {f \in [0..n -> Seq(Nat)] :
                           /\ f[0] = <<>>
                           /\ \A k \in 1..n : f[k] = IF path[k] \in b.masked THEN f[k - 1]
                                              ELSE Append(f[k - 1], b.slots[path[k]])}
             Bad == {n \in Nat : n <= N /\ Upto(n) = {}}
  <1>1. N \in Nat /\ \A k \in 1..N : path[k] \in S
    BY LenProperties, ElementOfSeq
  <1>2. Bad = {}
    <2> SUFFICES ASSUME Bad # {}  PROVE FALSE
      OBVIOUS
    <2>1. PICK n \in Bad : \A k \in Bad : n <= k
      <3>1. Bad \in SUBSET Nat
        OBVIOUS
      <3> HIDE DEF Bad
      <3> QED
        BY <3>1, LeastNatural
    <2>2. n \in Nat /\ n <= N /\ Upto(n) = {}
      BY <2>1
    <2>3. CASE n = 0
      <3>1. [k \in 0..0 |-> <<>>] \in Upto(0)
        BY EmptySeq
      <3> QED
        BY <2>2, <2>3, <3>1
    <2>4. CASE n # 0
      <3>1. n - 1 \in Nat /\ n - 1 <= N /\ ~(n <= n - 1) /\ n \in 1..N
        BY <1>1, <2>2, <2>4
      <3>2. PICK f \in Upto(n - 1) : TRUE
        <4> HIDE DEF Upto
        <4> QED
          BY <2>1, <3>1
      <3> DEFINE v == IF path[n] \in b.masked THEN f[n - 1] ELSE Append(f[n - 1], b.slots[path[n]])
                 g == [k \in 0..n |-> IF k = n THEN v ELSE f[k]]
      <3>3. f \in [0..(n - 1) -> Seq(Nat)] /\ f[n - 1] \in Seq(Nat)
        BY <3>1, <3>2
      <3>4. b.slots[path[n]] \in Nat
        BY <1>1, <3>1
      <3>5. v \in Seq(Nat)
        BY <3>3, <3>4, AppendProperties
      <3>6. g \in [0..n -> Seq(Nat)]
        BY <3>1, <3>3, <3>5
      <3>7. g[0] = <<>>
        BY <3>1, <3>2
      <3>8. ASSUME NEW k \in 1..n
            PROVE  g[k] = IF path[k] \in b.masked THEN g[k - 1] ELSE Append(g[k - 1], b.slots[path[k]])
        <4>1. k - 1 \in 0..n /\ k - 1 # n /\ g[k - 1] = f[k - 1]
          BY <3>1
        <4>2. CASE k = n
          BY <3>1, <4>1, <4>2
        <4>3. CASE k # n
          <5>1. k \in 1..(n - 1) /\ g[k] = f[k]
            BY <3>1, <4>3
          <5> QED
            BY <3>2, <4>1, <5>1
        <4> QED
          BY <4>2, <4>3
      <3>9. g \in Upto(n)
        BY <3>6, <3>7, <3>8
      <3> QED
        BY <2>2, <3>9
    <2> QED
      BY <2>3, <2>4
  <1>3. PICK f \in Upto(N) : TRUE
    <2> HIDE DEF Upto
    <2>1. N \notin Bad /\ N <= N
      BY <1>1, <1>2
    <2> QED
      BY <1>1, <2>1
  <1>4. f = [k \in 0..N |-> f[k]] /\ \A k \in 0..N : k = 0 \/ k \in 1..N
    BY <1>1, <1>3
  <1>5. Keeps(b, path, f)
    BY <1>3, <1>4 DEF Keeps
  <1> QED
    BY <1>3, <1>5

\* The same, one step at a time.
KeepsStepwise(b, path, kept) ==
    /\ kept[0] = <<>>
    /\ \A k \in 1..Len(path) :
          kept[k] = IF path[k] \in b.masked THEN kept[k - 1] ELSE Append(kept[k - 1], b.slots[path[k]])

LEMMA KeepsStep ==
    ASSUME NEW b, NEW path, Len(path) \in Nat, NEW kept, Keeps(b, path, kept)
    PROVE  KeepsStepwise(b, path, kept)
  <1>2. \A k \in 0..Len(path) :
           kept[k] = IF k = 0 THEN <<>>
                     ELSE IF path[k] \in b.masked THEN kept[k - 1]
                     ELSE Append(kept[k - 1], b.slots[path[k]])
    BY DEF Keeps
  <1>3. 0 \in 0..Len(path) /\ \A k \in 1..Len(path) : k \in 0..Len(path) /\ k # 0
    OBVIOUS
  <1> QED
    BY <1>2, <1>3 DEF KeepsStepwise

LEMMA KeepsTyped ==
    ASSUME NEW b, NEW S, NEW path \in Seq(S), b.slots \in [S -> Nat], NEW kept, Keeps(b, path, kept)
    PROVE  \A k \in 0..Len(path) : kept[k] \in Seq(Nat)
  <1> DEFINE Bad == {k \in 0..Len(path) : kept[k] \notin Seq(Nat)}
  <1>1. Len(path) \in Nat /\ \A k \in 1..Len(path) : path[k] \in S
    BY LenProperties, ElementOfSeq
  <1>0. KeepsStepwise(b, path, kept)
    BY <1>1, KeepsStep
  <1> SUFFICES ASSUME NEW n \in Bad, \A k \in Bad : n <= k  PROVE FALSE
    <2>1. Bad \in SUBSET Nat
      BY <1>1
    <2> HIDE DEF Bad
    <2>2. Bad = {}
      BY <2>1, LeastNatural
    <2> QED
      BY <2>2 DEF Bad
  <1>2. n \in 0..Len(path) /\ kept[n] \notin Seq(Nat)
    OBVIOUS
  <1>3. CASE n = 0
    BY <1>0, <1>2, <1>3, EmptySeq DEF KeepsStepwise
  <1>4. CASE n # 0
    <2>1. n \in 1..Len(path) /\ n - 1 \in 0..Len(path) /\ ~(n <= n - 1)
      BY <1>1, <1>2, <1>4
    <2>2. kept[n - 1] \in Seq(Nat)
      <3> SUFFICES ASSUME kept[n - 1] \notin Seq(Nat)  PROVE FALSE
        OBVIOUS
      <3>1. n - 1 \in Bad
        BY <2>1
      <3> HIDE DEF Bad
      <3> QED
        BY <2>1, <3>1
    <2>4. b.slots[path[n]] \in Nat
      BY <1>1, <2>1
    <2>3. kept[n] = IF path[n] \in b.masked THEN kept[n - 1] ELSE Append(kept[n - 1], b.slots[path[n]])
      BY <1>0, <2>1 DEF KeepsStepwise
    <2> QED
      BY <1>2, <2>2, <2>3, <2>4, AppendProperties
  <1> QED
    BY <1>2, <1>3, <1>4

LEMMA PathTyped ==
    ASSUME NEW i \in Slots, NEW j \in Slots
    PROVE  /\ Distance(i, j) \in 1..MaxEvents
           /\ Path(i, j) \in Seq(Slots) /\ Len(Path(i, j)) = Distance(i, j)
           /\ \A k \in 1..Distance(i, j) : Path(i, j)[k] = (i + k - 1) % MaxEvents
  <1>1. MaxEvents \in Nat \ {0} /\ i \in 0..(MaxEvents - 1) /\ j \in 0..(MaxEvents - 1)
    BY OnlineAssumption DEF Slots, FlushEvents
  <1>2. Distance(i, j) \in 1..MaxEvents
    <2>1. CASE i = j
      BY <1>1, <2>1 DEF Distance
    <2>2. CASE i < j
      BY <1>1, <2>2 DEF Distance
    <2>3. CASE i > j
      BY <1>1, <2>3 DEF Distance
    <2> QED
      BY <1>1, <2>1, <2>2, <2>3
  <1>3. \A k \in 1..Distance(i, j) : (i + k - 1) % MaxEvents \in Slots
    BY SMTT(40), <1>1, <1>2, ModRange
  <1>4. Path(i, j) \in [1..Distance(i, j) -> Slots]
    BY <1>3 DEF Path
  <1>5. Path(i, j) \in Seq(Slots)
    BY <1>2, <1>4, SeqDef
  <1> QED
    BY <1>2, <1>4, <1>5, LenProperties DEF Path

\* Filter_Buffer is that recursion, on the slots from head to tail.
LEMMA FilteredKeeps ==
    ASSUME NEW b, NEW i \in Slots, NEW j \in Slots, b.slots \in [Slots -> Nat]
    PROVE  \E kept : Keeps(b, Path(i, j), kept) /\ Filtered(b, i, j) = kept[Len(Path(i, j))]
  <1> DEFINE path == Path(i, j)
             chosen == CHOOSE kept : Keeps(b, path, kept)
  <1>1. \E kept : Keeps(b, path, kept)
    BY PathTyped, KeepsExists
  <1>2. Keeps(b, path, chosen)
    BY <1>1
  <1>3. Filtered(b, i, j) = chosen[Len(path)]
    BY DEF Filtered, Keeps
  <1> QED
    BY <1>2, <1>3

LEMMA FilteredTyped ==
    ASSUME NEW b, NEW i \in Slots, NEW j \in Slots, b.slots \in [Slots -> Nat]
    PROVE  Filtered(b, i, j) \in Seq(Nat)
  <1>1. PICK kept : Keeps(b, Path(i, j), kept) /\ Filtered(b, i, j) = kept[Len(Path(i, j))]
    BY FilteredKeeps
  <1>2. Path(i, j) \in Seq(Slots) /\ Len(Path(i, j)) \in 0..Len(Path(i, j))
    BY PathTyped
  <1> QED
    BY <1>1, <1>2, KeepsTyped

\* One ring changes.
LEMMA RingChanged ==
    ASSUME TypeOK, NEW t \in Threads, NEW r \in RingSet, ring' = [ring EXCEPT ![t] = r]
    PROVE  /\ ring' \in [Threads -> RingSet]
           /\ ring'[t] = r /\ \A u \in Threads \ {t} : ring'[u] = ring[u]
  BY DEF TypeOK, RingSet

\* What each operation does to the ring, as a record.
LEMMA StoreRing ==
    ASSUME TypeOK, NEW a \in Actors, Store(a)
    PROVE  LET t == Buf(a)  b == ring[t]
               r == [b EXCEPT !.slots = [@ EXCEPT ![b.cur] = made[t] + 1],
                              !.masked = @ \ {b.cur}, !.cur = GetNext(@), !.fill = @ + 1]
           IN  t \in Threads /\ r \in RingSet /\ ring' = [ring EXCEPT ![t] = r]
  <1> DEFINE t == Buf(a)  b == ring[t]
             r == [b EXCEPT !.slots = [@ EXCEPT ![b.cur] = made[t] + 1],
                            !.masked = @ \ {b.cur}, !.cur = GetNext(@), !.fill = @ + 1]
  <1>1. t \in Threads
    BY NextIsFirst DEF Store, Makes
  <1>2. b \in RingSet /\ b.cur \in Slots /\ b.fill \in Int /\ made[t] \in Nat
    BY <1>1, RingTyped DEF TypeOK
  <1>3. GetNext(b.cur) \in Slots
    <2>1. b.cur + 1 \in Int
      BY <1>2 DEF Slots
    <2> QED
      BY <2>1, ModRange DEF GetNext
  <1>4. r \in RingSet
    <2> DEFINE s == [b.slots EXCEPT ![b.cur] = made[t] + 1]
    <2>1. s \in [Slots -> Nat]
      BY <1>1, <1>2, RingTyped
    <2>2. b.masked \ {b.cur} \in SUBSET Slots /\ b.fill + 1 \in Int
      BY <1>1, RingTyped
    <2> HIDE DEF s
    <2>3. [b EXCEPT !.slots = s, !.masked = @ \ {b.cur}, !.cur = GetNext(@), !.fill = @ + 1] \in RingSet
      BY <1>2, <1>3, <2>1, <2>2 DEF RingSet
    <2> QED
      BY <2>3 DEF s
  <1>5. ring' = [ring EXCEPT ![t] = r]
    BY <1>1 DEF Store, TypeOK
  <1> QED
    BY <1>1, <1>4, <1>5

LEMMA TakeRing ==
    ASSUME TypeOK, NEW a \in Actors, Take(a)
    PROVE  LET t == Buf(a)  l == at[a]
               r == [ring[t] EXCEPT !.fill = l.fill - l.num, !.head = (l.head + l.num) % MaxEvents]
           IN  t \in Threads /\ r \in RingSet /\ ring' = [ring EXCEPT ![t] = r]
  <1> DEFINE t == Buf(a)  l == at[a]
             r == [ring[t] EXCEPT !.fill = l.fill - l.num, !.head = (l.head + l.num) % MaxEvents]
  <1>1. t \in Threads
    BY NextIsFirst DEF Take, Makes
  <1>2. ring[t] \in RingSet /\ l.fill - l.num \in Int /\ l.head + l.num \in Int
    BY <1>1, RingTyped, AtTyped DEF Slots
  <1>3. (l.head + l.num) % MaxEvents \in Slots
    BY <1>2, ModRange
  <1>4. r \in RingSet
    BY <1>2, <1>3 DEF RingSet
  <1>5. ring' = [ring EXCEPT ![t] = r]
    BY <1>1 DEF Take, TypeOK
  <1> QED
    BY <1>1, <1>4, <1>5

LEMMA CloseRing ==
    ASSUME TypeOK, NEW a \in Actors, Buffer_Close(a)
    PROVE  LET t == Buf(a)  r == [ring[t] EXCEPT !.open = FALSE]
           IN  t \in Threads /\ r \in RingSet /\ ring' = [ring EXCEPT ![t] = r]
  <1>1. Buf(a) \in Threads
    BY NextIsFirst DEF Buffer_Close, Makes
  <1>2. [ring[Buf(a)] EXCEPT !.open = FALSE] \in RingSet
    BY <1>1, RingTyped DEF RingSet
  <1> QED
    BY <1>1, <1>2 DEF Buffer_Close, TypeOK

\* The masks of a ring change, and nothing else.
Remasked(t, m) == ring' = [ring EXCEPT ![t] = [ring[t] EXCEPT !.masked = m]]

LEMMA RemaskedTyped ==
    ASSUME TypeOK, NEW t \in Threads, NEW m \in SUBSET Slots
    PROVE  [ring[t] EXCEPT !.masked = m] \in RingSet
  BY RingTyped DEF RingSet

LEMMA RegionTyped ==
    ASSUME NEW i \in Slots, NEW j \in Slots
    PROVE  Region(i, j) \subseteq Slots
  <1>1. Path(i, j) \in Seq(Slots)
    BY PathTyped
  <1>2. DOMAIN Path(i, j) = 1..Len(Path(i, j)) /\ \A k \in 1..Len(Path(i, j)) : Path(i, j)[k] \in Slots
    BY <1>1, LenProperties, ElementOfSeq
  <1> QED
    BY <1>2 DEF Region, Range

LEMMA ContentsTyped ==
    ASSUME TypeOK, NEW t \in Threads
    PROVE  Range(Contents(ring[t])) \subseteq Nat
  <1>1. \A k \in 1..ring[t].fill : ring[t].head + k - 1 \in Int
    BY RingTyped DEF Slots
  <1>2. \A k \in 1..ring[t].fill : ring[t].slots[(ring[t].head + k - 1) % MaxEvents] \in Nat
    BY <1>1, RingTyped, ModRange
  <1> QED
    BY <1>2 DEF Contents, Range

LEMMA MaskRing ==
    ASSUME TypeOK, NEW a \in Actors, MaskAll(a)
    PROVE  LET t == Buf(a)  b == ring[t]  m == b.masked \cup Region(b.head, b.cur)
               r == [b EXCEPT !.masked = m]
           IN  t \in Threads /\ r \in RingSet /\ ring' = [ring EXCEPT ![t] = r]
  <1> DEFINE t == Buf(a)  b == ring[t]  m == b.masked \cup Region(b.head, b.cur)
  <1>1. t \in Threads
    BY NextIsFirst DEF MaskAll, Makes
  <1>2. m \in SUBSET Slots
    BY <1>1, RingTyped, RegionTyped
  <1>3. ring' = [ring EXCEPT ![t] = [b EXCEPT !.masked = m]]
    BY <1>1 DEF MaskAll, TypeOK
  <1> QED
    BY <1>1, <1>2, <1>3, RemaskedTyped

LEMMA UnmaskRing ==
    ASSUME TypeOK, NEW a \in Actors, UnmaskAll(a)
    PROVE  LET t == Buf(a)
           IN  /\ t \in Threads
               /\ \E m \in SUBSET Slots :
                     LET r == [ring[t] EXCEPT !.masked = m]
                     IN  r \in RingSet /\ ring' = [ring EXCEPT ![t] = r]
  <1> DEFINE t == Buf(a)  b == ring[t]
  <1>1. t \in Threads
    BY NextIsFirst DEF UnmaskAll, Makes
  <1>2. b.masked \in SUBSET Slots /\ b = [b EXCEPT !.masked = b.masked]
    BY <1>1, RingTyped DEF RingSet
  <1>3. CASE UNCHANGED ring
    <2>1. ring' = [ring EXCEPT ![t] = [b EXCEPT !.masked = b.masked]]
      BY <1>1, <1>2, <1>3 DEF TypeOK
    <2> QED
      BY <1>1, <1>2, <2>1, RemaskedTyped
  <1>4. ASSUME NEW i, NEW j, ring' = [ring EXCEPT ![t].masked = @ \ Region(i, j)]
        PROVE  \E m \in SUBSET Slots :
                     LET r == [ring[t] EXCEPT !.masked = m]
                     IN  r \in RingSet /\ ring' = [ring EXCEPT ![t] = r]
    <2>1. b.masked \ Region(i, j) \in SUBSET Slots
      BY <1>2
    <2>2. ring' = [ring EXCEPT ![t] = [b EXCEPT !.masked = b.masked \ Region(i, j)]]
      BY <1>1, <1>4 DEF TypeOK
    <2> QED
      BY <1>1, <2>1, <2>2, RemaskedTyped
  <1> QED
    BY <1>1, <1>3, <1>4 DEF UnmaskAll

\* The types, one variable at a time.
LEMMA TypedTogether ==
    ASSUME ring' \in [Threads -> RingSet], lock' \in [Threads -> Actors \cup {Nobody}],
           file' \in [Threads -> Seq(Nat)], todo' \in [Actors -> Seq(Operation)],
           at' \in [Actors -> [head : Slots, num : Int, fill : Int]],
           calls' \in [Threads -> Nat], analyses' \in Nat, made' \in [Threads -> Nat],
           unselected' \in [Threads -> SUBSET Nat],
           over' \in BOOLEAN, exited' \in BOOLEAN, overlapped' \in BOOLEAN
    PROVE  TypeOK'
  BY DEF TypeOK, RingSet, Operation

LEMMA TypedEach ==
    ASSUME TypeOK
    PROVE  /\ ring \in [Threads -> RingSet] /\ lock \in [Threads -> Actors \cup {Nobody}]
           /\ file \in [Threads -> Seq(Nat)] /\ todo \in [Actors -> Seq(Operation)]
           /\ at \in [Actors -> [head : Slots, num : Int, fill : Int]]
           /\ calls \in [Threads -> Nat] /\ analyses \in Nat /\ made \in [Threads -> Nat]
           /\ unselected \in [Threads -> SUBSET Nat]
           /\ over \in BOOLEAN /\ exited \in BOOLEAN /\ overlapped \in BOOLEAN
  BY DEF TypeOK, RingSet, Operation

LEMMA OpTyped ==
    ASSUME NEW t \in Threads
    PROVE  /\ Op("Extrae_Flush_Wrapper", t) \in Operation /\ Op("Store", t) \in Operation
           /\ Op("Buffer_Flush", t) \in Operation /\ Op("Buffer_InsertSingle", t) \in Operation
           /\ Op("Dump", t) \in Operation /\ Op("Take", t) \in Operation
  BY DEF Op, Operation

LEMMA TimesTyped ==
    ASSUME NEW n \in Nat, NEW S, NEW op \in S
    PROVE  /\ Times(n, op) \in Seq(S) /\ Len(Times(n, op)) = n
           /\ \A i \in 1..n : Times(n, op)[i] = op
  <1>1. Times(n, op) \in [1..n -> S]
    BY DEF Times
  <1>2. Times(n, op) \in Seq(S)
    BY <1>1, SeqDef
  <1> QED
    BY <1>1, <1>2, LenProperties DEF Times

\* What is in place of an insertion, and of a flush.
InsertOps(t) ==
    (IF IsFull(ring[t]) THEN <<Op("Extrae_Flush_Wrapper", t)>> ELSE <<>>) \o <<Op("Store", t)>>
FlushOps(t) ==
    <<Op("Buffer_Flush", t)>> \o Times(FlushEvents, Op("Buffer_InsertSingle", t))

LEMMA InsertOpsTyped ==
    ASSUME NEW t \in Threads
    PROVE  /\ InsertOps(t) \in Seq(Operation)
           /\ IsFull(ring[t]) => /\ Len(InsertOps(t)) = 2 /\ InsertOps(t)[2] = Op("Store", t)
                                 /\ InsertOps(t)[1] = Op("Extrae_Flush_Wrapper", t)
           /\ ~IsFull(ring[t]) => Len(InsertOps(t)) = 1 /\ InsertOps(t)[1] = Op("Store", t)
  <1>1. Op("Extrae_Flush_Wrapper", t) \in Operation /\ Op("Store", t) \in Operation
    BY OpTyped
  <1>2. CASE IsFull(ring[t])
    <2> DEFINE one == <<Op("Extrae_Flush_Wrapper", t)>>  two == <<Op("Store", t)>>
    <2>1. InsertOps(t) = one \o two
      BY <1>2 DEF InsertOps
    <2>2. /\ one \in Seq(Operation) /\ Len(one) = 1 /\ one[1] = Op("Extrae_Flush_Wrapper", t)
          /\ two \in Seq(Operation) /\ Len(two) = 1 /\ two[1] = Op("Store", t)
      BY <1>1
    <2> HIDE DEF one, two
    <2>3. /\ one \o two \in Seq(Operation) /\ Len(one \o two) = Len(one) + Len(two)
          /\ \A i \in 1..(Len(one) + Len(two)) :
                (one \o two)[i] = IF i <= Len(one) THEN one[i] ELSE two[i - Len(one)]
      BY <2>2, ConcatProperties
    <2> QED
      BY <1>2, <2>1, <2>2, <2>3
  <1>3. CASE ~IsFull(ring[t])
    <2>1. InsertOps(t) = <<Op("Store", t)>>
      BY <1>1, <1>3 DEF InsertOps
    <2> QED
      BY <1>1, <1>3, <2>1
  <1> QED
    BY <1>2, <1>3

LEMMA FlushOpsTyped ==
    ASSUME NEW t \in Threads
    PROVE  /\ FlushOps(t) \in Seq(Operation) /\ Len(FlushOps(t)) = 1 + FlushEvents
           /\ FlushOps(t)[1] = Op("Buffer_Flush", t)
           /\ \A i \in 2..(1 + FlushEvents) : FlushOps(t)[i] = Op("Buffer_InsertSingle", t)
  <1> DEFINE ins == Times(FlushEvents, Op("Buffer_InsertSingle", t))
             one == <<Op("Buffer_Flush", t)>>
  <1>1. Op("Buffer_Flush", t) \in Operation /\ Op("Buffer_InsertSingle", t) \in Operation
    BY OpTyped
  <1>2. FlushEvents \in Nat
    BY DEF FlushEvents
  <1>3. /\ ins \in Seq(Operation) /\ Len(ins) = FlushEvents
        /\ \A i \in 1..FlushEvents : ins[i] = Op("Buffer_InsertSingle", t)
    BY <1>1, <1>2, TimesTyped
  <1>4. one \in Seq(Operation) /\ Len(one) = 1 /\ one[1] = Op("Buffer_Flush", t)
    BY <1>1
  <1> HIDE DEF ins, one
  <1>5. /\ one \o ins \in Seq(Operation) /\ Len(one \o ins) = 1 + FlushEvents
        /\ \A i \in 1..(1 + FlushEvents) :
              (one \o ins)[i] = IF i <= 1 THEN one[i] ELSE ins[i - 1]
    <2>1. /\ one \o ins \in Seq(Operation) /\ Len(one \o ins) = Len(one) + Len(ins)
          /\ \A i \in 1..(Len(one) + Len(ins)) :
                (one \o ins)[i] = IF i <= Len(one) THEN one[i] ELSE ins[i - Len(one)]
      BY <1>3, <1>4, ConcatProperties
    <2> QED
      BY <1>3, <1>4, <2>1
  <1>6. (one \o ins)[1] = one[1] /\ \A i \in 2..(1 + FlushEvents) : (one \o ins)[i] = ins[i - 1]
    BY <1>2, <1>5
  <1>7. \A i \in 2..(1 + FlushEvents) : i - 1 \in 1..FlushEvents
    BY <1>2
  <1> QED
    BY <1>3, <1>4, <1>5, <1>6, <1>7 DEF FlushOps, ins, one

\* Every operation keeps the types.
LEMMA StepTyped ==
    ASSUME TypeOK, NEW a \in Actors, Step(a), Watches
    PROVE  TypeOK'
  <1> USE TypedEach
  <1>0. overlapped' \in BOOLEAN
    BY DEF Watches
  <1> SUFFICES /\ ring' \in [Threads -> RingSet] /\ lock' \in [Threads -> Actors \cup {Nobody}]
               /\ file' \in [Threads -> Seq(Nat)] /\ todo' \in [Actors -> Seq(Operation)]
               /\ at' \in [Actors -> [head : Slots, num : Int, fill : Int]]
               /\ made' \in [Threads -> Nat]
               /\ unselected' \in [Threads -> SUBSET Nat] /\ exited' \in BOOLEAN
               /\ UNCHANGED bounds
    BY <1>0, TypedTogether DEF bounds
  <1>1. CASE Buffer_Lock(a)
    <2>1. todo' \in [Actors -> Seq(Operation)]
      BY <1>1, DoneLeaves DEF Buffer_Lock, Makes
    <2> QED
      BY <1>1, <2>1 DEF Buffer_Lock, bounds, history
  <1>2. CASE Buffer_Unlock(a)
    <2>1. todo' \in [Actors -> Seq(Operation)]
      BY <1>2, DoneLeaves DEF Buffer_Unlock, Makes
    <2> QED
      BY <1>2, <2>1 DEF Buffer_Unlock, bounds, history
  <1>3. CASE Buffer_InsertSingle(a)
    <2>1. todo[a] # <<>> /\ Becomes(a, InsertOps(Buf(a)))
      BY <1>3 DEF Buffer_InsertSingle, Makes, InsertOps
    <2>2. Buf(a) \in Threads
      BY <2>1, NextIsFirst
    <2>3. InsertOps(Buf(a)) \in Seq(Operation) /\ Len(InsertOps(Buf(a))) > 0
      <3>1. CASE IsFull(ring[Buf(a)])
        BY <2>2, <3>1, InsertOpsTyped
      <3>2. CASE ~IsFull(ring[Buf(a)])
        BY <2>2, <3>2, InsertOpsTyped
      <3> QED
        BY <3>1, <3>2
    <2>4. todo' \in [Actors -> Seq(Operation)]
      BY <2>1, <2>3, BecomesMany
    <2> QED
      BY <1>3, <2>4 DEF Buffer_InsertSingle, bounds, history
  <1>4. CASE Store(a)
    <2>1. todo' \in [Actors -> Seq(Operation)]
      BY <1>4, DoneLeaves DEF Store, Makes
    <2>2. ring' \in [Threads -> RingSet]
      BY <1>4, StoreRing, RingChanged
    <2> QED
      BY <1>4, <2>1, <2>2 DEF Store, bounds
  <1>5. CASE Extrae_Flush_Wrapper(a)
    <2>1. todo[a] # <<>> /\ (Becomes(a, FlushOps(Buf(a))) \/ Done(a))
      BY <1>5 DEF Extrae_Flush_Wrapper, Makes, FlushOps, Done
    <2>2. Buf(a) \in Threads
      BY <2>1, NextIsFirst
    <2>3. FlushOps(Buf(a)) \in Seq(Operation) /\ Len(FlushOps(Buf(a))) > 0
      BY <2>2, FlushOpsTyped DEF FlushEvents
    <2>4. todo' \in [Actors -> Seq(Operation)]
      BY <2>1, <2>3, BecomesMany, DoneLeaves
    <2> QED
      BY <1>5, <2>4 DEF Extrae_Flush_Wrapper, bounds, history
  <1>6. CASE Buffer_Flush(a)
    <2>1. todo[a] # <<>> /\ (Becomes(a, <<Op("Dump", Buf(a))>>) \/ Done(a))
      BY <1>6 DEF Buffer_Flush, Makes
    <2>2. Buf(a) \in Threads
      BY <2>1, NextIsFirst
    <2>3. todo' \in [Actors -> Seq(Operation)]
      BY <2>1, <2>2, BecomesOne, DoneLeaves, OpTyped
    <2>4. ring[Buf(a)].head \in Slots /\ ring[Buf(a)].fill \in Int
      BY <2>2, RingTyped
    <2>6. [head |-> ring[Buf(a)].head, num |-> ring[Buf(a)].fill, fill |-> 0]
              \in [head : Slots, num : Int, fill : Int]
      BY <2>4
    <2>5. at' \in [Actors -> [head : Slots, num : Int, fill : Int]]
      BY <1>6, <2>6 DEF Buffer_Flush
    <2> QED
      BY <1>6, <2>3, <2>5 DEF Buffer_Flush, bounds, history
  <1>7. CASE Dump(a)
    <2>1. todo[a] # <<>> /\ Becomes(a, <<Op("Take", Buf(a))>>)
      BY <1>7 DEF Dump, Makes
    <2>2. Buf(a) \in Threads
      BY <2>1, NextIsFirst
    <2>3. todo' \in [Actors -> Seq(Operation)]
      BY <2>1, <2>2, BecomesOne, OpTyped
    <2> DEFINE events == Filtered(ring[Buf(a)], at[a].head, (at[a].head + at[a].num) % MaxEvents)
    <2>4. events \in Seq(Nat)
      <3>1. at[a].head \in Slots /\ at[a].head + at[a].num \in Int
        BY AtTyped DEF Slots
      <3> QED
        BY <2>2, <3>1, ModRange, RingTyped, FilteredTyped
    <2> HIDE DEF events
    <2>5. file' \in [Threads -> Seq(Nat)]
      <3>1. file[Buf(a)] \o events \in Seq(Nat)
        BY <2>2, <2>4, ConcatProperties
      <3> QED
        BY <1>7, <2>2, <3>1 DEF Dump, events
    <2>6. at' \in [Actors -> [head : Slots, num : Int, fill : Int]]
      BY ZenonT(60), <1>7, <2>2, RingTyped DEF Dump
    <2> QED
      BY <1>7, <2>3, <2>5, <2>6 DEF Dump, bounds, history
  <1>8. CASE Take(a)
    <2>1. todo' \in [Actors -> Seq(Operation)]
      BY <1>8, DoneLeaves DEF Take, Makes
    <2>2. ring' \in [Threads -> RingSet]
      BY <1>8, TakeRing, RingChanged
    <2> QED
      BY <1>8, <2>1, <2>2 DEF Take, bounds, history
  <1>9. CASE Buffer_Close(a)
    <2>1. todo' \in [Actors -> Seq(Operation)]
      BY <1>9, DoneLeaves DEF Buffer_Close, Makes
    <2>2. ring' \in [Threads -> RingSet]
      BY <1>9, CloseRing, RingChanged
    <2> QED
      BY <1>9, <2>1, <2>2 DEF Buffer_Close, bounds, history
  <1>10. CASE MaskAll(a)
    <2>1. todo' \in [Actors -> Seq(Operation)]
      BY <1>10, DoneLeaves DEF MaskAll, Makes
    <2>2. ring' \in [Threads -> RingSet]
      BY <1>10, MaskRing, RingChanged
    <2>3. Buf(a) \in Threads
      BY <1>10, NextIsFirst DEF MaskAll, Makes
    <2>4. unselected' \in [Threads -> SUBSET Nat]
      BY <1>10, <2>3, ContentsTyped DEF MaskAll
    <2> QED
      BY <1>10, <2>1, <2>2, <2>4 DEF MaskAll, bounds
  <1>11. CASE UnmaskAll(a)
    <2>1. todo' \in [Actors -> Seq(Operation)]
      BY <1>11, DoneLeaves DEF UnmaskAll, Makes
    <2>2. ring' \in [Threads -> RingSet]
      BY <1>11, UnmaskRing, RingChanged
    <2>3. Buf(a) \in Threads
      BY <1>11, NextIsFirst DEF UnmaskAll, Makes
    <2>4. unselected' \in [Threads -> SUBSET Nat]
      BY <1>11, <2>3 DEF UnmaskAll
    <2> QED
      BY <1>11, <2>1, <2>2, <2>4 DEF UnmaskAll, bounds
  <1> QED
    BY <1>1, <1>2, <1>3, <1>4, <1>5, <1>6, <1>7, <1>8, <1>9, <1>10, <1>11 DEF Step

-----------------------------------------------------------------------------
(* Whose turn it is, and what an operation of one actor leaves of the       *)
(* invariant.                                                               *)

LEMMA OpDiffer ==
    ASSUME NEW x, NEW y, NEW t, NEW u, Op(x, t) = Op(y, u)
    PROVE  x = y /\ t = u
  <1>1. Op(x, t).do = x /\ Op(y, u).do = y /\ Op(x, t).buf = t /\ Op(y, u).buf = u
    BY DEF Op
  <1> QED
    BY <1>1

LEMMA ActorsDiffer ==
    /\ BE_thread \in Actors /\ BE_thread \notin Threads
    /\ Nobody \notin Actors /\ Threads \subseteq Actors
  BY OnlineAssumption DEF Actors

\* The first operation is what the actor makes.
LEMMA MakesFirst ==
    ASSUME TypeOK, NEW a \in Actors, NEW name, Makes(a, name)
    PROVE  /\ todo[a] # <<>> /\ Buf(a) \in Threads
           /\ First(a, name, Buf(a)) /\ Len(todo[a]) \in Nat \ {0}
           /\ \A other, t : First(a, other, t) => other = name /\ t = Buf(a)
  <1>1. /\ todo[a] # <<>> /\ NextOp(a).do = name /\ Buf(a) \in Threads
        /\ todo[a][1] = Op(name, Buf(a)) /\ Len(todo[a]) \in Nat \ {0}
    BY NextIsFirst DEF Makes
  <1> QED
    BY <1>1, OpDiffer DEF First

\* What an application thread is in the middle of, by its next operation.
LEMMA AppTurn ==
    ASSUME TypeOK, NEW t \in Threads, AppOk(t), NEW name, Makes(t, name)
    PROVE  /\ Buf(t) = t
           /\ name \in {"Buffer_InsertSingle", "Store", "Extrae_Flush_Wrapper"} \cup Flushing
           /\ name = "Buffer_InsertSingle" => AboutToInsert(t)
           /\ name = "Store" => Inserting(t)
           /\ name = "Extrae_Flush_Wrapper" => InsertingClosed(t) \/ AboutToFlush(t)
           /\ name \in Flushing => InFlush(t)
  <1>1. /\ Len(todo[t]) \in Nat \ {0} /\ First(t, name, Buf(t))
        /\ \A other, u : First(t, other, u) => other = name /\ u = Buf(t)
    BY MakesFirst, ActorsDiffer
  <1>2. CASE AboutToInsert(t)
    <2>1. First(t, "Buffer_InsertSingle", t)
      BY <1>1, <1>2 DEF AboutToInsert, Inserts, First
    <2>2. name = "Buffer_InsertSingle" /\ Buf(t) = t
      BY <1>1, <2>1
    <2> QED
      BY <1>2, <2>2 DEF Flushing
  <1>3. CASE Inserting(t)
    <2>1. name = "Store" /\ Buf(t) = t
      BY <1>1, <1>3 DEF Inserting
    <2> QED
      BY <1>3, <2>1 DEF Flushing
  <1>4. CASE InsertingClosed(t)
    <2>1. name = "Extrae_Flush_Wrapper" /\ Buf(t) = t
      BY <1>1, <1>4 DEF InsertingClosed
    <2> QED
      BY <1>4, <2>1 DEF Flushing
  <1>5. CASE AboutToFlush(t)
    <2>1. name = "Extrae_Flush_Wrapper" /\ Buf(t) = t
      BY <1>1, <1>5 DEF AboutToFlush
    <2> QED
      BY <1>5, <2>1 DEF Flushing
  <1>6. CASE InFlush(t)
    <2>1. PICK other \in Flushing : First(t, other, t)
      BY <1>6 DEF InFlush
    <2>2. name = other /\ Buf(t) = t
      BY <1>1, <2>1
    <2>3. name \in Flushing
      BY <2>1, <2>2
    <2> QED
      BY <1>6, <2>2, <2>3 DEF Flushing
  <1> QED
    BY <1>2, <1>3, <1>4, <1>5, <1>6 DEF AppOk

\* A thread that has nothing to do is about to insert nothing.
LEMMA AppIdle ==
    ASSUME NEW t \in Threads, AppOk(t), todo[t] = <<>>
    PROVE  AboutToInsert(t)
  BY DEF AppOk, Inserting, InsertingClosed, AboutToFlush, InFlush, First

\* The analysis has the lock of the buffer it works on.
LEMMA AnalysisTurn ==
    ASSUME TypeOK, Analysis, NEW name, Makes(BE_thread, name)
    PROVE  /\ Buf(BE_thread) \in Threads
           /\ name \in Work \cup {"Buffer_Lock", "Buffer_Unlock"}
           /\ name # "Buffer_Lock" => lock[Buf(BE_thread)] = BE_thread
           /\ name = "Buffer_Lock" => lock[Buf(BE_thread)] # BE_thread
  <1>1. /\ Len(todo[BE_thread]) \in Nat \ {0}
        /\ todo[BE_thread][1] = Op(name, Buf(BE_thread)) /\ Buf(BE_thread) \in Threads
    BY MakesFirst, ActorsDiffer DEF First
  <1>2. todo[BE_thread][1].do = name /\ todo[BE_thread][1].buf = Buf(BE_thread)
    BY <1>1 DEF Op
  <1>3. Orderly(todo[BE_thread], 1)
    BY <1>1 DEF Analysis
  <1>4. ~(\E j \in 1..(1 - 1) : todo[BE_thread][j] = Op("Buffer_Lock", Buf(BE_thread)))
    OBVIOUS
  <1> QED
    BY <1>1, <1>2, <1>3, <1>4 DEF Orderly

\* Only the analysis runs where it has the lock, but for a flush.
LEMMA FirstHasLock ==
    ASSUME TypeOK, Analysis, NEW name, NEW t \in Threads, First(BE_thread, name, t),
           name # "Buffer_Lock"
    PROVE  lock[t] = BE_thread
  <1>1. Makes(BE_thread, name) /\ Buf(BE_thread) = t
    <2>1. todo[BE_thread] # <<>> /\ NextOp(BE_thread) = Op(name, t)
      BY NextIsFirst, ActorsDiffer DEF First
    <2> QED
      BY <2>1 DEF Makes, Op, Buf
  <1> QED
    BY <1>1, AnalysisTurn

\* What keeps an application thread's part of the invariant while others run.
LEMMA AppKept ==
    ASSUME NEW t \in Threads, AppOk(t), TypeOK, TypeOK',
           todo'[t] = todo[t], lock'[t] = t <=> lock[t] = t,
           ring'[t].open => ring[t].open,
           ring'[t].fill = ring[t].fill
             \/ (ring'[t].fill <= 0 /\ (Busy(t) => ring'[t].fill >= 0))
    PROVE  AppOk(t)' /\ (Busy(t)' => Busy(t))
  <1>1. /\ ring[t].fill \in Int /\ ring'[t].fill \in Int
        /\ todo[t] \in Seq(Operation) /\ Len(todo[t]) \in Nat
    BY TypedEach, ActorsDiffer, LenProperties DEF TypeOK
  <1>2. Room(t) => Room(t)'
    BY <1>1, OnlineAssumption DEF Room
  <1>3. AboutToInsert(t) => AboutToInsert(t)'
    BY <1>2 DEF AboutToInsert, Inserts
  <1>4. Inserting(t) => Inserting(t)'
    BY <1>2 DEF Inserting, Inserts, First
  <1>5. InsertingClosed(t) => InsertingClosed(t)'
    BY DEF InsertingClosed, Inserts, First
  <1>6. AboutToFlush(t) => AboutToFlush(t)'
    BY <1>1 DEF AboutToFlush, Inserts, First, Busy
  <1>7. InFlush(t) => InFlush(t)'
    BY <1>1 DEF InFlush, Inserts, First, Busy
  <1>8. AppOk(t)'
    BY <1>3, <1>4, <1>5, <1>6, <1>7 DEF AppOk
  <1>9. Busy(t)' => Busy(t)
    <2>1. Busy(t)' => (\E name \in Flushing \cup {"Extrae_Flush_Wrapper"} : First(t, name, t)) /\ Inserts(t, 2) /\ lock[t] # t
      BY DEF Busy, AboutToFlush, InFlush, First, Inserts
    <2>2. ASSUME Busy(t)', AboutToInsert(t)  PROVE FALSE
      <3>1. PICK name \in Flushing \cup {"Extrae_Flush_Wrapper"} : First(t, name, t)
        BY <2>1, <2>2
      <3>2. todo[t][1] = Op("Buffer_InsertSingle", t) /\ todo[t][1] = Op(name, t)
        BY <1>1, <2>2, <3>1, EmptySeq DEF AboutToInsert, Inserts, First
      <3> QED
        BY <3>1, <3>2, OpDiffer DEF Flushing
    <2> QED
      BY <2>1, <2>2 DEF AppOk, Busy, Inserting, InsertingClosed
  <1> QED
    BY <1>8, <1>9

\* What the analysis has to do is in order still, if it has not moved and holds the same locks.
LEMMA AnalysisKept ==
    ASSUME Analysis, todo'[BE_thread] = todo[BE_thread], TypeOK,
           \A t \in Threads : lock'[t] = BE_thread <=> lock[t] = BE_thread
    PROVE  Analysis'
  <1> DEFINE q == todo[BE_thread]
  <1>1. ASSUME NEW i \in 1..Len(q)  PROVE q[i].buf \in Threads
    <2>1. q \in Seq(Operation)
      BY TypedEach, ActorsDiffer
    <2>2. q[i] \in Operation
      BY <2>1, ElementOfSeq
    <2> QED
      BY <2>2 DEF Operation
  <1>2. ASSUME NEW i \in 1..Len(q)  PROVE Orderly(q, i)'
    <2>1. Orderly(q, i) /\ q[i].buf \in Threads
      BY <1>1 DEF Analysis
    <2>2. q' = q /\ (lock'[q[i].buf] = BE_thread <=> lock[q[i].buf] = BE_thread)
      BY <2>1
    <2> HIDE DEF q
    <2> QED
      BY <2>1, <2>2 DEF Orderly
  <1>3. Returned(q)'
    BY DEF Analysis, Returned
  <1> QED
    BY <1>2, <1>3 DEF Analysis

-----------------------------------------------------------------------------
(* Each operation of an application thread keeps the locks in order.        *)

\* What the others are left with when thread t makes an operation on its own buffer.
OthersKept(t) ==
    /\ \A u \in Actors \ {t} : todo'[u] = todo[u] /\ at'[u] = at[u]
    /\ \A u \in Threads \ {t} : ring'[u] = ring[u] /\ lock'[u] = lock[u]

\* A thread other than the one that makes an operation.
LEMMA OtherKept ==
    ASSUME TypeOK, TypeOK', NEW t \in Threads, OthersKept(t), NEW u \in Threads, u # t,
           AppOk(u), ReadOk(u)
    PROVE  AppOk(u)' /\ ReadOk(u)'
  <1>1. /\ u \in Actors \ {t} /\ BE_thread \in Actors \ {t}
        /\ todo'[u] = todo[u] /\ at'[u] = at[u] /\ ring'[u] = ring[u] /\ lock'[u] = lock[u]
        /\ todo'[BE_thread] = todo[BE_thread] /\ at'[BE_thread] = at[BE_thread]
    BY ActorsDiffer DEF OthersKept
  <1>2. AppOk(u)' /\ (Busy(u)' => Busy(u))
    BY <1>1, AppKept
  <1>3. ReadOk(u)'
    BY <1>1, <1>2 DEF ReadOk, First
  <1> QED
    BY <1>2, <1>3

\* The whole, from what the thread itself is left with.
LEMMA AppStep ==
    ASSUME LockInv, TypeOK', NEW t \in Threads, OthersKept(t),
           lock'[t] = BE_thread <=> lock[t] = BE_thread, AppOk(t)', ReadOk(t)'
    PROVE  LockInv'
  <1>1. todo'[BE_thread] = todo[BE_thread]
    BY ActorsDiffer DEF OthersKept
  <1>2. \A u \in Threads : lock'[u] = BE_thread <=> lock[u] = BE_thread
    BY DEF OthersKept
  <1>3. Analysis'
    BY <1>1, <1>2, AnalysisKept DEF LockInv
  <1>4. \A u \in Threads : AppOk(u)' /\ ReadOk(u)'
    BY OtherKept DEF LockInv, Application, Readings
  <1> QED
    BY <1>3, <1>4 DEF LockInv, Application, Readings

\* The thread has the lock of its buffer, or is free to take it: the analysis is not there.
LEMMA NotThere ==
    ASSUME LockInv, NEW t \in Threads, lock[t] # BE_thread, NEW name, name # "Buffer_Lock"
    PROVE  ~First(BE_thread, name, t)
  BY FirstHasLock DEF LockInv

\* What is left to do after an operation that is done, or has become another one, or several.
LEMMA InsertsLeft ==
    ASSUME TypeOK, NEW t \in Threads, todo[t] # <<>>, Inserts(t, 2), Done(t)
    PROVE  Inserts(t, 1)' /\ Len(todo'[t]) = Len(todo[t]) - 1
  <1>1. /\ Len(todo'[t]) = Len(todo[t]) - 1 /\ Len(todo[t]) \in Nat \ {0}
        /\ \A i \in 1..(Len(todo[t]) - 1) : todo'[t][i] = todo[t][i + 1]
    BY DoneLeaves, NextIsFirst, ActorsDiffer
  <1>2. \A k \in 1..Len(todo'[t]) : k \in 1..(Len(todo[t]) - 1) /\ k + 1 \in 2..Len(todo[t])
    BY <1>1
  <1>3. \A k \in 1..Len(todo'[t]) : todo'[t][k] = Op("Buffer_InsertSingle", t)
    BY <1>1, <1>2 DEF Inserts
  <1> QED
    BY <1>1, <1>3 DEF Inserts

LEMMA InsertsBecome ==
    ASSUME TypeOK, NEW t \in Threads, todo[t] # <<>>, Inserts(t, 2), NEW name,
           Op(name, t) \in Operation, Becomes(t, <<Op(name, t)>>)
    PROVE  /\ First(t, name, t)' /\ Inserts(t, 2)' /\ Len(todo'[t]) = Len(todo[t])
           /\ \A u \in Actors \ {t} : todo'[u] = todo[u]
  <1>1. t \in Actors
    BY ActorsDiffer
  <1>2. /\ Len(todo'[t]) = Len(todo[t]) /\ todo'[t] # <<>> /\ todo'[t][1] = Op(name, t)
        /\ \A i \in 2..Len(todo[t]) : todo'[t][i] = todo[t][i]
        /\ \A u \in Actors \ {t} : todo'[u] = todo[u]
    BY <1>1, BecomesOne
  <1> QED
    BY <1>2 DEF First, Inserts

\* An insertion takes the lock, which was free.
LEMMA InsertKeeps ==
    ASSUME LockInv, TypeOK', NEW t \in Threads, Buffer_InsertSingle(t)
    PROVE  LockInv'
  <1>0. TypeOK /\ AppOk(t) /\ t \in Actors /\ Makes(t, "Buffer_InsertSingle")
    BY ActorsDiffer DEF LockInv, Application, Buffer_InsertSingle
  <1>1. Buf(t) = t /\ AboutToInsert(t) /\ todo[t] # <<>> /\ Len(todo[t]) \in Nat \ {0}
    BY <1>0, AppTurn, MakesFirst
  <1>2. /\ lock[t] = Nobody /\ lock' = [lock EXCEPT ![t] = t] /\ lock'[t] = t
        /\ ring' = ring /\ at' = at /\ Becomes(t, InsertOps(t))
    BY <1>0, <1>1 DEF Buffer_InsertSingle, InsertOps, LockInv, TypeOK
  <1>3. ~First(BE_thread, "Dump", t) /\ ~First(BE_thread, "Take", t)
    BY <1>2, NotThere, ActorsDiffer
  <1>4. CASE IsFull(ring[t])
    <2>1. /\ InsertOps(t) \in Seq(Operation) /\ Len(InsertOps(t)) = 2
          /\ InsertOps(t)[1] = Op("Extrae_Flush_Wrapper", t) /\ InsertOps(t)[2] = Op("Store", t)
      BY <1>4, InsertOpsTyped
    <2>0. /\ Len(todo'[t]) = Len(InsertOps(t)) + Len(todo[t]) - 1 /\ todo'[t] # <<>>
          /\ \A i \in 1..Len(InsertOps(t)) : todo'[t][i] = InsertOps(t)[i]
          /\ \A i \in (Len(InsertOps(t)) + 1)..Len(todo'[t]) :
                todo'[t][i] = todo[t][i - Len(InsertOps(t)) + 1]
          /\ \A u \in Actors \ {t} : todo'[u] = todo[u]
      <3>1. Len(InsertOps(t)) > 0 /\ InsertOps(t) \in Seq(Operation)
        BY <2>1
      <3> QED
        BY <1>0, <1>1, <1>2, <3>1, BecomesMany
    <2>2. /\ Len(todo'[t]) = Len(todo[t]) + 1 /\ todo'[t] # <<>>
          /\ todo'[t][1] = Op("Extrae_Flush_Wrapper", t) /\ todo'[t][2] = Op("Store", t)
          /\ \A i \in 3..Len(todo'[t]) : todo'[t][i] = todo[t][i - 1]
          /\ \A u \in Actors \ {t} : todo'[u] = todo[u]
      BY <1>1, <2>0, <2>1
    <2>3. Inserts(t, 3)'
      BY <1>1, <2>2 DEF AboutToInsert, Inserts
    <2>4. ~ring[t].open /\ Len(todo[t]) <= MaxEvents
      BY <1>0, <1>1, <1>4, RingTyped, OnlineAssumption DEF AboutToInsert, Room, IsFull
    <2>5. InsertingClosed(t)'
      BY <1>1, <1>2, <2>2, <2>3, <2>4, OnlineAssumption DEF InsertingClosed, First
    <2>6. OthersKept(t)
      BY <1>0, <1>2, <2>2, TypedEach DEF OthersKept
    <2>7. ReadOk(t)'
      BY <1>0, <1>2, <1>3, <2>2, <2>6, ActorsDiffer, OpDiffer DEF ReadOk, First
    <2> QED
      BY <1>2, <2>5, <2>6, <2>7, AppStep, ActorsDiffer DEF AppOk
  <1>5. CASE ~IsFull(ring[t])
    <2>1. /\ InsertOps(t) \in Seq(Operation) /\ Len(InsertOps(t)) = 1
          /\ InsertOps(t)[1] = Op("Store", t)
      BY <1>5, InsertOpsTyped
    <2>0. /\ Len(todo'[t]) = Len(InsertOps(t)) + Len(todo[t]) - 1 /\ todo'[t] # <<>>
          /\ \A i \in 1..Len(InsertOps(t)) : todo'[t][i] = InsertOps(t)[i]
          /\ \A i \in (Len(InsertOps(t)) + 1)..Len(todo'[t]) :
                todo'[t][i] = todo[t][i - Len(InsertOps(t)) + 1]
          /\ \A u \in Actors \ {t} : todo'[u] = todo[u]
      <3>1. Len(InsertOps(t)) > 0 /\ InsertOps(t) \in Seq(Operation)
        BY <2>1
      <3> QED
        BY <1>0, <1>1, <1>2, <3>1, BecomesMany
    <2>2. /\ Len(todo'[t]) = Len(todo[t]) /\ todo'[t] # <<>> /\ todo'[t][1] = Op("Store", t)
          /\ \A i \in 2..Len(todo'[t]) : todo'[t][i] = todo[t][i]
          /\ \A u \in Actors \ {t} : todo'[u] = todo[u]
      BY <1>1, <2>0, <2>1
    <2>3. Inserts(t, 2)'
      BY <1>1, <2>2 DEF AboutToInsert, Inserts
    <2>4. Inserting(t)'
      BY <1>1, <1>2, <2>2, <2>3 DEF AboutToInsert, Inserting, First, Room
    <2>6. OthersKept(t)
      BY <1>0, <1>2, <2>2, TypedEach DEF OthersKept
    <2>7. ReadOk(t)'
      BY <1>0, <1>2, <1>3, <2>2, <2>6, ActorsDiffer, OpDiffer DEF ReadOk, First
    <2> QED
      BY <1>2, <2>4, <2>6, <2>7, AppStep, ActorsDiffer DEF AppOk
  <1> QED
    BY <1>4, <1>5

\* The event is in the ring, and the lock is given back.
LEMMA StoreKeeps ==
    ASSUME LockInv, TypeOK', NEW t \in Threads, Store(t)
    PROVE  LockInv'
  <1>0. TypeOK /\ AppOk(t) /\ t \in Actors /\ Makes(t, "Store")
    BY ActorsDiffer DEF LockInv, Application, Store
  <1>1. Buf(t) = t /\ Inserting(t) /\ todo[t] # <<>> /\ Len(todo[t]) \in Nat \ {0}
    BY <1>0, AppTurn, MakesFirst
  <1>2. /\ lock[t] = t /\ lock' = [lock EXCEPT ![t] = Nobody] /\ lock'[t] = Nobody
        /\ at' = at /\ Done(t)
    BY <1>0, <1>1 DEF Store, LockInv, TypeOK, Inserting
  <1>3. ~First(BE_thread, "Dump", t) /\ ~First(BE_thread, "Take", t)
    BY <1>2, NotThere, ActorsDiffer
  <1>4. /\ \A u \in Threads \ {t} : ring'[u] = ring[u]
        /\ ring'[t].fill = ring[t].fill + 1 /\ ring'[t].open = ring[t].open
    <2> DEFINE b == ring[t]
               r == [b EXCEPT !.slots = [@ EXCEPT ![b.cur] = made[t] + 1],
                              !.masked = @ \ {b.cur}, !.cur = GetNext(@), !.fill = @ + 1]
    <2>1. r \in RingSet /\ ring' = [ring EXCEPT ![t] = r]
      BY <1>0, <1>1, StoreRing
    <2>2. r.fill = b.fill + 1 /\ r.open = b.open
      BY <1>0, RingTyped DEF RingSet
    <2> HIDE DEF r
    <2> QED
      BY <1>0, <2>1, <2>2, RingChanged
  <1>5. Inserts(t, 1)' /\ Len(todo'[t]) = Len(todo[t]) - 1
    BY <1>0, <1>1, <1>2, InsertsLeft DEF Inserting
  <1>6. AboutToInsert(t)'
    BY <1>0, <1>1, <1>2, <1>4, <1>5, ActorsDiffer, RingTyped, OnlineAssumption
       DEF AboutToInsert, Inserting, Room
  <1>7. OthersKept(t)
    BY <1>0, <1>1, <1>2, <1>4, DoneLeaves, TypedEach DEF OthersKept
  <1>8. ~First(t, "Dump", t)' /\ ~First(t, "Take", t)'
    BY <1>1, <1>5, EmptySeq, OpDiffer DEF Inserts, First
  <1>9. ReadOk(t)'
    BY <1>3, <1>7, <1>8, ActorsDiffer DEF ReadOk, First, OthersKept
  <1> QED
    BY <1>2, <1>6, <1>7, <1>9, AppStep, ActorsDiffer DEF AppOk


\* A flush that does not happen, or that becomes Buffer_Flush and the insertion of its marks.
LEMMA WrapperKeeps ==
    ASSUME LockInv, TypeOK', NEW t \in Threads, Extrae_Flush_Wrapper(t)
    PROVE  LockInv'
  <1>0. TypeOK /\ AppOk(t) /\ ReadOk(t) /\ t \in Actors /\ Makes(t, "Extrae_Flush_Wrapper")
    BY ActorsDiffer DEF LockInv, Application, Readings, Extrae_Flush_Wrapper
  <1>1. /\ Buf(t) = t /\ (InsertingClosed(t) \/ AboutToFlush(t))
        /\ todo[t] # <<>> /\ Len(todo[t]) \in Nat \ {0}
    BY <1>0, AppTurn, MakesFirst
  <1>2. /\ lock' = lock /\ ring' = ring /\ at' = at
        /\ IF ring[t].open THEN Becomes(t, FlushOps(t)) ELSE Done(t)
    BY <1>1 DEF Extrae_Flush_Wrapper, FlushOps, Done
  <1>3. ring[t].fill \in Int /\ MaxEvents \in Nat
    BY RingTyped, OnlineAssumption, <1>0
  <1>4. CASE InsertingClosed(t)
    <2>1. ~ring[t].open /\ Done(t)
      BY <1>2, <1>4 DEF InsertingClosed
    <2>2. /\ Len(todo'[t]) = Len(todo[t]) - 1
          /\ \A i \in 1..(Len(todo[t]) - 1) : todo'[t][i] = todo[t][i + 1]
          /\ \A u \in Actors \ {t} : todo'[u] = todo[u]
      BY <1>0, <1>1, <2>1, DoneLeaves
    <2>3. First(t, "Store", t)' /\ Inserts(t, 2)'
      BY <1>1, <1>4, <2>2, EmptySeq DEF InsertingClosed, First, Inserts
    <2>4. Inserting(t)'
      BY <1>2, <1>3, <1>4, <2>2, <2>3 DEF InsertingClosed, Inserting, Room
    <2>5. OthersKept(t)
      BY <1>2, <2>2 DEF OthersKept
    <2>6. ~First(BE_thread, "Dump", t) /\ ~First(BE_thread, "Take", t)
      BY <1>4, NotThere, ActorsDiffer DEF InsertingClosed
    <2>7. ~First(t, "Dump", t)' /\ ~First(t, "Take", t)'
      BY <2>3, OpDiffer DEF First
    <2>8. ReadOk(t)'
      BY <2>5, <2>6, <2>7, ActorsDiffer DEF ReadOk, First, OthersKept
    <2> QED
      BY <1>2, <2>4, <2>5, <2>8, AppStep DEF AppOk
  <1>5. CASE AboutToFlush(t) /\ ring[t].open
    <2>1. /\ FlushOps(t) \in Seq(Operation) /\ Len(FlushOps(t)) = 5 /\ Len(FlushOps(t)) > 0
          /\ FlushOps(t)[1] = Op("Buffer_Flush", t)
          /\ \A i \in 2..5 : FlushOps(t)[i] = Op("Buffer_InsertSingle", t)
      BY FlushOpsTyped DEF FlushEvents
    <2>2. Becomes(t, FlushOps(t))
      BY <1>2, <1>5
    <2>3. /\ Len(todo'[t]) = Len(FlushOps(t)) + Len(todo[t]) - 1 /\ todo'[t] # <<>>
          /\ \A i \in 1..Len(FlushOps(t)) : todo'[t][i] = FlushOps(t)[i]
          /\ \A i \in (Len(FlushOps(t)) + 1)..Len(todo'[t]) :
                todo'[t][i] = todo[t][i - Len(FlushOps(t)) + 1]
          /\ \A u \in Actors \ {t} : todo'[u] = todo[u]
      BY <1>0, <1>1, <2>1, <2>2, BecomesMany
    <2>4. /\ Len(todo'[t]) = Len(todo[t]) + 4 /\ todo'[t] # <<>>
          /\ todo'[t][1] = Op("Buffer_Flush", t)
          /\ \A i \in 2..5 : todo'[t][i] = Op("Buffer_InsertSingle", t)
          /\ \A i \in 6..Len(todo'[t]) : todo'[t][i] = todo[t][i - 4]
      BY <1>1, <2>1, <2>3
    <2>5. Inserts(t, 2)'
      <3>1. ASSUME NEW k \in 6..Len(todo'[t])  PROVE todo'[t][k] = Op("Buffer_InsertSingle", t)
        <4>1. k - 4 \in 2..Len(todo[t])
          BY <1>1, <2>4
        <4> QED
          BY <1>5, <2>4, <4>1 DEF AboutToFlush, Inserts
      <3>2. \A k \in 2..Len(todo'[t]) : k \in 2..5 \/ k \in 6..Len(todo'[t])
        BY <1>1, <2>4
      <3> QED
        BY <2>4, <3>1, <3>2 DEF Inserts
    <2>6. InFlush(t)'
      <3>1. First(t, "Buffer_Flush", t)' /\ "Buffer_Flush" \in Flushing
        BY <2>4 DEF First, Flushing
      <3>2. Len(todo'[t]) - 1 <= MaxEvents
        BY <1>1, <1>3, <1>5, <2>4 DEF AboutToFlush, FlushEvents
      <3> QED
        BY <1>2, <1>5, <2>5, <3>1, <3>2 DEF AboutToFlush, InFlush
    <2>7. OthersKept(t)
      BY <1>2, <2>3 DEF OthersKept
    <2>8. ~First(t, "Dump", t)' /\ ~First(t, "Take", t)'
      BY <2>4, OpDiffer DEF First
    <2>9. ReadOk(t)'
      <3>1. Busy(t)
        BY <1>5 DEF Busy
      <3> QED
        BY <1>0, <1>2, <2>7, <2>8, <3>1, ActorsDiffer DEF ReadOk, First, OthersKept
    <2> QED
      BY <1>2, <2>6, <2>7, <2>9, AppStep DEF AppOk
  <1>6. CASE AboutToFlush(t) /\ ~ring[t].open
    <2>1. Done(t) /\ Inserts(t, 2)
      BY <1>2, <1>6 DEF AboutToFlush
    <2>2. /\ Inserts(t, 1)' /\ Len(todo'[t]) = Len(todo[t]) - 1
          /\ \A u \in Actors \ {t} : todo'[u] = todo[u]
      BY <1>0, <1>1, <2>1, InsertsLeft, DoneLeaves
    <2>3. AboutToInsert(t)'
      BY <1>1, <1>2, <1>3, <1>6, <2>2 DEF AboutToFlush, AboutToInsert, Room, FlushEvents
    <2>4. OthersKept(t)
      BY <1>2, <2>2 DEF OthersKept
    <2>5. ~First(t, "Dump", t)' /\ ~First(t, "Take", t)'
      BY <1>1, <2>2, EmptySeq, OpDiffer DEF Inserts, First
    <2>6. ReadOk(t)'
      <3>1. Busy(t)
        BY <1>6 DEF Busy
      <3> QED
        BY <1>0, <1>2, <2>4, <2>5, <3>1, ActorsDiffer DEF ReadOk, First, OthersKept
    <2> QED
      BY <1>2, <2>3, <2>4, <2>6, AppStep DEF AppOk
  <1> QED
    BY <1>1, <1>4, <1>5, <1>6

\* The thread reads what to flush.
LEMMA FlushKeeps ==
    ASSUME LockInv, TypeOK', NEW t \in Threads, Buffer_Flush(t)
    PROVE  LockInv'
  <1>0. TypeOK /\ AppOk(t) /\ ReadOk(t) /\ t \in Actors /\ Makes(t, "Buffer_Flush")
    BY ActorsDiffer DEF LockInv, Application, Readings, Buffer_Flush
  <1>1. /\ Buf(t) = t /\ InFlush(t) /\ Busy(t) /\ Inserts(t, 2)
        /\ todo[t] # <<>> /\ Len(todo[t]) \in Nat \ {0}
    BY <1>0, AppTurn, MakesFirst DEF Flushing, Busy, InFlush
  <1>2. lock' = lock /\ ring' = ring
    BY DEF Buffer_Flush
  <1>3. ring[t].fill \in Int /\ MaxEvents \in Nat /\ BE_thread # t
    BY RingTyped, OnlineAssumption, ActorsDiffer, <1>0
  <1>4. CASE SkipsFlush(ring[t])
    <2>1. Done(t) /\ at' = at
      BY <1>1, <1>4 DEF Buffer_Flush
    <2>2. /\ Inserts(t, 1)' /\ Len(todo'[t]) = Len(todo[t]) - 1
          /\ \A u \in Actors \ {t} : todo'[u] = todo[u]
      BY <1>0, <1>1, <2>1, InsertsLeft, DoneLeaves
    <2>3. AboutToInsert(t)'
      BY <1>1, <1>2, <1>3, <1>4, <2>2 DEF InFlush, AboutToInsert, Room, SkipsFlush, IsEmpty
    <2>4. OthersKept(t)
      BY <1>2, <2>1, <2>2 DEF OthersKept
    <2>5. ~First(t, "Dump", t)' /\ ~First(t, "Take", t)'
      BY <1>1, <2>2, EmptySeq, OpDiffer DEF Inserts, First
    <2>6. ReadOk(t)'
      BY <1>0, <1>1, <1>2, <2>4, <2>5, ActorsDiffer DEF ReadOk, First, OthersKept
    <2> QED
      BY <1>2, <2>3, <2>4, <2>6, AppStep DEF AppOk
  <1>5. CASE ~SkipsFlush(ring[t])
    <2>1. /\ Becomes(t, <<Op("Dump", t)>>)
          /\ at' = [at EXCEPT ![t] = [head |-> ring[t].head, num |-> ring[t].fill, fill |-> 0]]
      BY <1>1, <1>5 DEF Buffer_Flush
    <2>2. /\ First(t, "Dump", t)' /\ Inserts(t, 2)' /\ Len(todo'[t]) = Len(todo[t])
          /\ \A u \in Actors \ {t} : todo'[u] = todo[u]
      BY <1>1, <2>1, <1>0, InsertsBecome, OpTyped
    <2>3. InFlush(t)'
      BY <1>1, <1>2, <2>2 DEF InFlush, Flushing
    <2>4. at'[t].num = ring[t].fill /\ \A u \in Actors \ {t} : at'[u] = at[u]
      BY <1>0, <2>1, TypedEach
    <2>5. OthersKept(t)
      BY <1>2, <2>2, <2>4 DEF OthersKept
    <2>6. ring[t].fill > 0
      BY <1>1, <1>3, <1>5 DEF InFlush, SkipsFlush, IsEmpty
    <2>7. ~First(t, "Take", t)'
      BY <2>2, OpDiffer DEF First
    <2>8. ReadOk(t)'
      BY <1>0, <1>1, <1>2, <1>3, <2>2, <2>4, <2>5, <2>6, <2>7, ActorsDiffer
         DEF ReadOk, First, OthersKept
    <2> QED
      BY <1>2, <2>3, <2>5, <2>8, AppStep DEF AppOk
  <1> QED
    BY <1>4, <1>5

\* The thread has written, and reads FillCount again.
LEMMA DumpKeeps ==
    ASSUME LockInv, TypeOK', NEW t \in Threads, Dump(t)
    PROVE  LockInv'
  <1>0. TypeOK /\ AppOk(t) /\ ReadOk(t) /\ t \in Actors /\ Makes(t, "Dump")
    BY ActorsDiffer DEF LockInv, Application, Readings, Dump
  <1>1. /\ Buf(t) = t /\ InFlush(t) /\ Busy(t) /\ Inserts(t, 2) /\ First(t, "Dump", t)
        /\ todo[t] # <<>> /\ Len(todo[t]) \in Nat \ {0}
    BY <1>0, AppTurn, MakesFirst DEF Flushing, Busy, InFlush
  <1>2. /\ lock' = lock /\ ring' = ring /\ Becomes(t, <<Op("Take", t)>>)
        /\ at' = [at EXCEPT ![t].fill = ring[t].fill]
    BY <1>1 DEF Dump
  <1>3. ring[t].fill \in Int /\ BE_thread # t
    BY RingTyped, ActorsDiffer, <1>0
  <1>4. /\ First(t, "Take", t)' /\ Inserts(t, 2)' /\ Len(todo'[t]) = Len(todo[t])
        /\ \A u \in Actors \ {t} : todo'[u] = todo[u]
    BY <1>0, <1>1, <1>2, InsertsBecome, OpTyped
  <1>5. InFlush(t)'
    BY <1>1, <1>2, <1>4 DEF InFlush, Flushing
  <1>6. /\ at'[t].fill = ring[t].fill /\ at'[t].num = at[t].num
        /\ \A u \in Actors \ {t} : at'[u] = at[u]
    BY <1>0, <1>2, TypedEach
  <1>7. OthersKept(t)
    BY <1>2, <1>4, <1>6 DEF OthersKept
  <1>8. ~First(t, "Dump", t)'
    BY <1>4, OpDiffer DEF First
  <1>9. at'[t].fill <= at'[t].num
    BY <1>0, <1>1, <1>3, <1>6, AtTyped DEF ReadOk
  <1>10. ReadOk(t)'
    BY <1>0, <1>1, <1>2, <1>7, <1>8, <1>9, ActorsDiffer DEF ReadOk, First, OthersKept
  <1> QED
    BY <1>2, <1>5, <1>7, <1>10, AppStep DEF AppOk

\* The thread takes what it has written out of its ring.
LEMMA TakeKeeps ==
    ASSUME LockInv, TypeOK', NEW t \in Threads, Take(t)
    PROVE  LockInv'
  <1>0. TypeOK /\ AppOk(t) /\ ReadOk(t) /\ t \in Actors /\ Makes(t, "Take")
    BY ActorsDiffer DEF LockInv, Application, Readings, Take
  <1>1. /\ Buf(t) = t /\ InFlush(t) /\ Busy(t) /\ Inserts(t, 2) /\ First(t, "Take", t)
        /\ todo[t] # <<>> /\ Len(todo[t]) \in Nat \ {0}
    BY <1>0, AppTurn, MakesFirst DEF Flushing, Busy, InFlush
  <1>2. lock' = lock /\ at' = at /\ Done(t)
    BY DEF Take
  <1>3. /\ ring[t].fill \in Int /\ BE_thread # t /\ MaxEvents \in Nat
        /\ at[t].fill \in Int /\ at[t].num \in Int
        /\ at[BE_thread].num \in Int /\ at[BE_thread].fill \in Int
    BY RingTyped, AtTyped, ActorsDiffer, OnlineAssumption, <1>0
  <1>4. /\ \A u \in Threads \ {t} : ring'[u] = ring[u]
        /\ ring'[t].fill = at[t].fill - at[t].num /\ ring'[t].open = ring[t].open
    <2> DEFINE l == at[t]
               r == [ring[t] EXCEPT !.fill = l.fill - l.num, !.head = (l.head + l.num) % MaxEvents]
    <2>1. r \in RingSet /\ ring' = [ring EXCEPT ![t] = r]
      BY <1>0, <1>1, TakeRing
    <2>2. r.fill = l.fill - l.num /\ r.open = ring[t].open
      BY <1>0, RingTyped DEF RingSet
    <2> HIDE DEF r
    <2> QED
      BY <1>0, <2>1, <2>2, RingChanged
  <1>5. ring'[t].fill <= 0 /\ ring'[t].fill \in Int
    BY <1>0, <1>1, <1>3, <1>4 DEF ReadOk
  <1>6. /\ Inserts(t, 1)' /\ Len(todo'[t]) = Len(todo[t]) - 1
        /\ \A u \in Actors \ {t} : todo'[u] = todo[u]
    BY <1>0, <1>1, <1>2, InsertsLeft, DoneLeaves
  <1>7. AboutToInsert(t)'
    BY <1>1, <1>2, <1>3, <1>5, <1>6 DEF InFlush, AboutToInsert, Room
  <1>8. OthersKept(t)
    BY <1>2, <1>4, <1>6 DEF OthersKept
  <1>9. \A name : First(t, name, t)' => name = "Buffer_InsertSingle"
    BY <1>1, <1>6, EmptySeq, OpDiffer DEF Inserts, First
  <1>10. ~Busy(t)'
    BY <1>9 DEF Busy, AboutToFlush, InFlush, Flushing
  <1>11. ring[t].fill >= 0
    BY <1>1 DEF InFlush
  <1>12. ReadOk(t)'
    <2>1. ~First(t, "Dump", t)' /\ ~First(t, "Take", t)'
      BY <1>9
    <2>2. todo'[BE_thread] = todo[BE_thread] /\ at'[BE_thread] = at[BE_thread]
      BY <1>8, ActorsDiffer DEF OthersKept
    <2> QED
      BY <1>0, <1>1, <1>3, <1>5, <1>10, <1>11, <2>1, <2>2 DEF ReadOk, First
  <1> QED
    BY <1>2, <1>7, <1>8, <1>12, AppStep DEF AppOk

-----------------------------------------------------------------------------
(* Each operation of the analysis keeps the locks in order.                 *)

\* What the application is left with when the analysis works on the buffer of thread t.
LEMMA AnalysisStep ==
    ASSUME LockInv, TypeOK', Analysis', NEW t \in Threads,
           \A u \in Threads : todo'[u] = todo[u] /\ at'[u] = at[u],
           \A u \in Threads : lock'[u] = u <=> lock[u] = u,
           \A u \in Threads \ {t} : ring'[u] = ring[u],
           \A name \in {"Dump", "Take"}, u \in Threads \ {t} : ~First(BE_thread, name, u)',
           AppOk(t)', ReadOk(t)'
    PROVE  LockInv'
  <1>1. ASSUME NEW u \in Threads, u # t  PROVE AppOk(u)' /\ ReadOk(u)'
    <2>1. AppOk(u) /\ ReadOk(u)
      BY DEF LockInv, Application, Readings
    <2>2. AppOk(u)' /\ (Busy(u)' => Busy(u))
      BY <1>1, <2>1, AppKept DEF LockInv
    <2>3. ~First(BE_thread, "Dump", u)' /\ ~First(BE_thread, "Take", u)'
      BY <1>1
    <2>4. ReadOk(u)'
      BY <1>1, <2>1, <2>3 DEF ReadOk, First
    <2> QED
      BY <2>2, <2>4
  <1> QED
    BY <1>1 DEF LockInv, Application, Readings

\* The operations left, once the first is done, are in order among themselves.
LEMMA OrderlyLeft ==
    ASSUME TypeOK, Analysis, todo[BE_thread] # <<>>, Done(BE_thread),
           NEW t \in Threads, NEW name, First(BE_thread, name, t),
           \A u \in Threads \ {t} : lock'[u] = lock[u],
           name = "Buffer_Lock" => lock'[t] = BE_thread,
           name = "Buffer_Unlock" => lock'[t] # BE_thread,
           name \in Work => lock'[t] = lock[t]
    PROVE  /\ Analysis'
           /\ \A u : ~First(BE_thread, "Dump", u)' /\ ~First(BE_thread, "Take", u)'
  <1> DEFINE q == todo[BE_thread]
             n == Len(q)
  <1>1. /\ q \in Seq(Operation) /\ n \in Nat \ {0} /\ q[1] = Op(name, t)
        /\ q[1].do = name /\ q[1].buf = t
    <2>1. q \in Seq(Operation) /\ n \in Nat \ {0}
      BY NextIsFirst, ActorsDiffer
    <2>2. q[1] = Op(name, t) /\ Op(name, t).do = name /\ Op(name, t).buf = t
      BY DEF First, Op
    <2> QED
      BY <2>1, <2>2
  <1>2. Len(todo'[BE_thread]) = n - 1 /\ \A i \in 1..(n - 1) : todo'[BE_thread][i] = q[i + 1]
    BY DoneLeaves, ActorsDiffer
  <1>3. \A i \in 1..n : Orderly(q, i)
    BY DEF Analysis
  <1>4. \A i \in 1..n : q[i] \in Operation /\ q[i].buf \in Threads /\ q[i] = Op(q[i].do, q[i].buf)
    <2> SUFFICES ASSUME NEW i \in 1..n  PROVE q[i] \in Operation /\ q[i].buf \in Threads /\ q[i] = Op(q[i].do, q[i].buf)
      OBVIOUS
    <2>1. q[i] \in Operation
      BY <1>1, ElementOfSeq
    <2> QED
      BY <2>1 DEF Operation, Op
  <1>5. name \in Work \cup {"Buffer_Lock", "Buffer_Unlock"}
    BY <1>1, <1>3 DEF Orderly
  <1>6. name = "Buffer_Lock" => lock[t] # BE_thread
    BY <1>1, <1>3 DEF Orderly
  <1>7. \A i \in 2..n : q[i].do = "Buffer_Lock" /\ name = "Buffer_Lock" => q[i].buf # t
    <2> SUFFICES ASSUME NEW i \in 2..n, q[i].do = "Buffer_Lock", name = "Buffer_Lock", q[i].buf = t
                 PROVE FALSE
      OBVIOUS
    <2>1. q[i] = q[1] /\ q[1].do = "Buffer_Lock" /\ i # 1 /\ i \in 1..n /\ 1 \in 1..n
      BY <1>1, <1>4
    <2>2. \A j \in 1..Len(q) : j # 1 => q[j] # q[1]
      BY <1>3, <2>1 DEF Orderly
    <2> QED
      BY <2>1, <2>2
  <1>8. \A i \in 2..n : name = "Buffer_Unlock" => q[i].buf # t
    <2>1. name = "Buffer_Unlock" => \A j \in (1 + 1)..Len(q) : q[j].buf # q[1].buf
      BY <1>1, <1>3 DEF Orderly
    <2> QED
      BY <1>1, <2>1
  <1>9. \A u \in Threads, i \in 1..n : q[i] = Op("Buffer_Unlock", u) /\ (name # "Buffer_Unlock" \/ u # t) => i \in 2..n
    <2> SUFFICES ASSUME NEW u \in Threads, NEW i \in 1..n, q[i] = Op("Buffer_Unlock", u),
                        name # "Buffer_Unlock" \/ u # t
                 PROVE  i # 1
      BY <1>1
    <2> QED
      BY <1>1, OpDiffer
  <1> DEFINE r == todo'[BE_thread]
  <1>10. /\ Len(r) = n - 1 /\ \A i \in 1..(n - 1) : r[i] = q[i + 1]
         /\ \A i \in 2..n : r[i - 1] = q[i] /\ i - 1 \in 1..(n - 1)
    BY <1>1, <1>2
  <1> HIDE DEF r
  <1>11. ASSUME NEW i \in 1..Len(r)
         PROVE  /\ r[i].do \in (Work \ {"Dump", "Take"}) \cup {"Buffer_Lock", "Buffer_Unlock"}
                /\ r[i].do # "Buffer_Lock" => \/ lock'[r[i].buf] = BE_thread
                                              \/ \E j \in 1..(i - 1) : r[j] = Op("Buffer_Lock", r[i].buf)
                /\ r[i].do = "Buffer_Lock" =>
                      /\ lock'[r[i].buf] # BE_thread
                      /\ \A j \in 1..Len(r) : j # i => r[j] # r[i]
                      /\ \E j \in 1..Len(r) : r[j] = Op("Buffer_Unlock", r[i].buf)
                /\ r[i].do = "Buffer_Unlock" => \A j \in (i + 1)..Len(r) : r[j].buf # r[i].buf
    <2>1. i + 1 \in 2..n /\ i + 1 \in 1..n /\ r[i] = q[i + 1] /\ i + 1 # 1 /\ q[i + 1].buf \in Threads
      BY <1>1, <1>4, <1>10
    <2> DEFINE o == q[i + 1]
    <2>2. Orderly(q, i + 1)
      BY <1>3, <2>1
    <2>3. o.do \in (Work \ {"Dump", "Take"}) \cup {"Buffer_Lock", "Buffer_Unlock"}
      BY <2>1, <2>2 DEF Orderly
    <2>4. ASSUME o.do # "Buffer_Lock"
          PROVE  \/ lock'[o.buf] = BE_thread
                 \/ \E j \in 1..(i - 1) : r[j] = Op("Buffer_Lock", o.buf)
      <3>1. CASE lock[o.buf] = BE_thread
        <4>1. o.buf # t \/ lock'[t] = BE_thread
          BY <1>5, <1>6, <1>8, <2>1, <3>1
        <4> QED
          BY <2>1, <3>1, <4>1
      <3>2. ASSUME NEW j \in 1..(i + 1 - 1), q[j] = Op("Buffer_Lock", o.buf)
            PROVE  \/ lock'[o.buf] = BE_thread
                   \/ \E k \in 1..(i - 1) : r[k] = Op("Buffer_Lock", o.buf)
        <4>1. CASE j = 1
          <5>1. name = "Buffer_Lock" /\ o.buf = t
            BY <1>1, <3>2, <4>1, OpDiffer
          <5> QED
            BY <5>1
        <4>2. CASE j # 1
          <5>1. j - 1 \in 1..(i - 1) /\ j \in 2..n
            BY <1>1, <2>1, <3>2, <4>2
          <5> QED
            BY <1>10, <3>2, <5>1
        <4> QED
          BY <4>1, <4>2
      <3> QED
        BY <2>2, <2>4, <3>1, <3>2 DEF Orderly
    <2>5. ASSUME o.do = "Buffer_Lock"
          PROVE  /\ lock'[o.buf] # BE_thread
                 /\ \A j \in 1..Len(r) : j # i => r[j] # o
                 /\ \E j \in 1..Len(r) : r[j] = Op("Buffer_Unlock", o.buf)
      <3>1. /\ lock[o.buf] # BE_thread
            /\ \A j \in 1..n : j # i + 1 => q[j] # o
            /\ \E j \in 1..n : q[j] = Op("Buffer_Unlock", o.buf)
        BY <2>2, <2>5 DEF Orderly
      <3>2. lock'[o.buf] # BE_thread
        <4>1. CASE o.buf # t
          BY <2>1, <3>1, <4>1
        <4>2. CASE o.buf = t
          <5>1. name # "Buffer_Lock"
            BY <1>7, <2>1, <2>5, <4>2
          <5> QED
            BY <1>5, <3>1, <4>2, <5>1
        <4> QED
          BY <4>1, <4>2
      <3>3. ASSUME NEW j \in 1..Len(r), j # i  PROVE r[j] # o
        <4>1. j + 1 \in 1..n /\ j + 1 # i + 1 /\ r[j] = q[j + 1]
          BY <1>1, <1>10, <3>3
        <4> QED
          BY <3>1, <4>1
      <3>4. \E j \in 1..Len(r) : r[j] = Op("Buffer_Unlock", o.buf)
        <4>1. PICK j \in 1..n : q[j] = Op("Buffer_Unlock", o.buf)
          BY <3>1
        <4>2. name # "Buffer_Unlock" \/ o.buf # t
          BY <1>8, <2>1
        <4>3. j \in 2..n
          BY <1>9, <2>1, <4>1, <4>2
        <4>4. r[j - 1] = q[j] /\ j - 1 \in 1..Len(r)
          BY <1>10, <4>3
        <4> QED
          BY <4>1, <4>4
      <3> QED
        BY <3>2, <3>3, <3>4
    <2>6. ASSUME o.do = "Buffer_Unlock", NEW j \in (i + 1)..Len(r)  PROVE r[j].buf # o.buf
      <3>1. j + 1 \in (i + 1 + 1)..n /\ r[j] = q[j + 1]
        BY <1>1, <1>10, <2>1, <2>6
      <3> QED
        BY <2>2, <2>6, <3>1 DEF Orderly
    <2> QED
      BY <2>1, <2>3, <2>4, <2>5, <2>6
  <1>12. \A i \in 1..Len(r) : Orderly(q, i)'
    BY <1>11 DEF Orderly, r
  <1>13. ASSUME NEW u \in Threads, lock'[u] = BE_thread
         PROVE  \E i \in 1..Len(r) : r[i] = Op("Buffer_Unlock", u)
    <2>1. \E i \in 1..n : q[i] = Op("Buffer_Unlock", u)
      <3>1. CASE lock[u] = BE_thread
        BY <3>1 DEF Analysis, Returned
      <3>2. CASE lock[u] # BE_thread
        <4>1. u = t /\ name = "Buffer_Lock"
          BY <1>5, <1>13, <3>2
        <4> QED
          BY <1>1, <1>3, <4>1 DEF Orderly
      <3> QED
        BY <3>1, <3>2
    <2>2. PICK i \in 1..n : q[i] = Op("Buffer_Unlock", u)
      BY <2>1
    <2>3. name # "Buffer_Unlock" \/ u # t
      BY <1>13
    <2>4. i \in 2..n
      BY <1>9, <2>2, <2>3
    <2>5. r[i - 1] = q[i] /\ i - 1 \in 1..Len(r)
      BY <1>10, <2>4
    <2> QED
      BY <2>2, <2>5
  <1>14. Analysis'
    BY <1>12, <1>13 DEF Analysis, Returned, r
  <1>15. ASSUME NEW u, NEW other \in {"Dump", "Take"}, First(BE_thread, other, u)'
         PROVE  FALSE
    <2>1. r # <<>> /\ r[1] = Op(other, u)
      BY <1>15 DEF First, r
    <2>2. Len(r) # 0
      <3> SUFFICES ASSUME Len(r) = 0  PROVE FALSE
        OBVIOUS
      <3>1. r \in Seq(Operation)
        <4>1. todo' \in [Actors -> Seq(Operation)]
          BY DoneLeaves, ActorsDiffer
        <4> QED
          BY <4>1, ActorsDiffer DEF r
      <3>2. r = <<>>
        BY <3>1, EmptySeq
      <3> QED
        BY <2>1, <3>2
    <2>3. 1 \in 1..Len(r)
      <3>1. n \in Nat \ {0} /\ Len(r) = n - 1
        BY <1>1, <1>10
      <3> HIDE DEF n
      <3> QED
        BY <2>2, <3>1
    <2>4. r[1].do = other
      BY <2>1 DEF Op
    <2> QED
      BY <1>11, <2>3, <2>4 DEF Work, Flushing
  <1> QED
    BY <1>14, <1>15


\* An operation of the analysis that is done, and leaves the rings' counts as they are.
LEMMA AnalysisDone ==
    ASSUME LockInv, TypeOK', NEW t \in Threads, NEW name, First(BE_thread, name, t),
           Done(BE_thread), at' = at,
           \A u \in Threads \ {t} : lock'[u] = lock[u] /\ ring'[u] = ring[u],
           lock'[t] # t, lock[t] # t,
           name = "Buffer_Lock" => lock'[t] = BE_thread,
           name = "Buffer_Unlock" => lock'[t] # BE_thread,
           name \in Work => lock'[t] = lock[t],
           ring'[t].open => ring[t].open,
           \/ ring'[t].fill = ring[t].fill
           \/ /\ ring'[t].fill <= 0
              /\ Busy(t) => ring'[t].fill >= 0 /\ ring'[t].fill <= ring[t].fill
    PROVE  LockInv'
  <1>1. /\ TypeOK /\ Analysis /\ AppOk(t) /\ ReadOk(t)
        /\ todo[BE_thread] # <<>> /\ t # BE_thread
    BY ActorsDiffer DEF LockInv, Application, Readings, First
  <1>2. /\ Analysis'
        /\ \A u : ~First(BE_thread, "Dump", u)' /\ ~First(BE_thread, "Take", u)'
    BY <1>1, OrderlyLeft
  <1>3. \A u \in Threads : todo'[u] = todo[u]
    BY <1>1, DoneLeaves, ActorsDiffer
  <1>4. AppOk(t)'
    BY <1>1, <1>3, AppKept
  <1>5. ReadOk(t)'
    <2>1. /\ ring[t].fill \in Int /\ ring'[t].fill \in Int
          /\ at[t].num \in Int /\ at[t].fill \in Int
      BY <1>1, RingTyped, AtTyped, ActorsDiffer DEF TypeOK
    <2>2. First(t, "Dump", t) => Busy(t)
      <3> SUFFICES ASSUME First(t, "Dump", t)  PROVE InFlush(t)
        BY DEF Busy
      <3>1. Makes(t, "Dump")
        <4>1. todo[t] # <<>> /\ NextOp(t) = Op("Dump", t)
          BY <1>1, NextIsFirst, ActorsDiffer DEF First
        <4> QED
          BY <4>1 DEF Makes, Op
      <3> QED
        BY <1>1, <3>1, AppTurn DEF Flushing
    <2>3. First(t, "Dump", t)' => First(t, "Dump", t)
      BY <1>3 DEF First
    <2>4. First(t, "Dump", t) => at[t].num >= ring'[t].fill
      BY <1>1, <2>1, <2>2 DEF ReadOk
    <2>5. First(t, "Take", t)' => First(t, "Take", t)
      BY <1>3 DEF First
    <2> QED
      BY <1>1, <1>2, <2>3, <2>4, <2>5 DEF ReadOk
  <1>6. \A u \in Threads : lock'[u] = u <=> lock[u] = u
    OBVIOUS
  <1> QED
    BY <1>2, <1>3, <1>4, <1>5, <1>6, AnalysisStep

\* What the analysis makes, by the first of its operations.
LEMMA AnalysisMakes ==
    ASSUME LockInv, NEW name, Makes(BE_thread, name)
    PROVE  /\ TypeOK /\ Analysis /\ todo[BE_thread] # <<>>
           /\ Buf(BE_thread) \in Threads /\ First(BE_thread, name, Buf(BE_thread))
           /\ name # "Buffer_Lock" =>
                 lock[Buf(BE_thread)] = BE_thread /\ lock[Buf(BE_thread)] # Buf(BE_thread)
           /\ name \in Work \cup {"Buffer_Lock", "Buffer_Unlock"}
  BY MakesFirst, AnalysisTurn, ActorsDiffer DEF LockInv

\* The operations that are done in one step, but for Take.
LEMMA AnalysisDoes ==
    ASSUME LockInv, TypeOK',
           \/ Buffer_Lock(BE_thread) \/ Buffer_Unlock(BE_thread) \/ Buffer_Close(BE_thread)
           \/ MaskAll(BE_thread) \/ UnmaskAll(BE_thread)
    PROVE  LockInv'
  <1> DEFINE t == Buf(BE_thread)
  <1>0. TypeOK /\ BE_thread \in Actors /\ BE_thread \notin Threads /\ Nobody \notin Threads
        /\ BE_thread # Nobody
    BY ActorsDiffer, OnlineAssumption DEF LockInv
  <1>1. CASE Buffer_Lock(BE_thread)
    <2>1. Makes(BE_thread, "Buffer_Lock")
      BY <1>1 DEF Buffer_Lock
    <2>2. t \in Threads /\ First(BE_thread, "Buffer_Lock", t)
      BY <2>1, AnalysisMakes
    <2>3. /\ lock[t] = Nobody /\ lock' = [lock EXCEPT ![t] = BE_thread]
          /\ Done(BE_thread) /\ at' = at /\ ring' = ring
      BY <1>1 DEF Buffer_Lock
    <2>4. lock'[t] = BE_thread /\ \A u \in Threads \ {t} : lock'[u] = lock[u]
      BY <1>0, <2>2, <2>3 DEF TypeOK
    <2> HIDE DEF t
    <2> QED
      BY <1>0, <2>2, <2>3, <2>4, AnalysisDone DEF Work, Flushing
  <1>2. CASE Buffer_Unlock(BE_thread)
    <2>1. Makes(BE_thread, "Buffer_Unlock")
      BY <1>2 DEF Buffer_Unlock
    <2>2. t \in Threads /\ First(BE_thread, "Buffer_Unlock", t) /\ lock[t] # t
      BY <2>1, AnalysisMakes
    <2>3. lock' = [lock EXCEPT ![t] = Nobody] /\ Done(BE_thread) /\ at' = at /\ ring' = ring
      BY <1>2 DEF Buffer_Unlock
    <2>4. lock'[t] = Nobody /\ \A u \in Threads \ {t} : lock'[u] = lock[u]
      BY <1>0, <2>2, <2>3 DEF TypeOK
    <2> HIDE DEF t
    <2> QED
      BY <1>0, <2>2, <2>3, <2>4, AnalysisDone DEF Work, Flushing
  <1>3. ASSUME NEW name \in Work, Makes(BE_thread, name), Done(BE_thread), at' = at, lock' = lock,
               NEW r \in RingSet, ring' = [ring EXCEPT ![t] = r],
               r.fill = ring[t].fill, r.open => ring[t].open
        PROVE  LockInv'
    <2>1. /\ t \in Threads /\ First(BE_thread, name, t) /\ lock[t] # t
          /\ name # "Buffer_Lock" /\ name # "Buffer_Unlock"
      BY <1>3, AnalysisMakes DEF Work, Flushing
    <2>2. ring'[t] = r /\ \A u \in Threads \ {t} : ring'[u] = ring[u]
      BY <1>0, <1>3, <2>1, RingChanged
    <2> HIDE DEF t
    <2> QED
      BY <1>3, <2>1, <2>2, AnalysisDone
  <1>4. CASE Buffer_Close(BE_thread)
    <2> DEFINE r == [ring[t] EXCEPT !.open = FALSE]
    <2>1. t \in Threads /\ r \in RingSet /\ ring' = [ring EXCEPT ![t] = r]
      BY <1>0, <1>4, CloseRing
    <2>2. r.fill = ring[t].fill /\ ~r.open
      BY <1>0, <2>1, RingTyped DEF RingSet
    <2>3. /\ Makes(BE_thread, "Buffer_Close") /\ Done(BE_thread) /\ at' = at /\ lock' = lock
          /\ "Buffer_Close" \in Work
      BY <1>4 DEF Buffer_Close, Work
    <2> HIDE DEF r
    <2> QED
      BY <1>3, <2>1, <2>2, <2>3
  <1>5. CASE MaskAll(BE_thread)
    <2> DEFINE b == ring[t]
               r == [b EXCEPT !.masked = b.masked \cup Region(b.head, b.cur)]
    <2>1. t \in Threads /\ r \in RingSet /\ ring' = [ring EXCEPT ![t] = r]
      BY <1>0, <1>5, MaskRing
    <2>2. r.fill = ring[t].fill /\ r.open = ring[t].open
      BY <1>0, <2>1, RingTyped DEF RingSet
    <2>3. /\ Makes(BE_thread, "MaskAll") /\ Done(BE_thread) /\ at' = at /\ lock' = lock
          /\ "MaskAll" \in Work
      BY <1>5 DEF MaskAll, Work
    <2> HIDE DEF r
    <2> QED
      BY <1>3, <2>1, <2>2, <2>3
  <1>6. CASE UnmaskAll(BE_thread)
    <2>1. PICK m \in SUBSET Slots :
             LET r == [ring[t] EXCEPT !.masked = m]
             IN  r \in RingSet /\ ring' = [ring EXCEPT ![t] = r]
      BY <1>0, <1>6, UnmaskRing
    <2> DEFINE r == [ring[t] EXCEPT !.masked = m]
    <2>2. t \in Threads
      BY <1>0, <1>6, UnmaskRing
    <2>3. r.fill = ring[t].fill /\ r.open = ring[t].open
      BY <1>0, <2>2, RingTyped DEF RingSet
    <2>4. /\ Makes(BE_thread, "UnmaskAll") /\ Done(BE_thread) /\ at' = at /\ lock' = lock
          /\ "UnmaskAll" \in Work
      BY <1>6 DEF UnmaskAll, Work
    <2>5. r \in RingSet /\ ring' = [ring EXCEPT ![t] = r]
      BY <2>1
    <2> HIDE DEF r
    <2> QED
      BY <1>3, <2>3, <2>4, <2>5
  <1> QED
    BY <1>1, <1>2, <1>4, <1>5, <1>6

\* The first operation of the analysis becomes another one on the same buffer.
LEMMA AnalysisBecomes ==
    ASSUME TypeOK, Analysis, NEW t \in Threads, NEW name \in Flushing, First(BE_thread, name, t),
           NEW next \in {"Dump", "Take"}, Becomes(BE_thread, <<Op(next, t)>>), lock' = lock
    PROVE  /\ Analysis'
           /\ First(BE_thread, next, t)'
           /\ \A other, u : First(BE_thread, other, u)' => other = next /\ u = t
           /\ \A u \in Threads : todo'[u] = todo[u]
  <1> DEFINE q == todo[BE_thread]
             n == Len(q)
             r == todo'[BE_thread]
  <1>1. q[1] = Op(name, t) /\ q # <<>> /\ n \in Nat \ {0} /\ lock[t] = BE_thread
    <2>1. name # "Buffer_Lock"
      BY DEF Flushing
    <2> QED
      BY <2>1, FirstHasLock, NextIsFirst, ActorsDiffer DEF First
  <1>2. Op(next, t) \in Operation /\ q[1].do = name /\ Op(next, t).do = next /\ Op(next, t).buf = t
    <2>1. Op("Dump", t) \in Operation /\ Op("Take", t) \in Operation
      BY OpTyped
    <2>2. Op(next, t) \in Operation
      <3>1. next = "Dump" \/ next = "Take"
        OBVIOUS
      <3> QED
        BY <2>1, <3>1
    <2>3. Op(name, t).do = name /\ Op(next, t).do = next /\ Op(next, t).buf = t
      BY DEF Op
    <2> QED
      BY <1>1, <2>2, <2>3
  <1>3. /\ Len(r) = n /\ r # <<>> /\ r[1] = Op(next, t)
        /\ \A i \in 2..n : r[i] = q[i]
        /\ \A u \in Threads : todo'[u] = todo[u]
    BY <1>1, <1>2, BecomesOne, ActorsDiffer
  <1>4. First(BE_thread, next, t)' /\ \A other, u : First(BE_thread, other, u)' => other = next /\ u = t
    BY <1>3, OpDiffer DEF First
  <1> HIDE DEF r
  <1>5. ASSUME NEW i \in 1..n
        PROVE  /\ r[i].do \in Work \cup {"Buffer_Lock", "Buffer_Unlock"}
               /\ r[i].do \in {"Dump", "Take"} => i = 1
               /\ r[i].do # "Buffer_Lock" => \/ lock'[r[i].buf] = BE_thread
                                             \/ \E j \in 1..(i - 1) : r[j] = Op("Buffer_Lock", r[i].buf)
               /\ r[i].do = "Buffer_Lock" =>
                     /\ lock'[r[i].buf] # BE_thread
                     /\ \A j \in 1..n : j # i => r[j] # r[i]
                     /\ \E j \in 1..n : r[j] = Op("Buffer_Unlock", r[i].buf)
               /\ r[i].do = "Buffer_Unlock" => \A j \in (i + 1)..n : r[j].buf # r[i].buf
    <2>1. CASE i = 1
      BY <1>1, <1>2, <1>3, <2>1 DEF Work, Flushing
    <2>2. CASE i # 1
      <3>1. i \in 2..n /\ r[i] = q[i] /\ Orderly(q, i)
        BY <1>1, <1>3, <2>2 DEF Analysis
      <3>2. \A x : Op("Buffer_Lock", x) # q[1] /\ Op("Buffer_Unlock", x) # q[1]
        BY <1>1, OpDiffer DEF Flushing
      <3>3. \A j \in 1..n : j = 1 \/ (j \in 2..n /\ r[j] = q[j])
        BY <1>1, <1>3
      <3>4. q[i].do = "Buffer_Lock" => r[1] # q[i]
        BY <1>2, <1>3
      <3>5. \A j \in (i + 1)..n : r[j] = q[j]
        BY <1>3, <3>1
      <3>6. \A j \in 1..(i - 1) : j \in 1..n
        BY <3>1
      <3> QED
        BY <3>1, <3>2, <3>3, <3>4, <3>5, <3>6, <2>2 DEF Orderly
    <2> QED
      BY <2>1, <2>2
  <1>6. Analysis'
    <2>1. \A i \in 1..Len(r) : Orderly(q, i)'
      BY <1>3, <1>5 DEF Orderly, r
    <2>2. ASSUME NEW u \in Threads, lock[u] = BE_thread
          PROVE  \E i \in 1..Len(r) : r[i] = Op("Buffer_Unlock", u)
      <3>1. PICK i \in 1..n : q[i] = Op("Buffer_Unlock", u)
        BY <2>2 DEF Analysis, Returned
      <3>2. i \in 2..n
        <4>1. i # 1
          BY <1>1, <3>1, OpDiffer DEF Flushing
        <4> QED
          BY <1>1, <4>1
      <3> QED
        BY <1>3, <3>1, <3>2
    <2> QED
      BY <2>1, <2>2 DEF Analysis, Returned, r
  <1> QED
    BY <1>3, <1>4, <1>6

\* The analysis reads what to flush, and after the write the count to decrease.
LEMMA AnalysisReads ==
    ASSUME LockInv, TypeOK', Buffer_Flush(BE_thread) \/ Dump(BE_thread)
    PROVE  LockInv'
  <1>t. PICK t \in Threads : t = Buf(BE_thread)
    BY AnalysisMakes DEF Buffer_Flush, Dump
  <1>0. /\ TypeOK /\ Analysis /\ BE_thread \in Actors /\ BE_thread \notin Threads
        /\ lock' = lock /\ ring' = ring
    BY ActorsDiffer DEF LockInv, Buffer_Flush, Dump
  <1>1. CASE Buffer_Flush(BE_thread) /\ SkipsFlush(ring[t])
    <2>1. Makes(BE_thread, "Buffer_Flush") /\ Done(BE_thread) /\ at' = at
      BY <1>t, <1>1 DEF Buffer_Flush
    <2>2. t \in Threads /\ First(BE_thread, "Buffer_Flush", t) /\ lock[t] # t
      BY <1>t, <2>1, AnalysisMakes
    <2> QED
      BY <1>0, <2>1, <2>2, AnalysisDone
  <1>2. ASSUME NEW name \in Flushing, NEW next \in {"Dump", "Take"}, Makes(BE_thread, name),
               Becomes(BE_thread, <<Op(next, t)>>), \A u \in Threads : at'[u] = at[u],
               LET m == at'[BE_thread]  fill == ring[t].fill
               IN  /\ next = "Dump" => m.num = fill \/ (fill <= 0 /\ m.num >= 0 /\ ~Busy(t))
                   /\ next = "Take" => /\ m.fill <= m.num
                                       /\ (m.fill = fill /\ m.num = fill) \/ (fill <= 0 /\ ~Busy(t))
        PROVE  LockInv'
    <2>1. t \in Threads /\ First(BE_thread, name, t)
      BY <1>t, <1>2, AnalysisMakes
    <2>2. /\ Analysis' /\ First(BE_thread, next, t)'
          /\ \A other, u : First(BE_thread, other, u)' => other = next /\ u = t
          /\ \A u \in Threads : todo'[u] = todo[u]
      BY <1>0, <1>2, <2>1, AnalysisBecomes
    <2>3. AppOk(t) /\ ReadOk(t)
      BY <2>1 DEF LockInv, Application, Readings
    <2>4. AppOk(t)' /\ (Busy(t)' => Busy(t))
      BY <1>0, <2>1, <2>2, <2>3, AppKept
    <2>5. ReadOk(t)'
      <3>1. First(t, "Dump", t)' => First(t, "Dump", t)
        BY <2>1, <2>2 DEF First
      <3>2. First(t, "Take", t)' => First(t, "Take", t)
        BY <2>1, <2>2 DEF First
      <3>3. First(BE_thread, "Dump", t)' => next = "Dump"
        BY <2>2
      <3>4. First(BE_thread, "Take", t)' => next = "Take"
        BY <2>2
      <3>5. at'[t] = at[t] /\ ring'[t] = ring[t]
        BY <1>0, <1>2, <2>1
      <3>7. First(BE_thread, "Dump", t)' =>
               at'[BE_thread].num = ring'[t].fill \/ (ring'[t].fill <= 0 /\ at'[BE_thread].num >= 0 /\ ~Busy(t)')
        BY <1>2, <2>4, <3>3, <3>5
      <3>8. First(BE_thread, "Take", t)' =>
               /\ at'[BE_thread].fill <= at'[BE_thread].num
               /\ (at'[BE_thread].fill = ring'[t].fill /\ at'[BE_thread].num = ring'[t].fill)
                    \/ (ring'[t].fill <= 0 /\ ~Busy(t)')
        BY <1>2, <2>4, <3>4, <3>5
      <3> QED
        BY <2>3, <3>1, <3>2, <3>5, <3>7, <3>8 DEF ReadOk
    <2> QED
      BY <1>0, <1>2, <2>1, <2>2, <2>4, <2>5, AnalysisStep
  <1>3. CASE Buffer_Flush(BE_thread) /\ ~SkipsFlush(ring[t])
    <2>1. /\ Makes(BE_thread, "Buffer_Flush") /\ Becomes(BE_thread, <<Op("Dump", t)>>)
          /\ at' = [at EXCEPT ![BE_thread] = [head |-> ring[t].head, num |-> ring[t].fill, fill |-> 0]]
      BY <1>t, <1>3 DEF Buffer_Flush
    <2>2. at'[BE_thread].num = ring[t].fill /\ \A u \in Threads : at'[u] = at[u]
      BY <1>0, <2>1, TypedEach, ActorsDiffer
    <2> QED
      BY <1>2, <2>1, <2>2 DEF Flushing
  <1>4. CASE Dump(BE_thread)
    <2>1. /\ Makes(BE_thread, "Dump") /\ Becomes(BE_thread, <<Op("Take", t)>>)
          /\ at' = [at EXCEPT ![BE_thread].fill = ring[t].fill]
      BY <1>t, <1>4 DEF Dump
    <2>2. /\ at'[BE_thread].fill = ring[t].fill /\ at'[BE_thread].num = at[BE_thread].num
          /\ \A u \in Threads : at'[u] = at[u]
      BY <1>0, <2>1, TypedEach, ActorsDiffer
    <2>3. t \in Threads /\ First(BE_thread, "Dump", t)
      BY <1>t, <2>1, AnalysisMakes
    <2>4. /\ ring[t].fill \in Int /\ at[BE_thread].num \in Int
          /\ \/ at[BE_thread].num = ring[t].fill
             \/ ring[t].fill <= 0 /\ at[BE_thread].num >= 0 /\ ~Busy(t)
      BY <1>0, <2>3, RingTyped, AtTyped DEF LockInv, Readings, ReadOk
    <2> QED
      BY <1>2, <2>1, <2>2, <2>4 DEF Flushing
  <1> QED
    BY <1>1, <1>3, <1>4

\* The analysis takes what it has written out of the ring.
LEMMA AnalysisTakes ==
    ASSUME LockInv, TypeOK', Take(BE_thread)
    PROVE  LockInv'
  <1> DEFINE t == Buf(BE_thread)  l == at[BE_thread]
             r == [ring[t] EXCEPT !.fill = l.fill - l.num, !.head = (l.head + l.num) % MaxEvents]
  <1>0. TypeOK /\ BE_thread \in Actors
    BY ActorsDiffer DEF LockInv
  <1>1. Makes(BE_thread, "Take") /\ Done(BE_thread) /\ at' = at /\ lock' = lock
    BY DEF Take
  <1>2. t \in Threads /\ First(BE_thread, "Take", t) /\ lock[t] # t /\ "Take" \in Work
    BY <1>1, AnalysisMakes DEF Work, Flushing
  <1>3. r \in RingSet /\ ring' = [ring EXCEPT ![t] = r]
    BY <1>0, TakeRing
  <1>4. r.fill = l.fill - l.num /\ r.open = ring[t].open
    BY <1>0, <1>2, RingTyped DEF RingSet
  <1>5. /\ l.fill \in Int /\ l.num \in Int /\ ring[t].fill \in Int /\ l.fill <= l.num
        /\ (l.fill = ring[t].fill /\ l.num = ring[t].fill) \/ (ring[t].fill <= 0 /\ ~Busy(t))
    BY <1>0, <1>2, RingTyped, AtTyped DEF LockInv, Readings, ReadOk
  <1>6. Busy(t) => ring[t].fill >= 0
    BY DEF Busy, AboutToFlush, InFlush
  <1> HIDE DEF r
  <1>7. ring'[t] = r /\ \A u \in Threads \ {t} : ring'[u] = ring[u]
    BY <1>0, <1>2, <1>3, RingChanged
  <1>8. r.fill <= 0 /\ (Busy(t) => r.fill >= 0 /\ r.fill <= ring[t].fill)
    BY <1>4, <1>5, <1>6
  <1> HIDE DEF t, l
  <1> QED
    BY <1>1, <1>2, <1>4, <1>7, <1>8, AnalysisDone

-----------------------------------------------------------------------------
(* What begins.                                                             *)

\* What a call has to do.
CallOps(t, n) ==
    (IF NeedsFlush(t, n) THEN <<Op("Extrae_Flush_Wrapper", t)>> ELSE <<>>)
      \o Times(n, Op("Buffer_InsertSingle", t))

LEMMA CallOpsAre ==
    ASSUME NEW t \in Threads, NEW n \in Nat, n > 0
    PROVE  LET k == IF NeedsFlush(t, n) THEN 1 ELSE 0
               ops == CallOps(t, n)
           IN  /\ ops \in Seq(Operation) /\ Len(ops) = n + k /\ ops # <<>>
               /\ NeedsFlush(t, n) => ops[1] = Op("Extrae_Flush_Wrapper", t)
               /\ \A i \in (k + 1)..Len(ops) : ops[i] = Op("Buffer_InsertSingle", t)
  <1> DEFINE ins == Times(n, Op("Buffer_InsertSingle", t))
             one == <<Op("Extrae_Flush_Wrapper", t)>>
  <1>1. Op("Extrae_Flush_Wrapper", t) \in Operation /\ Op("Buffer_InsertSingle", t) \in Operation
    BY OpTyped
  <1>2. /\ ins \in Seq(Operation) /\ Len(ins) = n
        /\ \A i \in 1..n : ins[i] = Op("Buffer_InsertSingle", t)
    BY <1>1, TimesTyped
  <1>3. one \in Seq(Operation) /\ Len(one) = 1 /\ one[1] = Op("Extrae_Flush_Wrapper", t)
    BY <1>1
  <1>4. CallOps(t, n) = IF NeedsFlush(t, n) THEN one \o ins ELSE <<>> \o ins
    BY DEF CallOps
  <1> HIDE DEF ins, one
  <1>5. CASE NeedsFlush(t, n)
    <2>1. /\ one \o ins \in Seq(Operation) /\ Len(one \o ins) = Len(one) + Len(ins)
          /\ \A i \in 1..(Len(one) + Len(ins)) :
                (one \o ins)[i] = IF i <= Len(one) THEN one[i] ELSE ins[i - Len(one)]
      BY <1>2, <1>3, ConcatProperties
    <2>2. CallOps(t, n) = one \o ins
      BY <1>4, <1>5
    <2> DEFINE ops == CallOps(t, n)
    <2> HIDE DEF ops
    <2>3. ops \in Seq(Operation) /\ Len(ops) = n + 1
      BY <1>2, <1>3, <2>1, <2>2 DEF ops
    <2>4. ops[1] = one[1] /\ \A i \in 2..Len(ops) : ops[i] = ins[i - 1] /\ i - 1 \in 1..n
      BY <1>2, <1>3, <2>1, <2>2, <2>3 DEF ops
    <2>5. ops # <<>>
      BY <2>3, EmptySeq
    <2> QED
      BY <1>2, <1>3, <1>5, <2>3, <2>4, <2>5 DEF ops
  <1>6. CASE ~NeedsFlush(t, n)
    <2>1. CallOps(t, n) = ins
      BY <1>2, <1>4, <1>6, ConcatEmptySeq
    <2>2. ins # <<>>
      BY <1>2, EmptySeq
    <2> QED
      BY <1>2, <1>6, <2>1, <2>2
  <1> QED
    BY <1>5, <1>6

LEMMA CallTyped ==
    ASSUME TypeOK, NEW t \in Threads, Call(t), Watches
    PROVE  TypeOK'
  <1> USE TypedEach
  <1>1. PICK n \in Calls : todo' = [todo EXCEPT ![t] = CallOps(t, n)]
    BY DEF Call, CallOps
  <1>2. n \in Nat /\ n > 0
    BY OnlineAssumption DEF FlushEvents
  <1>3. CallOps(t, n) \in Seq(Operation)
    BY <1>2, CallOpsAre
  <1>4. todo' \in [Actors -> Seq(Operation)]
    BY <1>1, <1>3
  <1>5. calls' \in [Threads -> Nat]
    BY DEF Call
  <1>6. overlapped' \in BOOLEAN
    BY DEF Watches
  <1> QED
    BY <1>4, <1>5, <1>6, TypedTogether DEF Call, history

\* A call that needs a flush begins with it, and the others have room.
LEMMA CallKeeps ==
    ASSUME LockInv, TypeOK', NEW t \in Threads, Call(t)
    PROVE  LockInv'
  <1>0. TypeOK /\ AppOk(t) /\ ReadOk(t) /\ t \in Actors /\ BE_thread # t
    BY ActorsDiffer DEF LockInv, Application, Readings
  <1>1. PICK n \in Calls : todo' = [todo EXCEPT ![t] = CallOps(t, n)]
    BY DEF Call, CallOps
  <1>2. n \in Nat /\ n > 0 /\ n <= MaxEvents - FlushEvents /\ MaxEvents \in Nat /\ MaxEvents > FlushEvents
    BY OnlineAssumption DEF FlushEvents
  <1>3. /\ lock' = lock /\ ring' = ring /\ at' = at /\ AboutToInsert(t)
    BY <1>0, AppIdle DEF Call
  <1>4. todo'[t] = CallOps(t, n) /\ \A u \in Actors \ {t} : todo'[u] = todo[u]
    BY <1>0, <1>1, TypedEach
  <1>5. OthersKept(t)
    BY <1>3, <1>4 DEF OthersKept
  <1>6. ring[t].fill \in Int
    BY <1>0, RingTyped
  <1> DEFINE ops == CallOps(t, n)
  <1>7. CASE NeedsFlush(t, n)
    <2>1. /\ Len(ops) = n + 1 /\ ops # <<>> /\ ops[1] = Op("Extrae_Flush_Wrapper", t)
          /\ \A i \in 2..Len(ops) : ops[i] = Op("Buffer_InsertSingle", t)
      BY <1>2, <1>7, CallOpsAre
    <2> HIDE DEF ops
    <2>2. First(t, "Extrae_Flush_Wrapper", t)' /\ Inserts(t, 2)' /\ Len(todo'[t]) = n + 1
      BY <1>4, <2>1 DEF First, Inserts, ops
    <2>3. ring[t].fill > 0
      BY <1>2, <1>6, <1>7 DEF NeedsFlush, RemainingEvents, FlushEvents
    <2>4. AboutToFlush(t)'
      BY <1>2, <1>3, <1>6, <2>2, <2>3 DEF AboutToFlush, AboutToInsert, FlushEvents
    <2>5. ReadOk(t)'
      <3>1. ~First(t, "Dump", t)' /\ ~First(t, "Take", t)'
        BY <2>2, OpDiffer DEF First
      <3>2. todo'[BE_thread] = todo[BE_thread]
        BY <1>0, <1>4, ActorsDiffer
      <3>3. ~(ring[t].fill <= 0)
        BY <1>6, <2>3
      <3> QED
        BY <1>0, <1>3, <3>1, <3>2, <3>3 DEF ReadOk, First
    <2> QED
      BY <1>3, <1>5, <2>4, <2>5, AppStep DEF AppOk
  <1>8. CASE ~NeedsFlush(t, n)
    <2>1. /\ Len(ops) = n /\ ops # <<>>
          /\ \A i \in 1..Len(ops) : ops[i] = Op("Buffer_InsertSingle", t)
      BY <1>2, <1>8, CallOpsAre
    <2> HIDE DEF ops
    <2>2. Inserts(t, 1)' /\ Len(todo'[t]) = n /\ todo'[t][1] = Op("Buffer_InsertSingle", t)
      BY <1>2, <1>4, <2>1 DEF Inserts, ops
    <2>3. Room(t)'
      BY <1>2, <1>3, <1>6, <1>8, <2>2 DEF Room, NeedsFlush, RemainingEvents, FlushEvents
    <2>4. AboutToInsert(t)'
      BY <1>3, <2>2, <2>3 DEF AboutToInsert
    <2>5. \A name : First(t, name, t)' => name = "Buffer_InsertSingle"
      BY <2>2, OpDiffer DEF First
    <2>6. ~First(t, "Dump", t)' /\ ~First(t, "Take", t)' /\ ~Busy(t)'
      BY <2>5 DEF Busy, AboutToFlush, InFlush, Flushing
    <2>7. ReadOk(t)'
      <3>1. ~Busy(t)
        BY DEF Call, Busy, AboutToFlush, InFlush, First
      <3>2. todo'[BE_thread] = todo[BE_thread]
        BY <1>0, <1>4, ActorsDiffer
      <3> QED
        BY <1>0, <1>3, <2>6, <3>1, <3>2 DEF ReadOk, First
    <2> QED
      BY <1>3, <1>5, <2>4, <2>7, AppStep DEF AppOk
  <1> QED
    BY <1>7, <1>8

\* The operations of a protocol for each buffer, in the order of the threads.
LEMMA OrderTyped ==
    /\ Order \in Seq(Threads) /\ Len(Order) \in Nat /\ DOMAIN Order = 1..Len(Order)
    /\ \A i \in 1..Len(Order) : Order[i] \in Threads
    /\ \A i, j \in 1..Len(Order) : Order[i] = Order[j] => i = j
    /\ \A t \in Threads : \E i \in 1..Len(Order) : Order[i] = t
  <1>1. /\ Order \in Seq(Threads) /\ Len(Order) \in Nat /\ DOMAIN Order = 1..Len(Order)
        /\ \A i \in 1..Len(Order) : Order[i] \in Threads
    BY OnlineAssumption, LenProperties, ElementOfSeq
  <1>2. \A i, j \in 1..Len(Order) : Order[i] = Order[j] => i = j
    BY <1>1, OnlineAssumption DEF IsInjective
  <1>3. \A t \in Threads : \E i \in 1..Len(Order) : Order[i] = t
    BY <1>1 DEF Threads, Range
  <1> QED
    BY <1>1, <1>2, <1>3

LEMMA ForEachTyped ==
    ASSUME NEW name, \A t \in Threads : Op(name, t) \in Operation
    PROVE  /\ ForEach(name) \in Seq(Operation) /\ Len(ForEach(name)) = Len(Order)
           /\ \A i \in 1..Len(Order) : ForEach(name)[i] = Op(name, Order[i])
  <1>1. ForEach(name) \in [1..Len(Order) -> Operation]
    BY OrderTyped DEF ForEach
  <1>2. ForEach(name) \in Seq(Operation)
    BY <1>1, OrderTyped, SeqDef
  <1> QED
    BY <1>1, <1>2, OrderTyped, LenProperties DEF ForEach


\* A protocol: it locks all the buffers, works on them and unlocks them all.
WorkOps(mid, S) ==
    /\ mid \in Seq(Operation)
    /\ \A i \in 1..Len(mid) : mid[i].do \in S

LEMMA OpsAre ==
    ASSUME NEW t \in Threads,
           NEW name \in {"Buffer_Lock", "Buffer_Unlock", "Buffer_Flush", "Buffer_Close", "MaskAll", "UnmaskAll"}
    PROVE  Op(name, t) \in Operation
  BY DEF Op, Operation

LEMMA WorkOpsJoin ==
    ASSUME NEW S, NEW p, NEW q, WorkOps(p, S), WorkOps(q, S)
    PROVE  WorkOps(p \o q, S)
  <1>1. /\ p \o q \in Seq(Operation) /\ Len(p \o q) = Len(p) + Len(q)
        /\ \A i \in 1..(Len(p) + Len(q)) : (p \o q)[i] = IF i <= Len(p) THEN p[i] ELSE q[i - Len(p)]
    BY ConcatProperties DEF WorkOps
  <1>2. Len(p) \in Nat /\ Len(q) \in Nat
    BY LenProperties DEF WorkOps
  <1>3. ASSUME NEW i \in 1..Len(p \o q)  PROVE (p \o q)[i].do \in S
    <2>1. CASE i <= Len(p)
      BY <1>1, <1>2, <2>1 DEF WorkOps
    <2>2. CASE ~(i <= Len(p))
      <3>1. i - Len(p) \in 1..Len(q) /\ (p \o q)[i] = q[i - Len(p)]
        BY <1>1, <1>2, <2>2
      <3> QED
        BY <3>1 DEF WorkOps
    <2> QED
      BY <2>1, <2>2
  <1> QED
    BY <1>1, <1>3 DEF WorkOps

LEMMA WorkOpsEach ==
    ASSUME NEW S, NEW name \in {"Buffer_Flush", "Buffer_Close", "MaskAll", "UnmaskAll"}, name \in S
    PROVE  WorkOps(ForEach(name), S)
  <1>1. \A t \in Threads : Op(name, t) \in Operation
    BY OpsAre
  <1>2. /\ ForEach(name) \in Seq(Operation) /\ Len(ForEach(name)) = Len(Order)
        /\ \A i \in 1..Len(Order) : ForEach(name)[i] = Op(name, Order[i])
    BY <1>1, ForEachTyped
  <1>3. \A t : Op(name, t).do = name
    BY DEF Op
  <1> QED
    BY <1>2, <1>3 DEF WorkOps

\* Each protocol has that form.
LEMMA ProtocolForm ==
    ASSUME NEW S, "Buffer_Flush" \in S, NEW p, WorkOps(p, S)
    PROVE  \E mid : WorkOps(mid, S) /\ PauseApp \o p \o ResumeApp = PauseApp \o (mid \o ForEach("Buffer_Unlock"))
  <1> DEFINE f == ForEach("Buffer_Flush")  u == ForEach("Buffer_Unlock")
  <1>0. \A t \in Threads : Op("Buffer_Lock", t) \in Operation /\ Op("Buffer_Unlock", t) \in Operation
    BY OpsAre
  <1>1. PauseApp \in Seq(Operation) /\ u \in Seq(Operation)
    BY <1>0, ForEachTyped DEF PauseApp
  <1>2. WorkOps(f, S) /\ f \in Seq(Operation) /\ p \in Seq(Operation)
    BY WorkOpsEach DEF WorkOps
  <1>3. ResumeApp = f \o u
    BY DEF ResumeApp
  <1> HIDE DEF f, u
  <1>4. (PauseApp \o p) \o (f \o u) = PauseApp \o (p \o (f \o u))
    <2>1. f \o u \in Seq(Operation)
      BY <1>1, <1>2, ConcatProperties
    <2>2. \A x, y, z \in Seq(Operation) : (x \o y) \o z = x \o (y \o z)
      BY ConcatAssociative
    <2> QED
      BY <1>1, <1>2, <2>1, <2>2
  <1>5. p \o (f \o u) = (p \o f) \o u
    BY SMTT(40), <1>1, <1>2, ConcatAssociative
  <1>6. WorkOps(p \o f, S)
    BY <1>2, WorkOpsJoin
  <1> QED
    BY <1>3, <1>4, <1>5, <1>6 DEF u

\* What the two kinds of protocol do while they have the buffers.
Analysing == {"MaskAll", "UnmaskAll", "Buffer_Flush"}
Ending == {"Buffer_Close", "Buffer_Flush"}

LEMMA ProtocolOps ==
    ASSUME NEW p \in Protocols
    PROVE  \E mid : /\ WorkOps(mid, Analysing)
                    /\ PauseApp \o p \o ResumeApp = PauseApp \o (mid \o ForEach("Buffer_Unlock"))
  <1>1. WorkOps(<<>>, Analysing)
    BY EmptySeq DEF WorkOps
  <1>2. WorkOps(ForEach("MaskAll") \o ForEach("UnmaskAll"), Analysing)
    BY WorkOpsEach, WorkOpsJoin DEF Analysing
  <1>3. WorkOps(p, Analysing)
    BY <1>1, <1>2 DEF Protocols
  <1> QED
    BY <1>3, ProtocolForm DEF Analysing

LEMMA FlushProtocolOps ==
    \E mid : WorkOps(mid, Ending) /\ Flush = PauseApp \o (mid \o ForEach("Buffer_Unlock"))
  <1>1. WorkOps(ForEach("Buffer_Close"), Ending)
    BY WorkOpsEach DEF Ending
  <1> QED
    BY <1>1, ProtocolForm DEF Flush, Ending

\* The operations of a protocol, at their places.
Placed(q, m, S) ==
    LET n == Len(Order)
    IN  /\ n \in Nat /\ m \in Nat /\ q \in Seq(Operation) /\ Len(q) = n + m + n
        /\ \A i \in 1..n : q[i] = Op("Buffer_Lock", Order[i])
        /\ \A i \in (n + 1)..(n + m) : q[i].do \in S /\ q[i].buf \in Threads
        /\ \A i \in (n + m + 1)..(n + m + n) : q[i] = Op("Buffer_Unlock", Order[i - n - m])

LEMMA ProtocolPlaces ==
    ASSUME NEW S \in SUBSET (Work \ {"Dump", "Take"}), NEW mid, WorkOps(mid, S),
           NEW q, q = PauseApp \o (mid \o ForEach("Buffer_Unlock"))
    PROVE  Placed(q, Len(mid), S)
  <1> DEFINE n == Len(Order)  m == Len(mid)  l == PauseApp  u == ForEach("Buffer_Unlock")
  <1>0. \A t \in Threads : Op("Buffer_Lock", t) \in Operation /\ Op("Buffer_Unlock", t) \in Operation
    BY OpsAre
  <1>1. /\ l \in Seq(Operation) /\ Len(l) = n /\ \A i \in 1..n : l[i] = Op("Buffer_Lock", Order[i])
    BY <1>0, ForEachTyped DEF PauseApp
  <1>2. /\ u \in Seq(Operation) /\ Len(u) = n /\ \A i \in 1..n : u[i] = Op("Buffer_Unlock", Order[i])
    BY <1>0, ForEachTyped
  <1>3. /\ mid \in Seq(Operation) /\ m \in Nat /\ n \in Nat
        /\ \A i \in 1..m : mid[i].do \in S /\ mid[i].buf \in Threads
    <2>1. mid \in Seq(Operation) /\ m \in Nat /\ n \in Nat
      BY OrderTyped, LenProperties DEF WorkOps
    <2>2. ASSUME NEW i \in 1..m  PROVE mid[i].do \in S /\ mid[i].buf \in Threads
      <3>1. mid[i] \in Operation
        BY <2>1, ElementOfSeq
      <3> QED
        BY <3>1 DEF WorkOps, Operation
    <2> QED
      BY <2>1, <2>2
  <1>4. q = l \o (mid \o u)
    OBVIOUS
  <1> HIDE DEF l, u, n, m
  <1>5. /\ mid \o u \in Seq(Operation) /\ Len(mid \o u) = m + n
        /\ \A i \in 1..(m + n) : (mid \o u)[i] = IF i <= m THEN mid[i] ELSE u[i - m]
    BY <1>2, <1>3, ConcatProperties DEF m
  <1> DEFINE w == mid \o u
  <1> HIDE DEF w
  <1>6. /\ q \in Seq(Operation) /\ Len(q) = n + (m + n)
        /\ \A i \in 1..(n + (m + n)) : q[i] = IF i <= n THEN l[i] ELSE w[i - n]
    <2>1. q = l \o w /\ w \in Seq(Operation) /\ Len(w) = m + n
      BY <1>4, <1>5 DEF w
    <2>2. /\ l \o w \in Seq(Operation) /\ Len(l \o w) = Len(l) + Len(w)
          /\ \A i \in 1..(Len(l) + Len(w)) : (l \o w)[i] = IF i <= Len(l) THEN l[i] ELSE w[i - Len(l)]
      BY <1>1, <2>1, ConcatProperties
    <2> QED
      BY <1>1, <2>1, <2>2
  <1>7. ASSUME NEW i \in 1..n  PROVE q[i] = Op("Buffer_Lock", Order[i])
    <2>1. i \in 1..(n + (m + n)) /\ i <= n
      BY <1>3
    <2> QED
      BY <1>1, <1>6, <2>1
  <1>8. ASSUME NEW i \in (n + 1)..(n + m)
        PROVE  q[i].do \in S /\ q[i].buf \in Threads
    <2>1. i \in 1..(n + (m + n)) /\ ~(i <= n) /\ i - n \in 1..(m + n) /\ i - n <= m /\ i - n \in 1..m
      BY <1>3
    <2>2. q[i] = mid[i - n]
      BY <1>5, <1>6, <2>1 DEF w
    <2> QED
      BY <1>3, <2>1, <2>2
  <1>9. ASSUME NEW i \in (n + m + 1)..(n + m + n)  PROVE q[i] = Op("Buffer_Unlock", Order[i - n - m])
    <2>1. i \in 1..(n + (m + n)) /\ ~(i <= n) /\ i - n \in 1..(m + n) /\ ~(i - n <= m) /\ i - n - m \in 1..n
      BY <1>3
    <2>2. q[i] = u[i - n - m]
      BY <1>5, <1>6, <2>1 DEF w
    <2> QED
      BY <1>2, <2>1, <2>2
  <1>10. Len(q) = n + m + n
    BY <1>3, <1>6
  <1> QED
    BY <1>3, <1>6, <1>7, <1>8, <1>9, <1>10 DEF n, m, Placed

\* A protocol that begins is in order: the analysis has no lock.
LEMMA ProtocolOrderly ==
    ASSUME NEW S \in SUBSET (Work \ {"Dump", "Take"}), NEW mid, WorkOps(mid, S), NEW q, q = PauseApp \o (mid \o ForEach("Buffer_Unlock")),
           \A t \in Threads : lock[t] # BE_thread
    PROVE  /\ \A i \in 1..Len(q) : Orderly(q, i)
           /\ \A name \in {"Dump", "Take"} : \A t : q # <<>> => q[1] # Op(name, t)
  <1>01. PICK n \in Nat : n = Len(Order)
    BY OrderTyped
  <1>02. /\ \A i \in 1..n : Order[i] \in Threads
         /\ \A i, j \in 1..n : Order[i] = Order[j] => i = j
         /\ \A t \in Threads : \E i \in 1..n : Order[i] = t
    BY <1>01, OrderTyped
  <1>1. PICK m \in Nat :
           /\ n \in Nat /\ m \in Nat /\ q \in Seq(Operation) /\ Len(q) = n + m + n
           /\ \A i \in 1..n : q[i] = Op("Buffer_Lock", Order[i])
           /\ \A i \in (n + 1)..(n + m) : q[i].do \in Work \ {"Dump", "Take"} /\ q[i].buf \in Threads
           /\ \A i \in (n + m + 1)..(n + m + n) : q[i] = Op("Buffer_Unlock", Order[i - n - m])
    <2>1. PICK m : Placed(q, m, S)
      BY ProtocolPlaces
    <2>2. S \subseteq Work \ {"Dump", "Take"}
      OBVIOUS
    <2>3. /\ m \in Nat /\ q \in Seq(Operation) /\ Len(q) = n + m + n
          /\ \A i \in 1..n : q[i] = Op("Buffer_Lock", Order[i])
          /\ \A i \in (n + 1)..(n + m) : q[i].do \in S /\ q[i].buf \in Threads
          /\ \A i \in (n + m + 1)..(n + m + n) : q[i] = Op("Buffer_Unlock", Order[i - n - m])
      BY <1>01, <2>1 DEF Placed
    <2> QED
      BY <2>2, <2>3
  <1>0. \A name, t : Op(name, t).do = name /\ Op(name, t).buf = t
    BY DEF Op
  <1>2. /\ \A i \in 1..n : q[i].do = "Buffer_Lock" /\ q[i].buf = Order[i] /\ Order[i] \in Threads
        /\ \A i \in (n + m + 1)..(n + m + n) :
              /\ q[i].do = "Buffer_Unlock" /\ q[i].buf = Order[i - n - m]
              /\ i - n - m \in 1..n /\ q[i].buf \in Threads
    <2>1. ASSUME NEW i \in 1..n
          PROVE  q[i].do = "Buffer_Lock" /\ q[i].buf = Order[i] /\ Order[i] \in Threads
      BY <1>0, <1>02, <1>1
    <2>2. ASSUME NEW i \in (n + m + 1)..(n + m + n)
          PROVE  /\ q[i].do = "Buffer_Unlock" /\ q[i].buf = Order[i - n - m]
                 /\ i - n - m \in 1..n /\ q[i].buf \in Threads
      <3>1. i - n - m \in 1..n
        BY <1>1
      <3>2. q[i] = Op("Buffer_Unlock", Order[i - n - m]) /\ Order[i - n - m] \in Threads
        BY <1>02, <1>1, <3>1
      <3>3. PICK t \in Threads : t = Order[i - n - m] /\ q[i] = Op("Buffer_Unlock", t)
        BY <3>2
      <3>4. Op("Buffer_Unlock", t).do = "Buffer_Unlock" /\ Op("Buffer_Unlock", t).buf = t
        BY DEF Op
      <3> QED
        BY <3>1, <3>3, <3>4
    <2> QED
      BY <2>1, <2>2
  <1>3. ASSUME NEW t \in Threads  PROVE \E i \in 1..n : q[i] = Op("Buffer_Lock", t)
    <2>1. PICK k \in 1..n : Order[k] = t
      BY <1>02
    <2> QED
      BY <1>1, <2>1
  <1>4. ASSUME NEW t \in Threads  PROVE \E i \in 1..Len(q) : q[i] = Op("Buffer_Unlock", t)
    <2>1. PICK k \in 1..n : Order[k] = t
      BY <1>02
    <2>2. /\ n + m + k \in (n + m + 1)..(n + m + n) /\ n + m + k \in 1..Len(q)
          /\ (n + m + k) - n - m = k
      BY <1>1
    <2>3. q[n + m + k] = Op("Buffer_Unlock", Order[(n + m + k) - n - m])
      BY <1>1, <2>2
    <2> QED
      BY <2>1, <2>2, <2>3
  <1>5. \A i \in 1..Len(q) : i \in 1..n \/ i \in (n + 1)..(n + m) \/ i \in (n + m + 1)..(n + m + n)
    BY <1>1
  <1>6. ASSUME NEW i \in 1..n  PROVE Orderly(q, i)
    <2>1. \A j \in 1..Len(q) : j # i => q[j] # q[i]
      <3> SUFFICES ASSUME NEW j \in 1..Len(q), j # i, q[j] = q[i]  PROVE FALSE
        OBVIOUS
      <3>1. q[j].do = "Buffer_Lock" /\ q[j].buf = Order[i]
        BY <1>2
      <3>2. j \in 1..n
        BY <1>1, <1>2, <1>5, <3>1 DEF Work, Flushing
      <3>3. Order[j] = Order[i]
        BY <1>2, <3>1, <3>2
      <3> QED
        BY <1>02, <3>2, <3>3
    <2> QED
      BY <1>2, <1>4, <2>1 DEF Orderly
  <1>7. ASSUME NEW i \in (n + 1)..(n + m)  PROVE Orderly(q, i)
    <2>1. q[i].do \in Work \ {"Dump", "Take"} /\ q[i].buf \in Threads
      BY <1>1
    <2>2. \E j \in 1..(i - 1) : q[j] = Op("Buffer_Lock", q[i].buf)
      <3>1. PICK j \in 1..n : q[j] = Op("Buffer_Lock", q[i].buf)
        BY <1>3, <2>1
      <3>2. j \in 1..(i - 1)
        BY <1>1
      <3> QED
        BY <3>1, <3>2
    <2> QED
      BY <2>1, <2>2 DEF Orderly, Work, Flushing
  <1>8. ASSUME NEW i \in (n + m + 1)..(n + m + n)  PROVE Orderly(q, i)
    <2>1. \E j \in 1..(i - 1) : q[j] = Op("Buffer_Lock", q[i].buf)
      <3>1. PICK j \in 1..n : q[j] = Op("Buffer_Lock", q[i].buf)
        BY <1>2, <1>3
      <3>2. j \in 1..(i - 1)
        BY <1>1
      <3> QED
        BY <3>1, <3>2
    <2>2. ASSUME NEW j \in (i + 1)..Len(q)  PROVE q[j].buf # q[i].buf
      <3>1. j \in (n + m + 1)..(n + m + n) /\ i - n - m # j - n - m
        BY <1>1
      <3>2. /\ q[i].buf = Order[i - n - m] /\ i - n - m \in 1..n
            /\ q[j].buf = Order[j - n - m] /\ j - n - m \in 1..n
        BY <1>2, <3>1
      <3> QED
        BY <1>02, <3>1, <3>2
    <2> QED
      BY <1>2, <2>1, <2>2 DEF Orderly
  <1>9. \A i \in 1..Len(q) : Orderly(q, i)
    BY <1>5, <1>6, <1>7, <1>8
  <1>10. \A name \in {"Dump", "Take"} : \A t : q # <<>> => q[1] # Op(name, t)
    <2> SUFFICES ASSUME NEW name \in {"Dump", "Take"}, NEW t, q # <<>>, q[1] = Op(name, t)
                 PROVE  FALSE
      OBVIOUS
    <2>1. Len(q) # 0 /\ Len(q) \in Nat /\ q[1].do = name
      <3>1. Len(q) # 0 /\ Len(q) \in Nat
        BY <1>1, EmptySeq, LenProperties
      <3> QED
        BY <3>1 DEF Op
    <2>2. 1 \in 1..Len(q)
      BY <2>1
    <2> QED
      BY <1>1, <1>2, <1>5, <2>1, <2>2
  <1> QED
    BY <1>9, <1>10

\* A protocol begins.
LEMMA ProtocolBegins ==
    ASSUME LockInv, Watches, todo[BE_thread] = <<>>,
           NEW q, todo' = [todo EXCEPT ![BE_thread] = q],
           NEW S \in SUBSET (Work \ {"Dump", "Take"}), NEW mid, WorkOps(mid, S), q = PauseApp \o (mid \o ForEach("Buffer_Unlock")),
           analyses' \in Nat, over' \in BOOLEAN,
           UNCHANGED <<ring, lock, file, at, calls, exited, history>>
    PROVE  LockInv'
  <1> USE TypedEach
  <1>1. TypeOK /\ BE_thread \in Actors /\ BE_thread \notin Threads /\ Threads \subseteq Actors
    BY ActorsDiffer DEF LockInv
  <1>2. q \in Seq(Operation)
    BY ProtocolPlaces DEF Placed
  <1>3. todo' \in [Actors -> Seq(Operation)] /\ overlapped' \in BOOLEAN
    BY <1>1, <1>2 DEF Watches
  <1>4. TypeOK'
    BY <1>1, <1>3, TypedTogether DEF history
  <1>5. todo'[BE_thread] = q /\ \A t \in Threads : todo'[t] = todo[t]
    BY <1>1
  <1>6. \A t \in Threads : lock[t] # BE_thread
    <2>1. \A t \in Threads : lock[t] = BE_thread => \E i \in 1..Len(todo[BE_thread]) : TRUE
      BY DEF LockInv, Analysis, Returned
    <2>2. Len(todo[BE_thread]) = 0
      OBVIOUS
    <2> QED
      BY <2>1, <2>2
  <1>7. /\ \A i \in 1..Len(q) : Orderly(q, i)
        /\ \A name \in {"Dump", "Take"} : \A t : q # <<>> => q[1] # Op(name, t)
    BY <1>6, ProtocolOrderly
  <1>8. Analysis'
    <2>1. \A i \in 1..Len(q) : Orderly(q, i)'
      BY <1>7 DEF Orderly
    <2>2. Returned(q)'
      BY <1>6 DEF Returned
    <2> QED
      BY <1>5, <2>1, <2>2 DEF Analysis
  <1>9. ASSUME NEW t \in Threads  PROVE AppOk(t)' /\ ReadOk(t)'
    <2>1. AppOk(t) /\ ReadOk(t)
      BY DEF LockInv, Application, Readings
    <2>2. AppOk(t)' /\ (Busy(t)' => Busy(t))
      BY <1>1, <1>4, <1>5, <2>1, AppKept
    <2>3. ~First(BE_thread, "Dump", t)' /\ ~First(BE_thread, "Take", t)'
      BY <1>5, <1>7 DEF First
    <2>4. ReadOk(t)'
      BY <1>5, <2>1, <2>3 DEF ReadOk, First
    <2> QED
      BY <2>2, <2>4
  <1> QED
    BY <1>4, <1>8, <1>9 DEF LockInv, Application, Readings


LEMMA AnalyseKeeps ==
    ASSUME LockInv, Watches, Analyse \/ Stop_BE
    PROVE  LockInv'
  <1>1. todo[BE_thread] = <<>> /\ UNCHANGED <<ring, lock, file, at, calls, exited, history>>
    BY DEF Analyse, Stop_BE
  <1>2. analyses' \in Nat /\ over' \in BOOLEAN
    <2>1. analyses \in Nat /\ over \in BOOLEAN
      BY TypedEach DEF LockInv
    <2>2. analyses' = analyses + 1 \/ analyses' = analyses
      BY DEF Analyse, Stop_BE
    <2>3. UNCHANGED over \/ over' = TRUE
      BY DEF Analyse, Stop_BE
    <2>4. over' \in BOOLEAN
      BY <2>1, <2>3, Zenon
    <2> QED
      BY <2>1, <2>2, <2>4
  <1>3. /\ Analysing \in SUBSET (Work \ {"Dump", "Take"})
        /\ Ending \in SUBSET (Work \ {"Dump", "Take"})
    BY DEF Analysing, Ending, Work, Flushing
  <1>4. CASE Analyse
    <2>1. PICK p \in Protocols : todo' = [todo EXCEPT ![BE_thread] = PauseApp \o p \o ResumeApp]
      BY <1>4 DEF Analyse
    <2> QED
      BY <1>1, <1>2, <1>3, <2>1, ProtocolOps, ProtocolBegins
  <1>5. CASE Stop_BE
    <2>1. todo' = [todo EXCEPT ![BE_thread] = Flush]
      BY <1>5 DEF Stop_BE
    <2> QED
      BY <1>1, <1>2, <1>3, <2>1, FlushProtocolOps, ProtocolBegins
  <1> QED
    BY <1>4, <1>5

-----------------------------------------------------------------------------
(* The locks, whatever happens.                                             *)

\* Initially nobody has anything to do, and no lock is held.
LEMMA LockInvInit == Init => LockInv
  <1> SUFFICES ASSUME Init  PROVE LockInv
    OBVIOUS
  <1>0. /\ BE_thread \in Actors /\ Nobody \notin Actors /\ Threads \subseteq Actors
        /\ MaxEvents \in Nat /\ 0 \in Slots
    BY ActorsDiffer, OnlineAssumption DEF Slots, FlushEvents
  <1>1. <<>> \in Seq(Nat) /\ <<>> \in Seq(Operation) /\ Len(<<>>) = 0
    BY EmptySeq
  <1>2. EmptyRing \in RingSet
    BY <1>0 DEF EmptyRing, RingSet
  <1>3. TypeOK
    <2>1. /\ ring \in [Threads -> RingSet] /\ lock \in [Threads -> Actors \cup {Nobody}]
          /\ file \in [Threads -> Seq(Nat)] /\ todo \in [Actors -> Seq(Operation)]
      BY <1>1, <1>2 DEF Init
    <2>2. [head |-> 0, num |-> 0, fill |-> 0] \in [head : Slots, num : Int, fill : Int]
      BY <1>0
    <2>3. /\ at \in [Actors -> [head : Slots, num : Int, fill : Int]]
          /\ calls \in [Threads -> Nat] /\ analyses \in Nat /\ made \in [Threads -> Nat]
          /\ unselected \in [Threads -> SUBSET Nat]
      BY <2>2 DEF Init
    <2>4. {over, exited, overlapped} \subseteq BOOLEAN
      BY DEF Init
    <2> QED
      BY <2>1, <2>3, <2>4 DEF TypeOK, RingSet
  <1>4. \A t \in Threads : /\ todo[t] = <<>> /\ lock[t] = Nobody
                           /\ ring[t].fill = 0
    BY <1>0 DEF Init, EmptyRing
  <1>5. todo[BE_thread] = <<>>
    BY <1>0 DEF Init
  <1>6. ASSUME NEW t \in Threads  PROVE AppOk(t) /\ ReadOk(t)
    <2>1. AboutToInsert(t)
      BY <1>0, <1>1, <1>4 DEF AboutToInsert, Inserts, Room
    <2>2. ReadOk(t)
      BY <1>4, <1>5 DEF ReadOk, First
    <2> QED
      BY <2>1, <2>2 DEF AppOk
  <1>7. Analysis
    BY <1>0, <1>1, <1>4, <1>5 DEF Analysis, Returned
  <1> QED
    BY <1>3, <1>6, <1>7 DEF LockInv, Application, Readings

\* Each operation that runs, whoever makes it.
LEMMA LockInvStep ==
    ASSUME LockInv, NEW a \in Actors, Step(a), Watches
    PROVE  LockInv'
  <1>1. TypeOK'
    BY StepTyped DEF LockInv
  <1>2. CASE a \in Threads
    <2>1. AppOk(a) /\ TypeOK
      BY <1>2 DEF LockInv, Application
    <2>2. PICK name : Makes(a, name) /\ name \in {"Buffer_InsertSingle", "Store", "Extrae_Flush_Wrapper"} \cup Flushing
      <3>1. \E name : Makes(a, name)
        BY DEF Step, Buffer_Lock, Buffer_Unlock, Buffer_InsertSingle, Store, Extrae_Flush_Wrapper,
               Buffer_Flush, Dump, Take, Buffer_Close, MaskAll, UnmaskAll
      <3> QED
        BY <1>2, <2>1, <3>1, AppTurn
    <2>3. \A other : Makes(a, other) => other = name
      BY <2>2 DEF Makes
    <2>4. \/ Buffer_InsertSingle(a) \/ Store(a) \/ Extrae_Flush_Wrapper(a)
          \/ Buffer_Flush(a) \/ Dump(a) \/ Take(a)
      <3>1. ~Makes(a, "Buffer_Lock") /\ ~Makes(a, "Buffer_Unlock") /\ ~Makes(a, "Buffer_Close")
        BY <2>2, <2>3 DEF Flushing
      <3>2. ~Makes(a, "MaskAll") /\ ~Makes(a, "UnmaskAll")
        BY <2>2, <2>3 DEF Flushing
      <3> QED
        BY <3>1, <3>2 DEF Step, Buffer_Lock, Buffer_Unlock, Buffer_Close, MaskAll, UnmaskAll
    <2> QED
      BY <1>1, <1>2, <2>4, InsertKeeps, StoreKeeps, WrapperKeeps, FlushKeeps, DumpKeeps, TakeKeeps
  <1>3. CASE a = BE_thread
    <2>1. PICK name : Makes(a, name) /\ name \in Work \cup {"Buffer_Lock", "Buffer_Unlock"}
      <3>1. \E name : Makes(a, name)
        BY DEF Step, Buffer_Lock, Buffer_Unlock, Buffer_InsertSingle, Store, Extrae_Flush_Wrapper,
               Buffer_Flush, Dump, Take, Buffer_Close, MaskAll, UnmaskAll
      <3> QED
        BY <1>3, <3>1, AnalysisMakes
    <2>2. \A other : Makes(a, other) => other = name
      BY <2>1 DEF Makes
    <2>3. \/ Buffer_Lock(a) \/ Buffer_Unlock(a) \/ Buffer_Close(a) \/ MaskAll(a) \/ UnmaskAll(a)
          \/ Buffer_Flush(a) \/ Dump(a) \/ Take(a)
      <3>1. /\ ~Makes(a, "Buffer_InsertSingle") /\ ~Makes(a, "Store")
            /\ ~Makes(a, "Extrae_Flush_Wrapper")
        BY <2>1, <2>2 DEF Work, Flushing
      <3> QED
        BY <3>1 DEF Step, Buffer_InsertSingle, Store, Extrae_Flush_Wrapper
    <2> QED
      BY <1>1, <1>3, <2>3, AnalysisDoes, AnalysisReads, AnalysisTakes
  <1> QED
    BY <1>2, <1>3 DEF Actors

LEMMA LockInvNext == LockInv /\ [Next]_vars => LockInv'
  <1> SUFFICES ASSUME LockInv, [Next]_vars  PROVE LockInv'
    OBVIOUS
  <1>1. ASSUME NEW t \in Threads, Call(t), Watches  PROVE LockInv'
    BY <1>1, CallTyped, CallKeeps DEF LockInv
  <1>2. CASE Next
    BY <1>1, <1>2, AnalyseKeeps, LockInvStep DEF Next, Begins, Runs
  <1>3. CASE UNCHANGED vars
    BY <1>3 DEF vars, LockInv, TypeOK, Application, AppOk, AboutToInsert, Inserting, InsertingClosed,
                AboutToFlush, InFlush, Inserts, First, Room, Analysis, Orderly, Returned,
                Readings, ReadOk, Busy
  <1> QED
    BY <1>2, <1>3

\* LockInv holds in every reachable state.
THEOREM LockInvariance == Spec => []LockInv
  BY LockInvInit, LockInvNext, PTL DEF Spec

\* Every variable keeps its type.
THEOREM TypeCorrect == Spec => []TypeOK
  <1>1. LockInv => TypeOK
    BY DEF LockInv
  <1> QED
    BY <1>1, LockInvariance, PTL

LEMMA OwnedNext == LockInv /\ Owned /\ [Next]_vars => Owned'
  <1> SUFFICES ASSUME LockInv, Owned, [Next]_vars  PROVE Owned'
    OBVIOUS
  <1>0. TypeOK /\ lock \in [Threads -> Actors \cup {Nobody}]
    BY TypedEach DEF LockInv
  <1>1. CASE UNCHANGED lock
    BY <1>1 DEF Owned
  <1>2. ASSUME NEW a \in Actors, NEW name, Makes(a, name),
               NEW who \in {a, Nobody}, lock' = [lock EXCEPT ![Buf(a)] = who]
        PROVE  Owned'
    <2>1. Buf(a) \in Threads /\ a \in {Buf(a), BE_thread}
      <3>1. CASE a \in Threads
        BY <1>0, <1>2, <3>1, AppTurn DEF LockInv, Application
      <3>2. CASE a = BE_thread
        BY <1>0, <1>2, <3>2, MakesFirst
      <3> QED
        BY <3>1, <3>2 DEF Actors
    <2> QED
      BY <1>0, <1>2, <2>1 DEF Owned
  <1>3. ASSUME NEW a \in Actors, Step(a)  PROVE Owned'
    <2>1. CASE Buffer_Lock(a) \/ Buffer_InsertSingle(a)
      BY <1>2, <2>1 DEF Buffer_Lock, Buffer_InsertSingle
    <2>2. CASE Buffer_Unlock(a) \/ Store(a)
      BY <1>2, <2>2 DEF Buffer_Unlock, Store
    <2> QED
      BY <1>1, <1>3, <2>1, <2>2
         DEF Step, Extrae_Flush_Wrapper, Buffer_Flush, Dump, Take, Buffer_Close, MaskAll, UnmaskAll
  <1> QED
    BY <1>1, <1>3 DEF Next, Begins, Call, Analyse, Stop_BE, Runs, vars

\* No thread, the one of the analysis included, is about to take a lock it holds, or is
\* left with a lock and nothing to do.
THEOREM NoSelfLock == Spec => []NeverLocksItself
  <1>1. LockInv /\ Owned => NeverLocksItself
    <2> SUFFICES ASSUME LockInv, Owned, NEW a \in Actors, NEW t \in Threads, lock[t] = a
                 PROVE  /\ todo[a] # <<>>
                        /\ NextOp(a) \notin {Op("Buffer_InsertSingle", t), Op("Buffer_Lock", t)}
      BY DEF NeverLocksItself
    <2>0. TypeOK /\ BE_thread \notin Threads
      BY ActorsDiffer DEF LockInv
    <2>1. CASE a \in Threads
      <3>1. a = t /\ AppOk(t)
        BY <2>0, <2>1, OnlineAssumption DEF Owned, LockInv, Application
      <3>2. /\ todo[t] # <<>>
            /\ todo[t][1] = Op("Store", t) \/ todo[t][1] = Op("Extrae_Flush_Wrapper", t)
        BY <3>1 DEF AppOk, AboutToInsert, Inserting, InsertingClosed, AboutToFlush, InFlush, First
      <3>3. NextOp(t) = todo[t][1]
        BY <2>0, <3>1, <3>2, NextIsFirst
      <3> QED
        BY <3>1, <3>2, <3>3, OpDiffer
    <2>2. CASE a = BE_thread
      <3>1. \E i \in 1..Len(todo[a]) : TRUE
        BY <2>2 DEF LockInv, Analysis, Returned
      <3>2. todo[a] # <<>>
        BY <3>1
      <3>3. NextOp(a) # Op("Buffer_InsertSingle", t) /\ NextOp(a) # Op("Buffer_Lock", t)
        <4>1. PICK name : Makes(a, name) /\ NextOp(a) = Op(name, Buf(a))
          BY <2>0, <3>2, NextIsFirst DEF Makes
        <4>2. name \in Work \cup {"Buffer_Lock", "Buffer_Unlock"} /\ (name = "Buffer_Lock" => lock[Buf(a)] # BE_thread)
          BY <2>0, <2>2, <4>1, AnalysisTurn DEF LockInv
        <4> QED
          BY <2>2, <4>1, <4>2, OpDiffer DEF Work, Flushing
      <3> QED
        BY <3>2, <3>3
    <2> QED
      BY <2>1, <2>2 DEF Actors
  <1>2. Init => Owned
    BY DEF Init, Owned
  <1> QED
    BY <1>1, <1>2, OwnedNext, LockInvariance, PTL DEF Spec

=============================================================================
