------------------------- MODULE OnlineEventsProofs -------------------------
(***************************************************************************)
(* Proofs about OnlineControl, for any number of threads and rings of any  *)
(* size: the events are accounted for, and the selection kept, until the   *)
(* analysis works on a buffer that its thread is flushing.                 *)
(***************************************************************************)
EXTENDS OnlineControlProofs

-----------------------------------------------------------------------------
(* Where the events are, until the analysis works on a buffer being flushed *)

\* The slot of the event at position k of a ring, the oldest at position 1.
Slot(b, k) == (b.head + k - 1) % MaxEvents

\* A flush that has written what it has yet to take out of the ring.
InTake(t) == First(t, "Take", t) \/ First(BE_thread, "Take", t)

\* The events that have been written, or masked and left out: those up to this one.
Written(t) == IF InTake(t) THEN made[t] ELSE made[t] - ring[t].fill

\* A ring that holds the last of m events, with masks for those in U; the w first ones are
\* among the events F of the file, or in U.
RingHolds(b, m, U, F, w) ==
    /\ b.fill \in 0..MaxEvents /\ b.fill <= m
    /\ b.cur = (b.head + b.fill) % MaxEvents
    /\ \A k \in 1..b.fill : /\ b.slots[Slot(b, k)] = m - b.fill + k
                            /\ Slot(b, k) \in b.masked <=> m - b.fill + k \in U
    /\ F \subseteq 1..w
    /\ 1..w \subseteq F \cup U

RingOk(t) == RingHolds(ring[t], made[t], unselected[t], Range(file[t]), Written(t))

FileOk(t) ==
    /\ Increasing(file[t]) /\ Range(file[t]) \subseteq 1..made[t]
    /\ Range(file[t]) \cap unselected[t] = {}
    /\ unselected[t] \subseteq 1..made[t]

FlushOk(a, t) ==
    /\ First(a, "Dump", t) \/ First(a, "Take", t) =>
          /\ ring[t].open /\ ring[t].fill > 0
          /\ at[a].head = ring[t].head /\ at[a].num = ring[t].fill
    /\ First(a, "Take", t) => at[a].fill = ring[t].fill

DataAt(t) ==
    /\ ring[t].open => RingOk(t)
    /\ FileOk(t)
    /\ FlushOk(t, t) /\ FlushOk(BE_thread, t)

Data ==
    /\ Overlap => overlapped
    /\ ~overlapped => ~exited /\ \A t \in Threads : DataAt(t)

\* The analysis selects while it is not over, and closes the rings when it is.
Timely(q) ==
    \A i \in 1..Len(q) : /\ q[i].do \in {"MaskAll", "UnmaskAll"} => ~over
                         /\ q[i].do = "Buffer_Close" => over
Closing == Timely(todo[BE_thread]) /\ (~over => \A t \in Threads : ring[t].open)

IInv == LockInv /\ Owned /\ Data /\ Closing

-----------------------------------------------------------------------------
(* Positions in a ring, and what the masks of a region do to them.          *)

LEMMA Size == MaxEvents \in Nat /\ MaxEvents > 4 /\ Slots = 0..(MaxEvents - 1)
  BY OnlineAssumption DEF Slots, FlushEvents

\* A position that goes at most once past the end of the ring.
LEMMA Wraps ==
    ASSUME NEW h \in Int, NEW k \in Int, 0 <= h + k, h + k < 2 * MaxEvents
    PROVE  /\ h + k < MaxEvents => (h + k) % MaxEvents = h + k
           /\ h + k >= MaxEvents => (h + k) % MaxEvents = h + k - MaxEvents
  BY Size

LEMMA SlotNumber ==
    ASSUME NEW h \in Slots, NEW k \in 1..(MaxEvents + 1)
    PROVE  /\ (h + k - 1) % MaxEvents \in Slots
           /\ h + k <= MaxEvents => (h + k - 1) % MaxEvents = h + k - 1
           /\ h + k > MaxEvents => (h + k - 1) % MaxEvents = h + k - 1 - MaxEvents
  BY Size

LEMMA SlotWraps ==
    ASSUME NEW b, b.head \in Slots, NEW k \in 1..(MaxEvents + 1)
    PROVE  /\ Slot(b, k) \in Slots
           /\ b.head + k <= MaxEvents => Slot(b, k) = b.head + k - 1
           /\ b.head + k > MaxEvents => Slot(b, k) = b.head + k - 1 - MaxEvents
  BY SlotNumber DEF Slot

LEMMA SlotsDiffer ==
    ASSUME NEW b, b.head \in Slots, NEW k \in 1..MaxEvents, NEW l \in 1..MaxEvents,
           Slot(b, k) = Slot(b, l)
    PROVE  k = l
  <1>1. PICK h \in 0..(MaxEvents - 1) : h = b.head
    BY Size
  <1>2. PICK s \in Slots : s = Slot(b, k) /\ s = Slot(b, l)
    BY SlotWraps, Size
  <1>3. /\ h + k <= MaxEvents => s = h + k - 1
        /\ h + k > MaxEvents => s = h + k - 1 - MaxEvents
    BY <1>1, <1>2, SlotWraps, Size
  <1>4. /\ h + l <= MaxEvents => s = h + l - 1
        /\ h + l > MaxEvents => s = h + l - 1 - MaxEvents
    BY <1>1, <1>2, SlotWraps, Size
  <1> QED
    BY <1>3, <1>4, Size

\* The slots Mask_ChangeRegion changes, from i to j both included; all of them where it
\* begins and ends at the same slot.
LEMMA DistanceIs ==
    ASSUME NEW i \in Slots, NEW j \in Slots
    PROVE  /\ Distance(i, j) \in 1..MaxEvents
           /\ i = j => Distance(i, j) = MaxEvents
           /\ i < j => Distance(i, j) = j - i
           /\ i > j => Distance(i, j) = j - i + MaxEvents
  <1>1. i \in 0..(MaxEvents - 1) /\ j \in 0..(MaxEvents - 1)
    BY Size
  <1>2. i < j => (j - i) % MaxEvents = j - i
    BY <1>1, Size
  <1>3. i > j => (j - i) % MaxEvents = j - i + MaxEvents
    BY <1>1, Size
  <1>4. CASE i = j
    BY <1>1, <1>4, Size DEF Distance
  <1>5. CASE i < j
    <2>1. Distance(i, j) = j - i
      BY <1>1, <1>2, <1>5 DEF Distance
    <2> QED
      BY <1>1, <1>5, <2>1, Size
  <1>6. CASE i > j
    <2>1. Distance(i, j) = j - i + MaxEvents
      BY <1>1, <1>3, <1>6 DEF Distance
    <2> QED
      BY <1>1, <1>6, <2>1, Size
  <1> QED
    BY <1>1, <1>4, <1>5, <1>6

LEMMA RegionIs ==
    ASSUME NEW i \in Slots, NEW j \in Slots, NEW s \in Slots
    PROVE  s \in Region(i, j) <=> \/ i < j /\ i <= s /\ s <= j
                                  \/ i > j /\ (i <= s \/ s <= j)
                                  \/ i = j
  <1>0. i \in 0..(MaxEvents - 1) /\ j \in 0..(MaxEvents - 1) /\ s \in 0..(MaxEvents - 1)
    BY Size
  <1>1. PICK d \in 1..MaxEvents : d = Distance(i, j)
    BY DistanceIs
  <1>2. /\ i = j => d = MaxEvents
        /\ i < j => d = j - i
        /\ i > j => d = j - i + MaxEvents
    BY <1>1, DistanceIs
  <1>3. /\ DOMAIN Path(i, j) = 1..d
        /\ \A k \in 1..d : Path(i, j)[k] = (i + k - 1) % MaxEvents
    BY <1>1 DEF Path
  <1>4. \A k \in 1..d : /\ i + k <= MaxEvents => (i + k - 1) % MaxEvents = i + k - 1
                        /\ i + k > MaxEvents => (i + k - 1) % MaxEvents = i + k - 1 - MaxEvents
    <2> SUFFICES ASSUME NEW k \in 1..d
                 PROVE  /\ i + k <= MaxEvents => (i + k - 1) % MaxEvents = i + k - 1
                        /\ i + k > MaxEvents => (i + k - 1) % MaxEvents = i + k - 1 - MaxEvents
      OBVIOUS
    <2>1. k \in 1..(MaxEvents + 1)
      BY Size
    <2> QED
      BY <2>1, SlotNumber
  <1>5. s \in Region(i, j) <=> s = j \/ \E k \in 1..d : s = (i + k - 1) % MaxEvents
    BY <1>3 DEF Region, Range
  <1>6. (\E k \in 1..d : s = (i + k - 1) % MaxEvents)
          <=> (i <= s /\ s <= i + d - 1) \/ s <= i + d - 1 - MaxEvents
    <2>1. ASSUME i <= s, s <= i + d - 1  PROVE \E k \in 1..d : s = (i + k - 1) % MaxEvents
      <3>1. PICK k \in 1..d : k = s - i + 1
        BY <1>0, <2>1, Size
      <3>2. i + k <= MaxEvents /\ i + k - 1 = s
        BY <1>0, <3>1, Size
      <3>3. (i + k - 1) % MaxEvents = i + k - 1
        BY <1>4, <3>2
      <3>4. (i + k - 1) % MaxEvents = s
        BY <3>2, <3>3
      <3> QED
        BY <3>4
    <2>2. ASSUME s <= i + d - 1 - MaxEvents  PROVE \E k \in 1..d : s = (i + k - 1) % MaxEvents
      <3>1. PICK k \in 1..d : k = s + MaxEvents - i + 1
        BY <1>0, <2>2, Size
      <3>2. i + k > MaxEvents /\ i + k - 1 - MaxEvents = s
        BY <1>0, <3>1, Size
      <3>3. (i + k - 1) % MaxEvents = i + k - 1 - MaxEvents
        BY <1>4, <3>2
      <3>4. (i + k - 1) % MaxEvents = s
        BY <3>2, <3>3
      <3> QED
        BY <3>4
    <2>3. ASSUME NEW k \in 1..d, s = (i + k - 1) % MaxEvents
          PROVE  (i <= s /\ s <= i + d - 1) \/ s <= i + d - 1 - MaxEvents
      <3>1. /\ i + k <= MaxEvents => s = i + k - 1
            /\ i + k > MaxEvents => s = i + k - 1 - MaxEvents
        BY <1>4, <2>3
      <3> QED
        BY <1>0, <3>1, Size
    <2> QED
      BY <2>1, <2>2, <2>3
  <1>7. s \in Region(i, j) <=> s = j \/ (i <= s /\ s <= i + d - 1) \/ s <= i + d - 1 - MaxEvents
    BY <1>5, <1>6
  <1>8. CASE i = j
    BY <1>0, <1>2, <1>7, <1>8, Size
  <1>9. CASE i < j
    BY <1>0, <1>2, <1>7, <1>9, Size
  <1>10. CASE i > j
    BY <1>0, <1>2, <1>7, <1>10, Size
  <1> QED
    BY <1>0, <1>8, <1>9, <1>10

\* The region of a selection holds the events selected, of those in the ring.
LEMMA RegionSelects ==
    ASSUME NEW b, b.head \in Slots, NEW x \in 1..MaxEvents, NEW y \in 1..MaxEvents, x # y,
           NEW k \in 1..MaxEvents
    PROVE  Slot(b, k) \in Region(Slot(b, x), Slot(b, y))
             <=> IF x < y THEN x <= k /\ k <= y ELSE k >= x \/ k <= y
  <1>0. PICK h \in 0..(MaxEvents - 1) : h = b.head
    BY Size
  <1>1. /\ k \in 1..(MaxEvents + 1) /\ x \in 1..(MaxEvents + 1) /\ y \in 1..(MaxEvents + 1)
    BY Size
  <1>2. PICK sk \in Slots : sk = Slot(b, k)
    BY <1>1, SlotWraps
  <1>3. PICK sx \in Slots : sx = Slot(b, x)
    BY <1>1, SlotWraps
  <1>4. PICK sy \in Slots : sy = Slot(b, y)
    BY <1>1, SlotWraps
  <1>5. sk \in Region(sx, sy) <=> \/ sx < sy /\ sx <= sk /\ sk <= sy
                                  \/ sx > sy /\ (sx <= sk \/ sk <= sy)
                                  \/ sx = sy
    BY RegionIs
  <1>6. /\ h + k <= MaxEvents => sk = h + k - 1
        /\ h + k > MaxEvents => sk = h + k - 1 - MaxEvents
    BY <1>0, <1>1, <1>2, SlotWraps
  <1>7. /\ h + x <= MaxEvents => sx = h + x - 1
        /\ h + x > MaxEvents => sx = h + x - 1 - MaxEvents
    BY <1>0, <1>1, <1>3, SlotWraps
  <1>8. /\ h + y <= MaxEvents => sy = h + y - 1
        /\ h + y > MaxEvents => sy = h + y - 1 - MaxEvents
    BY <1>0, <1>1, <1>4, SlotWraps
  <1>9. sk \in 0..(MaxEvents - 1) /\ sx \in 0..(MaxEvents - 1) /\ sy \in 0..(MaxEvents - 1)
    BY Size
  <1>10. (\/ sx < sy /\ sx <= sk /\ sk <= sy
          \/ sx > sy /\ (sx <= sk \/ sk <= sy)
          \/ sx = sy) <=> IF x < y THEN x <= k /\ k <= y ELSE k >= x \/ k <= y
    BY <1>6, <1>7, <1>8, <1>9, Size
  <1> QED
    BY <1>2, <1>3, <1>4, <1>5, <1>10

LEMMA Holds ==
    ASSUME NEW h \in 0..(MaxEvents - 1), NEW f \in 1..MaxEvents, NEW k \in 1..f,
           NEW c \in 0..(MaxEvents - 1), NEW s \in 0..(MaxEvents - 1),
           h + f < MaxEvents => c = h + f, h + f >= MaxEvents => c = h + f - MaxEvents,
           h + k <= MaxEvents => s = h + k - 1, h + k > MaxEvents => s = h + k - 1 - MaxEvents
    PROVE  \/ h < c /\ h <= s /\ s <= c
           \/ h > c /\ (h <= s \/ s <= c)
           \/ h = c
  BY Size

\* From the head of a ring to its tail, all that it holds is masked.
LEMMA RegionHolds ==
    ASSUME NEW b, b.head \in Slots, b.cur \in Slots, b.fill \in 1..MaxEvents,
           b.cur = (b.head + b.fill) % MaxEvents, NEW k \in 1..b.fill
    PROVE  Slot(b, k) \in Region(b.head, b.cur)
  <1>0. PICK h \in 0..(MaxEvents - 1), f \in 1..MaxEvents : h = b.head /\ f = b.fill
    BY Size
  <1>1. k \in 1..f /\ k \in 1..(MaxEvents + 1)
    BY <1>0, Size
  <1>2. /\ h + f < MaxEvents => (h + f) % MaxEvents = h + f
        /\ h + f >= MaxEvents => (h + f) % MaxEvents = h + f - MaxEvents
    <2>1. 0 <= h + f /\ h + f < 2 * MaxEvents /\ h \in Int /\ f \in Int
      BY <1>0, Size
    <2> QED
      BY <2>1, Wraps
  <1>3. PICK c \in 0..(MaxEvents - 1) : c = b.cur
    BY Size
  <1>4. c = (h + f) % MaxEvents
    BY <1>0, <1>3
  <1>5. PICK s \in 0..(MaxEvents - 1) : s = Slot(b, k)
    BY <1>1, SlotWraps, Size
  <1>6. /\ h + k <= MaxEvents => s = h + k - 1
        /\ h + k > MaxEvents => s = h + k - 1 - MaxEvents
    BY <1>0, <1>1, <1>5, SlotWraps
  <1>7. \/ h < c /\ h <= s /\ s <= c
        \/ h > c /\ (h <= s \/ s <= c)
        \/ h = c
    BY <1>1, <1>2, <1>4, <1>6, Holds
  <1>8. h \in Slots /\ c \in Slots /\ s \in Slots
    BY Size
  <1>9. s \in Region(h, c)
    BY <1>7, <1>8, RegionIs
  <1> QED
    BY <1>0, <1>3, <1>5, <1>9


\* Sequences of events in the order of their numbers.
LEMMA IncreasingConcat ==
    ASSUME NEW p \in Seq(Nat), NEW q \in Seq(Nat), Increasing(p), Increasing(q),
           \A x \in Range(p), y \in Range(q) : x < y
    PROVE  p \o q \in Seq(Nat) /\ Increasing(p \o q) /\ Range(p \o q) = Range(p) \cup Range(q)
  <1>1. /\ p \o q \in Seq(Nat) /\ Len(p \o q) = Len(p) + Len(q)
        /\ \A i \in 1..(Len(p) + Len(q)) : (p \o q)[i] = IF i <= Len(p) THEN p[i] ELSE q[i - Len(p)]
    BY ConcatProperties
  <1>2. /\ Len(p) \in Nat /\ Len(q) \in Nat /\ DOMAIN p = 1..Len(p) /\ DOMAIN q = 1..Len(q)
        /\ DOMAIN (p \o q) = 1..Len(p \o q)
    BY <1>1, LenProperties
  <1> DEFINE c == p \o q
  <1>3. /\ \A i \in 1..Len(p) : c[i] = p[i]
        /\ \A i \in 1..Len(q) : c[Len(p) + i] = q[i]
        /\ \A i \in (Len(p) + 1)..(Len(p) + Len(q)) : c[i] = q[i - Len(p)] /\ i - Len(p) \in 1..Len(q)
    <2>1. \A i \in 1..Len(p) : c[i] = p[i]
      BY <1>1, <1>2
    <2>2. ASSUME NEW i \in (Len(p) + 1)..(Len(p) + Len(q))
          PROVE  c[i] = q[i - Len(p)] /\ i - Len(p) \in 1..Len(q)
      BY <1>1, <1>2
    <2>3. ASSUME NEW i \in 1..Len(q)  PROVE c[Len(p) + i] = q[i]
      <3>1. /\ Len(p) + i \in (Len(p) + 1)..(Len(p) + Len(q))
            /\ (Len(p) + i) - Len(p) = i
        BY <1>2
      <3> QED
        BY <2>2, <3>1
    <2> QED
      BY <2>1, <2>2, <2>3
  <1>4. /\ \A i \in 1..Len(p) : p[i] \in Range(p) /\ p[i] \in Nat
        /\ \A i \in 1..Len(q) : q[i] \in Range(q) /\ q[i] \in Nat
    BY <1>2, ElementOfSeq DEF Range
  <1>5. Len(c) = Len(p) + Len(q) /\ DOMAIN c = 1..(Len(p) + Len(q)) /\ c \in Seq(Nat)
    BY <1>1, <1>2
  <1> HIDE DEF c
  <1>6. ASSUME NEW i \in 1..(Len(c) - 1)  PROVE c[i] < c[i + 1]
    <2>1. CASE i < Len(p)
      <3>1. i \in 1..(Len(p) - 1) /\ i \in 1..Len(p) /\ i + 1 \in 1..Len(p)
        BY SMTT(40), <1>2, <1>5, <2>1
      <3> QED
        BY <1>3, <3>1 DEF Increasing
    <2>2. CASE i = Len(p)
      <3>1. i \in 1..Len(p) /\ 1 \in 1..Len(q)
        BY <1>2, <1>5, <2>2
      <3>2. c[i] = p[i] /\ c[i + 1] = q[1]
        BY <1>3, <2>2, <3>1
      <3> QED
        BY <1>4, <3>1, <3>2
    <2>3. CASE i > Len(p)
      <3>1. /\ i \in (Len(p) + 1)..(Len(p) + Len(q)) /\ i + 1 \in (Len(p) + 1)..(Len(p) + Len(q))
            /\ i - Len(p) \in 1..(Len(q) - 1) /\ (i + 1) - Len(p) = (i - Len(p)) + 1
        BY <1>2, <1>5, <2>3
      <3>2. c[i] = q[i - Len(p)] /\ c[i + 1] = q[(i - Len(p)) + 1]
        BY <1>3, <3>1
      <3>3. q[i - Len(p)] < q[(i - Len(p)) + 1]
        BY <3>1 DEF Increasing
      <3> QED
        BY <3>2, <3>3
    <2>4. i \in Int /\ Len(p) \in Int
      BY <1>2
    <2> QED
      BY <2>1, <2>2, <2>3, <2>4
  <1>7. Range(c) = Range(p) \cup Range(q)
    <2>1. Range(c) \subseteq Range(p) \cup Range(q)
      <3> SUFFICES ASSUME NEW i \in 1..(Len(p) + Len(q))  PROVE c[i] \in Range(p) \cup Range(q)
        BY <1>5 DEF Range
      <3>1. CASE i <= Len(p)
        <4>1. i \in 1..Len(p)
          BY <1>2, <3>1
        <4> QED
          BY <1>3, <1>4, <4>1
      <3>2. CASE ~(i <= Len(p))
        <4>1. i \in (Len(p) + 1)..(Len(p) + Len(q))
          BY <1>2, <3>2
        <4> QED
          BY <1>3, <1>4, <4>1
      <3> QED
        BY <3>1, <3>2
    <2>2. ASSUME NEW i \in 1..Len(p)  PROVE p[i] \in Range(c)
      <3>1. i \in DOMAIN c /\ c[i] = p[i]
        BY <1>2, <1>3, <1>5
      <3> QED
        BY <3>1 DEF Range
    <2>3. ASSUME NEW i \in 1..Len(q)  PROVE q[i] \in Range(c)
      <3>1. Len(p) + i \in DOMAIN c /\ c[Len(p) + i] = q[i]
        BY <1>2, <1>3, <1>5
      <3> QED
        BY <3>1 DEF Range
    <2>4. Range(p) \subseteq Range(c) /\ Range(q) \subseteq Range(c)
      BY <1>2, <2>2, <2>3 DEF Range
    <2> QED
      BY <2>1, <2>4
  <1> QED
    BY <1>5, <1>6, <1>7 DEF Increasing, c

LEMMA IncreasingAppend ==
    ASSUME NEW p \in Seq(Nat), Increasing(p), NEW e \in Nat, \A x \in Range(p) : x < e
    PROVE  /\ Append(p, e) \in Seq(Nat) /\ Increasing(Append(p, e))
           /\ Range(Append(p, e)) = Range(p) \cup {e}
  <1> DEFINE q == <<e>>
  <1>1. q \in Seq(Nat) /\ Len(q) = 1 /\ q[1] = e
    OBVIOUS
  <1>2. Range(q) = {e}
    <2>1. DOMAIN q = 1..1
      BY <1>1, LenProperties
    <2> QED
      BY <1>1, <2>1 DEF Range
  <1>3. Increasing(q)
    <2> HIDE DEF q
    <2> QED
      BY <1>1 DEF Increasing
  <1>4. Append(p, e) = p \o q
    BY AppendIsConcat
  <1> HIDE DEF q
  <1>5. \A x \in Range(p), y \in Range(q) : x < y
    BY <1>2
  <1> QED
    BY <1>1, <1>2, <1>3, <1>4, <1>5, IncreasingConcat


\* A flush of f events goes over f slots.
LEMMA DistanceFlushed ==
    ASSUME NEW h \in Slots, NEW f \in 1..MaxEvents
    PROVE  (h + f) % MaxEvents \in Slots /\ Distance(h, (h + f) % MaxEvents) = f
  <1>1. h \in 0..(MaxEvents - 1) /\ h \in Int /\ f \in Int /\ 0 <= h + f /\ h + f < 2 * MaxEvents
    BY Size
  <1>2. /\ h + f < MaxEvents => (h + f) % MaxEvents = h + f
        /\ h + f >= MaxEvents => (h + f) % MaxEvents = h + f - MaxEvents
    BY <1>1, Wraps
  <1>3. PICK c \in Slots : c = (h + f) % MaxEvents
    <2>1. h + f \in Int
      BY <1>1
    <2> QED
      BY <2>1, ModRange
  <1>4. PICK d \in 1..MaxEvents : d = Distance(h, c)
    BY DistanceIs
  <1>5. /\ h = c => d = MaxEvents
        /\ h < c => d = c - h
        /\ h > c => d = c - h + MaxEvents
    BY <1>4, DistanceIs
  <1>6. d = f
    <2>1. c \in 0..(MaxEvents - 1)
      BY Size
    <2> QED
      BY <1>1, <1>2, <1>3, <1>5, <2>1, Size
  <1> QED
    BY <1>3, <1>4, <1>6

\* The f oldest events of a ring are numbered from base on, and masked where they are in U.
Numbered(b, f, base, U) ==
    \A k \in 1..f : /\ b.slots[Slot(b, k)] = base + k
                    /\ Slot(b, k) \in b.masked <=> base + k \in U

\* What Filter_Buffer returns of a ring whose events are numbered from base on: those that
\* are not of the set the masks stand for, in their order.
LEMMA FilteredIs ==
    ASSUME NEW b \in RingSet, NEW f \in 1..MaxEvents, NEW base \in Nat, NEW U,
           Numbered(b, f, base, U)
    PROVE  LET events == Filtered(b, b.head, (b.head + f) % MaxEvents)
           IN  /\ events \in Seq(Nat) /\ Increasing(events)
               /\ Range(events) = ((base + 1)..(base + f)) \ U
  <1> DEFINE j == (b.head + f) % MaxEvents
             path == Path(b.head, j)
  <1>1. b.head \in Slots /\ b.slots \in [Slots -> Nat]
    BY DEF RingSet
  <1>2. j \in Slots /\ Distance(b.head, j) = f
    BY <1>1, DistanceFlushed
  <1>3. /\ path \in Seq(Slots) /\ Len(path) = f
        /\ \A k \in 1..f : path[k] = Slot(b, k)
    BY <1>1, <1>2, PathTyped DEF Slot
  <1>4. PICK kept : Keeps(b, path, kept) /\ Filtered(b, b.head, j) = kept[Len(path)]
    BY <1>1, <1>2, FilteredKeeps
  <1> HIDE DEF path
  <1>5. KeepsStepwise(b, path, kept) /\ \A k \in 0..f : kept[k] \in Seq(Nat)
    BY <1>1, <1>3, <1>4, KeepsStep, KeepsTyped, LenProperties
  <1>6. /\ kept[0] = <<>>
        /\ \A k \in 1..f : kept[k] = IF base + k \in U THEN kept[k - 1]
                                     ELSE Append(kept[k - 1], base + k)
    BY <1>3, <1>5 DEF KeepsStepwise, Numbered
  <1> DEFINE Good(k) == Increasing(kept[k]) /\ Range(kept[k]) = ((base + 1)..(base + k)) \ U
             Bad == {k \in 0..f : ~Good(k)}
  <1>7. Good(0)
    <2>1. Increasing(<<>>) /\ Range(<<>>) = {}
      BY DEF Increasing, Range
    <2>2. (base + 1)..(base + 0) = {}
      OBVIOUS
    <2> QED
      BY <1>6, <2>1, <2>2
  <1>8. ASSUME NEW k \in 1..f, Good(k - 1)  PROVE Good(k)
    <2>1. (base + 1)..(base + k) = ((base + 1)..(base + (k - 1))) \cup {base + k}
      OBVIOUS
    <2>2. base + k \in Nat /\ k - 1 \in 0..f /\ kept[k - 1] \in Seq(Nat)
      BY <1>5
    <2>3. \A x \in Range(kept[k - 1]) : x < base + k
      BY <1>8
    <2>4. CASE base + k \in U
      BY <1>6, <1>8, <2>1, <2>4
    <2>5. CASE base + k \notin U
      <3>1. kept[k] = Append(kept[k - 1], base + k)
        BY <1>6, <2>5
      <3>2. /\ Increasing(kept[k])
            /\ Range(kept[k]) = Range(kept[k - 1]) \cup {base + k}
        BY <1>8, <2>2, <2>3, <3>1, IncreasingAppend
      <3> QED
        BY <1>8, <2>1, <2>5, <3>2
    <2> QED
      BY <2>4, <2>5
  <1> HIDE DEF Good
  <1>9. Bad = {}
    <2> SUFFICES ASSUME NEW n \in Bad, \A k \in Bad : n <= k  PROVE FALSE
      <3>1. Bad \in SUBSET Nat
        OBVIOUS
      <3> HIDE DEF Bad
      <3> QED
        BY <3>1, LeastNatural
    <2>1. n \in 0..f /\ ~Good(n) /\ n # 0
      BY <1>7
    <2>2. n \in 1..f /\ n - 1 \in 0..f /\ ~(n <= n - 1)
      BY <2>1
    <2>3. Good(n - 1)
      BY <2>2
    <2> QED
      BY <1>8, <2>1, <2>2, <2>3
  <1>10. Good(f) /\ f \in 0..f
    BY <1>9
  <1> QED
    BY <1>3, <1>4, <1>5, <1>10 DEF Good

\* What a ring holds, its events numbered from base on.
LEMMA ContentsAre ==
    ASSUME NEW b \in RingSet, b.fill \in Nat, NEW base \in Nat,
           \A k \in 1..b.fill : b.slots[Slot(b, k)] = base + k
    PROVE  /\ Contents(b) \in Seq(Nat) /\ Len(Contents(b)) = b.fill
           /\ \A k \in 1..b.fill : Contents(b)[k] = base + k
           /\ Increasing(Contents(b)) /\ Range(Contents(b)) = (base + 1)..(base + b.fill)
  <1>1. /\ Contents(b) = [k \in 1..b.fill |-> b.slots[Slot(b, k)]]
        /\ \A k \in 1..b.fill : base + k \in Nat
    BY DEF Contents, Slot
  <1>2. Contents(b) \in [1..b.fill -> Nat]
    BY <1>1
  <1>3. Contents(b) \in Seq(Nat) /\ Len(Contents(b)) = b.fill /\ DOMAIN Contents(b) = 1..b.fill
    BY <1>2, SeqDef, LenProperties
  <1>4. \A k \in 1..b.fill : Contents(b)[k] = base + k
    BY <1>1
  <1>5. PICK f \in Nat : f = b.fill
    OBVIOUS
  <1>6. \A i \in 1..(f - 1) : base + i < base + (i + 1) /\ i \in 1..f /\ i + 1 \in 1..f
    OBVIOUS
  <1>7. Increasing(Contents(b))
    BY <1>3, <1>4, <1>5, <1>6 DEF Increasing
  <1>8. Range(Contents(b)) = (base + 1)..(base + f)
    <2>1. \A k \in 1..f : base + k \in (base + 1)..(base + f)
      OBVIOUS
    <2>2. \A n \in (base + 1)..(base + f) : n - base \in 1..f /\ base + (n - base) = n
      OBVIOUS
    <2>3. DOMAIN Contents(b) = 1..f /\ \A k \in 1..f : Contents(b)[k] = base + k
      BY <1>3, <1>4, <1>5
    <2>4. Range(Contents(b)) \subseteq (base + 1)..(base + f)
      BY <2>1, <2>3 DEF Range
    <2>5. ASSUME NEW n \in (base + 1)..(base + f)  PROVE n \in Range(Contents(b))
      <3>1. PICK k \in 1..f : k = n - base /\ base + k = n
        BY <2>2
      <3>2. k \in DOMAIN Contents(b) /\ Contents(b)[k] = n
        BY <2>3, <3>1
      <3> QED
        BY <3>2 DEF Range
    <2> QED
      BY <2>4, <2>5
  <1> QED
    BY <1>3, <1>4, <1>5, <1>7, <1>8

-----------------------------------------------------------------------------
(* Where a flush is, after a step.                                          *)

NotFlushing(a) == \A name \in {"Dump", "Take"} : \A t : ~First(a, name, t)

\* Only the first of the operations still to do may be a part of a flush.
LEMMA RestQuiet ==
    ASSUME LockInv, NEW a \in Actors, NEW i \in 2..Len(todo[a])
    PROVE  todo[a][i].do \notin {"Dump", "Take"}
  <1>1. CASE a \in Threads
    <2>1. AppOk(a) /\ Len(todo[a]) \in Nat
      BY <1>1, TypedEach, LenProperties DEF LockInv, Application
    <2>2. \A t : Op("Buffer_InsertSingle", t).do \notin {"Dump", "Take"} /\ Op("Store", t).do \notin {"Dump", "Take"}
      BY DEF Op
    <2>3. todo[a][i] = Op("Buffer_InsertSingle", a) \/ todo[a][i] = Op("Store", a)
      <3>1. CASE Inserts(a, 1) \/ Inserts(a, 2)
        BY <2>1, <3>1 DEF Inserts
      <3>2. CASE Inserts(a, 3) /\ todo[a][2] = Op("Store", a)
        BY <2>1, <3>2 DEF Inserts
      <3> QED
        BY <2>1, <3>1, <3>2 DEF AppOk, AboutToInsert, Inserting, InsertingClosed, AboutToFlush, InFlush
    <2> QED
      BY <2>2, <2>3
  <1>2. CASE a = BE_thread
    <2>1. Orderly(todo[a], i)
      <3>1. Len(todo[a]) \in Nat
        BY TypedEach, LenProperties DEF LockInv
      <3> QED
        BY <1>2, <3>1 DEF LockInv, Analysis
    <2> QED
      BY <2>1 DEF Orderly
  <1> QED
    BY <1>1, <1>2 DEF Actors

LEMMA DoneQuiet ==
    ASSUME LockInv, NEW a \in Actors, todo[a] # <<>>, Done(a)
    PROVE  NotFlushing(a)'
  <1>1. TypeOK /\ Len(todo[a]) \in Nat \ {0}
    BY NextIsFirst DEF LockInv
  <1>2. /\ todo' \in [Actors -> Seq(Operation)] /\ Len(todo'[a]) = Len(todo[a]) - 1
        /\ \A i \in 1..(Len(todo[a]) - 1) : todo'[a][i] = todo[a][i + 1]
    BY <1>1, DoneLeaves
  <1> SUFFICES ASSUME NEW name \in {"Dump", "Take"}, NEW t, todo'[a] # <<>>, todo'[a][1] = Op(name, t)
               PROVE  FALSE
    BY DEF NotFlushing, First
  <1>3. Len(todo'[a]) # 0
    <2>1. todo'[a] \in Seq(Operation)
      BY <1>2
    <2> QED
      BY <2>1, EmptySeq
  <1>4. 1 \in 1..(Len(todo[a]) - 1) /\ 2 \in 2..Len(todo[a])
    BY <1>1, <1>2, <1>3
  <1>5. todo'[a][1] = todo[a][2] /\ todo[a][2].do \notin {"Dump", "Take"}
    BY <1>2, <1>4, RestQuiet
  <1> QED
    BY <1>5 DEF Op

LEMMA BecomesQuiet ==
    ASSUME LockInv, NEW a \in Actors, todo[a] # <<>>, NEW ops \in Seq(Operation), Len(ops) > 0,
           ops[1].do \notin {"Dump", "Take"}, Becomes(a, ops)
    PROVE  NotFlushing(a)'
  <1>1. todo'[a][1] = ops[1]
    <2>1. Len(ops) \in Nat /\ 1 \in 1..Len(ops)
      BY LenProperties
    <2> QED
      BY <2>1, BecomesMany DEF LockInv
  <1> QED
    BY <1>1 DEF NotFlushing, First, Op

\* Every operation but the reading of what to flush, and its writing, leaves its actor out of a
\* flush.
LEMMA StepQuiet ==
    ASSUME LockInv, NEW a \in Actors, Step(a)
    PROVE  /\ todo[a] # <<>> /\ Buf(a) \in Threads
           /\ \/ NotFlushing(a)'
              \/ Buffer_Flush(a) /\ ~SkipsFlush(ring[Buf(a)])
              \/ Dump(a)
  <1>0. TypeOK
    BY DEF LockInv
  <1>1. todo[a] # <<>>
    BY DEF Step, Buffer_Lock, Buffer_Unlock, Buffer_InsertSingle, Store, Extrae_Flush_Wrapper,
           Buffer_Flush, Dump, Take, Buffer_Close, MaskAll, UnmaskAll, Makes
  <1>2. Buf(a) \in Threads
    BY <1>0, <1>1, NextIsFirst
  <1>3. CASE Done(a)
    BY <1>1, <1>2, <1>3, DoneQuiet
  <1>4. CASE Buffer_InsertSingle(a)
    <2>1. Becomes(a, InsertOps(Buf(a)))
      BY <1>4 DEF Buffer_InsertSingle, InsertOps
    <2>2. /\ InsertOps(Buf(a)) \in Seq(Operation) /\ Len(InsertOps(Buf(a))) > 0
          /\ \/ InsertOps(Buf(a))[1] = Op("Extrae_Flush_Wrapper", Buf(a))
             \/ InsertOps(Buf(a))[1] = Op("Store", Buf(a))
      <3>1. CASE IsFull(ring[Buf(a)])
        BY <1>2, <3>1, InsertOpsTyped
      <3>2. CASE ~IsFull(ring[Buf(a)])
        BY <1>2, <3>2, InsertOpsTyped
      <3> QED
        BY <3>1, <3>2
    <2>3. InsertOps(Buf(a))[1].do \notin {"Dump", "Take"}
      BY <2>2 DEF Op
    <2> QED
      BY <1>1, <1>2, <2>1, <2>2, <2>3, BecomesQuiet
  <1>5. CASE Extrae_Flush_Wrapper(a) /\ ~Done(a)
    <2>1. Becomes(a, FlushOps(Buf(a)))
      BY <1>5 DEF Extrae_Flush_Wrapper, FlushOps, Done
    <2>2. /\ FlushOps(Buf(a)) \in Seq(Operation) /\ Len(FlushOps(Buf(a))) > 0
          /\ FlushOps(Buf(a))[1] = Op("Buffer_Flush", Buf(a))
      BY <1>2, FlushOpsTyped DEF FlushEvents
    <2>3. FlushOps(Buf(a))[1].do \notin {"Dump", "Take"}
      BY <2>2 DEF Op
    <2> QED
      BY <1>1, <1>2, <2>1, <2>2, <2>3, BecomesQuiet
  <1>6. CASE Buffer_Flush(a) /\ ~Done(a)
    <2>1. ~SkipsFlush(ring[Buf(a)])
      BY <1>6 DEF Buffer_Flush
    <2> QED
      BY <1>1, <1>2, <1>6, <2>1
  <1> QED
    BY <1>1, <1>2, <1>3, <1>4, <1>5, <1>6
       DEF Step, Buffer_Lock, Buffer_Unlock, Store, Take, Buffer_Close, MaskAll, UnmaskAll

\* What the step of another actor, or an operation on another buffer, leaves as it was.
LEMMA StepLeaves ==
    ASSUME LockInv, NEW a \in Actors, Step(a)
    PROVE  /\ \A v \in Actors \ {a} : todo'[v] = todo[v] /\ at'[v] = at[v]
           /\ \A u \in Threads \ {Buf(a)} : /\ ring'[u] = ring[u] /\ file'[u] = file[u]
                                            /\ made'[u] = made[u] /\ unselected'[u] = unselected[u]
  <1>0. TypeOK /\ todo[a] # <<>> /\ Buf(a) \in Threads
    BY StepQuiet DEF LockInv
  <1>1. \E ops : Becomes(a, ops)
    BY DEF Step, Buffer_Lock, Buffer_Unlock, Buffer_InsertSingle, Store, Extrae_Flush_Wrapper,
           Buffer_Flush, Dump, Take, Buffer_Close, MaskAll, UnmaskAll, Done
  <1>2. \A v \in Actors \ {a} : todo'[v] = todo[v]
    BY <1>0, <1>1, TypedEach DEF Becomes
  <1>3. \A v \in Actors \ {a} : at'[v] = at[v]
    BY <1>0, TypedEach
       DEF Step, Buffer_Lock, Buffer_Unlock, Buffer_InsertSingle, Store, Extrae_Flush_Wrapper,
           Buffer_Flush, Dump, Take, Buffer_Close, MaskAll, UnmaskAll
  <1>4. \A u \in Threads \ {Buf(a)} : ring'[u] = ring[u]
    <2>1. UNCHANGED ring \/ \E r : ring' = [ring EXCEPT ![Buf(a)] = r]
      <3>1. CASE Store(a)
        BY <1>0, <3>1, StoreRing
      <3>2. CASE Take(a)
        BY <1>0, <3>2, TakeRing
      <3>3. CASE Buffer_Close(a)
        BY <1>0, <3>3, CloseRing
      <3>4. CASE MaskAll(a)
        BY <1>0, <3>4, MaskRing
      <3>5. CASE UnmaskAll(a)
        BY <1>0, <3>5, UnmaskRing
      <3> QED
        BY <3>1, <3>2, <3>3, <3>4, <3>5
           DEF Step, Buffer_Lock, Buffer_Unlock, Buffer_InsertSingle, Extrae_Flush_Wrapper, Buffer_Flush, Dump
    <2> QED
      BY <1>0, <2>1, TypedEach
  <1>5. \A u \in Threads \ {Buf(a)} : file'[u] = file[u]
    BY <1>0, TypedEach
       DEF Step, Buffer_Lock, Buffer_Unlock, Buffer_InsertSingle, Store, Extrae_Flush_Wrapper,
           Buffer_Flush, Dump, Take, Buffer_Close, MaskAll, UnmaskAll
  <1>6. \A u \in Threads \ {Buf(a)} : made'[u] = made[u]
    BY <1>0, TypedEach
       DEF Step, Buffer_Lock, Buffer_Unlock, Buffer_InsertSingle, Store, Extrae_Flush_Wrapper,
           Buffer_Flush, Dump, Take, Buffer_Close, MaskAll, UnmaskAll, history
  <1>7. \A u \in Threads \ {Buf(a)} : unselected'[u] = unselected[u]
    BY <1>0, TypedEach
       DEF Step, Buffer_Lock, Buffer_Unlock, Buffer_InsertSingle, Store, Extrae_Flush_Wrapper,
           Buffer_Flush, Dump, Take, Buffer_Close, MaskAll, UnmaskAll, history
  <1> QED
    BY <1>2, <1>3, <1>4, <1>5, <1>6, <1>7

\* A buffer nothing happens to.
LEMMA DataKept ==
    ASSUME NEW t \in Threads, DataAt(t),
           ring'[t] = ring[t], file'[t] = file[t], made'[t] = made[t],
           unselected'[t] = unselected[t],
           \A a \in {t, BE_thread} :
              \/ /\ todo'[a] = todo[a] /\ at'[a] = at[a]
              \/ \A name \in {"Dump", "Take"} : ~First(a, name, t) /\ ~First(a, name, t)'
    PROVE  DataAt(t)'
  <1>1. InTake(t)' <=> InTake(t)
    BY DEF InTake, First
  <1>2. \A a \in {t, BE_thread} : FlushOk(a, t)'
    BY DEF DataAt, FlushOk, First
  <1>3. FileOk(t)'
    BY DEF DataAt, FileOk
  <1>4. Written(t)' = Written(t)
    BY <1>1 DEF Written
  <1>5. ring[t].open => RingOk(t)'
    BY <1>4 DEF DataAt, RingOk
  <1> QED
    BY <1>2, <1>3, <1>5 DEF DataAt

-----------------------------------------------------------------------------
(* What each operation does to the events a ring holds.                     *)

LEMMA NextWraps ==
    ASSUME NEW h \in 0..(MaxEvents - 1), NEW f \in 0..(MaxEvents - 1),
           NEW c \in 0..(MaxEvents - 1), NEW x \in Int, NEW y \in Int,
           h + f < MaxEvents => c = h + f, h + f >= MaxEvents => c = h + f - MaxEvents,
           h + (f + 1) < MaxEvents => x = h + (f + 1),
           h + (f + 1) >= MaxEvents => x = h + (f + 1) - MaxEvents,
           c + 1 < MaxEvents => y = c + 1, c + 1 >= MaxEvents => y = c + 1 - MaxEvents
    PROVE  x = y
  BY Size

\* An event is stored after the others.
LEMMA StoreHolds ==
    ASSUME NEW b \in RingSet, NEW r \in RingSet, NEW m \in Nat, NEW U \in SUBSET (1..m), NEW F,
           NEW w, w = m - b.fill, NEW n, n = m + 1,
           RingHolds(b, m, U, F, w), b.fill < MaxEvents,
           r.slots = [b.slots EXCEPT ![b.cur] = m + 1], r.masked = b.masked \ {b.cur},
           r.head = b.head, r.cur = GetNext(b.cur), r.fill = b.fill + 1
    PROVE  RingHolds(r, n, U, F, w)
  <1>01. b.fill \in 0..MaxEvents
    BY DEF RingHolds
  <1>02. b.fill \in 0..(MaxEvents - 1)
    BY <1>01, Size
  <1>03. b.head \in Slots /\ b.cur \in Slots
    BY DEF RingSet
  <1>1. PICK f \in 0..(MaxEvents - 1), h \in Slots, c \in Slots : f = b.fill /\ h = b.head /\ c = b.cur
    BY <1>02, <1>03
  <1>2. /\ f <= m /\ c = (h + f) % MaxEvents
        /\ \A k \in 1..f : /\ b.slots[Slot(b, k)] = m - f + k
                           /\ Slot(b, k) \in b.masked <=> m - f + k \in U
        /\ F \subseteq 1..w /\ 1..w \subseteq F \cup U
    BY <1>1 DEF RingHolds
  <1>3. f + 1 \in 1..MaxEvents /\ f + 1 \in 1..(MaxEvents + 1)
    BY <1>1, Size
  <1>4. \A k : Slot(r, k) = Slot(b, k)
    BY DEF Slot
  <1>5. c = Slot(b, f + 1)
    <2>1. h + f = h + (f + 1) - 1
      BY <1>1, Size
    <2> QED
      BY <1>1, <1>2, <2>1 DEF Slot
  <1>6. \A k \in 1..f : Slot(b, k) # c /\ Slot(b, k) \in Slots
    <2> SUFFICES ASSUME NEW k \in 1..f  PROVE Slot(b, k) # c /\ Slot(b, k) \in Slots
      OBVIOUS
    <2>1. k \in 1..MaxEvents /\ k \in 1..(MaxEvents + 1) /\ k # f + 1
      BY <1>1, Size
    <2> QED
      BY <1>1, <1>3, <1>5, <2>1, SlotsDiffer, SlotWraps
  <1>7. r.cur = (r.head + r.fill) % MaxEvents
    <2>1. /\ h + f < MaxEvents => c = h + f
          /\ h + f >= MaxEvents => c = h + f - MaxEvents
      <3>1. h \in Int /\ f \in Int /\ 0 <= h + f /\ h + f < 2 * MaxEvents
        BY <1>1, Size
      <3> QED
        BY <1>2, <3>1, Wraps
    <2>2. h \in 0..(MaxEvents - 1) /\ c \in 0..(MaxEvents - 1)
      BY Size
    <2>3. h \in Int /\ f + 1 \in Int /\ 0 <= h + (f + 1) /\ h + (f + 1) < 2 * MaxEvents
      BY <1>1, <2>2, Size
    <2>4. c \in Int /\ 1 \in Int /\ 0 <= c + 1 /\ c + 1 < 2 * MaxEvents
      BY <2>2, Size
    <2>5. /\ h + (f + 1) < MaxEvents => (h + (f + 1)) % MaxEvents = h + (f + 1)
          /\ h + (f + 1) >= MaxEvents => (h + (f + 1)) % MaxEvents = h + (f + 1) - MaxEvents
      BY <2>3, Wraps
    <2>6. /\ c + 1 < MaxEvents => (c + 1) % MaxEvents = c + 1
          /\ c + 1 >= MaxEvents => (c + 1) % MaxEvents = c + 1 - MaxEvents
      BY <2>4, Wraps
    <2>7. PICK x \in Int, y \in Int : x = (h + (f + 1)) % MaxEvents /\ y = (c + 1) % MaxEvents
      BY <2>3, <2>4, Size
    <2>8. /\ h + (f + 1) < MaxEvents => x = h + (f + 1)
          /\ h + (f + 1) >= MaxEvents => x = h + (f + 1) - MaxEvents
          /\ c + 1 < MaxEvents => y = c + 1
          /\ c + 1 >= MaxEvents => y = c + 1 - MaxEvents
      BY <2>5, <2>6, <2>7
    <2>9. x = y
      BY <2>1, <2>2, <2>8, NextWraps
    <2> QED
      BY <1>1, <2>7, <2>9 DEF GetNext
  <1>8. ASSUME NEW k \in 1..(f + 1)
        PROVE  /\ r.slots[Slot(r, k)] = m - f + k
               /\ Slot(r, k) \in r.masked <=> m - f + k \in U
               /\ n - (f + 1) + k = m - f + k
    <2>0. n - (f + 1) + k = m - f + k
      BY <1>1
    <2>1. b.slots \in [Slots -> Nat]
      BY DEF RingSet
    <2>2. CASE k \in 1..f
      BY <1>1, <1>2, <1>4, <1>6, <2>1, <2>2
    <2>3. CASE k = f + 1
      <3>1. Slot(r, k) = c /\ r.slots[c] = m + 1 /\ c \notin r.masked
        BY <1>1, <1>4, <1>5, <2>1, <2>3
      <3>2. m - f + k = m + 1 /\ m + 1 \notin U
        BY <1>1, <2>3
      <3> QED
        BY <3>1, <3>2
    <2> QED
      BY <2>0, <2>2, <2>3
  <1>9. r.fill \in 0..MaxEvents /\ r.fill <= n /\ r.fill = f + 1
    <2>1. r.fill = f + 1
      BY <1>1
    <2>2. f <= m /\ f \in Nat
      BY <1>2
    <2>3. f + 1 \in 0..MaxEvents
      BY Size
    <2>4. f + 1 <= n
      BY <2>2
    <2> QED
      BY <2>1, <2>3, <2>4
  <1> QED
    BY <1>2, <1>7, <1>8, <1>9 DEF RingHolds

\* All that the ring held has been taken out of it.
LEMMA TakeHolds ==
    ASSUME NEW b \in RingSet, NEW r \in RingSet, NEW m \in Nat, NEW U, NEW F,
           RingHolds(b, m, U, F, m),
           r.head = (b.head + b.fill) % MaxEvents, r.cur = b.cur, r.fill = 0
    PROVE  RingHolds(r, m, U, F, m)
  <1>1. r.cur = (r.head + r.fill) % MaxEvents
    <2>1. r.head \in 0..(MaxEvents - 1) /\ r.cur = r.head
      BY Size DEF RingHolds, RingSet
    <2>2. r.head \in Int /\ 0 \in Int /\ 0 <= r.head + 0 /\ r.head + 0 < 2 * MaxEvents /\ r.head + 0 < MaxEvents
      BY <2>1, Size
    <2>3. (r.head + 0) % MaxEvents = r.head + 0
      BY <2>2, Wraps
    <2> QED
      BY <2>1, <2>2, <2>3
  <1>2. r.fill \in 0..MaxEvents /\ r.fill <= m /\ 1..r.fill = {}
    BY Size
  <1> QED
    BY <1>1, <1>2 DEF RingHolds

\* The events the ring holds are masked.
MasksContents(b, r, U, V) ==
    /\ r.slots = b.slots /\ r.masked = b.masked \cup Region(b.head, b.cur)
    /\ r.head = b.head /\ r.cur = b.cur /\ r.fill = b.fill
    /\ V = U \cup Range(Contents(b))

LEMMA MaskHolds ==
    ASSUME NEW b \in RingSet, NEW r \in RingSet, NEW m \in Nat, NEW U \in SUBSET (1..m), NEW F,
           NEW w, w = m - b.fill, RingHolds(b, m, U, F, w), NEW V, MasksContents(b, r, U, V)
    PROVE  RingHolds(r, m, V, F, w)
  <1>0. /\ r.slots = b.slots /\ r.masked = b.masked \cup Region(b.head, b.cur)
        /\ r.head = b.head /\ r.cur = b.cur /\ r.fill = b.fill
        /\ V = U \cup Range(Contents(b))
    BY DEF MasksContents
  <1>1. PICK f \in 0..MaxEvents : f = b.fill /\ f <= m
    BY DEF RingHolds
  <1>2. PICK base \in Nat : base = m - f
    BY <1>1
  <1>3. /\ b.head \in Slots /\ b.cur \in Slots /\ b.cur = (b.head + b.fill) % MaxEvents
        /\ \A k \in 1..f : b.slots[Slot(b, k)] = base + k
        /\ F \subseteq 1..base /\ 1..base \subseteq F \cup U
    BY <1>1, <1>2 DEF RingHolds, RingSet
  <1>4. Range(Contents(b)) = (base + 1)..(base + f)
    BY <1>1, <1>3, ContentsAre
  <1>5. \A k : Slot(r, k) = Slot(b, k)
    BY <1>0 DEF Slot
  <1>6. \A k \in 1..f : Slot(r, k) \in r.masked /\ base + k \in (base + 1)..(base + f)
    <2> SUFFICES ASSUME NEW k \in 1..f  PROVE Slot(r, k) \in r.masked /\ base + k \in (base + 1)..(base + f)
      OBVIOUS
    <2>1. b.fill \in 1..MaxEvents /\ k \in 1..b.fill /\ base + k \in (base + 1)..(base + f)
      BY <1>1
    <2> QED
      BY <1>0, <1>3, <1>5, <2>1, RegionHolds
  <1>7. (base + 1)..(base + f) \subseteq 1..m /\ 1..base \cap (base + 1)..(base + f) = {}
    BY <1>1, <1>2
  <1> QED
    BY <1>0, <1>1, <1>2, <1>3, <1>4, <1>5, <1>6, <1>7 DEF RingHolds

\* None of the events masked is in the file.
LeftOut(b, m, U, F) ==
    /\ U \cup Range(Contents(b)) \subseteq 1..m
    /\ F \cap U = {} => F \cap (U \cup Range(Contents(b))) = {}

LEMMA MaskLeaves ==
    ASSUME NEW b \in RingSet, NEW m \in Nat, NEW U \in SUBSET (1..m), NEW F,
           NEW w, w = m - b.fill, RingHolds(b, m, U, F, w)
    PROVE  LeftOut(b, m, U, F)
  <1>1. PICK f \in 0..MaxEvents : f = b.fill /\ f <= m
    BY DEF RingHolds
  <1>2. PICK base \in Nat : base = m - f
    BY <1>1
  <1>3. /\ b.fill \in Nat /\ \A k \in 1..b.fill : b.slots[Slot(b, k)] = base + k
        /\ F \subseteq 1..base
    BY <1>1, <1>2 DEF RingHolds, RingSet
  <1>4. Range(Contents(b)) = (base + 1)..(base + f)
    <2>1. Range(Contents(b)) = (base + 1)..(base + b.fill)
      BY <1>3, ContentsAre
    <2> QED
      BY <1>1, <2>1
  <1>5. (base + 1)..(base + f) \subseteq 1..m /\ 1..base \cap (base + 1)..(base + f) = {}
    BY <1>1, <1>2
  <1> QED
    BY <1>3, <1>4, <1>5 DEF LeftOut

\* A selection of the events the ring holds is unmasked.
LEMMA UnmaskHolds ==
    ASSUME NEW b \in RingSet, NEW r \in RingSet, NEW m \in Nat, NEW U \in SUBSET (1..m), NEW F,
           NEW w, w = m - b.fill, RingHolds(b, m, U, F, w),
           NEW i \in {(b.head + k) % MaxEvents : k \in 0..(b.fill - 1)},
           NEW j \in {(b.head + k) % MaxEvents : k \in 0..(b.fill - 1)}, i # j,
           r.slots = b.slots, r.masked = b.masked \ Region(i, j),
           r.head = b.head, r.cur = b.cur, r.fill = b.fill,
           NEW V, V = U \ Selected(b, i, j)
    PROVE  RingHolds(r, m, V, F, w)
  <1>1. PICK f \in 0..MaxEvents : f = b.fill /\ f <= m
    BY DEF RingHolds
  <1>2. PICK base \in Nat : base = m - f
    BY <1>1
  <1>3. /\ b.head \in Slots /\ b.cur = (b.head + b.fill) % MaxEvents
        /\ \A k \in 1..f : /\ b.slots[Slot(b, k)] = base + k
                           /\ Slot(b, k) \in b.masked <=> base + k \in U
        /\ F \subseteq 1..base /\ 1..base \subseteq F \cup U
    BY <1>1, <1>2 DEF RingHolds, RingSet
  <1>4. Range(Contents(b)) = (base + 1)..(base + f)
    BY <1>1, <1>3, ContentsAre
  <1>5. \A k : Slot(r, k) = Slot(b, k)
    BY DEF Slot
  <1>6. \A s \in {(b.head + k) % MaxEvents : k \in 0..(b.fill - 1)} :
           \E x \in 1..f : s = Slot(b, x)
    <2> SUFFICES ASSUME NEW k \in 0..(f - 1)  PROVE \E x \in 1..f : (b.head + k) % MaxEvents = Slot(b, x)
      BY <1>1
    <2>1. k + 1 \in 1..f /\ b.head + (k + 1) - 1 = b.head + k
      BY <1>3, Size
    <2> QED
      BY <2>1 DEF Slot
  <1>7. PICK x \in 1..f : i = Slot(b, x)
    BY <1>6
  <1>8. PICK y \in 1..f : j = Slot(b, y)
    BY <1>6
  <1>9. x # y /\ x \in 1..MaxEvents /\ y \in 1..MaxEvents
    BY SMTT(40), <1>1, <1>7, <1>8, Size
  <1>10. Selected(b, i, j) = {e \in (base + 1)..(base + f) :
                                 IF x < y THEN base + x <= e /\ e <= base + y
                                          ELSE e >= base + x \/ e <= base + y}
    <2>1. b.slots[i] = base + x /\ b.slots[j] = base + y
      BY <1>3, <1>7, <1>8
    <2>2. (base + x < base + y) <=> x < y
      OBVIOUS
    <2>3. \A e \in (base + 1)..(base + f) : e \in (base + x)..(base + y) <=> base + x <= e /\ e <= base + y
      OBVIOUS
    <2> QED
      BY <1>4, <2>1, <2>2, <2>3 DEF Selected
  <1>11. ASSUME NEW k \in 1..f
         PROVE  Slot(r, k) \in r.masked <=> base + k \in U \ Selected(b, i, j)
    <2>1. k \in 1..MaxEvents
      BY <1>1, Size
    <2>2. Slot(b, k) \in Region(i, j) <=> IF x < y THEN x <= k /\ k <= y ELSE k >= x \/ k <= y
      BY <1>3, <1>7, <1>8, <1>9, <2>1, RegionSelects
    <2>3. base + k \in Selected(b, i, j) <=> IF x < y THEN x <= k /\ k <= y ELSE k >= x \/ k <= y
      BY <1>10
    <2> QED
      BY <1>3, <1>5, <2>2, <2>3
  <1>12. 1..base \cap Selected(b, i, j) = {}
    BY <1>10
  <1> QED
    BY <1>1, <1>2, <1>3, <1>5, <1>11, <1>12 DEF RingHolds

\* The events the ring holds are written, but those masked, after what the file has.
Dumped(b, m, U, f) ==
    /\ RingHolds(b, m, U, Range(f), m)
    /\ Increasing(f) /\ Range(f) \subseteq 1..m /\ Range(f) \cap U = {}

LEMMA DumpHolds ==
    ASSUME NEW b \in RingSet, NEW m \in Nat, NEW U \in SUBSET (1..m), NEW file0 \in Seq(Nat),
           NEW w, w = m - b.fill, RingHolds(b, m, U, Range(file0), w), b.fill > 0,
           Increasing(file0), Range(file0) \cap U = {},
           NEW events, events = Filtered(b, b.head, (b.head + b.fill) % MaxEvents),
           NEW file1, file1 = file0 \o events
    PROVE  Dumped(b, m, U, file1)
  <1>1. PICK f \in 1..MaxEvents : f = b.fill /\ f <= m
    BY Size DEF RingHolds
  <1>2. PICK base \in Nat : base = m - f
    BY <1>1
  <1>3. /\ \A k \in 1..f : /\ b.slots[Slot(b, k)] = base + k
                           /\ Slot(b, k) \in b.masked <=> base + k \in U
        /\ Range(file0) \subseteq 1..base /\ 1..base \subseteq Range(file0) \cup U
    BY <1>1, <1>2 DEF RingHolds
  <1>4. /\ events \in Seq(Nat) /\ Increasing(events)
        /\ Range(events) = ((base + 1)..(base + f)) \ U
    <2>1. LET e == Filtered(b, b.head, (b.head + f) % MaxEvents)
          IN  /\ e \in Seq(Nat) /\ Increasing(e)
              /\ Range(e) = ((base + 1)..(base + f)) \ U
      <3>1. Numbered(b, f, base, U)
        BY <1>3 DEF Numbered
      <3> QED
        BY <3>1, FilteredIs
    <2> QED
      BY <1>1, <2>1
  <1>5. \A x \in Range(file0), y \in Range(events) : x < y
    BY <1>3, <1>4
  <1>6. Increasing(file1) /\ Range(file1) = Range(file0) \cup Range(events)
    <2>1. PICK e \in Seq(Nat) : e = events
      BY <1>4
    <2>2. Increasing(e) /\ \A x \in Range(file0), y \in Range(e) : x < y
      BY <1>4, <1>5, <2>1
    <2>3. Increasing(file0 \o e) /\ Range(file0 \o e) = Range(file0) \cup Range(e)
      BY <2>2, IncreasingConcat
    <2> QED
      BY <2>1, <2>3
  <1>7. 1..m = (1..base) \cup ((base + 1)..(base + f))
    BY <1>1, <1>2
  <1>8. Range(file1) \subseteq 1..m /\ 1..m \subseteq Range(file1) \cup U /\ Range(file1) \cap U = {}
    BY <1>3, <1>4, <1>6, <1>7
  <1> QED
    BY <1>6, <1>8 DEF RingHolds, Dumped

-----------------------------------------------------------------------------
(* Each operation keeps the events accounted for.                           *)

Idle(a, t) == ~First(a, "Dump", t) /\ ~First(a, "Take", t)

\* A flush is of the buffer its actor works on.
LEMMA FlushesFirst ==
    ASSUME TypeOK, NEW a \in Actors, NEW t \in Threads
    PROVE  /\ Flushes(a, t) <=> ~Idle(a, t)
           /\ ~Idle(a, t) => t = Buf(a)
  <1>1. ASSUME NEW name, First(a, name, t)  PROVE Makes(a, name) /\ Buf(a) = t
    <2>1. todo[a] # <<>> /\ NextOp(a) = Op(name, t)
      BY <1>1, NextIsFirst DEF First
    <2> QED
      BY <2>1 DEF Makes, Op, Buf
  <1>2. ASSUME NEW name, Makes(a, name), Buf(a) = t  PROVE First(a, name, t)
    BY <1>2, MakesFirst
  <1> QED
    BY <1>1, <1>2 DEF Flushes, Idle

\* An application thread works on its own buffer.
LEMMA OwnBuffer ==
    ASSUME LockInv, NEW a \in Actors, todo[a] # <<>>
    PROVE  a \in {Buf(a), BE_thread} /\ Buf(a) \in Threads
  <1>1. TypeOK /\ Makes(a, NextOp(a).do) /\ Buf(a) \in Threads
    BY NextIsFirst DEF LockInv, Makes
  <1>2. CASE a \in Threads
    BY <1>1, <1>2, AppTurn DEF LockInv, Application
  <1> QED
    BY <1>1, <1>2 DEF Actors

\* What an actor is in the middle of after its step.
LEMMA AfterStep ==
    ASSUME LockInv, NEW a \in Actors, Step(a), NEW u \in Threads
    PROVE  /\ First(a, "Dump", u)' => /\ Buffer_Flush(a) /\ ~SkipsFlush(ring[Buf(a)])
                                      /\ u = Buf(a) /\ ~First(a, "Take", u)'
           /\ First(a, "Take", u)' => Dump(a) /\ u = Buf(a) /\ ~First(a, "Dump", u)'
  <1>1. TypeOK /\ todo[a] # <<>> /\ Buf(a) \in Threads
    BY StepQuiet DEF LockInv
  <1>2. CASE NotFlushing(a)'
    BY <1>2 DEF NotFlushing
  <1>3. CASE Buffer_Flush(a) /\ ~SkipsFlush(ring[Buf(a)])
    <2>1. Becomes(a, <<Op("Dump", Buf(a))>>)
      BY <1>3 DEF Buffer_Flush
    <2>2. todo'[a][1] = Op("Dump", Buf(a))
      BY <1>1, <2>1, BecomesOne, OpTyped
    <2>3. ~First(a, "Take", u)' /\ (First(a, "Dump", u)' => u = Buf(a))
      BY <2>2, OpDiffer DEF First
    <2> QED
      BY <1>3, <2>3
  <1>4. CASE Dump(a)
    <2>1. Becomes(a, <<Op("Take", Buf(a))>>)
      BY <1>4 DEF Dump
    <2>2. todo'[a][1] = Op("Take", Buf(a))
      BY <1>1, <2>1, BecomesOne, OpTyped
    <2>3. ~First(a, "Dump", u)' /\ (First(a, "Take", u)' => u = Buf(a))
      BY <2>2, OpDiffer DEF First
    <2> QED
      BY <1>4, <2>3
  <1> QED
    BY <1>2, <1>3, <1>4, StepQuiet

LEMMA Elsewhere ==
    ASSUME LockInv, NEW a \in Actors, Step(a), NEW u \in Threads, u # Buf(a), DataAt(u)
    PROVE  DataAt(u)'
  <1>1. TypeOK /\ u \in Actors /\ BE_thread \in Actors
    BY ActorsDiffer DEF LockInv
  <1>2. /\ ring'[u] = ring[u] /\ file'[u] = file[u]
        /\ made'[u] = made[u] /\ unselected'[u] = unselected[u]
    BY StepLeaves
  <1>3. ASSUME NEW v \in {u, BE_thread}
        PROVE  \/ /\ todo'[v] = todo[v] /\ at'[v] = at[v]
               \/ \A name \in {"Dump", "Take"} : ~First(v, name, u) /\ ~First(v, name, u)'
    <2>1. CASE v # a
      BY <1>1, <2>1, StepLeaves
    <2>2. CASE v = a
      <3>1. ~First(a, "Dump", u)' /\ ~First(a, "Take", u)'
        BY AfterStep
      <3>2. Idle(a, u)
        BY <1>1, FlushesFirst
      <3> QED
        BY <2>2, <3>1, <3>2 DEF Idle
    <2> QED
      BY <2>1, <2>2
  <1> QED
    BY <1>2, <1>3, DataKept

\* An operation that does not touch the ring and its events.
LEMMA StillKept ==
    ASSUME LockInv, NEW a \in Actors, NEW t \in Threads, Step(a), t = Buf(a), Idle(a, t), Idle(a, t)',
           ring'[t] = ring[t], file'[t] = file[t], made'[t] = made[t],
           unselected'[t] = unselected[t], DataAt(t)
    PROVE  DataAt(t)'
  <1>1. t \in Actors /\ BE_thread \in Actors
    BY ActorsDiffer
  <1>2. ASSUME NEW v \in {t, BE_thread}
        PROVE  \/ /\ todo'[v] = todo[v] /\ at'[v] = at[v]
               \/ \A name \in {"Dump", "Take"} : ~First(v, name, t) /\ ~First(v, name, t)'
    <2>1. CASE v # a
      BY <1>1, <2>1, StepLeaves
    <2>2. CASE v = a
      BY <2>2 DEF Idle
    <2> QED
      BY <2>1, <2>2
  <1> QED
    BY <1>2, DataKept

\* The other actor of a buffer, if it is out of a flush, stays so.
LEMMA OtherIdle ==
    ASSUME LockInv, NEW a \in Actors, NEW t \in Threads, Step(a), t = Buf(a),
           NEW v \in Actors, v # a, Idle(v, t)
    PROVE  Idle(v, t)' /\ FlushOk(v, t)'
  <1>1. todo'[v] = todo[v]
    BY StepLeaves
  <1>2. Idle(v, t)'
    BY <1>1 DEF Idle, First
  <1> QED
    BY <1>2 DEF Idle, FlushOk

\* A flush begins.
LEMMA FlushData ==
    ASSUME LockInv, NEW a \in Actors, NEW t \in Threads, t = Buf(a), Buffer_Flush(a), DataAt(t)
    PROVE  DataAt(t)'
  <1>0. /\ Step(a) /\ TypeOK /\ todo[a] # <<>> /\ t \in Actors /\ BE_thread \in Actors
        /\ a \in {t, BE_thread}
    BY ActorsDiffer, OwnBuffer DEF Step, LockInv, Buffer_Flush, Makes
  <1>1. Makes(a, "Buffer_Flush") /\ ring' = ring /\ file' = file /\ made' = made /\ unselected' = unselected
    BY DEF Buffer_Flush, history
  <1>2. Idle(a, t)
    BY <1>0, <1>1, MakesFirst DEF Idle
  <1>3. CASE SkipsFlush(ring[t])
    <2>1. Done(a)
      BY <1>3 DEF Buffer_Flush
    <2>2. Idle(a, t)'
      BY <1>0, <2>1, DoneQuiet DEF NotFlushing, Idle
    <2> QED
      BY <1>0, <1>1, <1>2, <2>2, StillKept
  <1>4. CASE ~SkipsFlush(ring[t])
    <2>1. /\ Becomes(a, <<Op("Dump", t)>>)
          /\ at' = [at EXCEPT ![a] = [head |-> ring[t].head, num |-> ring[t].fill, fill |-> 0]]
      BY <1>4 DEF Buffer_Flush
    <2>2. at'[a].head = ring[t].head /\ at'[a].num = ring[t].fill
      BY <1>0, <2>1, TypedEach
    <2>3. ~First(a, "Take", t)'
      BY <1>0, AfterStep DEF Dump, Buffer_Flush, Makes
    <2>4. ring[t].open /\ ring[t].fill > 0
      <3>1. ring[t].open /\ ring[t].fill # 0
        BY <1>4 DEF SkipsFlush, IsEmpty
      <3>2. ring[t].fill \in 0..MaxEvents
        BY <3>1 DEF DataAt, RingOk, RingHolds
      <3> QED
        BY <3>1, <3>2, Size
    <2>5. FlushOk(a, t)'
      BY <1>1, <2>2, <2>3, <2>4 DEF FlushOk
    <2>6. ASSUME NEW v \in {t, BE_thread}, v # a
          PROVE  FlushOk(v, t)' /\ (First(v, "Take", t)' <=> First(v, "Take", t))
      <3>1. todo'[v] = todo[v] /\ at'[v] = at[v]
        BY <1>0, <2>6, StepLeaves
      <3>2. FlushOk(v, t)
        BY DEF DataAt
      <3> QED
        BY <1>1, <3>1, <3>2 DEF FlushOk, First
    <2>7. InTake(t)' <=> InTake(t)
      <3>1. ~First(a, "Take", t)
        BY <1>2 DEF Idle
      <3> QED
        BY <1>0, <2>3, <2>6, <3>1 DEF InTake
    <2>8. Written(t)' = Written(t)
      BY <1>1, <2>7 DEF Written
    <2>9. RingOk(t)' /\ FileOk(t)'
      BY <1>1, <2>4, <2>8 DEF DataAt, RingOk, FileOk
    <2>10. FlushOk(t, t)' /\ FlushOk(BE_thread, t)'
      BY <1>0, <2>5, <2>6
    <2> QED
      BY <2>9, <2>10 DEF DataAt
  <1> QED
    BY <1>3, <1>4

\* No other actor is flushing the buffer.
Alone(a, t) == \A v \in {t, BE_thread} : v = a \/ Idle(v, t)

\* The events are written.
LEMMA DumpData ==
    ASSUME LockInv, NEW a \in Actors, NEW t \in Threads, t = Buf(a), Dump(a), Alone(a, t), DataAt(t)
    PROVE  DataAt(t)' /\ ~exited'
  <1>0. /\ Step(a) /\ TypeOK /\ todo[a] # <<>> /\ t \in Actors /\ BE_thread \in Actors
        /\ a \in {t, BE_thread}
    BY ActorsDiffer, OwnBuffer DEF Step, LockInv, Dump, Makes
  <1>1. /\ Makes(a, "Dump") /\ ring' = ring /\ made' = made /\ unselected' = unselected
        /\ at' = [at EXCEPT ![a].fill = ring[t].fill] /\ Becomes(a, <<Op("Take", t)>>)
    BY DEF Dump, history
  <1>2. First(a, "Dump", t) /\ ~First(a, "Take", t)
    <2>1. First(a, "Dump", Buf(a)) /\ \A other, u : First(a, other, u) => other = "Dump" /\ u = Buf(a)
      BY <1>0, <1>1, MakesFirst
    <2> QED
      BY <2>1
  <1>3. /\ ring[t].open /\ ring[t].fill > 0
        /\ at[a].head = ring[t].head /\ at[a].num = ring[t].fill
        /\ RingOk(t) /\ FileOk(t)
    <2>1. FlushOk(a, t)
      BY <1>0 DEF DataAt
    <2> QED
      BY <1>2, <2>1 DEF FlushOk, DataAt
  <1>4. Written(t) = made[t] - ring[t].fill
    <2>1. ~InTake(t)
      BY <1>0, <1>2 DEF InTake, Alone, Idle
    <2> QED
      BY <2>1 DEF Written
  <1> DEFINE events == Filtered(ring[t], ring[t].head, (ring[t].head + ring[t].fill) % MaxEvents)
  <1>5. file' = [file EXCEPT ![t] = @ \o events] /\ ~exited'
    BY <1>3 DEF Dump
  <1>6. file'[t] = file[t] \o events
    BY <1>0, <1>5, TypedEach
  <1>7. /\ RingHolds(ring[t], made[t], unselected[t], Range(file'[t]), made[t])
        /\ Increasing(file'[t]) /\ Range(file'[t]) \subseteq 1..made[t]
        /\ Range(file'[t]) \cap unselected[t] = {}
    <2>1. /\ ring[t] \in RingSet /\ made[t] \in Nat /\ file[t] \in Seq(Nat)
      BY <1>0, TypedEach
    <2>2. /\ unselected[t] \in SUBSET (1..made[t])
          /\ Increasing(file[t]) /\ Range(file[t]) \cap unselected[t] = {}
          /\ RingHolds(ring[t], made[t], unselected[t], Range(file[t]), made[t] - ring[t].fill)
      BY <1>3, <1>4 DEF FileOk, RingOk
    <2> HIDE DEF events
    <2>3. PICK d \in RingSet, m \in Nat, f0 \in Seq(Nat) : d = ring[t] /\ m = made[t] /\ f0 = file[t]
      BY <2>1
    <2>04. PICK U \in SUBSET (1..m) : U = unselected[t]
      BY <2>2, <2>3
    <2>4. PICK w, e, f1 :
             /\ U = unselected[t] /\ w = m - d.fill
             /\ e = Filtered(d, d.head, (d.head + d.fill) % MaxEvents) /\ f1 = f0 \o e
      BY <2>04
    <2>8. w = m - d.fill /\ e = Filtered(d, d.head, (d.head + d.fill) % MaxEvents) /\ f1 = f0 \o e
      BY <2>4
    <2>5. /\ RingHolds(d, m, U, Range(f0), w) /\ d.fill > 0
          /\ Increasing(f0) /\ Range(f0) \cap U = {}
      BY <1>3, <2>2, <2>3, <2>4
    <2>6. Dumped(d, m, U, f1)
      BY <2>5, <2>8, DumpHolds
    <2>7. f1 = file'[t]
      BY <1>6, <2>3, <2>4 DEF events
    <2> QED
      BY <2>3, <2>4, <2>6, <2>7 DEF Dumped
  <1>8. First(a, "Take", t)' /\ ~First(a, "Dump", t)'
    <2>1. todo'[a] # <<>> /\ todo'[a][1] = Op("Take", t)
      BY <1>0, <1>1, BecomesOne, OpTyped
    <2> QED
      BY <2>1, OpDiffer DEF First
  <1>9. Written(t)' = made[t]
    <2>1. InTake(t)'
      BY <1>0, <1>8 DEF InTake
    <2> QED
      BY <1>1, <2>1 DEF Written
  <1>10. RingOk(t)' /\ FileOk(t)'
    BY <1>1, <1>3, <1>7, <1>9 DEF RingOk, FileOk
  <1>11. FlushOk(a, t)'
    <2>1. at'[a].fill = ring[t].fill /\ at'[a].head = at[a].head /\ at'[a].num = at[a].num
      BY <1>0, <1>1, TypedEach
    <2> QED
      BY <1>1, <1>3, <2>1 DEF FlushOk
  <1>12. ASSUME NEW v \in {t, BE_thread}, v # a  PROVE FlushOk(v, t)'
    BY <1>0, <1>12, OtherIdle DEF Alone
  <1>13. FlushOk(t, t)' /\ FlushOk(BE_thread, t)'
    BY <1>11, <1>12
  <1> QED
    BY <1>5, <1>10, <1>13 DEF DataAt


\* What has been written is taken out of the ring.
LEMMA TakeData ==
    ASSUME LockInv, NEW a \in Actors, NEW t \in Threads, t = Buf(a), Take(a), Alone(a, t), DataAt(t)
    PROVE  DataAt(t)'
  <1>0. /\ Step(a) /\ TypeOK /\ todo[a] # <<>> /\ t \in Actors /\ BE_thread \in Actors
        /\ a \in {t, BE_thread}
    BY ActorsDiffer, OwnBuffer DEF Step, LockInv, Take, Makes
  <1>1. /\ Makes(a, "Take") /\ file' = file /\ made' = made /\ unselected' = unselected
    BY DEF Take, history
  <1>2. First(a, "Take", t)
    <2>1. First(a, "Take", Buf(a))
      BY <1>0, <1>1, MakesFirst
    <2> QED
      BY <2>1
  <1>3. /\ ring[t].open /\ ring[t].fill > 0 /\ at[a].fill = ring[t].fill
        /\ at[a].head = ring[t].head /\ at[a].num = ring[t].fill
        /\ RingOk(t) /\ FileOk(t)
    <2>1. FlushOk(a, t)
      BY <1>0 DEF DataAt
    <2> QED
      BY <1>2, <2>1 DEF FlushOk, DataAt
  <1>4. Written(t) = made[t]
    BY <1>0, <1>2 DEF InTake, Written
  <1> DEFINE l == at[a]
             r == [ring[t] EXCEPT !.fill = l.fill - l.num, !.head = (l.head + l.num) % MaxEvents]
  <1>5. r \in RingSet /\ ring' = [ring EXCEPT ![t] = r] /\ ring[t] \in RingSet
    <2>1. LET u == Buf(a)  m == at[a]
              s == [ring[u] EXCEPT !.fill = m.fill - m.num, !.head = (m.head + m.num) % MaxEvents]
          IN  u \in Threads /\ s \in RingSet /\ ring' = [ring EXCEPT ![u] = s]
      BY <1>0, TakeRing
    <2> QED
      BY <1>0, <2>1, TypedEach
  <1>6. /\ r.head = (ring[t].head + ring[t].fill) % MaxEvents /\ r.cur = ring[t].cur /\ r.fill = 0
        /\ r.open
    <2>1. ring[t].fill \in Int
      BY <1>5 DEF RingSet
    <2>2. ring[t].fill - ring[t].fill = 0
      BY <2>1
    <2> QED
      BY <1>3, <1>5, <2>2 DEF RingSet
  <1> HIDE DEF r
  <1>7. ring'[t] = r
    BY <1>0, <1>5, RingChanged
  <1>8. RingHolds(ring'[t], made[t], unselected[t], Range(file[t]), made[t])
    <2>1. RingHolds(ring[t], made[t], unselected[t], Range(file[t]), made[t])
      BY <1>3, <1>4 DEF RingOk
    <2>2. made[t] \in Nat
      BY <1>0, TypedEach
    <2> QED
      BY <1>5, <1>6, <1>7, <2>1, <2>2, TakeHolds
  <1>9. \A v \in {t, BE_thread} : Idle(v, t)' /\ FlushOk(v, t)'
    <2>1. ~First(a, "Dump", t)' /\ ~First(a, "Take", t)'
      BY <1>0, <1>1, AfterStep DEF Dump, Buffer_Flush, Makes
    <2>2. Idle(a, t)' /\ FlushOk(a, t)'
      BY <2>1 DEF Idle, FlushOk
    <2>3. ASSUME NEW v \in {t, BE_thread}, v # a  PROVE Idle(v, t)' /\ FlushOk(v, t)'
      BY <1>0, <2>3, OtherIdle DEF Alone
    <2> QED
      BY <2>2, <2>3
  <1>10. Written(t)' = made[t]
    <2>1. made[t] - 0 = made[t]
      BY <1>0, TypedEach
    <2> QED
      BY <1>1, <1>6, <1>7, <2>1 DEF Written
  <1>11. RingOk(t)' /\ FileOk(t)'
    BY <1>1, <1>3, <1>8, <1>10 DEF RingOk, FileOk
  <1> QED
    BY <1>9, <1>11 DEF DataAt

\* The thread stores an event: it has the lock, and the analysis is not at work on the buffer.
LEMMA StoreData ==
    ASSUME LockInv, NEW t \in Threads, Store(t), DataAt(t)
    PROVE  DataAt(t)' /\ Buf(t) = t
  <1>0. TypeOK /\ t \in Actors /\ BE_thread \in Actors /\ BE_thread # t /\ AppOk(t) /\ Step(t)
    BY ActorsDiffer DEF LockInv, Application, Step
  <1>1. Makes(t, "Store") /\ file' = file /\ unselected' = unselected
    BY DEF Store
  <1>2. Buf(t) = t /\ Inserting(t) /\ todo[t] # <<>> /\ First(t, "Store", t) /\ Len(todo[t]) \in Nat \ {0}
    BY <1>0, <1>1, AppTurn, MakesFirst
  <1>3. Idle(t, t) /\ Idle(BE_thread, t)
    <2>1. Idle(t, t)
      BY <1>2, OpDiffer DEF First, Idle
    <2>2. lock[t] # BE_thread
      BY <1>0, <1>2 DEF Inserting
    <2> QED
      BY <1>0, <2>1, <2>2, FirstHasLock DEF Idle, LockInv
  <1>4. ~InTake(t)
    BY <1>3 DEF InTake, Idle
  <1>5. \A v \in {t, BE_thread} : Idle(v, t)' /\ FlushOk(v, t)'
    <2>1. ~First(t, "Dump", t)' /\ ~First(t, "Take", t)'
      BY <1>0, <1>1, AfterStep DEF Dump, Buffer_Flush, Makes
    <2>2. Idle(BE_thread, t)' /\ FlushOk(BE_thread, t)'
      BY <1>0, <1>2, <1>3, OtherIdle
    <2> QED
      BY <2>1, <2>2 DEF Idle, FlushOk
  <1>6. ~InTake(t)'
    BY <1>5 DEF InTake, Idle
  <1> DEFINE b == ring[t]
             r == [b EXCEPT !.slots = [@ EXCEPT ![b.cur] = made[t] + 1],
                            !.masked = @ \ {b.cur}, !.cur = GetNext(@), !.fill = @ + 1]
  <1>7. r \in RingSet /\ ring' = [ring EXCEPT ![t] = r] /\ b \in RingSet
    <2>1. LET u == Buf(t)  d == ring[u]
              s == [d EXCEPT !.slots = [@ EXCEPT ![d.cur] = made[u] + 1],
                             !.masked = @ \ {d.cur}, !.cur = GetNext(@), !.fill = @ + 1]
          IN  u \in Threads /\ s \in RingSet /\ ring' = [ring EXCEPT ![u] = s]
      BY <1>0, StoreRing
    <2> QED
      BY <1>0, <1>2, <2>1, TypedEach
  <1>8. /\ r.slots = [b.slots EXCEPT ![b.cur] = made[t] + 1] /\ r.masked = b.masked \ {b.cur}
        /\ r.head = b.head /\ r.cur = GetNext(b.cur) /\ r.fill = b.fill + 1 /\ r.open = b.open
    BY <1>7 DEF RingSet
  <1> HIDE DEF r
  <1>9. ring'[t] = r
    BY <1>0, <1>7, RingChanged
  <1>10. made'[t] = made[t] + 1 /\ made[t] \in Nat
    BY <1>0, <1>2, TypedEach DEF Store
  <1>11. FileOk(t)'
    <2>1. 1..made[t] \subseteq 1..(made[t] + 1)
      BY <1>10
    <2> QED
      BY <1>1, <1>10, <2>1 DEF DataAt, FileOk
  <1>12. ring[t].open => RingOk(t)'
    <2> SUFFICES ASSUME ring[t].open  PROVE RingOk(t)'
      OBVIOUS
    <2>1. RingHolds(b, made[t], unselected[t], Range(file[t]), made[t] - b.fill)
      BY <1>4 DEF DataAt, RingOk, Written
    <2>2. b.fill < MaxEvents
      <3>1. ring[t].fill + Len(todo[t]) <= MaxEvents
        BY <1>2 DEF Inserting, Room
      <3>2. b.fill \in Int
        BY <1>7 DEF RingSet
      <3> QED
        BY <1>2, <3>1, <3>2, Size
    <2>3. unselected[t] \in SUBSET (1..made[t])
      BY DEF DataAt, FileOk
    <2>4. RingHolds(r, made'[t], unselected[t], Range(file[t]), made[t] - b.fill)
      <3>1. PICK d \in RingSet, s \in RingSet : d = b /\ s = r
        BY <1>7
      <3>5. PICK m \in Nat : m = made[t]
        BY <1>10
      <3>06. PICK U \in SUBSET (1..m) : U = unselected[t]
        BY <2>3, <3>5
      <3>6. PICK F, n, w :
               /\ U = unselected[t] /\ F = Range(file[t]) /\ n = made'[t] /\ w = made[t] - b.fill
        BY <3>06
      <3>2. RingHolds(d, m, U, F, w) /\ d.fill < MaxEvents
        BY <2>1, <2>2, <3>1, <3>5, <3>6
      <3>3. /\ s.slots = [d.slots EXCEPT ![d.cur] = m + 1] /\ s.masked = d.masked \ {d.cur}
            /\ s.head = d.head /\ s.cur = GetNext(d.cur) /\ s.fill = d.fill + 1
            /\ n = m + 1 /\ w = m - d.fill
        BY <1>8, <1>10, <3>1, <3>5, <3>6
      <3>4. RingHolds(s, n, U, F, w)
        BY <3>2, <3>3, StoreHolds
      <3> QED
        BY <3>1, <3>4, <3>6
    <2>5. Written(t)' = made[t] - b.fill
      <3>1. b.fill \in Int
        BY <1>7 DEF RingSet
      <3>2. made[t] + 1 - (b.fill + 1) = made[t] - b.fill
        BY <1>10, <3>1
      <3>3. ring'[t].fill = b.fill + 1
        BY <1>8, <1>9
      <3> HIDE DEF b
      <3>4. Written(t)' = made'[t] - ring'[t].fill
        BY <1>6 DEF Written
      <3> QED
        BY <1>10, <3>1, <3>2, <3>3, <3>4
    <2> QED
      BY <1>1, <1>9, <2>4, <2>5 DEF RingOk
  <1>13. ring'[t].open = ring[t].open
    BY <1>8, <1>9
  <1> QED
    BY <1>2, <1>5, <1>11, <1>12, <1>13 DEF DataAt

\* What the analysis does to a buffer that is not being flushed.
WorksAlone(t) == t = Buf(BE_thread) /\ Idle(t, t) /\ DataAt(t)

LEMMA WorksQuiet ==
    ASSUME LockInv, NEW t \in Threads, WorksAlone(t), NEW name, name \notin {"Dump", "Take", "Buffer_Flush"},
           Makes(BE_thread, name), Step(BE_thread)
    PROVE  /\ ~InTake(t) /\ ~InTake(t)' /\ FlushOk(t, t)' /\ FlushOk(BE_thread, t)'
           /\ Idle(BE_thread, t) /\ Idle(BE_thread, t)'
  <1>0. TypeOK /\ t \in Actors /\ BE_thread \in Actors /\ BE_thread # t /\ t = Buf(BE_thread)
    BY ActorsDiffer DEF LockInv, WorksAlone
  <1>1. Idle(BE_thread, t)
    <2>1. \A other, u : First(BE_thread, other, u) => other = name /\ u = Buf(BE_thread)
      BY <1>0, MakesFirst
    <2> QED
      BY <2>1 DEF Idle
  <1>2. Idle(BE_thread, t)' /\ FlushOk(BE_thread, t)'
    <2>1. ~First(BE_thread, "Dump", t)' /\ ~First(BE_thread, "Take", t)'
      BY <1>0, AfterStep DEF Dump, Buffer_Flush, Makes
    <2> QED
      BY <2>1 DEF Idle, FlushOk
  <1>3. Idle(t, t)' /\ FlushOk(t, t)' /\ Idle(t, t)
    BY <1>0, OtherIdle DEF WorksAlone
  <1> QED
    BY <1>1, <1>2, <1>3 DEF InTake, Idle

LEMMA CloseData ==
    ASSUME LockInv, NEW t \in Threads, WorksAlone(t), Buffer_Close(BE_thread)
    PROVE  DataAt(t)'
  <1>0. TypeOK /\ BE_thread \in Actors /\ t = Buf(BE_thread) /\ Makes(BE_thread, "Buffer_Close")
        /\ Step(BE_thread)
    BY ActorsDiffer DEF LockInv, WorksAlone, Buffer_Close, Step
  <1>1. file' = file /\ made' = made /\ unselected' = unselected
    BY DEF Buffer_Close, history
  <1>2. ~ring'[t].open
    <2>1. [ring[t] EXCEPT !.open = FALSE].open = FALSE
      BY <1>0, RingTyped DEF RingSet
    <2>2. ring'[t] = [ring[t] EXCEPT !.open = FALSE]
      BY <1>0, TypedEach DEF Buffer_Close
    <2> QED
      BY <2>1, <2>2
  <1>3. FlushOk(t, t)' /\ FlushOk(BE_thread, t)'
    BY <1>0, WorksQuiet
  <1>4. FileOk(t)'
    BY <1>1 DEF WorksAlone, DataAt, FileOk
  <1> QED
    BY <1>2, <1>3, <1>4 DEF DataAt

LEMMA MaskData ==
    ASSUME LockInv, NEW t \in Threads, WorksAlone(t), ring[t].open, MaskAll(BE_thread)
    PROVE  DataAt(t)'
  <1>0. TypeOK /\ BE_thread \in Actors /\ t = Buf(BE_thread) /\ Makes(BE_thread, "MaskAll")
        /\ Step(BE_thread)
    BY ActorsDiffer DEF LockInv, WorksAlone, MaskAll, Step
  <1>1. file' = file /\ made' = made
    BY DEF MaskAll
  <1>2. ~InTake(t) /\ ~InTake(t)' /\ FlushOk(t, t)' /\ FlushOk(BE_thread, t)'
    BY <1>0, WorksQuiet
  <1> DEFINE b == ring[t]
             r == [b EXCEPT !.masked = b.masked \cup Region(b.head, b.cur)]
             V == unselected[t] \cup Range(Contents(b))
  <1>3. r \in RingSet /\ ring' = [ring EXCEPT ![t] = r] /\ b \in RingSet
    <2>1. LET u == Buf(BE_thread)  d == ring[u]  m == d.masked \cup Region(d.head, d.cur)
              s == [d EXCEPT !.masked = m]
          IN  u \in Threads /\ s \in RingSet /\ ring' = [ring EXCEPT ![u] = s]
      BY <1>0, MaskRing
    <2> QED
      BY <1>0, <2>1, TypedEach
  <1>4. /\ r.slots = b.slots /\ r.masked = b.masked \cup Region(b.head, b.cur)
        /\ r.head = b.head /\ r.cur = b.cur /\ r.fill = b.fill /\ r.open = b.open
    BY <1>3 DEF RingSet
  <1> HIDE DEF r
  <1>5. ring'[t] = r
    BY <1>0, <1>3, RingChanged
  <1>6. unselected'[t] = V
    BY <1>0, TypedEach DEF MaskAll
  <1>7. RingHolds(b, made[t], unselected[t], Range(file[t]), made[t] - b.fill) /\ FileOk(t)
    BY <1>2 DEF WorksAlone, DataAt, RingOk, Written
  <1>8. made[t] \in Nat /\ unselected[t] \in SUBSET (1..made[t])
    BY <1>0, <1>7, TypedEach DEF FileOk
  <1> HIDE DEF b, V
  <1>9. /\ RingHolds(r, made[t], V, Range(file[t]), made[t] - b.fill)
        /\ V \subseteq 1..made[t] /\ (Range(file[t]) \cap unselected[t] = {} => Range(file[t]) \cap V = {})
    <2>1. PICK d \in RingSet, s \in RingSet : d = b /\ s = r
      BY <1>3
    <2>2. PICK m \in Nat : m = made[t]
      BY <1>8
    <2>03. PICK U \in SUBSET (1..m) : U = unselected[t]
      BY <1>8, <2>2
    <2>3. PICK F, w : U = unselected[t] /\ F = Range(file[t]) /\ w = made[t] - b.fill
      BY <2>03
    <2>4. /\ RingHolds(d, m, U, F, w) /\ w = m - d.fill
          /\ s.slots = d.slots /\ s.masked = d.masked \cup Region(d.head, d.cur)
          /\ s.head = d.head /\ s.cur = d.cur /\ s.fill = d.fill
      BY <1>4, <1>7, <2>1, <2>2, <2>3
    <2>5. V = U \cup Range(Contents(d))
      BY <2>1, <2>3 DEF V
    <2>6. RingHolds(s, m, V, F, w)
      <3>1. MasksContents(d, s, U, V)
        BY <2>4, <2>5 DEF MasksContents
      <3>2. RingHolds(d, m, U, F, w) /\ w = m - d.fill
        BY <2>4
      <3> QED
        BY <3>1, <3>2, MaskHolds
    <2>7. V \subseteq 1..m /\ (F \cap U = {} => F \cap V = {})
      <3>1. w = m - d.fill /\ RingHolds(d, m, U, F, w)
        BY <2>4
      <3>2. LeftOut(d, m, U, F)
        BY <3>1, MaskLeaves
      <3> QED
        BY <2>5, <3>2 DEF LeftOut
    <2> QED
      BY <2>1, <2>2, <2>3, <2>6, <2>7
  <1>10. FileOk(t)'
    BY <1>1, <1>6, <1>7, <1>9 DEF FileOk
  <1>11. Written(t)' = made[t] - b.fill
    BY <1>1, <1>2, <1>4, <1>5 DEF Written
  <1>12. RingOk(t)'
    BY <1>1, <1>5, <1>6, <1>9, <1>11 DEF RingOk
  <1> QED
    BY <1>2, <1>10, <1>12 DEF DataAt

LEMMA UnmaskData ==
    ASSUME LockInv, NEW t \in Threads, WorksAlone(t), ring[t].open, UnmaskAll(BE_thread)
    PROVE  DataAt(t)'
  <1>0. TypeOK /\ BE_thread \in Actors /\ t = Buf(BE_thread) /\ Makes(BE_thread, "UnmaskAll")
        /\ Step(BE_thread)
    BY ActorsDiffer DEF LockInv, WorksAlone, UnmaskAll, Step
  <1>1. file' = file /\ made' = made
    BY DEF UnmaskAll
  <1>2. ~InTake(t) /\ ~InTake(t)' /\ FlushOk(t, t)' /\ FlushOk(BE_thread, t)'
        /\ Idle(BE_thread, t) /\ Idle(BE_thread, t)'
    BY <1>0, WorksQuiet
  <1>3. CASE UNCHANGED <<ring, unselected>>
    <2>1. ring'[t] = ring[t] /\ file'[t] = file[t] /\ made'[t] = made[t] /\ unselected'[t] = unselected[t]
      BY <1>1, <1>3
    <2> QED
      BY <1>0, <1>2, <2>1, StillKept DEF WorksAlone
  <1>4. CASE ~UNCHANGED <<ring, unselected>>
    <2> DEFINE b == ring[t]
               held == {(b.head + k) % MaxEvents : k \in 0..(b.fill - 1)}
    <2>0. PICK i \in {(ring[Buf(BE_thread)].head + k) % MaxEvents : k \in 0..(ring[Buf(BE_thread)].fill - 1)},
               j \in {(ring[Buf(BE_thread)].head + k) % MaxEvents : k \in 0..(ring[Buf(BE_thread)].fill - 1)} :
             /\ i # j /\ ring' = [ring EXCEPT ![Buf(BE_thread)].masked = @ \ Region(i, j)]
             /\ unselected' = [unselected EXCEPT ![Buf(BE_thread)] = @ \ Selected(ring[Buf(BE_thread)], i, j)]
      BY <1>4 DEF UnmaskAll
    <2>1. /\ i \in held /\ j \in held /\ i # j
          /\ ring' = [ring EXCEPT ![t].masked = @ \ Region(i, j)]
          /\ unselected' = [unselected EXCEPT ![t] = @ \ Selected(b, i, j)]
      BY <1>0, <2>0
    <2> DEFINE r == [b EXCEPT !.masked = b.masked \ Region(i, j)]
               V == unselected[t] \ Selected(b, i, j)
    <2>2. b \in RingSet /\ b.masked \ Region(i, j) \in SUBSET Slots
      BY <1>0, TypedEach DEF RingSet
    <2>3. r \in RingSet
      BY <1>0, <2>2, RemaskedTyped
    <2>4. ring'[t] = r /\ unselected'[t] = V
      BY <1>0, <2>1, TypedEach
    <2>5. /\ r.slots = b.slots /\ r.masked = b.masked \ Region(i, j)
          /\ r.head = b.head /\ r.cur = b.cur /\ r.fill = b.fill /\ r.open = b.open
      BY <2>2 DEF RingSet
    <2> HIDE DEF r
    <2>7. RingHolds(b, made[t], unselected[t], Range(file[t]), made[t] - b.fill) /\ FileOk(t)
      BY <1>2 DEF WorksAlone, DataAt, RingOk, Written
    <2>8. made[t] \in Nat /\ unselected[t] \in SUBSET (1..made[t])
      BY <1>0, <2>7, TypedEach DEF FileOk
    <2> HIDE DEF b
    <2>9. RingHolds(r, made[t], V, Range(file[t]), made[t] - b.fill)
      <3>1. PICK d \in RingSet, s \in RingSet : d = b /\ s = r
        BY <2>2, <2>3
      <3>2. PICK m \in Nat : m = made[t]
        BY <2>8
      <3>03. PICK U \in SUBSET (1..m) : U = unselected[t]
        BY <2>8, <3>2
      <3>3. PICK F, w : U = unselected[t] /\ F = Range(file[t]) /\ w = made[t] - b.fill
        BY <3>03
      <3>4. /\ RingHolds(d, m, U, F, w) /\ w = m - d.fill
            /\ s.slots = d.slots /\ s.masked = d.masked \ Region(i, j)
            /\ s.head = d.head /\ s.cur = d.cur /\ s.fill = d.fill
        BY <2>5, <2>7, <3>1, <3>2, <3>3
      <3>5. V = U \ Selected(d, i, j)
        BY <3>1, <3>3
      <3> HIDE DEF V
      <3>6. /\ i \in {(d.head + k) % MaxEvents : k \in 0..(d.fill - 1)}
            /\ j \in {(d.head + k) % MaxEvents : k \in 0..(d.fill - 1)} /\ i # j
        BY <2>1, <3>1
      <3>7. RingHolds(s, m, V, F, w)
        BY <3>4, <3>5, <3>6, UnmaskHolds
      <3> QED
        BY <3>1, <3>2, <3>3, <3>7
    <2>10. FileOk(t)'
      <3>1. V \subseteq unselected[t]
        OBVIOUS
      <3> HIDE DEF V
      <3> QED
        BY <1>1, <2>4, <2>7, <3>1 DEF FileOk
    <2> HIDE DEF V
    <2>11. Written(t)' = made[t] - b.fill
      BY <1>1, <1>2, <2>4, <2>5 DEF Written
    <2>12. RingOk(t)'
      BY <1>1, <2>4, <2>9, <2>11 DEF RingOk
    <2> QED
      BY <1>2, <2>10, <2>12 DEF DataAt
  <1> QED
    BY <1>3, <1>4

-----------------------------------------------------------------------------
(* The events, as long as the analysis keeps off the buffers being flushed. *)

LEMMA FlushesAlone ==
    ASSUME LockInv, NEW a \in Actors, NEW t \in Threads, t = Buf(a), ~Overlap,
           NEW name \in {"Dump", "Take"}, Makes(a, name)
    PROVE  Alone(a, t)
  <1>1. TypeOK /\ todo[a] # <<>> /\ t \in Actors /\ BE_thread \in Actors
    BY ActorsDiffer DEF LockInv, Makes
  <1>2. Flushes(a, t)
    BY DEF Flushes
  <1>3. CASE a = t
    <2>1. ~Flushes(BE_thread, t)
      BY <1>2, <1>3 DEF Overlap, WorksOn
    <2> QED
      BY <1>1, <1>3, <2>1, FlushesFirst DEF Alone
  <1>4. CASE a = BE_thread
    <2>1. ~Flushes(t, t)
      BY <1>2, <1>4 DEF Overlap, WorksOn
    <2> QED
      BY <1>1, <1>4, <2>1, FlushesFirst DEF Alone
  <1> QED
    BY <1>1, <1>3, <1>4, OwnBuffer

\* Only the analysis masks, unmasks and closes.
LEMMA OnlyAnalysis ==
    ASSUME LockInv, NEW a \in Actors, NEW name \in {"MaskAll", "UnmaskAll", "Buffer_Close"},
           Makes(a, name)
    PROVE  a = BE_thread
  <1>1. CASE a \in Threads
    <2>1. AppOk(a) /\ TypeOK
      BY <1>1 DEF LockInv, Application
    <2>2. name \in {"Buffer_InsertSingle", "Store", "Extrae_Flush_Wrapper"} \cup Flushing
      BY <1>1, <2>1, AppTurn
    <2> QED
      BY <2>2 DEF Flushing
  <1> QED
    BY <1>1 DEF Actors

LEMMA WorksApart ==
    ASSUME LockInv, NEW t \in Threads, t = Buf(BE_thread), ~Overlap, DataAt(t),
           NEW name \in {"MaskAll", "UnmaskAll", "Buffer_Close"}, Makes(BE_thread, name)
    PROVE  WorksAlone(t)
  <1>1. TypeOK /\ t \in Actors
    BY ActorsDiffer DEF LockInv
  <1>2. ~Flushes(t, t)
    BY DEF Overlap, WorksOn
  <1> QED
    BY <1>1, <1>2, FlushesFirst DEF WorksAlone

\* An operation that leaves the rings alone.
LEMMA StillData ==
    ASSUME LockInv, NEW a \in Actors, NEW t \in Threads, t = Buf(a), DataAt(t),
           NEW name \in {"Buffer_Lock", "Buffer_Unlock", "Buffer_InsertSingle", "Extrae_Flush_Wrapper"},
           Makes(a, name), Step(a),
           ring' = ring, file' = file, made' = made, unselected' = unselected
    PROVE  DataAt(t)'
  <1>1. TypeOK
    BY DEF LockInv
  <1>2. Idle(a, t)
    <2>1. \A other, u : First(a, other, u) => other = name
      BY <1>1, MakesFirst
    <2> QED
      BY <2>1 DEF Idle
  <1>3. Idle(a, t)'
    BY AfterStep DEF Idle, Dump, Buffer_Flush, Makes
  <1> QED
    BY <1>2, <1>3, StillKept

LEMMA StepData ==
    ASSUME LockInv, Closing, NEW a \in Actors, Step(a), ~Overlap, ~exited,
           \A t \in Threads : DataAt(t)
    PROVE  ~exited' /\ \A t \in Threads : DataAt(t)'
  <1>0. TypeOK /\ todo[a] # <<>> /\ Buf(a) \in Threads /\ a \in {Buf(a), BE_thread}
    BY StepQuiet, OwnBuffer DEF LockInv
  <1>1. PICK t \in Threads : t = Buf(a)
    BY <1>0
  <1>2. DataAt(t)
    OBVIOUS
  <1> SUFFICES ~exited' /\ DataAt(t)'
    BY <1>1, Elsewhere
  <1>3. CASE Buffer_Lock(a) \/ Buffer_Unlock(a) \/ Buffer_InsertSingle(a) \/ Extrae_Flush_Wrapper(a)
    <2>1. /\ ring' = ring /\ file' = file /\ made' = made /\ unselected' = unselected
          /\ exited' = exited
      BY <1>3 DEF Buffer_Lock, Buffer_Unlock, Buffer_InsertSingle, Extrae_Flush_Wrapper, history
    <2>2. PICK name \in {"Buffer_Lock", "Buffer_Unlock", "Buffer_InsertSingle", "Extrae_Flush_Wrapper"} :
             Makes(a, name)
      BY <1>3 DEF Buffer_Lock, Buffer_Unlock, Buffer_InsertSingle, Extrae_Flush_Wrapper
    <2>3. DataAt(t)'
      BY <1>1, <1>2, <2>1, <2>2, StillData
    <2> QED
      BY <2>1, <2>3
  <1>4. CASE Store(a)
    <2>1. a # BE_thread
      <3>1. Makes(a, "Store")
        BY <1>4 DEF Store
      <3> QED
        BY <3>1, AnalysisMakes DEF Work, Flushing
    <2>2. a = t
      BY <1>0, <1>1, <2>1
    <2>3. Store(t) /\ exited' = exited
      BY <1>4, <2>2 DEF Store
    <2> QED
      BY <1>2, <2>3, StoreData
  <1>5. CASE Buffer_Flush(a)
    <2>1. exited' = exited
      BY <1>5 DEF Buffer_Flush
    <2> QED
      BY <1>1, <1>2, <1>5, <2>1, FlushData
  <1>6. CASE Dump(a)
    <2>1. Alone(a, t)
      BY <1>1, <1>6, FlushesAlone DEF Dump
    <2> QED
      BY <1>1, <1>2, <1>6, <2>1, DumpData
  <1>7. CASE Take(a)
    <2>1. Alone(a, t)
      BY <1>1, <1>7, FlushesAlone DEF Take
    <2>2. exited' = exited
      BY <1>7 DEF Take
    <2> QED
      BY <1>1, <1>2, <1>7, <2>1, <2>2, TakeData
  <1>8. CASE Buffer_Close(a) \/ MaskAll(a) \/ UnmaskAll(a)
    <2>1. PICK name \in {"MaskAll", "UnmaskAll", "Buffer_Close"} : Makes(a, name)
      BY <1>8 DEF Buffer_Close, MaskAll, UnmaskAll
    <2>2. a = BE_thread
      BY <2>1, OnlyAnalysis
    <2>3. WorksAlone(t)
      BY <1>1, <1>2, <2>1, <2>2, WorksApart
    <2>4. exited' = exited
      BY <1>8 DEF Buffer_Close, MaskAll, UnmaskAll
    <2>5. CASE Buffer_Close(a)
      BY <2>2, <2>3, <2>4, <2>5, CloseData
    <2>6. CASE MaskAll(a) \/ UnmaskAll(a)
      <3>1. todo[BE_thread][1].do \in {"MaskAll", "UnmaskAll"} /\ 1 \in 1..Len(todo[BE_thread])
        BY <1>0, <2>2, <2>6, NextIsFirst DEF MaskAll, UnmaskAll, Makes
      <3>2. ~over
        BY <3>1 DEF Closing, Timely
      <3>3. ring[t].open
        BY <3>2 DEF Closing
      <3> QED
        BY <2>2, <2>3, <2>4, <2>6, <3>3, MaskData, UnmaskData
    <2> QED
      BY <1>8, <2>5, <2>6
  <1> QED
    BY <1>3, <1>4, <1>5, <1>6, <1>7, <1>8 DEF Step

\* A buffer stays open while nobody closes it.
LEMMA StaysOpen ==
    ASSUME LockInv, NEW a \in Actors, Step(a), ~Buffer_Close(a), NEW u \in Threads
    PROVE  ring'[u].open = ring[u].open
  <1>0. TypeOK /\ Buf(a) \in Threads
    BY StepQuiet DEF LockInv
  <1>1. CASE u # Buf(a)
    BY <1>1, StepLeaves
  <1>2. CASE u = Buf(a)
    <2>1. ring[u] \in RingSet
      BY <1>0, TypedEach
    <2>2. CASE Store(a)
      <3>1. PICK r \in RingSet : ring' = [ring EXCEPT ![u] = r] /\ r.open = ring[u].open
        BY <1>0, <1>2, <2>1, <2>2, StoreRing DEF RingSet
      <3> QED
        BY <1>0, <3>1, RingChanged
    <2>3. CASE Take(a)
      BY <1>0, <1>2, <2>1, <2>3, TakeRing, RingChanged DEF RingSet
    <2>4. CASE MaskAll(a)
      BY <1>0, <1>2, <2>1, <2>4, MaskRing, RingChanged DEF RingSet
    <2>5. CASE UnmaskAll(a)
      BY <1>0, <1>2, <2>1, <2>5, UnmaskRing, RingChanged DEF RingSet
    <2> QED
      BY <2>2, <2>3, <2>4, <2>5
         DEF Step, Buffer_Lock, Buffer_Unlock, Buffer_InsertSingle, Extrae_Flush_Wrapper, Buffer_Flush, Dump
  <1> QED
    BY <1>1, <1>2

LEMMA StepTimely ==
    ASSUME LockInv, Closing, NEW a \in Actors, Step(a)
    PROVE  Closing'
  <1>0. TypeOK /\ todo[a] # <<>> /\ Buf(a) \in Threads /\ Len(todo[a]) \in Nat \ {0}
    BY StepQuiet, NextIsFirst DEF LockInv
  <1>1. over' = over
    BY DEF Step, Buffer_Lock, Buffer_Unlock, Buffer_InsertSingle, Store, Extrae_Flush_Wrapper,
           Buffer_Flush, Dump, Take, Buffer_Close, MaskAll, UnmaskAll, bounds
  <1>2. ~over' => \A u \in Threads : ring'[u].open
    <2>1. CASE Buffer_Close(a)
      <3>1. a = BE_thread
        BY <2>1, OnlyAnalysis DEF Buffer_Close
      <3>2. todo[BE_thread][1].do = "Buffer_Close" /\ 1 \in 1..Len(todo[BE_thread])
        BY <1>0, <2>1, <3>1, NextIsFirst DEF Buffer_Close, Makes
      <3> QED
        BY <1>1, <3>2 DEF Closing, Timely
    <2>2. CASE ~Buffer_Close(a)
      BY <1>1, <2>2, StaysOpen DEF Closing
    <2> QED
      BY <2>1, <2>2
  <1>3. Timely(todo[BE_thread])'
    <2>1. CASE a # BE_thread
      <3>1. todo'[BE_thread] = todo[BE_thread]
        BY <2>1, ActorsDiffer, StepLeaves
      <3> QED
        BY <1>1, <3>1 DEF Closing, Timely
    <2>2. CASE a = BE_thread /\ Done(a)
      <3>1. /\ Len(todo'[a]) = Len(todo[a]) - 1
            /\ \A i \in 1..(Len(todo[a]) - 1) : todo'[a][i] = todo[a][i + 1]
        BY <1>0, <2>2, DoneLeaves
      <3>2. ASSUME NEW i \in 1..(Len(todo[a]) - 1)
            PROVE  i + 1 \in 1..Len(todo[a])
        BY <1>0
      <3> QED
        BY <1>1, <2>2, <3>1, <3>2 DEF Closing, Timely
    <2>3. ASSUME a = BE_thread, NEW name \in {"Dump", "Take"}, Becomes(a, <<Op(name, Buf(a))>>)
          PROVE  Timely(todo[BE_thread])'
      <3>1. Op(name, Buf(a)) \in Operation /\ Op(name, Buf(a)).do = name
        BY <1>0, <2>3, OpTyped DEF Op
      <3>2. /\ Len(todo'[a]) = Len(todo[a]) /\ todo'[a][1] = Op(name, Buf(a))
            /\ \A i \in 2..Len(todo[a]) : todo'[a][i] = todo[a][i]
        BY <1>0, <2>3, <3>1, BecomesOne
      <3>3. \A i \in 1..Len(todo[a]) : i = 1 \/ i \in 2..Len(todo[a])
        BY <1>0
      <3> QED
        BY <1>1, <2>3, <3>1, <3>2, <3>3 DEF Closing, Timely
    <2>4. ASSUME a = BE_thread
          PROVE  ~Buffer_InsertSingle(a) /\ ~Store(a) /\ ~Extrae_Flush_Wrapper(a)
      BY <2>4, AnalysisMakes DEF Work, Flushing, Buffer_InsertSingle, Store, Extrae_Flush_Wrapper
    <2>5. \/ Done(a)
          \/ \E name \in {"Dump", "Take"} : Becomes(a, <<Op(name, Buf(a))>>)
          \/ Buffer_InsertSingle(a) \/ Store(a) \/ Extrae_Flush_Wrapper(a)
      BY DEF Step, Buffer_Lock, Buffer_Unlock, Buffer_Flush, Dump, Take, Buffer_Close, MaskAll, UnmaskAll
    <2> QED
      BY <2>1, <2>2, <2>3, <2>4, <2>5
  <1> QED
    BY <1>2, <1>3 DEF Closing

LEMMA PlacedOps ==
    ASSUME NEW S, NEW q, NEW m, Placed(q, m, S)
    PROVE  \A i \in 1..Len(q) : q[i].do \in S \cup {"Buffer_Lock", "Buffer_Unlock"}
  <1>1. PICK n \in Nat : n = Len(Order)
    BY OrderTyped
  <1>2. /\ m \in Nat /\ Len(q) = n + m + n
        /\ \A i \in 1..n : q[i] = Op("Buffer_Lock", Order[i])
        /\ \A i \in (n + 1)..(n + m) : q[i].do \in S
        /\ \A i \in (n + m + 1)..(n + m + n) : q[i] = Op("Buffer_Unlock", Order[i - n - m])
    BY <1>1 DEF Placed
  <1>3. \A i \in 1..(n + m + n) : i \in 1..n \/ i \in (n + 1)..(n + m) \/ i \in (n + m + 1)..(n + m + n)
    BY <1>2
  <1>4. \A name, t : Op(name, t).do = name
    BY DEF Op
  <1> SUFFICES ASSUME NEW i \in 1..Len(q)  PROVE q[i].do \in S \cup {"Buffer_Lock", "Buffer_Unlock"}
    OBVIOUS
  <1>5. i \in 1..n \/ i \in (n + 1)..(n + m) \/ i \in (n + m + 1)..(n + m + n)
    BY <1>2, <1>3
  <1>6. ASSUME i \in 1..n  PROVE q[i].do = "Buffer_Lock"
    BY <1>2, <1>4, <1>6
  <1>7. ASSUME i \in (n + m + 1)..(n + m + n)  PROVE q[i].do = "Buffer_Unlock"
    BY <1>2, <1>4, <1>7
  <1> QED
    BY <1>2, <1>5, <1>6, <1>7

\* A protocol begins: the analysis is not in a flush yet.
LEMMA AnalysisData ==
    ASSUME LockInv, Closing, Analyse \/ Stop_BE
    PROVE  Closing' /\ \A t \in Threads : DataAt(t) => DataAt(t)'
  <1>0. TypeOK /\ BE_thread \in Actors /\ BE_thread \notin Threads /\ Threads \subseteq Actors
    BY ActorsDiffer DEF LockInv
  <1>1. /\ todo[BE_thread] = <<>> /\ ring' = ring /\ file' = file /\ made' = made
        /\ unselected' = unselected /\ at' = at
    BY DEF Analyse, Stop_BE, history
  <1>2. PICK S, q : /\ todo' = [todo EXCEPT ![BE_thread] = q]
                    /\ q \in Seq(Operation) /\ Len(q) \in Nat
                    /\ \A i \in 1..Len(q) : q[i].do \in S \cup {"Buffer_Lock", "Buffer_Unlock"}
                    /\ \/ S = Analysing /\ ~over /\ ~over'
                       \/ S = Ending /\ ~over /\ over'
    <2>0. /\ Analysing \in SUBSET (Work \ {"Dump", "Take"})
          /\ Ending \in SUBSET (Work \ {"Dump", "Take"})
      BY DEF Analysing, Ending, Work, Flushing
    <2>1. CASE Analyse
      <3>1. PICK p \in Protocols : todo' = [todo EXCEPT ![BE_thread] = PauseApp \o p \o ResumeApp]
        BY <2>1 DEF Analyse
      <3>2. PICK mid : /\ WorkOps(mid, Analysing)
                       /\ PauseApp \o p \o ResumeApp = PauseApp \o (mid \o ForEach("Buffer_Unlock"))
        BY ProtocolOps
      <3>3. PICK q : q = PauseApp \o (mid \o ForEach("Buffer_Unlock"))
        OBVIOUS
      <3>6. PICK m : Placed(q, m, Analysing)
        BY <2>0, <3>2, <3>3, ProtocolPlaces
      <3>4. \A i \in 1..Len(q) : q[i].do \in Analysing \cup {"Buffer_Lock", "Buffer_Unlock"}
        BY <3>6, PlacedOps
      <3>7. q \in Seq(Operation) /\ Len(q) \in Nat
        BY <3>6, LenProperties DEF Placed
      <3>5. ~over /\ ~over'
        BY <2>1 DEF Analyse
      <3> QED
        BY <3>1, <3>2, <3>3, <3>4, <3>5, <3>7
    <2>2. CASE Stop_BE
      <3>1. todo' = [todo EXCEPT ![BE_thread] = Flush] /\ ~over /\ over'
        BY <2>2 DEF Stop_BE
      <3>2. PICK mid : /\ WorkOps(mid, Ending)
                       /\ Flush = PauseApp \o (mid \o ForEach("Buffer_Unlock"))
        BY FlushProtocolOps
      <3>3. PICK q : q = PauseApp \o (mid \o ForEach("Buffer_Unlock"))
        OBVIOUS
      <3>6. PICK m : Placed(q, m, Ending)
        BY <2>0, <3>2, <3>3, ProtocolPlaces
      <3>4. \A i \in 1..Len(q) : q[i].do \in Ending \cup {"Buffer_Lock", "Buffer_Unlock"}
        BY <3>6, PlacedOps
      <3>7. q \in Seq(Operation) /\ Len(q) \in Nat
        BY <3>6, LenProperties DEF Placed
      <3> QED
        BY <3>1, <3>2, <3>3, <3>4, <3>7
    <2> QED
      BY <2>1, <2>2
  <1>3. todo'[BE_thread] = q /\ \A t \in Threads : todo'[t] = todo[t]
    BY <1>0, <1>2, TypedEach
  <1>4. Closing'
    BY <1>1, <1>2, <1>3 DEF Closing, Timely, Analysing, Ending
  <1>5. ASSUME NEW t \in Threads, DataAt(t)  PROVE DataAt(t)'
    <2>1. ~First(BE_thread, "Dump", t) /\ ~First(BE_thread, "Take", t)
      BY <1>1 DEF First
    <2>2. ~First(BE_thread, "Dump", t)' /\ ~First(BE_thread, "Take", t)'
      <3>1. q \in Seq(Operation) /\ Len(q) \in Nat
        BY <1>2
      <3>2. ASSUME NEW name \in {"Dump", "Take"}, q # <<>>, q[1] = Op(name, t)  PROVE FALSE
        <4>1. 1 \in 1..Len(q) /\ q[1].do = name
          BY <3>1, <3>2, EmptySeq DEF Op
        <4> QED
          BY <1>2, <4>1 DEF Analysing, Ending
      <3> QED
        BY <1>3, <3>2 DEF First
    <2> QED
      BY <1>1, <1>3, <1>5, <2>1, <2>2, DataKept
  <1> QED
    BY <1>4, <1>5


\* A wrapper call begins: its thread is not in a flush yet.
LEMMA CallData ==
    ASSUME LockInv, NEW t \in Threads, Call(t)
    PROVE  \A u \in Threads : DataAt(u) => DataAt(u)'
  <1>0. TypeOK /\ BE_thread \in Actors /\ BE_thread \notin Threads /\ t \in Actors
    BY ActorsDiffer DEF LockInv
  <1>1. /\ todo[t] = <<>> /\ ring' = ring /\ file' = file /\ made' = made
        /\ unselected' = unselected /\ at' = at
    BY DEF Call, history
  <1>2. PICK n \in Calls : todo' = [todo EXCEPT ![t] = CallOps(t, n)]
    BY DEF Call, CallOps
  <1>3. todo'[t] = CallOps(t, n) /\ \A v \in Actors \ {t} : todo'[v] = todo[v]
    BY <1>0, <1>2, TypedEach
  <1>4. n \in Nat /\ n > 0
    BY OnlineAssumption DEF FlushEvents
  <1>5. \A name \in {"Dump", "Take"} : \A u : ~First(t, name, u) /\ ~First(t, name, u)'
    <2> SUFFICES ASSUME NEW name \in {"Dump", "Take"}, NEW u, First(t, name, u)'  PROVE FALSE
      BY <1>1 DEF First
    <2>1. CallOps(t, n)[1] = Op(name, u)
      BY <1>3 DEF First
    <2>2. \/ CallOps(t, n)[1] = Op("Extrae_Flush_Wrapper", t)
          \/ CallOps(t, n)[1] = Op("Buffer_InsertSingle", t)
      <3>1. CASE NeedsFlush(t, n)
        BY <1>4, <3>1, CallOpsAre
      <3>2. CASE ~NeedsFlush(t, n)
        <4>1. /\ Len(CallOps(t, n)) = n
              /\ \A i \in 1..n : CallOps(t, n)[i] = Op("Buffer_InsertSingle", t)
          BY <1>4, <3>2, CallOpsAre
        <4> QED
          BY <1>4, <4>1
      <3> QED
        BY <3>1, <3>2
    <2> QED
      BY <2>1, <2>2, OpDiffer
  <1>6. ASSUME NEW u \in Threads, DataAt(u), NEW v \in {u, BE_thread}
        PROVE  \/ /\ todo'[v] = todo[v] /\ at'[v] = at[v]
               \/ \A name \in {"Dump", "Take"} : ~First(v, name, u) /\ ~First(v, name, u)'
    <2>1. v \in Actors
      BY <1>0, ActorsDiffer
    <2>2. CASE v = t
      BY <1>5, <2>2
    <2>3. CASE v # t
      BY <1>1, <1>3, <2>1, <2>3
    <2> QED
      BY <2>2, <2>3
  <1>7. ASSUME NEW u \in Threads, DataAt(u)  PROVE DataAt(u)'
    BY <1>1, <1>6, <1>7, DataKept
  <1> QED
    BY <1>7

-----------------------------------------------------------------------------
(* The invariant of the events, and what it says.                           *)

LEMMA IInvInit == Init => IInv
  <1> SUFFICES ASSUME Init  PROVE IInv
    OBVIOUS
  <1>0. BE_thread \in Actors /\ Threads \subseteq Actors
    BY ActorsDiffer
  <1>1. \A a \in Actors : todo[a] = <<>>
    BY DEF Init
  <1>2. \A a \in Actors : \A name, t : ~First(a, name, t)
    BY <1>1 DEF First
  <1>3. ASSUME NEW t \in Threads  PROVE DataAt(t) /\ ring[t].open
    <2>1. ring[t] = EmptyRing /\ file[t] = <<>> /\ made[t] = 0 /\ unselected[t] = {}
      BY DEF Init
    <2>2. /\ EmptyRing.fill = 0 /\ EmptyRing.head = 0 /\ EmptyRing.cur = 0 /\ EmptyRing.open
      BY DEF EmptyRing
    <2>3. Written(t) = 0
      BY <1>0, <1>2, <2>1, <2>2 DEF Written, InTake
    <2>4. Increasing(<<>>) /\ Range(<<>>) = {}
      BY DEF Increasing, Range
    <2>5. (0 + 0) % MaxEvents = 0 /\ 0 \in 0..MaxEvents /\ 1..0 = {}
      <3>1. 0 \in Int /\ 0 <= 0 + 0 /\ 0 + 0 < 2 * MaxEvents /\ 0 + 0 < MaxEvents /\ 0 \in 0..MaxEvents
        BY Size
      <3>2. (0 + 0) % MaxEvents = 0 + 0
        BY <3>1, Wraps
      <3> QED
        BY <3>1, <3>2
    <2>6. RingOk(t)
      BY <2>1, <2>2, <2>3, <2>4, <2>5 DEF RingOk, RingHolds
    <2>7. FileOk(t)
      BY <2>1, <2>4 DEF FileOk
    <2>8. FlushOk(t, t) /\ FlushOk(BE_thread, t)
      BY <1>0, <1>2 DEF FlushOk
    <2> QED
      BY <2>1, <2>2, <2>6, <2>7, <2>8 DEF DataAt
  <1>4. ~Overlap
    BY <1>0, <1>1 DEF Overlap, Flushes, Makes
  <1>5. ~exited /\ Owned
    BY DEF Init, Owned
  <1>6. Closing
    <2>1. Len(todo[BE_thread]) = 0
      BY <1>0, <1>1
    <2>2. 1..0 = {}
      OBVIOUS
    <2> QED
      BY <1>3, <2>1, <2>2 DEF Closing, Timely
  <1> QED
    BY <1>3, <1>4, <1>5, <1>6, LockInvInit DEF IInv, Data

LEMMA IInvNext == IInv /\ [Next]_vars => IInv'
  <1> SUFFICES ASSUME IInv, [Next]_vars  PROVE IInv'
    OBVIOUS
  <1>0. LockInv /\ Owned /\ Data /\ Closing
    BY DEF IInv
  <1>1. LockInv' /\ Owned'
    BY <1>0, LockInvNext, OwnedNext
  <1>2. CASE UNCHANGED vars
    <2>1. Closing'
      BY <1>0, <1>2 DEF vars, Closing, Timely
    <2>2. \A a, t : Flushes(a, t)' <=> Flushes(a, t)
      BY <1>2 DEF vars, Flushes, Makes, NextOp, Buf
    <2>3. Overlap' <=> Overlap
      BY <1>2, <2>2 DEF vars, Overlap, WorksOn, Makes, NextOp, Buf
    <2>4. ASSUME NEW t \in Threads, DataAt(t)  PROVE DataAt(t)'
      <3>1. /\ ring'[t] = ring[t] /\ file'[t] = file[t] /\ made'[t] = made[t]
            /\ unselected'[t] = unselected[t] /\ todo' = todo /\ at' = at
        BY <1>2 DEF vars
      <3> QED
        BY <2>4, <3>1, DataKept
    <2>5. Data'
      BY <1>0, <1>2, <2>3, <2>4 DEF vars, Data
    <2> QED
      BY <1>1, <2>1, <2>5 DEF IInv
  <1>3. ASSUME Watches, Closing', ~overlapped => ~exited' /\ \A t \in Threads : DataAt(t)'
        PROVE  IInv'
    <2>1. (Overlap => overlapped)' /\ (~overlapped' => ~overlapped)
      BY <1>3 DEF Watches
    <2> QED
      BY <1>1, <1>3, <2>1 DEF IInv, Data
  <1>4. CASE Begins /\ Watches /\ ~exited
    <2>1. CASE Analyse \/ Stop_BE
      <3>1. exited' = exited
        BY <2>1 DEF Analyse, Stop_BE
      <3> QED
        BY <1>0, <1>3, <1>4, <2>1, <3>1, AnalysisData DEF Data
    <2>2. ASSUME NEW t \in Threads, Call(t)  PROVE IInv'
      <3>1. exited' = exited /\ over' = over /\ ring' = ring /\ todo'[BE_thread] = todo[BE_thread]
        <4>1. BE_thread \in Actors /\ BE_thread # t /\ TypeOK
          BY <1>0, ActorsDiffer DEF LockInv
        <4> QED
          BY <2>2, <4>1, TypedEach DEF Call
      <3>2. Closing'
        BY <1>0, <3>1 DEF Closing, Timely
      <3> QED
        BY <1>0, <1>3, <1>4, <2>2, <3>1, <3>2, CallData DEF Data
    <2> QED
      BY <1>4, <2>1, <2>2 DEF Begins
  <1>5. ASSUME NEW a \in Actors, Runs(a)  PROVE IInv'
    <2>1. Step(a) /\ Watches /\ ~exited
      BY <1>5 DEF Runs
    <2>2. Closing'
      BY <1>0, <2>1, StepTimely
    <2>3. ASSUME ~overlapped  PROVE ~exited' /\ \A t \in Threads : DataAt(t)'
      BY <1>0, <2>1, <2>3, StepData DEF Data
    <2> QED
      BY <1>3, <2>1, <2>2, <2>3
  <1> QED
    BY <1>2, <1>4, <1>5 DEF Next

\* IInv holds in every reachable state.
THEOREM Accounting == Spec => []IInv
  BY IInvInit, IInvNext, PTL DEF Spec

LEMMA AccountedAt ==
    ASSUME LockInv, NEW t \in Threads, DataAt(t), ring[t].open, Between(t),
           NEW all, all = file[t] \o Contents(ring[t])
    PROVE  Increasing(all) /\ Range(all) \cup unselected[t] = 1..made[t]
  <1>0. TypeOK /\ t \in Actors /\ BE_thread \in Actors
    BY ActorsDiffer DEF LockInv
  <1>1. ~InTake(t)
    <2>1. ASSUME NEW a \in Actors, First(a, "Take", t)  PROVE FALSE
      <3>1. todo[a] # <<>> /\ NextOp(a) = Op("Take", t)
        BY <1>0, <2>1, NextIsFirst DEF First
      <3>2. Makes(a, "Take") /\ Buf(a) = t
        BY <3>1 DEF Makes, Buf, Op
      <3> QED
        BY <3>2 DEF Between
    <2> QED
      BY <1>0, <2>1 DEF InTake
  <1>2. PICK b \in RingSet, m \in Nat, p \in Seq(Nat) : b = ring[t] /\ m = made[t] /\ p = file[t]
    BY <1>0, TypedEach
  <1>3. PICK U : U = unselected[t]
    OBVIOUS
  <1>4. RingHolds(b, m, U, Range(p), m - b.fill) /\ Increasing(p) /\ U \subseteq 1..m
    BY <1>1, <1>2, <1>3 DEF DataAt, RingOk, FileOk, Written
  <1>5. PICK f \in 0..MaxEvents : f = b.fill /\ f <= m
    BY <1>4 DEF RingHolds
  <1>6. PICK base \in Nat : base = m - f
    BY <1>5
  <1>7. /\ b.fill \in Nat /\ \A k \in 1..b.fill : b.slots[Slot(b, k)] = base + k
        /\ Range(p) \subseteq 1..base /\ 1..base \subseteq Range(p) \cup U
    BY <1>4, <1>5, <1>6 DEF RingHolds
  <1>8. PICK q \in Seq(Nat) : q = Contents(b) /\ Increasing(q) /\ Range(q) = (base + 1)..(base + f)
    <2>1. /\ Contents(b) \in Seq(Nat) /\ Increasing(Contents(b))
          /\ Range(Contents(b)) = (base + 1)..(base + b.fill)
      BY <1>7, ContentsAre
    <2> QED
      BY <1>5, <2>1
  <1>9. \A x \in Range(p), y \in Range(q) : x < y
    BY <1>7, <1>8
  <1>10. Increasing(p \o q) /\ Range(p \o q) = Range(p) \cup Range(q)
    BY <1>4, <1>8, <1>9, IncreasingConcat
  <1>11. 1..m = (1..base) \cup ((base + 1)..(base + f))
    BY <1>5, <1>6
  <1>12. Range(p \o q) \cup U = 1..m
    BY <1>4, <1>7, <1>8, <1>10, <1>11
  <1> QED
    BY <1>2, <1>3, <1>8, <1>10, <1>12

\* No event is lost, written twice or out of its place, as long as the analysis does not
\* work on a buffer between the two halves of its thread's own flush (Buffer_Flush takes no
\* lock): EventsAccounted, for any number of threads and any size of the rings.
THEOREM Accounted == Spec => []EventsAccounted
  <1>1. IInv => EventsAccounted
    BY AccountedAt DEF IInv, Data, EventsAccounted
  <1> QED
    BY <1>1, Accounting, PTL

\* What the analysis leaves masked is in no file, and no file has two events out of order
\* (Filter_Buffer, Chopper::MaskAll and UnmaskAll): SelectionKept, for the same instances.
THEOREM Selection == Spec => []SelectionKept
  <1>1. IInv => SelectionKept
    BY DEF IInv, Data, DataAt, FileOk, SelectionKept
  <1> QED
    BY <1>1, Accounting, PTL

=============================================================================
