------------------------- MODULE RequestHashProofs -------------------------
(***************************************************************************)
(* Proofs about RequestHash, for tables and overflow areas of any size and *)
(* any number of threads.  The main entries and the list of free cells     *)
(* each begin a path through the overflow cells; an operation of the table *)
(* moves one cell from one path to the front of another.                   *)
(***************************************************************************)
EXTENDS RequestHash, SequenceTheorems, FiniteSetTheorems, WellFoundedInduction, TLAPS

Main == 0..(TableSize - 1)
Lists == Main \cup {HASH_FREE}

\* What comes at a position of a path that ends with HASH_NULL.
Place(q, j) == IF j <= Len(q) THEN q[j] ELSE HASH_NULL

\* The path q begins at start and goes on as the cells say.
Leads(q, start, next) ==
    /\ start = Place(q, 1)
    /\ \A j \in 1..Len(q) : next[q[j]] = Place(q, j + 1)

\* Every cell is at exactly one place of one path.
Apart(p) == \A l \in Lists : \A m \in Lists : \A j \in 1..Len(p[l]) : \A k \in 1..Len(p[m]) :
              p[l][j] = p[m][k] => l = m /\ j = k
Covered(p) == \A i \in Cell : \E l \in Lists : \E j \in 1..Len(p[l]) : p[l][j] = i

Paths(p, start, next) ==
    /\ p \in [Lists -> Seq(Cell)]
    /\ \A l \in Lists : Leads(p[l], start[l], next)
    /\ Apart(p) /\ Covered(p)

-----------------------------------------------------------------------------
(* A cell leaves a path or comes to its front.                              *)

Without(q, j) == [k \in 1..(Len(q) - 1) |-> IF k < j THEN q[k] ELSE q[k + 1]]
Consed(x, q) == [k \in 1..(Len(q) + 1) |-> IF k = 1 THEN x ELSE q[k - 1]]
Moved(p, l, m, j) == [p EXCEPT ![l] = Without(p[l], j), ![m] = Consed(p[l][j], p[m])]

LEMMA FunctionIsSeq ==
    ASSUME NEW S, NEW n \in Nat, NEW f \in [1..n -> S]
    PROVE  f \in Seq(S) /\ Len(f) = n
<1>1. f \in Seq(S)
    BY SeqDef
<1>2. DOMAIN f = 1..n /\ Len(f) \in Nat /\ DOMAIN f = 1..Len(f)
    BY <1>1, LenProperties
<1>3. QED
    BY <1>1, <1>2

LEMMA WithoutTyped ==
    ASSUME NEW S, NEW q \in Seq(S), NEW j \in 1..Len(q)
    PROVE  /\ Without(q, j) \in Seq(S) /\ Len(Without(q, j)) = Len(q) - 1
           /\ Len(q) \in Nat \ {0}
           /\ \A k \in 1..(Len(q) - 1) : Without(q, j)[k] = IF k < j THEN q[k] ELSE q[k + 1]
<1>1. PICK n \in Nat \ {0} : n = Len(q)
    BY LenProperties
<1>2. \A k \in 1..n : q[k] \in S
    BY <1>1, ElementOfSeq
<1>3. Without(q, j) = [k \in 1..(n - 1) |-> IF k < j THEN q[k] ELSE q[k + 1]]
    BY <1>1 DEF Without
<1>4. Without(q, j) \in [1..(n - 1) -> S]
    BY <1>1, <1>2, <1>3
<1>5. QED
    BY <1>1, <1>3, <1>4, FunctionIsSeq

WithoutIs(r, q, j, n) ==
    Len(r) = n - 1 /\ \A k \in 1..(n - 1) : r[k] = IF k < j THEN q[k] ELSE q[k + 1]

LEMMA WithoutParts ==
    ASSUME NEW S, NEW q \in Seq(S), NEW j \in 1..Len(q), NEW n, n = Len(q)
    PROVE  WithoutIs(Without(q, j), q, j, n)
<1>1. WithoutIs(Without(q, j), q, j, Len(q))
    BY WithoutTyped DEF WithoutIs
<1>2. QED
    BY <1>1

LEMMA ConsedTyped ==
    ASSUME NEW S, NEW q \in Seq(S), NEW x \in S
    PROVE  /\ Consed(x, q) \in Seq(S) /\ Len(Consed(x, q)) = Len(q) + 1
           /\ Len(q) \in Nat
           /\ \A k \in 1..(Len(q) + 1) : Consed(x, q)[k] = IF k = 1 THEN x ELSE q[k - 1]
<1>1. PICK n \in Nat : n = Len(q)
    BY LenProperties
<1>2. \A k \in 1..n : q[k] \in S
    BY <1>1, ElementOfSeq
<1>3. Consed(x, q) = [k \in 1..(n + 1) |-> IF k = 1 THEN x ELSE q[k - 1]]
    BY <1>1 DEF Consed
<1>4. Consed(x, q) \in [1..(n + 1) -> S]
    BY <1>2, <1>3
<1>5. QED
    BY <1>1, <1>3, <1>4, FunctionIsSeq

LEMMA WithoutLeads ==
    ASSUME NEW q \in Seq(Cell), NEW j \in 1..Len(q), NEW start, NEW next \in [Cell -> Link],
           Leads(q, start, next),
           \A a \in 1..Len(q) : \A b \in 1..Len(q) : q[a] = q[b] => a = b,
           NEW start2, start2 = IF j = 1 THEN next[q[j]] ELSE start,
           NEW next2,
           \A a \in 1..Len(q) : a # j => next2[q[a]] = IF a + 1 = j THEN next[q[j]] ELSE next[q[a]]
    PROVE  Leads(Without(q, j), start2, next2)
<1>1. PICK n \in Nat \ {0} : n = Len(q)
    BY LenProperties
<1>2. PICK w : w = Without(q, j)
    OBVIOUS
<1>3. Len(w) = n - 1 /\ \A k \in 1..(n - 1) : w[k] = IF k < j THEN q[k] ELSE q[k + 1]
    <2>1. WithoutIs(w, q, j, n)
        BY <1>1, <1>2, WithoutParts
    <2>2. QED
        BY <2>1 DEF WithoutIs
<1>4. start = Place(q, 1) /\ \A a \in 1..n : next[q[a]] = Place(q, a + 1)
    BY <1>1 DEF Leads
<1>5. \A k \in 1..n : Place(w, k) = IF k < j THEN Place(q, k) ELSE Place(q, k + 1)
    <2> SUFFICES ASSUME NEW k \in 1..n
                 PROVE  Place(w, k) = IF k < j THEN Place(q, k) ELSE Place(q, k + 1)
        OBVIOUS
    <2>1. CASE k < j
        BY <1>1, <1>3, <2>1 DEF Place
    <2>2. CASE ~(k < j) /\ k <= n - 1
        BY <1>1, <1>3, <2>2 DEF Place
    <2>3. CASE ~(k < j) /\ k = n
        BY <1>1, <1>3, <2>3 DEF Place
    <2>4. QED
        BY <2>1, <2>2, <2>3
<1>6. start2 = Place(w, 1)
    <2>1. CASE j = 1
        <3>1. Place(w, 1) = Place(q, 1 + 1)
            BY <1>5, <2>1
        <3>2. next[q[1]] = Place(q, 1 + 1)
            BY <1>4
        <3>3. QED
            BY <2>1, <3>1, <3>2
    <2>2. CASE j # 1
        BY <1>1, <1>4, <1>5, <2>2
    <2>3. QED
        BY <2>1, <2>2
<1>7. ASSUME NEW k \in 1..(n - 1)  PROVE next2[w[k]] = Place(w, k + 1)
    <2>0. k + 1 \in 1..n /\ k \in 1..n /\ (k + 1) + 1 = k + 2
        OBVIOUS
    <2>1. CASE k < j
        <3>1. w[k] = q[k] /\ k # j
            BY <1>3, <2>1
        <3>2. CASE k + 1 = j
            <4>1. next2[q[k]] = next[q[j]]
                BY <1>1, <2>0, <3>1, <3>2
            <4>2. next[q[j]] = Place(q, j + 1)
                BY <1>1, <1>4
            <4>3. Place(w, k + 1) = Place(q, (k + 1) + 1)
                BY <1>5, <2>0, <3>2
            <4>4. QED
                BY <3>1, <3>2, <4>1, <4>2, <4>3
        <3>3. CASE k + 1 # j
            <4>1. next2[q[k]] = next[q[k]]
                BY <1>1, <2>0, <3>1, <3>3
            <4>2. next[q[k]] = Place(q, k + 1)
                BY <1>4, <2>0
            <4>3. Place(w, k + 1) = Place(q, k + 1)
                BY <1>1, <1>5, <2>0, <2>1, <3>3
            <4>4. QED
                BY <3>1, <4>1, <4>2, <4>3
        <3>4. QED
            BY <3>2, <3>3
    <2>2. CASE ~(k < j)
        <3>1. w[k] = q[k + 1] /\ k + 1 # j /\ (k + 1) + 1 # j
            BY <1>1, <1>3, <2>2
        <3>2. next2[q[k + 1]] = next[q[k + 1]]
            BY <1>1, <2>0, <3>1
        <3>3. next[q[k + 1]] = Place(q, (k + 1) + 1)
            BY <1>4, <2>0
        <3>4. Place(w, k + 1) = Place(q, (k + 1) + 1)
            BY <1>1, <1>5, <2>0, <2>2
        <3>5. QED
            BY <3>1, <3>2, <3>3, <3>4
    <2>3. QED
        BY <2>1, <2>2
<1>8. Leads(w, start2, next2)
    BY <1>3, <1>6, <1>7 DEF Leads
<1>9. QED
    BY <1>2, <1>8

LEMMA ConsedLeads ==
    ASSUME NEW q \in Seq(Cell), NEW x \in Cell, NEW start, NEW next,
           Leads(q, start, next),
           NEW next2, next2[x] = start, \A a \in 1..Len(q) : next2[q[a]] = next[q[a]]
    PROVE  Leads(Consed(x, q), x, next2)
<1>1. PICK n \in Nat : n = Len(q)
    BY LenProperties
<1>2. PICK w : w = Consed(x, q)
    OBVIOUS
<1>3. Len(w) = n + 1 /\ \A k \in 1..(n + 1) : w[k] = IF k = 1 THEN x ELSE q[k - 1]
    <2>1. Len(Consed(x, q)) = Len(q) + 1
        BY ConsedTyped
    <2>2. \A k \in 1..(Len(q) + 1) : Consed(x, q)[k] = IF k = 1 THEN x ELSE q[k - 1]
        BY ConsedTyped
    <2>3. QED
        BY <1>1, <1>2, <2>1, <2>2
<1>4. start = Place(q, 1) /\ \A a \in 1..n : next[q[a]] = Place(q, a + 1)
    BY <1>1 DEF Leads
<1>5. \A a \in 1..(n + 1) : Place(w, a + 1) = Place(q, a)
    <2> SUFFICES ASSUME NEW a \in 1..(n + 1)  PROVE Place(w, a + 1) = Place(q, a)
        OBVIOUS
    <2>1. CASE a <= n
        BY <1>1, <1>3, <2>1 DEF Place
    <2>2. CASE a = n + 1
        BY <1>1, <1>3, <2>2 DEF Place
    <2>3. QED
        BY <2>1, <2>2
<1>6. x = Place(w, 1)
    BY <1>3 DEF Place
<1>7. ASSUME NEW k \in 1..(n + 1)  PROVE next2[w[k]] = Place(w, k + 1)
    <2>1. CASE k = 1
        <3>1. w[1] = x /\ Place(w, 1 + 1) = Place(q, 1)
            BY <1>3, <1>5
        <3>2. QED
            BY <1>4, <2>1, <3>1
    <2>2. CASE k # 1
        <3>1. k - 1 \in 1..n /\ (k - 1) + 1 = k
            BY <2>2
        <3>2. w[k] = q[k - 1]
            BY <1>3, <2>2
        <3>3. next2[q[k - 1]] = next[q[k - 1]]
            BY <1>1, <3>1
        <3>4. next[q[k - 1]] = Place(q, k)
            BY <1>4, <3>1
        <3>5. Place(w, k + 1) = Place(q, k)
            BY <1>5
        <3>6. QED
            BY <3>2, <3>3, <3>4, <3>5
    <2>3. QED
        BY <2>1, <2>2
<1>8. Leads(w, x, next2)
    BY <1>3, <1>6, <1>7 DEF Leads
<1>9. QED
    BY <1>2, <1>8

-----------------------------------------------------------------------------
(* What a move leaves of the paths.                                         *)

LEMMA PathsSeq ==
    ASSUME NEW p, NEW start, NEW next, Paths(p, start, next), NEW l \in Lists
    PROVE  p[l] \in Seq(Cell)
BY DEF Paths

LEMMA PathsCells ==
    ASSUME NEW p, NEW start, NEW next, Paths(p, start, next), NEW l \in Lists,
           NEW j \in 1..Len(p[l])
    PROVE  p[l][j] \in Cell
BY PathsSeq, ElementOfSeq

\* The paths after a move.
LEMMA MovedIs ==
    ASSUME NEW p \in [Lists -> Seq(Cell)], NEW l \in Lists, NEW m \in Lists, l # m,
           NEW j \in 1..Len(p[l])
    PROVE  /\ Moved(p, l, m, j) \in [Lists -> Seq(Cell)]
           /\ Moved(p, l, m, j)[l] = Without(p[l], j)
           /\ Moved(p, l, m, j)[m] = Consed(p[l][j], p[m])
           /\ \A k \in Lists \ {l, m} : Moved(p, l, m, j)[k] = p[k]
<1>1. p[l] \in Seq(Cell) /\ p[m] \in Seq(Cell)
    OBVIOUS
<1>2. p[l][j] \in Cell
    BY <1>1, ElementOfSeq
<1>3. Without(p[l], j) \in Seq(Cell)
    BY <1>1, WithoutTyped
<1>4. Consed(p[l][j], p[m]) \in Seq(Cell)
    BY <1>1, <1>2, ConsedTyped
<1>5. QED
    BY <1>3, <1>4 DEF Moved

LEMMA MovedLeads ==
    ASSUME NEW p, NEW start, NEW next \in [Cell -> Link], Paths(p, start, next),
           NEW l \in Lists, NEW m \in Lists, l # m, NEW j \in 1..Len(p[l]),
           NEW x, x = p[l][j], NEW start2, NEW next2,
           \A k \in Lists \ {l, m} : start2[k] = start[k],
           start2[l] = IF j = 1 THEN next[x] ELSE start[l], start2[m] = x,
           \A i \in Cell \ {x} : j = 1 \/ i # p[l][j - 1] => next2[i] = next[i],
           j # 1 => next2[p[l][j - 1]] = next[x], next2[x] = start[m]
    PROVE  \A k \in Lists : Leads(Moved(p, l, m, j)[k], start2[k], next2)
<1>1. p \in [Lists -> Seq(Cell)] /\ (\A k \in Lists : Leads(p[k], start[k], next)) /\ Apart(p)
    BY DEF Paths
<1>2. x \in Cell /\ j \in Nat /\ Len(p[l]) \in Nat
    BY PathsCells, PathsSeq, LenProperties
<1>3. ASSUME NEW k \in Lists, NEW a \in 1..Len(p[k])
      PROVE  /\ p[k][a] \in Cell
             /\ p[k][a] = x => k = l /\ a = j
             /\ j # 1 /\ p[k][a] = p[l][j - 1] => k = l /\ a = j - 1
    <2>1. j # 1 => j - 1 \in 1..Len(p[l])
        BY <1>2
    <2>2. QED
        BY <1>1, <2>1, PathsCells DEF Apart
<1>4. Leads(Without(p[l], j), start2[l], next2)
    <2>1. PICK q \in Seq(Cell) : q = p[l]
        BY PathsSeq
    <2>2. Leads(q, start[l], next) /\ j \in 1..Len(q) /\ q[j] = x
        BY <1>1, <2>1
    <2>3. \A a \in 1..Len(q) : \A b \in 1..Len(q) : q[a] = q[b] => a = b
        BY <1>1, <2>1 DEF Apart
    <2>4. ASSUME NEW a \in 1..Len(q), a # j
          PROVE  next2[q[a]] = IF a + 1 = j THEN next[q[j]] ELSE next[q[a]]
        <3>1. q[a] \in Cell \ {x}
            BY <1>3, <2>1, <2>4
        <3>2. CASE a + 1 = j
            BY <1>2, <2>1, <2>2, <3>2
        <3>3. CASE a + 1 # j
            <4>1. j = 1 \/ q[a] # p[l][j - 1]
                BY <1>2, <1>3, <2>1, <3>3
            <4>2. QED
                BY <3>1, <3>3, <4>1
        <3>4. QED
            BY <3>2, <3>3
    <2>5. start2[l] = IF j = 1 THEN next[q[j]] ELSE start[l]
        BY <2>2
    <2>6. Leads(Without(q, j), start2[l], next2)
        BY <2>2, <2>3, <2>4, <2>5, WithoutLeads
    <2>7. QED
        BY <2>1, <2>6
<1>5. Leads(Consed(x, p[m]), start2[m], next2)
    <2>1. PICK q \in Seq(Cell) : q = p[m]
        BY PathsSeq
    <2>2. Leads(q, start[m], next)
        BY <1>1, <2>1
    <2>3. \A a \in 1..Len(q) : next2[q[a]] = next[q[a]]
        BY <1>3, <2>1
    <2>4. Leads(Consed(x, q), x, next2)
        BY <1>2, <2>2, <2>3, ConsedLeads
    <2>5. QED
        BY <2>1, <2>4
<1>6. ASSUME NEW k \in Lists \ {l, m}  PROVE Leads(p[k], start2[k], next2)
    <2>1. \A a \in 1..Len(p[k]) : next2[p[k][a]] = next[p[k][a]]
        BY <1>3
    <2>2. Leads(p[k], start[k], next) /\ start2[k] = start[k]
        BY <1>1
    <2>3. QED
        BY <2>1, <2>2 DEF Leads
<1>7. PICK p2 : p2 = Moved(p, l, m, j)
    OBVIOUS
<1>8. p2[l] = Without(p[l], j) /\ p2[m] = Consed(x, p[m]) /\ \A k \in Lists \ {l, m} : p2[k] = p[k]
    BY <1>1, <1>7, MovedIs
<1>9. ASSUME NEW k \in Lists  PROVE Leads(p2[k], start2[k], next2)
    BY <1>4, <1>5, <1>6, <1>8
<1>10. QED
    BY <1>7, <1>9

\* Where the cell at a place of the moved paths was before.
Came(p, p2, l, m, j, k, a, e, b) ==
    /\ p2[k][a] = p[e][b]
    /\ \/ k = l /\ e = l /\ a < j /\ b = a
       \/ k = l /\ e = l /\ a >= j /\ b = a + 1
       \/ k = m /\ a = 1 /\ e = l /\ b = j
       \/ k = m /\ a # 1 /\ e = m /\ b = a - 1
       \/ k \notin {l, m} /\ e = k /\ b = a

LEMMA MovedFrom ==
    ASSUME NEW p \in [Lists -> Seq(Cell)], NEW l \in Lists, NEW m \in Lists, l # m,
           NEW j \in 1..Len(p[l]), NEW p2, p2 = Moved(p, l, m, j),
           NEW k \in Lists, NEW a \in 1..Len(p2[k])
    PROVE  \E e \in Lists : \E b \in 1..Len(p[e]) : Came(p, p2, l, m, j, k, a, e, b)
<1>1. /\ p2[l] = Without(p[l], j) /\ p2[m] = Consed(p[l][j], p[m])
      /\ \A e \in Lists \ {l, m} : p2[e] = p[e]
    BY MovedIs, SMTT(30)
<1>2. CASE k = l
    <2>1. PICK q \in Seq(Cell) : q = p[l]
        OBVIOUS
    <2>2. PICK n \in Nat \ {0} : n = Len(q)
        BY <2>1, LenProperties
    <2>3. Len(Without(q, j)) = n - 1
        BY <2>1, <2>2, WithoutTyped
    <2>4. \A b \in 1..(n - 1) : Without(q, j)[b] = IF b < j THEN q[b] ELSE q[b + 1]
        <3>1. WithoutIs(Without(q, j), q, j, n)
            BY <2>1, <2>2, WithoutParts
        <3>2. QED
            BY <3>1 DEF WithoutIs
    <2>5. a \in 1..(n - 1) /\ p2[k][a] = IF a < j THEN q[a] ELSE q[a + 1]
        BY <1>1, <1>2, <2>1, <2>3, <2>4
    <2>6. j \in 1..n /\ 1..Len(p[l]) = 1..n
        BY <2>1, <2>2
    <2>7. CASE a < j
        <3>1. a \in 1..Len(p[l]) /\ p2[k][a] = p[l][a]
            BY <2>1, <2>5, <2>6, <2>7
        <3>2. QED
            BY <1>2, <2>7, <3>1 DEF Came
    <2>8. CASE ~(a < j)
        <3>1. a + 1 \in 1..Len(p[l]) /\ p2[k][a] = p[l][a + 1] /\ a >= j
            BY <2>1, <2>5, <2>6, <2>8
        <3>2. QED
            BY <1>2, <3>1 DEF Came
    <2>9. QED
        BY <2>7, <2>8
<1>3. CASE k = m
    <2>1. PICK q \in Seq(Cell) : q = p[m]
        OBVIOUS
    <2>2. PICK n \in Nat : n = Len(q)
        BY <2>1, LenProperties
    <2>3. PICK x \in Cell : x = p[l][j]
        BY ElementOfSeq
    <2>4. Len(Consed(x, q)) = n + 1
        BY <2>2, ConsedTyped
    <2>5. \A b \in 1..(n + 1) : Consed(x, q)[b] = IF b = 1 THEN x ELSE q[b - 1]
        <3>1. \A b \in 1..(Len(q) + 1) : Consed(x, q)[b] = IF b = 1 THEN x ELSE q[b - 1]
            BY ConsedTyped
        <3>2. QED
            BY <2>2, <3>1
    <2>6. a \in 1..(n + 1) /\ p2[k][a] = IF a = 1 THEN x ELSE q[a - 1]
        BY <1>1, <1>3, <2>1, <2>3, <2>4, <2>5
    <2>7. CASE a = 1
        BY <1>3, <2>3, <2>6, <2>7 DEF Came
    <2>8. CASE a # 1
        <3>1. a - 1 \in 1..Len(p[m]) /\ p2[k][a] = p[m][a - 1]
            BY <2>1, <2>2, <2>6, <2>8
        <3>2. QED
            BY <1>3, <2>8, <3>1 DEF Came
    <2>9. QED
        BY <2>7, <2>8
<1>4. CASE k \notin {l, m}
    BY <1>1, <1>4 DEF Came
<1>5. QED
    BY <1>2, <1>3, <1>4

\* Where the cell at a place of the paths is after the move.
On(q, x) == \E a \in 1..Len(q) : q[a] = x

LEMMA MovedTo ==
    ASSUME NEW p \in [Lists -> Seq(Cell)], NEW l \in Lists, NEW m \in Lists, l # m,
           NEW j \in 1..Len(p[l]), NEW p2, p2 = Moved(p, l, m, j),
           NEW e \in Lists, NEW b \in 1..Len(p[e]),
           NEW k \in Lists, k = IF e = l /\ b = j THEN m ELSE e
    PROVE  On(p2[k], p[e][b])
<1> SUFFICES \E a \in 1..Len(p2[k]) : p2[k][a] = p[e][b]
    BY DEF On
<1>1. /\ p2[l] = Without(p[l], j) /\ p2[m] = Consed(p[l][j], p[m])
      /\ \A h \in Lists \ {l, m} : p2[h] = p[h]
    BY MovedIs
<1>2. PICK q \in Seq(Cell) : q = p[m]
    OBVIOUS
<1>3. PICK n \in Nat : n = Len(q)
    BY LenProperties
<1>4. PICK x \in Cell : x = p[l][j]
    BY ElementOfSeq
<1>5. Len(Consed(x, q)) = n + 1
    BY <1>3, ConsedTyped
<1>6. \A a \in 1..(n + 1) : Consed(x, q)[a] = IF a = 1 THEN x ELSE q[a - 1]
    <2>1. \A a \in 1..(Len(q) + 1) : Consed(x, q)[a] = IF a = 1 THEN x ELSE q[a - 1]
        BY ConsedTyped
    <2>2. QED
        BY <1>3, <2>1
<1>7. Len(p2[m]) = n + 1 /\ \A a \in 1..(n + 1) : p2[m][a] = IF a = 1 THEN x ELSE q[a - 1]
    BY <1>1, <1>2, <1>4, <1>5, <1>6
<1>8. CASE e = l /\ b = j
    <2>1. 1 \in 1..Len(p2[m]) /\ p2[m][1] = p[e][b]
        BY <1>4, <1>7, <1>8
    <2>2. QED
        BY <1>8, <2>1
<1>9. CASE e = l /\ b # j
    <2>1. PICK r \in Seq(Cell) : r = p[l]
        OBVIOUS
    <2>2. PICK d \in Nat \ {0} : d = Len(r)
        BY <2>1, LenProperties
    <2>3. Len(Without(r, j)) = d - 1
        BY <2>1, <2>2, WithoutTyped
    <2>4. \A a \in 1..(d - 1) : Without(r, j)[a] = IF a < j THEN r[a] ELSE r[a + 1]
        <3>1. WithoutIs(Without(r, j), r, j, d)
            BY <2>1, <2>2, WithoutParts
        <3>2. QED
            BY <3>1 DEF WithoutIs
    <2>5. Len(p2[l]) = d - 1 /\ \A a \in 1..(d - 1) : p2[l][a] = IF a < j THEN r[a] ELSE r[a + 1]
        BY <1>1, <2>1, <2>3, <2>4
    <2>6. b \in 1..d /\ j \in 1..d
        BY <1>9, <2>1, <2>2
    <2>7. CASE b < j
        <3>1. b \in 1..Len(p2[l]) /\ p2[l][b] = p[e][b]
            BY <1>9, <2>1, <2>5, <2>6, <2>7
        <3>2. QED
            BY <1>9, <3>1
    <2>8. CASE ~(b < j)
        <3>1. b - 1 \in 1..(d - 1) /\ ~(b - 1 < j) /\ (b - 1) + 1 = b
            BY <1>9, <2>6, <2>8
        <3>2. p2[l][b - 1] = p[e][b]
            BY <1>9, <2>1, <2>5, <3>1
        <3>3. QED
            BY <1>9, <2>5, <3>1, <3>2
    <2>9. QED
        BY <2>7, <2>8
<1>10. CASE e = m
    <2>1. b + 1 \in 1..Len(p2[m]) /\ b + 1 # 1 /\ (b + 1) - 1 = b
        BY <1>2, <1>3, <1>7, <1>10
    <2>2. p2[m][b + 1] = p[e][b]
        BY <1>2, <1>7, <1>10, <2>1
    <2>3. QED
        BY <1>10, <2>1, <2>2
<1>11. CASE e \notin {l, m}
    BY <1>1, <1>11
<1>12. QED
    BY <1>8, <1>9, <1>10, <1>11

LEMMA ApartMeans ==
    ASSUME NEW p, Apart(p), NEW e \in Lists, NEW f \in Lists, NEW c \in 1..Len(p[e]),
           NEW d \in 1..Len(p[f]), p[e][c] = p[f][d]
    PROVE  e = f /\ c = d
BY DEF Apart

LEMMA MovedPaths ==
    ASSUME NEW p, NEW start, NEW next \in [Cell -> Link], Paths(p, start, next),
           NEW l \in Lists, NEW m \in Lists, l # m, NEW j \in 1..Len(p[l]),
           NEW x, x = p[l][j], NEW start2, NEW next2,
           \A k \in Lists \ {l, m} : start2[k] = start[k],
           start2[l] = IF j = 1 THEN next[x] ELSE start[l], start2[m] = x,
           \A i \in Cell \ {x} : j = 1 \/ i # p[l][j - 1] => next2[i] = next[i],
           j # 1 => next2[p[l][j - 1]] = next[x], next2[x] = start[m]
    PROVE  Paths(Moved(p, l, m, j), start2, next2)
<1>1. p \in [Lists -> Seq(Cell)] /\ Apart(p) /\ Covered(p)
    BY DEF Paths
<1>2. PICK p2 : p2 = Moved(p, l, m, j)
    OBVIOUS
<1>3. p2 \in [Lists -> Seq(Cell)]
    BY <1>1, <1>2, MovedIs
<1>4. \A k \in Lists : Leads(p2[k], start2[k], next2)
    BY <1>2, MovedLeads
<1>5. Apart(p2)
    <2> SUFFICES ASSUME NEW k \in Lists, NEW h \in Lists, NEW a \in 1..Len(p2[k]),
                        NEW b \in 1..Len(p2[h]), p2[k][a] = p2[h][b]
                 PROVE  k = h /\ a = b
        BY DEF Apart
    <2>0. a \in Nat \ {0} /\ b \in Nat \ {0} /\ j \in Nat
        BY <1>1, <1>3, LenProperties
    <2>1. PICK e \in Lists : \E c \in 1..Len(p[e]) : Came(p, p2, l, m, j, k, a, e, c)
        BY <1>1, <1>2, MovedFrom
    <2>2. PICK c \in 1..Len(p[e]) : Came(p, p2, l, m, j, k, a, e, c)
        BY <2>1
    <2>3. PICK f \in Lists : \E d \in 1..Len(p[f]) : Came(p, p2, l, m, j, h, b, f, d)
        BY <1>1, <1>2, MovedFrom
    <2>4. PICK d \in 1..Len(p[f]) : Came(p, p2, l, m, j, h, b, f, d)
        BY <2>3
    <2>5. e = f /\ c = d
        <3>1. p[e][c] = p[f][d]
            BY <2>2, <2>4 DEF Came
        <3>2. \A c1 \in 1..Len(p[e]) : \A d1 \in 1..Len(p[f]) : p[e][c1] = p[f][d1] => e = f /\ c1 = d1
            BY <1>1, ApartMeans
        <3>3. QED
            BY <3>1, <3>2
    <2>6. QED
        BY <2>0, <2>2, <2>4, <2>5 DEF Came
<1>6. Covered(p2)
    <2> SUFFICES ASSUME NEW i \in Cell
                 PROVE  \E k \in Lists : \E a \in 1..Len(p2[k]) : p2[k][a] = i
        BY DEF Covered
    <2>0. PICK e \in Lists : \E b \in 1..Len(p[e]) : p[e][b] = i
        BY <1>1 DEF Covered
    <2>1. PICK b \in 1..Len(p[e]) : p[e][b] = i
        BY <2>0
    <2>2. PICK k \in Lists : k = IF e = l /\ b = j THEN m ELSE e
        OBVIOUS
    <2>3. On(p2[k], p[e][b])
        BY <1>1, <1>2, <2>2, MovedTo
    <2>4. QED
        BY <2>1, <2>3 DEF On
<1>7. Paths(p2, start2, next2)
    BY <1>3, <1>4, <1>5, <1>6 DEF Paths
<1>8. QED
    BY <1>2, <1>7

-----------------------------------------------------------------------------
(* Chain finds the path that begins at a link.                              *)

LEMMA LeastNatural ==
    ASSUME NEW T \in SUBSET Nat, NEW n \in T
    PROVE  \E m \in T : \A k \in T : m <= k
<1>1. PICK m \in T : \A k \in T : ~(<<k, m>> \in OpToRel(<, Nat))
    BY NatLessThanWellFounded, WFMin
<1>2. \A k \in T : ~(k < m)
    BY <1>1 DEF OpToRel
<1>3. QED
    BY <1>2

LEMMA PathLength ==
    ASSUME NEW p, NEW start, NEW next, Paths(p, start, next), NEW l \in Lists
    PROVE  Len(p[l]) \in 0..OverflowSize
<1>1. PICK q \in Seq(Cell) : q = p[l]
    BY PathsSeq
<1>2. PICK n \in Nat : n = Len(q)
    BY LenProperties
<1>3. q \in [1..n -> Cell]
    BY <1>2, LenProperties
<1>4. \A a \in 1..n : \A b \in 1..n : q[a] = q[b] => a = b
    BY <1>1, <1>2 DEF Paths, Apart
<1>5. q \in Injection(1..n, Cell)
    BY <1>3, <1>4 DEF Injection, IsInjective
<1>6. IsFiniteSet(Cell) /\ Cardinality(Cell) = OverflowSize
    BY RequestHashAssumption, FS_Interval DEF Cell
<1>7. Cardinality(1..n) = n
    BY FS_Interval
<1>8. Cardinality(1..n) <= Cardinality(Cell)
    BY <1>5, <1>6, FS_Injection
<1>9. QED
    BY <1>1, <1>2, <1>6, <1>7, <1>8

\* The recursion of Chain: the link after n steps.
Follows(start, at) ==
    at = [n \in 0..OverflowSize |->
            IF n = 0 THEN start
            ELSE IF at[n - 1] = HASH_NULL THEN HASH_NULL ELSE overflow[at[n - 1]].next]

LEMMA FollowsPlaces ==
    ASSUME NEW q \in Seq(Cell), NEW start, NEW next, Leads(q, start, next),
           \A i \in Cell : overflow[i].next = next[i]
    PROVE  Follows(start, [n \in 0..OverflowSize |-> Place(q, n + 1)])
<1> DEFINE at == [n \in 0..OverflowSize |-> Place(q, n + 1)]
<1>1. PICK d \in Nat : d = Len(q)
    BY LenProperties
<1>2. \A a \in 1..d : q[a] \in Cell
    BY <1>1, ElementOfSeq
<1>3. ASSUME NEW n \in 0..OverflowSize, n # 0
      PROVE  at[n] = IF at[n - 1] = HASH_NULL THEN HASH_NULL ELSE overflow[at[n - 1]].next
    <2>0. n - 1 \in 0..OverflowSize /\ (n - 1) + 1 = n /\ n \in Nat
        BY <1>3, RequestHashAssumption
    <2>1. at[n - 1] = Place(q, n) /\ at[n] = Place(q, n + 1)
        BY <2>0
    <2>2. CASE n <= d
        <3>1. Place(q, n) = q[n] /\ n \in 1..d
            BY <1>1, <1>3, <2>0, <2>2 DEF Place
        <3>2. q[n] \in Cell /\ q[n] # HASH_NULL
            BY <1>2, <3>1 DEF Cell, HASH_NULL
        <3>3. next[q[n]] = Place(q, n + 1)
            BY <1>1, <3>1 DEF Leads
        <3>4. QED
            BY <2>1, <3>1, <3>2, <3>3
    <2>3. CASE ~(n <= d)
        <3>1. Place(q, n) = HASH_NULL /\ Place(q, n + 1) = HASH_NULL
            BY <1>1, <2>0, <2>3 DEF Place
        <3>2. QED
            BY <2>1, <3>1
    <2>4. QED
        BY <2>2, <2>3
<1>4. at[0] = start
    BY RequestHashAssumption DEF Leads
<1>5. at = [n \in 0..OverflowSize |->
              IF n = 0 THEN start
              ELSE IF at[n - 1] = HASH_NULL THEN HASH_NULL ELSE overflow[at[n - 1]].next]
    <2>1. at = [n \in 0..OverflowSize |-> at[n]]
        OBVIOUS
    <2> HIDE DEF at
    <2>2. QED
        BY <1>3, <1>4, <2>1
<1>6. QED
    BY <1>5 DEF Follows

LEMMA FollowsUnique ==
    ASSUME NEW start, NEW f, Follows(start, f), NEW g, Follows(start, g)
    PROVE  f = g
<1> DEFINE Value(h, n) == IF n = 0 THEN start
                          ELSE IF h[n - 1] = HASH_NULL THEN HASH_NULL ELSE overflow[h[n - 1]].next
           Bad == {n \in 0..OverflowSize : f[n] # g[n]}
<1>1. f = [n \in 0..OverflowSize |-> Value(f, n)] /\ g = [n \in 0..OverflowSize |-> Value(g, n)]
    BY DEF Follows
<1>2. (\A n \in 0..OverflowSize : f[n] = Value(f, n)) /\ \A n \in 0..OverflowSize : g[n] = Value(g, n)
    BY <1>1
<1>3. ASSUME NEW k \in Bad  PROVE FALSE
    <2>1. Bad \in SUBSET Nat
        BY RequestHashAssumption
    <2>2. PICK n \in Bad : \A m \in Bad : n <= m
        <3> HIDE DEF Bad
        <3> QED
            BY <1>3, <2>1, LeastNatural
    <2>3. n \in 0..OverflowSize /\ f[n] # g[n]
        OBVIOUS
    <2>4. CASE n = 0
        BY <1>2, <2>3, <2>4
    <2>5. CASE n # 0
        <3>1. n - 1 \in 0..OverflowSize /\ ~(n <= n - 1)
            BY <2>3, <2>5, RequestHashAssumption
        <3>2. f[n - 1] = g[n - 1]
            BY <2>2, <3>1
        <3>3. Value(f, n) = Value(g, n)
            BY <3>2
        <3>4. QED
            BY <1>2, <2>3, <3>3
    <2>6. QED
        BY <2>4, <2>5
<1>4. \A n \in 0..OverflowSize : f[n] = g[n]
    BY <1>3
<1>5. f = [n \in 0..OverflowSize |-> f[n]] /\ g = [n \in 0..OverflowSize |-> g[n]]
    BY <1>1
<1> HIDE DEF Value, Bad
<1>6. QED
    BY <1>4, <1>5

LEMMA ChainIs ==
    ASSUME NEW q \in Seq(Cell), Len(q) \in 0..OverflowSize, NEW start, NEW next,
           Leads(q, start, next), \A i \in Cell : overflow[i].next = next[i]
    PROVE  Chain(start) = q
<1> DEFINE places == [n \in 0..OverflowSize |-> Place(q, n + 1)]
           chosen == CHOOSE at : Follows(start, at)
           cells == {n \in 0..(OverflowSize - 1) : places[n] # HASH_NULL}
<1>1. Follows(start, places)
    BY FollowsPlaces
<1>2. Follows(start, chosen)
    BY <1>1
<1>3. chosen = places
    BY <1>1, <1>2, FollowsUnique
<1>4. PICK d \in 0..OverflowSize : d = Len(q)
    OBVIOUS
<1>5. d \in Nat /\ \A a \in 1..d : q[a] \in Cell
    BY <1>4, ElementOfSeq, RequestHashAssumption
<1>6. cells = 0..(d - 1)
    <2>1. ASSUME NEW n \in 0..(OverflowSize - 1)  PROVE places[n] # HASH_NULL <=> n < d
        <3>1. n \in 0..OverflowSize /\ n \in Nat
            BY RequestHashAssumption
        <3>2. places[n] = Place(q, n + 1)
            BY <3>1
        <3>3. CASE n < d
            <4>1. Place(q, n + 1) = q[n + 1] /\ n + 1 \in 1..d
                BY <1>4, <1>5, <3>1, <3>3 DEF Place
            <4>2. QED
                BY <1>5, <3>2, <3>3, <4>1 DEF Cell, HASH_NULL
        <3>4. CASE ~(n < d)
            BY <1>4, <1>5, <3>1, <3>2, <3>4 DEF Place
        <3>5. QED
            BY <3>3, <3>4
    <2> HIDE DEF places
    <2>2. QED
        BY <1>4, <1>5, <2>1, RequestHashAssumption
<1>7. Cardinality(cells) = d
    <2>1. PICK e \in Int : e = d - 1
        BY <1>5
    <2>2. Cardinality(0..e) = IF 0 > e THEN 0 ELSE e - 0 + 1
        BY FS_Interval
    <2> HIDE DEF cells
    <2>3. QED
        BY <1>5, <1>6, <2>1, <2>2
<1>8. Chain(start) = [n \in 1..Cardinality(cells) |-> places[n - 1]]
    <2> HIDE DEF places
    <2>1. Chain(start) = [n \in 1..Cardinality({n \in 0..(OverflowSize - 1) : chosen[n] # HASH_NULL})
                            |-> chosen[n - 1]]
        BY DEF Chain, Follows
    <2>2. QED
        BY <1>3, <2>1
<1>9. \A n \in 1..d : places[n - 1] = q[n]
    <2> SUFFICES ASSUME NEW n \in 1..d  PROVE places[n - 1] = q[n]
        OBVIOUS
    <2>1. n - 1 \in 0..OverflowSize /\ (n - 1) + 1 = n /\ n <= d
        BY <1>4, <1>5, RequestHashAssumption
    <2>2. QED
        BY <1>4, <2>1 DEF Place
<1>10. Chain(start) = [n \in 1..d |-> q[n]]
    <2> HIDE DEF places, cells
    <2>1. QED
        BY <1>7, <1>8, <1>9
<1>11. q = [n \in 1..d |-> q[n]]
    BY <1>4, LenProperties
<1>12. QED
    BY <1>10, <1>11

-----------------------------------------------------------------------------
(* The cells of the paths after a move.                                     *)

OnAfter(p, l, m, x, k, i) ==
    IF k = m THEN On(p[m], i) \/ i = x ELSE On(p[k], i) /\ (k = l => i # x)

LEMMA MovedOn ==
    ASSUME NEW p \in [Lists -> Seq(Cell)], Apart(p), NEW l \in Lists, NEW m \in Lists, l # m,
           NEW j \in 1..Len(p[l]), NEW x, x = p[l][j], NEW p2, p2 = Moved(p, l, m, j),
           NEW k \in Lists, NEW i
    PROVE  On(p2[k], i) <=> OnAfter(p, l, m, x, k, i)
<1>0. j \in Nat /\ Len(p[l]) \in Nat /\ Len(p[m]) \in Nat
    BY LenProperties
<1>1. ASSUME On(p2[k], i)
      PROVE  IF k = m THEN On(p[m], i) \/ i = x ELSE On(p[k], i) /\ (k = l => i # x)
    <2>1. PICK a \in 1..Len(p2[k]) : p2[k][a] = i
        BY <1>1 DEF On
    <2>2. PICK e \in Lists : \E b \in 1..Len(p[e]) : Came(p, p2, l, m, j, k, a, e, b)
        BY MovedFrom
    <2>3. PICK b \in 1..Len(p[e]) : Came(p, p2, l, m, j, k, a, e, b)
        BY <2>2
    <2>4. p[e][b] = i /\ On(p[e], i)
        BY <2>1, <2>3 DEF Came, On
    <2>5. a \in Nat
        <3>1. p2 \in [Lists -> Seq(Cell)]
            BY MovedIs
        <3>2. Len(p2[k]) \in Nat
            BY <3>1, LenProperties
        <3>3. QED
            BY <3>2
    <2>6. CASE k = m
        BY <2>3, <2>4, <2>6 DEF Came
    <2>7. CASE k = l
        <3>1. e = l /\ b # j
            BY <1>0, <2>3, <2>5, <2>7 DEF Came
        <3>2. i # x
            BY <2>4, <3>1 DEF Apart
        <3>3. QED
            BY <2>4, <2>7, <3>1, <3>2
    <2>8. CASE k \notin {l, m}
        BY <2>3, <2>4, <2>8 DEF Came
    <2>9. QED
        BY <2>6, <2>7, <2>8
<1>2. ASSUME k = m, i = x  PROVE On(p2[k], i)
    BY <1>2, MovedTo
<1>3. ASSUME On(p[k], i), k = l => i # x  PROVE On(p2[k], i)
    <2>1. PICK b \in 1..Len(p[k]) : p[k][b] = i
        BY <1>3 DEF On
    <2>2. k = IF k = l /\ b = j THEN m ELSE k
        BY <1>3, <2>1
    <2>3. On(p2[k], p[k][b])
        BY <2>2, MovedTo, SMTT(30)
    <2>4. QED
        BY <2>1, <2>3
<1>4. QED
    BY <1>1, <1>2, <1>3 DEF OnAfter

LEMMA OneList ==
    ASSUME NEW p, NEW start, NEW next, Paths(p, start, next), NEW i \in Cell
    PROVE  \E l \in Lists : On(p[l], i) /\ \A m \in Lists : On(p[m], i) => m = l
<1>1. PICK l \in Lists : \E j \in 1..Len(p[l]) : p[l][j] = i
    BY DEF Paths, Covered
<1>2. \A m \in Lists : On(p[m], i) => m = l
    BY <1>1 DEF Paths, Apart, On
<1>3. QED
    BY <1>1, <1>2 DEF On

\* A path is empty when it begins with HASH_NULL, and else begins with its first cell.
LEMMA PathBegins ==
    ASSUME NEW p, NEW start, NEW next, Paths(p, start, next), NEW l \in Lists
    PROVE  /\ start[l] = HASH_NULL => \A i : ~On(p[l], i)
           /\ start[l] # HASH_NULL => 1 \in 1..Len(p[l]) /\ p[l][1] = start[l]
<1>1. PICK q \in Seq(Cell) : q = p[l]
    BY PathsSeq
<1>2. PICK n \in Nat : n = Len(q)
    BY LenProperties
<1>3. start[l] = Place(q, 1)
    BY <1>1 DEF Paths, Leads
<1>4. CASE n = 0
    BY <1>1, <1>2, <1>3, <1>4 DEF Place, On
<1>5. CASE n # 0
    <2>1. 1 \in 1..n /\ Place(q, 1) = q[1]
        BY <1>2, <1>5 DEF Place
    <2>2. q[1] \in Cell
        BY <1>2, <2>1, ElementOfSeq
    <2>3. q[1] # HASH_NULL
        BY <2>2 DEF Cell, HASH_NULL
    <2>4. QED
        BY <1>1, <1>2, <1>3, <2>1, <2>3
<1>6. QED
    BY <1>4, <1>5

-----------------------------------------------------------------------------
(* The paths of the table, and what it holds.                               *)

Starts == [l \in Lists |-> IF l = HASH_FREE THEN ovf_free
                           ELSE IF table[l].link = HASH_FREE THEN HASH_NULL ELSE table[l].link]
Nexts == [i \in Cell |-> overflow[i].next]

\* p is how the main entries and the free list go through the overflow cells.
HasPaths(p) == Paths(p, Starts, Nexts)

HashTyped ==
    /\ table \in [Main -> [data : Data \cup {Nobody}, link : Link \cup {HASH_FREE}]]
    /\ overflow \in [Cell -> [data : Data \cup {Nobody}, next : Link]]
    /\ ovf_free \in Link

\* What is stored in the path of a main entry hashes to it, and is stored once.
Held(p) ==
    /\ HasPaths(p)
    /\ \A c \in Used : table[c].data \in Data /\ HASH_FUNCTION(table[c].data.key) = c
    /\ \A c \in Main : \A i \in Cell :
          On(p[c], i) => overflow[i].data \in Data /\ HASH_FUNCTION(overflow[i].data.key) = c
    /\ \A c \in Used : \A i \in Cell : On(p[c], i) => table[c].data # overflow[i].data
    /\ \A c \in Main : \A i \in Cell : \A j \in Cell :
          On(p[c], i) /\ On(p[c], j) /\ overflow[i].data = overflow[j].data => i = j

Taken(p) == {i \in Cell : \E c \in Main : On(p[c], i)}
Stored(p) == {table[c].data : c \in Used} \cup {overflow[i].data : i \in Taken(p)}

LEMMA HashInMain == ASSUME NEW k \in Key PROVE HASH_FUNCTION(k) \in Main
BY RequestHashAssumption DEF HASH_FUNCTION, Main

LEMMA ListsAre == Main \subseteq Lists /\ HASH_FREE \in Lists /\ HASH_FREE \notin Main /\ HASH_FREE \notin Link
BY RequestHashAssumption DEF Lists, Main, HASH_FREE, Link, HASH_NULL

LEMMA UsedIs == Used = {c \in Main : table[c].link # HASH_FREE}
BY DEF Used, Main

LEMMA ChainIsPath ==
    ASSUME NEW p, HasPaths(p), NEW l \in Lists
    PROVE  Chain(Starts[l]) = p[l]
<1>1. PICK q \in Seq(Cell) : q = p[l]
    BY PathsSeq DEF HasPaths
<1>2. Len(q) \in 0..OverflowSize
    BY <1>1, PathLength DEF HasPaths
<1>3. Leads(q, Starts[l], Nexts)
    BY <1>1 DEF HasPaths, Paths
<1>4. \A i \in Cell : overflow[i].next = Nexts[i]
    BY DEF Nexts
<1>5. Chain(Starts[l]) = q
    BY <1>2, <1>3, <1>4, ChainIs
<1>6. QED
    BY <1>1, <1>5

LEMMA RangeOn == ASSUME NEW S, NEW q \in Seq(S), NEW i
                 PROVE  i \in Range(q) <=> On(q, i)
BY LenProperties DEF Range, On

LEMMA EntriesAre ==
    ASSUME NEW p
    PROVE  HasPaths(p) => Entries = Stored(p)
<1> SUFFICES ASSUME HasPaths(p)  PROVE Entries = Stored(p)
    OBVIOUS
<1>1. ASSUME NEW c \in Used, NEW i
      PROVE  i \in Range(Chain(table[c].link)) <=> On(p[c], i)
    <2>1. c \in Lists /\ Starts[c] = table[c].link
        BY UsedIs, ListsAre DEF Starts
    <2>2. Chain(table[c].link) = p[c]
        BY <2>1, ChainIsPath
    <2>3. p[c] \in Seq(Cell)
        BY <2>1, PathsSeq DEF HasPaths
    <2>4. QED
        BY <2>2, <2>3, RangeOn
<1>2. ASSUME NEW c \in Main \ Used, NEW i  PROVE ~On(p[c], i)
    <2>1. c \in Lists /\ Starts[c] = HASH_NULL
        BY UsedIs, ListsAre DEF Starts
    <2>2. QED
        BY <2>1, PathBegins DEF HasPaths
<1>3. ASSUME NEW c \in Used, NEW i, On(p[c], i)  PROVE c \in Main /\ i \in Cell
    <2>1. c \in Main /\ c \in Lists
        BY UsedIs, ListsAre
    <2>2. QED
        BY <1>3, <2>1, PathsCells DEF On, HasPaths
<1>4. UNION {{overflow[i].data : i \in Range(Chain(table[c].link))} : c \in Used}
        = {overflow[i].data : i \in Taken(p)}
    <2>1. ASSUME NEW e  PROVE (\E c \in Used : \E i \in Range(Chain(table[c].link)) : e = overflow[i].data)
                               <=> \E i \in Taken(p) : e = overflow[i].data
        <3>1. ASSUME NEW c \in Used, NEW i \in Range(Chain(table[c].link))  PROVE i \in Taken(p)
            BY <1>1, <1>3 DEF Taken
        <3>2. ASSUME NEW i \in Taken(p)  PROVE \E c \in Used : i \in Range(Chain(table[c].link))
            BY <1>1, <1>2 DEF Taken
        <3>3. QED
            BY <3>1, <3>2
    <2>2. ASSUME NEW e
          PROVE  e \in UNION {{overflow[i].data : i \in Range(Chain(table[c].link))} : c \in Used}
                   <=> \E c \in Used : \E i \in Range(Chain(table[c].link)) : e = overflow[i].data
        OBVIOUS
    <2>3. ASSUME NEW e
          PROVE  e \in {overflow[i].data : i \in Taken(p)} <=> \E i \in Taken(p) : e = overflow[i].data
        OBVIOUS
    <2>4. QED
        BY <2>1, <2>2, <2>3
<1>5. QED
    BY <1>4 DEF Entries, Stored

EntriesStored(p) == Entries = Stored(p)

LEMMA EntriesAreAfter ==
    ASSUME NEW p
    PROVE  HasPaths(p)' => Entries' = Stored(p)'
<1>1. HasPaths(p) => EntriesStored(p)
    BY EntriesAre DEF EntriesStored
<1>2. HasPaths(p)' => EntriesStored(p)'
    BY <1>1, PTL
<1>3. QED
    BY <1>2 DEF EntriesStored

-----------------------------------------------------------------------------
(* hash_add                                                                 *)

LEMMA HeldOnce ==
    ASSUME NEW p, Held(p)
    PROVE  /\ \A c \in Used : \A e \in Used : table[c].data = table[e].data => c = e
           /\ \A c \in Used : \A i \in Taken(p) : table[c].data # overflow[i].data
           /\ \A i \in Taken(p) : \A j \in Taken(p) : overflow[i].data = overflow[j].data => i = j
<1>1. \A c \in Used : c \in Main
    BY UsedIs
<1>2. ASSUME NEW c \in Used, NEW e \in Used, table[c].data = table[e].data  PROVE c = e
    BY <1>2 DEF Held
<1>3. ASSUME NEW c \in Used, NEW i \in Taken(p)  PROVE table[c].data # overflow[i].data
    <2>1. PICK e \in Main : On(p[e], i)
        BY DEF Taken
    <2>2. i \in Cell
        BY DEF Taken
    <2>3. HASH_FUNCTION(table[c].data.key) = c /\ HASH_FUNCTION(overflow[i].data.key) = e
        BY <2>1, <2>2 DEF Held
    <2>4. c = e => table[c].data # overflow[i].data
        BY <2>1, <2>2 DEF Held
    <2>5. QED
        BY <2>3, <2>4
<1>4. ASSUME NEW i \in Taken(p), NEW j \in Taken(p), overflow[i].data = overflow[j].data
      PROVE  i = j
    <2>1. PICK c \in Main : On(p[c], i)
        BY DEF Taken
    <2>2. PICK e \in Main : On(p[e], j)
        BY DEF Taken
    <2>3. i \in Cell /\ j \in Cell
        BY DEF Taken
    <2>4. HASH_FUNCTION(overflow[i].data.key) = c /\ HASH_FUNCTION(overflow[j].data.key) = e
        BY <2>1, <2>2, <2>3 DEF Held
    <2>5. c = e
        BY <1>4, <2>4
    <2>6. QED
        BY <1>4, <2>1, <2>2, <2>3, <2>5 DEF Held
<1>5. QED
    BY <1>2, <1>3, <1>4

AddsTo(d) == (\E p : Held(p)') /\ HashTyped' /\ Entries' = Entries \cup {d}

LEMMA AddMain ==
    ASSUME HashTyped, NEW p, Held(p), NEW d \in Data, hash_add(d), NEW c \in Main,
           c = HASH_FUNCTION(d.key), table[c].link = HASH_FREE
    PROVE  AddsTo(d)
<1>1. /\ table' = [table EXCEPT ![c] = [data |-> d, link |-> HASH_NULL]]
      /\ overflow' = overflow /\ ovf_free' = ovf_free
    BY DEF hash_add
<1>2. /\ table'[c].data = d /\ table'[c].link = HASH_NULL
      /\ \A e \in Main \ {c} : table'[e] = table[e]
    BY <1>1 DEF HashTyped
<1>3. HashTyped'
    <2>1. [data |-> d, link |-> HASH_NULL] \in [data : Data \cup {Nobody}, link : Link \cup {HASH_FREE}]
        BY DEF Link
    <2>2. table' \in [Main -> [data : Data \cup {Nobody}, link : Link \cup {HASH_FREE}]]
        BY <1>1, <2>1 DEF HashTyped
    <2>3. QED
        BY <1>1, <2>2 DEF HashTyped
<1>4. Starts' = Starts /\ Nexts' = Nexts
    <2>1. ASSUME NEW l \in Lists, l # HASH_FREE  PROVE l \in Main
        BY <2>1 DEF Lists
    <2>2. HASH_NULL # HASH_FREE
        BY DEF HASH_NULL, HASH_FREE
    <2>3. QED
        BY <1>1, <1>2, <2>1, <2>2 DEF Starts, Nexts
<1>5. HasPaths(p)'
    BY <1>4 DEF HasPaths, Held
<1>6. Used' = Used \cup {c} /\ c \notin Used
    <2>1. Used' = {e \in Main : table'[e].link # HASH_FREE}
        BY DEF Used, Main
    <2>2. HASH_NULL # HASH_FREE
        BY DEF HASH_NULL, HASH_FREE
    <2>3. QED
        BY <1>2, <2>1, <2>2, UsedIs
<1>7. \A i : ~On(p[c], i)
    <2>1. c \in Lists /\ Starts[c] = HASH_NULL
        BY ListsAre DEF Starts
    <2>2. QED
        BY <2>1, PathBegins DEF Held, HasPaths
<1>8. Held(p)'
    <2>1. \A e \in Used' : table'[e].data \in Data /\ HASH_FUNCTION(table'[e].data.key) = e
        BY <1>2, <1>6, UsedIs DEF Held
    <2>2. \A e \in Used' : \A i \in Cell : On(p[e], i) => table'[e].data # overflow'[i].data
        BY <1>1, <1>2, <1>6, <1>7, UsedIs DEF Held
    <2>3. \A e \in Main : \A i \in Cell :
             On(p[e], i) => overflow'[i].data \in Data /\ HASH_FUNCTION(overflow'[i].data.key) = e
        BY <1>1 DEF Held
    <2>4. \A e \in Main : \A i \in Cell : \A j \in Cell :
             On(p[e], i) /\ On(p[e], j) /\ overflow'[i].data = overflow'[j].data => i = j
        BY <1>1 DEF Held
    <2>5. QED
        BY <1>5, <2>1, <2>2, <2>3, <2>4 DEF Held
<1>9. Entries' = Entries \cup {d}
    <2>1. Entries = Stored(p) /\ Entries' = Stored(p)'
        BY <1>5, EntriesAre, EntriesAreAfter DEF Held
    <2>2. {table'[e].data : e \in Used'} = {table[e].data : e \in Used} \cup {d}
        BY <1>2, <1>6, UsedIs
    <2>3. QED
        BY <1>1, <2>1, <2>2 DEF Stored, Taken
<1>10. QED
    BY <1>3, <1>8, <1>9 DEF AddsTo

LEMMA AddOverflow ==
    ASSUME HashTyped, NEW p, Held(p), NEW d \in Data, hash_add(d), d \notin Entries, NEW c \in Main,
           c = HASH_FUNCTION(d.key), table[c].link # HASH_FREE, ovf_free # HASH_NULL
    PROVE  AddsTo(d)
<1>1. PICK x \in Cell : x = ovf_free
    BY DEF HashTyped, Link, Cell
<1>2. /\ table' = [table EXCEPT ![c].link = x]
      /\ overflow' = [overflow EXCEPT ![x] = [data |-> d, next |-> table[c].link]]
      /\ ovf_free' = overflow[x].next
    BY <1>1 DEF hash_add
<1>3. /\ table'[c].data = table[c].data /\ table'[c].link = x
      /\ \A e \in Main \ {c} : table'[e] = table[e]
      /\ overflow'[x].data = d /\ overflow'[x].next = table[c].link
      /\ \A i \in Cell \ {x} : overflow'[i] = overflow[i]
    BY <1>2 DEF HashTyped
<1>4. table[c].link \in Link /\ x \in Link /\ overflow[x].next \in Link /\ x # HASH_FREE
    <2>1. x \in Link /\ x # HASH_FREE
        BY DEF Link, Cell, HASH_FREE
    <2>2. table[c].link \in Link \cup {HASH_FREE} /\ overflow[x].next \in Link
        BY DEF HashTyped
    <2>3. QED
        BY <2>1, <2>2
<1>5. HashTyped'
    <2>1. table' \in [Main -> [data : Data \cup {Nobody}, link : Link \cup {HASH_FREE}]]
        BY <1>2, <1>4 DEF HashTyped
    <2>2. [data |-> d, next |-> table[c].link] \in [data : Data \cup {Nobody}, next : Link]
        BY <1>4
    <2>3. overflow' \in [Cell -> [data : Data \cup {Nobody}, next : Link]]
        BY <1>2, <2>2 DEF HashTyped
    <2>4. QED
        BY <1>2, <1>4, <2>1, <2>3 DEF HashTyped
<1>6. c \in Lists /\ HASH_FREE \in Lists /\ c # HASH_FREE /\ Starts[c] = table[c].link
    BY ListsAre DEF Starts
<1>7. 1 \in 1..Len(p[HASH_FREE]) /\ p[HASH_FREE][1] = x
    <2>1. Starts[HASH_FREE] = x
        BY <1>1, <1>6 DEF Starts
    <2>2. x # HASH_NULL
        BY <1>1
    <2>3. Paths(p, Starts, Nexts)
        BY DEF Held, HasPaths
    <2>4. QED
        BY <1>6, <2>1, <2>2, <2>3, PathBegins
<1>8. PICK q : q = Moved(p, HASH_FREE, c, 1)
    OBVIOUS
<1>9. HasPaths(q)'
    <2>1. Nexts \in [Cell -> Link]
        BY DEF Nexts, HashTyped
    <2>2. \A k \in Lists \ {HASH_FREE, c} : Starts'[k] = Starts[k]
        BY <1>3 DEF Starts, Lists
    <2>3. Starts'[HASH_FREE] = Nexts[x]
        BY <1>2, <1>6 DEF Starts, Nexts
    <2>4. Starts'[c] = x
        BY <1>3, <1>4, <1>6 DEF Starts
    <2>5. \A i \in Cell \ {x} : Nexts'[i] = Nexts[i]
        BY <1>3 DEF Nexts
    <2>6. Nexts'[x] = Starts[c]
        BY <1>3, <1>6 DEF Nexts
    <2>7. Paths(p, Starts, Nexts)
        BY DEF Held, HasPaths
    <2>8. PICK s, n : s = Starts' /\ n = Nexts'
        OBVIOUS
    <2>9. /\ \A k \in Lists \ {HASH_FREE, c} : s[k] = Starts[k]
          /\ s[HASH_FREE] = IF 1 = 1 THEN Nexts[x] ELSE Starts[HASH_FREE]
          /\ s[c] = x /\ n[x] = Starts[c]
        BY <2>2, <2>3, <2>4, <2>6, <2>8
    <2>10. /\ \A i \in Cell \ {x} : 1 = 1 \/ i # p[HASH_FREE][1 - 1] => n[i] = Nexts[i]
           /\ 1 # 1 => n[p[HASH_FREE][1 - 1]] = Nexts[x]
        BY <2>5, <2>8
    <2>11. Paths(Moved(p, HASH_FREE, c, 1), s, n)
        BY <1>6, <1>7, <2>1, <2>7, <2>9, <2>10, MovedPaths
    <2>12. QED
        BY <1>8, <2>8, <2>11 DEF HasPaths
<1>10. ASSUME NEW k \in Main, NEW i  PROVE On(q[k], i) <=> On(p[k], i) \/ (k = c /\ i = x)
    <2>1. k \in Lists /\ k # HASH_FREE
        BY ListsAre
    <2>2. p \in [Lists -> Seq(Cell)] /\ Apart(p)
        BY DEF Held, HasPaths, Paths
    <2>3. PICK l \in Lists : l = HASH_FREE
        BY <1>6
    <2>4. PICK j \in 1..Len(p[l]) : j = 1
        BY <1>7, <2>3
    <2>5. x = p[l][j] /\ q = Moved(p, l, c, j) /\ l # c
        BY <1>6, <1>7, <1>8, <2>3, <2>4
    <2>6. On(q[k], i) <=> OnAfter(p, l, c, x, k, i)
        BY <1>6, <2>1, <2>2, <2>5, MovedOn
    <2>7. QED
        BY <2>1, <2>3, <2>6 DEF OnAfter
<1>11. \A k \in Main : ~On(p[k], x)
    <2>1. On(p[HASH_FREE], x)
        BY <1>7 DEF On
    <2>2. QED
        BY <1>6, <2>1, OneList, ListsAre DEF Held, HasPaths
<1>12. Used' = Used /\ c \in Used
    <2>1. Used' = {e \in Main : table'[e].link # HASH_FREE}
        BY DEF Used, Main
    <2>2. QED
        BY <1>3, <1>4, <2>1, UsedIs
<1>13. Entries = Stored(p) /\ Entries' = Stored(q)'
    BY <1>9, EntriesAre, EntriesAreAfter DEF Held
<1>14. \A e \in Main : table'[e].data = table[e].data
    BY <1>3
<1>15. Held(q)'
    <2>1. \A e \in Used' : table'[e].data \in Data /\ HASH_FUNCTION(table'[e].data.key) = e
        BY <1>12, <1>14, UsedIs DEF Held
    <2>2. ASSUME NEW e \in Main, NEW i \in Cell, On(q[e], i)
          PROVE  overflow'[i].data \in Data /\ HASH_FUNCTION(overflow'[i].data.key) = e
        <3>1. CASE i = x
            BY <1>3, <1>10, <1>11, <2>2, <3>1
        <3>2. CASE i # x
            BY <1>3, <1>10, <2>2, <3>2 DEF Held
        <3>3. QED
            BY <3>1, <3>2
    <2>3. ASSUME NEW e \in Used', NEW i \in Cell, On(q[e], i)
          PROVE  table'[e].data # overflow'[i].data
        <3>0. e \in Main /\ e \in Used
            BY <1>12, UsedIs
        <3>1. CASE i = x
            BY <1>3, <1>13, <1>14, <3>0, <3>1 DEF Stored
        <3>2. CASE i # x
            BY <1>3, <1>10, <1>14, <2>3, <3>0, <3>2 DEF Held
        <3>3. QED
            BY <3>1, <3>2
    <2>4. ASSUME NEW e \in Main, NEW i \in Cell, NEW j \in Cell, On(q[e], i), On(q[e], j),
                 overflow'[i].data = overflow'[j].data
          PROVE  i = j
        <3>1. ASSUME NEW h \in Cell \ {x}, On(q[e], h)  PROVE overflow'[h].data \in Entries
            <4>1. h \in Taken(p)
                BY <1>10, <3>1 DEF Taken
            <4>2. QED
                BY <1>3, <1>13, <4>1 DEF Stored
        <3>2. CASE i = x /\ j # x
            BY <1>3, <2>4, <3>1, <3>2
        <3>3. CASE i # x /\ j = x
            BY <1>3, <2>4, <3>1, <3>3
        <3>4. CASE i # x /\ j # x
            BY <1>3, <1>10, <2>4, <3>4 DEF Held
        <3>5. QED
            BY <3>2, <3>3, <3>4
    <2>5. QED
        BY <1>9, <2>1, <2>2, <2>3, <2>4 DEF Held
<1>16. Entries' = Entries \cup {d}
    <2>1. Taken(q) = Taken(p) \cup {x} /\ x \notin Taken(p)
        BY <1>10, <1>11 DEF Taken
    <2>2. {overflow'[i].data : i \in Taken(q)} = {overflow[i].data : i \in Taken(p)} \cup {d}
        <3>1. \A i \in Taken(p) : overflow'[i].data = overflow[i].data
            BY <1>3, <2>1 DEF Taken
        <3>2. QED
            BY <1>3, <2>1, <3>1
    <2>3. {table'[e].data : e \in Used'} = {table[e].data : e \in Used}
        BY <1>12, <1>14, UsedIs
    <2>4. Stored(q)' = {table'[e].data : e \in Used'} \cup {overflow'[i].data : i \in Taken(q)}
        BY DEF Stored, Taken
    <2>5. QED
        BY <1>13, <2>2, <2>3, <2>4 DEF Stored
<1>17. QED
    BY <1>5, <1>15, <1>16 DEF AddsTo

LEMMA Adds ==
    ASSUME HashTyped, NEW p, Held(p), NEW d \in Data, d \notin Entries, HashHasRoom(d.key), hash_add(d)
    PROVE  AddsTo(d)
<1>1. PICK c \in Main : c = HASH_FUNCTION(d.key)
    BY HashInMain DEF Data
<1>2. CASE table[c].link = HASH_FREE
    BY <1>1, <1>2, AddMain
<1>3. CASE table[c].link # HASH_FREE
    <2>1. ovf_free # HASH_NULL
        BY <1>1, <1>3 DEF HashHasRoom
    <2>2. QED
        BY <1>1, <1>3, <2>1, AddOverflow
<1>4. QED
    BY <1>2, <1>3

-----------------------------------------------------------------------------
(* hash_remove                                                              *)

LEMMA FreesPaths ==
    ASSUME HashTyped, NEW p, HasPaths(p), NEW c \in Main, table[c].link # HASH_FREE,
           NEW j \in 1..Len(p[c]), NEW x, x = p[c][j],
           \A e \in Main \ {c} : table'[e].link = table[e].link,
           table'[c].link = IF j = 1 THEN overflow[x].next ELSE table[c].link,
           ovf_free' = x, overflow'[x].next = ovf_free,
           \A i \in Cell \ {x} : j = 1 \/ i # p[c][j - 1] => overflow'[i].next = overflow[i].next,
           j # 1 => overflow'[p[c][j - 1]].next = overflow[x].next,
           NEW q, q = Moved(p, c, HASH_FREE, j)
    PROVE  HasPaths(q)'
<1>1. c \in Lists /\ HASH_FREE \in Lists /\ c # HASH_FREE /\ Starts[c] = table[c].link
    BY ListsAre DEF Starts
<1>2. Paths(p, Starts, Nexts)
    BY DEF HasPaths
<1>3. x \in Cell
    BY <1>1, <1>2, PathsCells
<1>4. overflow[x].next \in Link /\ overflow[x].next # HASH_FREE
    BY <1>3, ListsAre DEF HashTyped
<1>5. Nexts \in [Cell -> Link]
    BY DEF Nexts, HashTyped
<1>6. \A k \in Lists \ {c, HASH_FREE} : Starts'[k] = Starts[k]
    BY DEF Starts, Lists
<1>7. Starts'[c] = IF j = 1 THEN Nexts[x] ELSE Starts[c]
    BY <1>1, <1>3, <1>4 DEF Starts, Nexts
<1>8. Starts'[HASH_FREE] = x
    BY <1>1 DEF Starts
<1>9. \A i \in Cell \ {x} : j = 1 \/ i # p[c][j - 1] => Nexts'[i] = Nexts[i]
    BY DEF Nexts
<1>10. j # 1 => Nexts'[p[c][j - 1]] = Nexts[x]
    <2> SUFFICES ASSUME j # 1  PROVE Nexts'[p[c][j - 1]] = Nexts[x]
        OBVIOUS
    <2>1. j - 1 \in 1..Len(p[c])
        BY <1>1, <1>2, PathsSeq, LenProperties
    <2>2. PICK y \in Cell : y = p[c][j - 1]
        BY <1>1, <1>2, <2>1, PathsCells
    <2>3. QED
        BY <1>3, <2>2 DEF Nexts
<1>11. Nexts'[x] = Starts[HASH_FREE]
    BY <1>1, <1>3 DEF Nexts, Starts
<1>12. PICK s, n : s = Starts' /\ n = Nexts'
    OBVIOUS
<1>13. /\ \A k \in Lists \ {c, HASH_FREE} : s[k] = Starts[k]
       /\ s[c] = IF j = 1 THEN Nexts[x] ELSE Starts[c]
       /\ s[HASH_FREE] = x
    BY <1>6, <1>7, <1>8, <1>12
<1>14. /\ \A i \in Cell \ {x} : j = 1 \/ i # p[c][j - 1] => n[i] = Nexts[i]
       /\ j # 1 => n[p[c][j - 1]] = Nexts[x]
       /\ n[x] = Starts[HASH_FREE]
    BY <1>9, <1>10, <1>11, <1>12
<1>15. Paths(Moved(p, c, HASH_FREE, j), s, n)
    <2>1. PICK m \in Lists : m = HASH_FREE
        BY <1>1
    <2>2. PICK s0, n0 : s0 = Starts /\ n0 = Nexts
        OBVIOUS
    <2>3. c \in Lists /\ c # m /\ n0 \in [Cell -> Link] /\ Paths(p, s0, n0)
        BY <1>1, <1>2, <1>5, <2>1, <2>2
    <2>4. /\ \A k \in Lists \ {c, m} : s[k] = s0[k]
          /\ s[c] = IF j = 1 THEN n0[x] ELSE s0[c]
          /\ s[m] = x
        BY <1>13, <2>1, <2>2
    <2>5. /\ \A i \in Cell \ {x} : j = 1 \/ i # p[c][j - 1] => n[i] = n0[i]
          /\ j # 1 => n[p[c][j - 1]] = n0[x]
          /\ n[x] = s0[m]
        BY <1>14, <2>1, <2>2
    <2>6. Paths(Moved(p, c, m, j), s, n)
        BY <2>3, <2>4, <2>5, MovedPaths
    <2>7. QED
        BY <2>1, <2>6
<1>16. Paths(q, Starts', Nexts')
    BY <1>12, <1>15
<1>17. QED
    BY <1>16 DEF HasPaths

LEMMA FreesHeld ==
    ASSUME NEW p, Held(p), NEW c \in Used, Used' = Used, NEW j \in 1..Len(p[c]),
           NEW x, x = p[c][j], NEW q, q = Moved(p, c, HASH_FREE, j), HasPaths(q)',
           \A e \in Main \ {c} : table'[e].data = table[e].data,
           \A i \in Cell : overflow'[i].data = overflow[i].data,
           NEW gone,
           \/ table'[c].data = table[c].data /\ gone = overflow[x].data
           \/ table'[c].data = overflow[x].data /\ gone = table[c].data
    PROVE  Held(q)' /\ gone \in Entries /\ Entries' = Entries \ {gone}
<1>1. c \in Main /\ c \in Lists /\ HASH_FREE \in Lists /\ c # HASH_FREE
    BY UsedIs, ListsAre
<1>2. x \in Cell /\ On(p[c], x)
    <2>1. x \in Cell
        BY <1>1, PathsCells DEF Held, HasPaths
    <2>2. QED
        BY <2>1 DEF On
<1>3. ASSUME NEW k \in Main, NEW i  PROVE On(q[k], i) <=> On(p[k], i) /\ i # x
    <2>1. k \in Lists /\ k # HASH_FREE
        BY ListsAre
    <2>2. p \in [Lists -> Seq(Cell)] /\ Apart(p)
        BY DEF Held, HasPaths, Paths
    <2>3. PICK m \in Lists : m = HASH_FREE
        BY <1>1
    <2>4. q = Moved(p, c, m, j) /\ c # m
        BY <1>1, <2>3
    <2>5. On(q[k], i) <=> OnAfter(p, c, m, x, k, i)
        <3>1. PICK h \in 1..Len(p[c]) : h = j
            OBVIOUS
        <3>2. q = Moved(p, c, m, h) /\ x = p[c][h] /\ c \in Lists /\ c # m /\ k \in Lists
            BY <1>1, <2>1, <2>4, <3>1
        <3>3. QED
            BY <2>2, <3>2, MovedOn
    <2>6. On(p[k], x) => k = c
        BY <1>1, <1>2, <2>1, OneList DEF Held, HasPaths
    <2>7. QED
        BY <2>1, <2>3, <2>5, <2>6 DEF OnAfter
<1>4. Taken(q) = Taken(p) \ {x} /\ x \in Taken(p)
    BY <1>1, <1>2, <1>3 DEF Taken
<1>5. overflow[x].data \in Data /\ HASH_FUNCTION(overflow[x].data.key) = c
    BY <1>1, <1>2 DEF Held
<1>6. Held(q)'
    <2>1. \A e \in Used' : table'[e].data \in Data /\ HASH_FUNCTION(table'[e].data.key) = e
        BY <1>5, UsedIs DEF Held
    <2>2. \A e \in Main : \A i \in Cell :
             On(q[e], i) => overflow'[i].data \in Data /\ HASH_FUNCTION(overflow'[i].data.key) = e
        BY <1>3 DEF Held
    <2>3. ASSUME NEW e \in Used', NEW i \in Cell, On(q[e], i)
          PROVE  table'[e].data # overflow'[i].data
        <3>0. e \in Used /\ e \in Main /\ On(p[e], i) /\ i # x
            BY <1>3, <2>3, UsedIs
        <3>1. CASE e # c
            BY <3>0, <3>1 DEF Held
        <3>2. CASE e = c
            <4>1. table[c].data # overflow[i].data
                BY <3>0, <3>2 DEF Held
            <4>2. overflow[x].data # overflow[i].data
                BY <1>1, <1>2, <3>0, <3>2 DEF Held
            <4>3. QED
                BY <3>2, <4>1, <4>2
        <3>3. QED
            BY <3>1, <3>2
    <2>4. \A e \in Main : \A i \in Cell : \A h \in Cell :
             On(q[e], i) /\ On(q[e], h) /\ overflow'[i].data = overflow'[h].data => i = h
        BY <1>3 DEF Held
    <2>5. QED
        BY <2>1, <2>2, <2>3, <2>4 DEF Held
<1>7. Entries = Stored(p) /\ Entries' = Stored(q)'
    BY EntriesAre, EntriesAreAfter DEF Held
<1>8. gone \in Entries
    BY <1>4, <1>7 DEF Stored
<1>9. /\ \A i \in Taken(p) : overflow[i].data = overflow[x].data => i = x
      /\ \A e \in Used : \A i \in Taken(p) : table[e].data # overflow[i].data
      /\ \A e \in Used : table[e].data = table[c].data => e = c
    BY <1>4, HeldOnce
<1>10. Stored(q)' = {table'[e].data : e \in Used} \cup {overflow[i].data : i \in Taken(q)}
    <2>1. \A i \in Taken(q) : overflow'[i].data = overflow[i].data
        BY DEF Taken
    <2>2. QED
        BY <2>1 DEF Stored, Taken
<1>11. Stored(q)' = Stored(p) \ {gone}
    <2>0. \A e \in Used \ {c} : table'[e].data = table[e].data
        BY UsedIs
    <2>1. ASSUME NEW d \in Stored(q)'  PROVE d \in Stored(p) \ {gone}
        <3>1. CASE \E i \in Taken(q) : d = overflow[i].data
            BY <1>4, <1>9, <3>1 DEF Stored
        <3>2. CASE \E e \in Used \ {c} : d = table'[e].data
            BY <1>4, <1>9, <2>0, <3>2 DEF Stored
        <3>3. CASE d = table'[c].data
            BY <1>4, <1>9, <3>3 DEF Stored
        <3>4. QED
            BY <1>10, <2>1, <3>1, <3>2, <3>3
    <2>2. ASSUME NEW d \in Stored(p) \ {gone}  PROVE d \in Stored(q)'
        <3>1. CASE \E i \in Taken(p) : d = overflow[i].data
            <4>1. PICK i \in Taken(p) : d = overflow[i].data
                BY <3>1
            <4>2. CASE i = x
                BY <1>10, <2>2, <4>1, <4>2
            <4>3. CASE i # x
                BY <1>4, <1>10, <4>1, <4>3
            <4>4. QED
                BY <4>2, <4>3
        <3>2. CASE \E e \in Used : d = table[e].data
            <4>1. PICK e \in Used : d = table[e].data
                BY <3>2
            <4>2. CASE e = c
                BY <1>10, <2>2, <4>1, <4>2
            <4>3. CASE e # c
                BY <1>10, <2>0, <4>1, <4>3
            <4>4. QED
                BY <4>2, <4>3
        <3>3. QED
            BY <2>2, <3>1, <3>2 DEF Stored
    <2>3. QED
        BY <2>1, <2>2
<1>12. QED
    BY <1>6, <1>7, <1>8, <1>11

\* hash_remove takes an entry of the key from the table, if there is one.
Gone(k) ==
    \/ \E e \in Entries : e.key = k /\ Entries' = Entries \ {e}
    \/ Entries' = Entries /\ \A e \in Entries : e.key # k
Removes(k) == (\E p : Held(p)') /\ HashTyped' /\ Gone(k)

LEMMA RemovesEmptying ==
    ASSUME HashTyped, NEW p, Held(p), NEW c \in Used, table[c].link = HASH_NULL, RemoveMain(c)
    PROVE  Removes(table[c].data.key)
<1>1. table' = [table EXCEPT ![c].link = HASH_FREE] /\ overflow' = overflow /\ ovf_free' = ovf_free
    BY DEF RemoveMain
<1>2. c \in Main /\ c \in Lists
    BY UsedIs, ListsAre
<1>3. /\ \A e \in Main : table'[e].data = table[e].data
      /\ \A e \in Main \ {c} : table'[e] = table[e]
      /\ table'[c].link = HASH_FREE
    BY <1>1, <1>2 DEF HashTyped
<1>4. HashTyped'
    <2>1. table' \in [Main -> [data : Data \cup {Nobody}, link : Link \cup {HASH_FREE}]]
        BY <1>1, <1>2 DEF HashTyped
    <2>2. QED
        BY <1>1, <2>1 DEF HashTyped
<1>5. Starts' = Starts /\ Nexts' = Nexts
    <2>1. ASSUME NEW l \in Lists, l # HASH_FREE  PROVE l \in Main
        BY <2>1 DEF Lists
    <2>2. QED
        BY <1>1, <1>3, <2>1 DEF Starts, Nexts
<1>6. HasPaths(p)'
    BY <1>5 DEF HasPaths, Held
<1>7. Used' = Used \ {c}
    <2>1. Used' = {e \in Main : table'[e].link # HASH_FREE}
        BY DEF Used, Main
    <2>2. QED
        BY <1>3, <2>1, UsedIs
<1>8. Held(p)'
    BY <1>1, <1>3, <1>6, <1>7, UsedIs DEF Held
<1>9. Entries = Stored(p) /\ Entries' = Stored(p)'
    BY <1>6, EntriesAre, EntriesAreAfter DEF Held
<1>10. Entries' = Entries \ {table[c].data} /\ table[c].data \in Entries
    <2>1. {table'[e].data : e \in Used'} = {table[e].data : e \in Used} \ {table[c].data}
        <3>1. \A e \in Used : table[e].data = table[c].data => e = c
            BY HeldOnce
        <3>2. QED
            BY <1>3, <1>7, <3>1, UsedIs
    <2>2. table[c].data \notin {overflow[i].data : i \in Taken(p)}
        BY HeldOnce
    <2>3. QED
        BY <1>1, <1>9, <2>1, <2>2 DEF Stored, Taken
<1>11. QED
    BY <1>4, <1>8, <1>10 DEF Removes, Gone

LEMMA RemovesMain ==
    ASSUME HashTyped, NEW p, Held(p), NEW c \in Used, table[c].link # HASH_NULL, RemoveMain(c)
    PROVE  Removes(table[c].data.key)
<1>1. c \in Main /\ c \in Lists /\ table[c].link # HASH_FREE /\ Starts[c] = table[c].link
    BY UsedIs, ListsAre DEF Starts
<1>2. PICK j \in 1..Len(p[c]) : j = 1 /\ p[c][j] = table[c].link
    BY <1>1, PathBegins DEF Held, HasPaths
<1>3. PICK x \in Cell : x = p[c][j]
    BY <1>1, PathsCells DEF Held, HasPaths
<1>4. /\ table' = [table EXCEPT ![c] = [data |-> overflow[x].data, link |-> overflow[x].next]]
      /\ overflow' = [overflow EXCEPT ![x].next = ovf_free] /\ ovf_free' = x
    BY <1>2, <1>3 DEF RemoveMain
<1>5. /\ table'[c].data = overflow[x].data /\ table'[c].link = overflow[x].next
      /\ \A e \in Main \ {c} : table'[e] = table[e]
      /\ \A i \in Cell : overflow'[i].data = overflow[i].data
      /\ \A i \in Cell \ {x} : overflow'[i] = overflow[i]
      /\ overflow'[x].next = ovf_free
    BY <1>1, <1>4 DEF HashTyped
<1>6. overflow[x].next \in Link /\ overflow[x].data \in Data \cup {Nobody} /\ ovf_free \in Link
    BY DEF HashTyped
<1>7. HashTyped'
    <2>1. [data |-> overflow[x].data, link |-> overflow[x].next]
            \in [data : Data \cup {Nobody}, link : Link \cup {HASH_FREE}]
        BY <1>6
    <2>2. table' \in [Main -> [data : Data \cup {Nobody}, link : Link \cup {HASH_FREE}]]
        BY <1>1, <1>4, <2>1 DEF HashTyped
    <2>3. overflow' \in [Cell -> [data : Data \cup {Nobody}, next : Link]]
        BY <1>4, <1>6 DEF HashTyped
    <2>4. x \in Link
        BY DEF Link, Cell
    <2>5. QED
        BY <1>4, <2>2, <2>3, <2>4 DEF HashTyped
<1>8. PICK q : q = Moved(p, c, HASH_FREE, j)
    OBVIOUS
<1>9. HasPaths(q)'
    <2>1. table'[c].link = IF j = 1 THEN overflow[x].next ELSE table[c].link
        BY <1>2, <1>5
    <2>2. /\ \A i \in Cell \ {x} : j = 1 \/ i # p[c][j - 1] => overflow'[i].next = overflow[i].next
          /\ j # 1 => overflow'[p[c][j - 1]].next = overflow[x].next
        BY <1>2, <1>5
    <2>3. HasPaths(p) /\ \A e \in Main \ {c} : table'[e].link = table[e].link
        BY <1>5 DEF Held
    <2>4. ovf_free' = x /\ overflow'[x].next = ovf_free
        BY <1>4, <1>5
    <2>5. QED
        BY <1>1, <1>3, <1>8, <2>1, <2>2, <2>3, <2>4, FreesPaths
<1>10. Used' = Used
    <2>1. Used' = {e \in Main : table'[e].link # HASH_FREE}
        BY DEF Used, Main
    <2>2. overflow[x].next # HASH_FREE
        BY <1>6, ListsAre
    <2>3. QED
        BY <1>1, <1>5, <2>1, <2>2, UsedIs
<1>11. PICK gone : gone = table[c].data
    OBVIOUS
<1>12. Held(q)' /\ gone \in Entries /\ Entries' = Entries \ {gone}
    BY <1>3, <1>5, <1>8, <1>9, <1>10, <1>11, FreesHeld
<1>13. QED
    BY <1>7, <1>11, <1>12 DEF Removes, Gone

LEMMA RemovesOverflow ==
    ASSUME HashTyped, NEW p, Held(p), NEW c \in Used, NEW j \in 1..Len(p[c]), RemoveOverflow(c, j)
    PROVE  Removes(overflow[p[c][j]].data.key)
<1>1. c \in Main /\ c \in Lists /\ table[c].link # HASH_FREE /\ Starts[c] = table[c].link
    BY UsedIs, ListsAre DEF Starts
<1>2. Chain(table[c].link) = p[c]
    BY <1>1, ChainIsPath DEF Held
<1>3. PICK x \in Cell : x = p[c][j]
    BY <1>1, PathsCells DEF Held, HasPaths
<1>4. j \in Nat /\ (j # 1 => j - 1 \in 1..Len(p[c]))
    BY <1>1, PathsSeq, LenProperties DEF Held, HasPaths
<1>5. j # 1 => p[c][j - 1] \in Cell /\ p[c][j - 1] # x
    <2>1. j # 1 => p[c][j - 1] \in Cell
        BY <1>1, <1>4, PathsCells DEF Held, HasPaths
    <2>2. j # 1 => p[c][j - 1] # x
        BY <1>1, <1>3, <1>4 DEF Held, HasPaths, Paths, Apart
    <2>3. QED
        BY <2>1, <2>2
<1>6. PICK y \in Cell : j # 1 => y = p[c][j - 1] /\ y # x
    BY <1>3, <1>5
<1>7. /\ ovf_free' = x
      /\ table' = IF j = 1 THEN [table EXCEPT ![c].link = overflow[x].next] ELSE table
      /\ overflow' = [IF j = 1 THEN overflow ELSE [overflow EXCEPT ![y].next = overflow[x].next]
                        EXCEPT ![x].next = ovf_free]
    BY <1>2, <1>3, <1>6 DEF RemoveOverflow
<1>8. overflow[x].next \in Link /\ ovf_free \in Link
    BY DEF HashTyped
<1>9. /\ \A e \in Main : table'[e].data = table[e].data
      /\ \A e \in Main \ {c} : table'[e] = table[e]
      /\ table'[c].link = IF j = 1 THEN overflow[x].next ELSE table[c].link
      /\ table' \in [Main -> [data : Data \cup {Nobody}, link : Link \cup {HASH_FREE}]]
    BY <1>1, <1>7, <1>8 DEF HashTyped
<1>10. /\ \A i \in Cell : overflow'[i].data = overflow[i].data
       /\ \A i \in Cell \ {x} : j = 1 \/ i # y => overflow'[i].next = overflow[i].next
       /\ overflow'[x].next = ovf_free
       /\ j # 1 => overflow'[y].next = overflow[x].next
       /\ overflow' \in [Cell -> [data : Data \cup {Nobody}, next : Link]]
    <2>1. CASE j = 1
        BY <1>7, <1>8, <2>1 DEF HashTyped
    <2>2. CASE j # 1
        BY <1>6, <1>7, <1>8, <2>2, SMTT(30) DEF HashTyped
    <2>3. QED
        BY <2>1, <2>2
<1>11. HashTyped'
    <2>1. x \in Link
        BY DEF Link, Cell
    <2>2. QED
        BY <1>7, <1>9, <1>10, <2>1 DEF HashTyped
<1>12. PICK q : q = Moved(p, c, HASH_FREE, j)
    OBVIOUS
<1>13. HasPaths(q)'
    <2>1. /\ \A i \in Cell \ {x} : j = 1 \/ i # p[c][j - 1] => overflow'[i].next = overflow[i].next
          /\ j # 1 => overflow'[p[c][j - 1]].next = overflow[x].next
        BY <1>6, <1>10
    <2>2. HasPaths(p) /\ \A e \in Main \ {c} : table'[e].link = table[e].link
        BY <1>9 DEF Held
    <2>3. table'[c].link = IF j = 1 THEN overflow[x].next ELSE table[c].link
        BY <1>9
    <2>4. ovf_free' = x /\ overflow'[x].next = ovf_free
        BY <1>7, <1>10
    <2>5. QED
        BY <1>1, <1>3, <1>12, <2>1, <2>2, <2>3, <2>4, FreesPaths
<1>14. Used' = Used
    <2>1. Used' = {e \in Main : table'[e].link # HASH_FREE}
        BY DEF Used, Main
    <2>2. overflow[x].next # HASH_FREE
        BY <1>8, ListsAre
    <2>3. QED
        BY <1>1, <1>9, <2>1, <2>2, UsedIs
<1>15. PICK gone : gone = overflow[x].data
    OBVIOUS
<1>16. Held(q)' /\ gone \in Entries /\ Entries' = Entries \ {gone}
    <2>1. \A e \in Main \ {c} : table'[e].data = table[e].data
        BY <1>9
    <2>2. \A i \in Cell : overflow'[i].data = overflow[i].data
        BY <1>10
    <2>3. table'[c].data = table[c].data /\ gone = overflow[x].data
        BY <1>1, <1>9, <1>15
    <2>4. QED
        BY <1>3, <1>12, <1>13, <1>14, <2>1, <2>2, <2>3, FreesHeld
<1>17. QED
    BY <1>3, <1>11, <1>15, <1>16 DEF Removes, Gone

LEMMA NothingRemoved ==
    ASSUME HashTyped, NEW p, Held(p), UNCHANGED hash, NEW k, \A e \in Entries : e.key # k
    PROVE  Removes(k)
<1>1. table' = table /\ overflow' = overflow /\ ovf_free' = ovf_free
    BY DEF hash
<1>2. HashTyped'
    BY <1>1 DEF HashTyped
<1>3. Starts' = Starts /\ Nexts' = Nexts /\ Used' = Used
    BY <1>1 DEF Starts, Nexts, Used
<1>4. HasPaths(p)'
    BY <1>3 DEF HasPaths, Held
<1>5. Held(p)'
    BY <1>1, <1>3, <1>4 DEF Held
<1>6. Entries' = Entries
    <2>1. Entries = Stored(p) /\ Entries' = Stored(p)'
        BY <1>4, EntriesAre, EntriesAreAfter DEF Held
    <2>2. QED
        BY <1>1, <1>3, <2>1 DEF Stored, Taken
<1>7. QED
    BY <1>2, <1>5, <1>6 DEF Removes, Gone

\* An entry of a key is where the key hashes to.
LEMMA EntryPlace ==
    ASSUME NEW p, Held(p), NEW d \in Entries, NEW c, c = HASH_FUNCTION(d.key)
    PROVE  c \in Used /\ (d = table[c].data \/ \E j \in 1..Len(p[c]) : d = overflow[p[c][j]].data)
<1>1. d \in Stored(p)
    BY EntriesAre DEF Held
<1>2. CASE \E e \in Used : d = table[e].data
    BY <1>2 DEF Held
<1>3. CASE \E i \in Taken(p) : d = overflow[i].data
    <2>1. PICK i \in Taken(p) : d = overflow[i].data
        BY <1>3
    <2>2. PICK e \in Main : On(p[e], i)
        BY DEF Taken
    <2>3. i \in Cell
        BY DEF Taken
    <2>4. e = c
        BY <2>1, <2>2, <2>3 DEF Held
    <2>5. c \in Used
        <3>1. c \in Lists /\ (c \notin Used => Starts[c] = HASH_NULL)
            BY <2>2, <2>4, ListsAre, UsedIs DEF Starts
        <3>2. QED
            BY <2>2, <2>4, <3>1, PathBegins DEF Held, HasPaths
    <2>6. QED
        BY <2>1, <2>2, <2>4, <2>5 DEF On
<1>4. QED
    BY <1>1, <1>2, <1>3 DEF Stored

LEMMA HashRemoves ==
    ASSUME HashTyped, NEW p, Held(p), NEW k \in Key, hash_remove(k)
    PROVE  Removes(k)
<1>1. PICK c \in Main : c = HASH_FUNCTION(k)
    BY HashInMain
<1>2. PICK found : found = {i \in DOMAIN Chain(table[c].link) :
                              overflow[Chain(table[c].link)[i]].data.key = k}
    OBVIOUS
<1>3. IF table[c].link = HASH_FREE THEN UNCHANGED hash
      ELSE IF table[c].data.key = k THEN RemoveMain(c)
      ELSE IF found = {} THEN UNCHANGED hash
      ELSE RemoveOverflow(c, CHOOSE i \in found : \A j \in found : i <= j)
    BY <1>1, <1>2 DEF hash_remove
<1>4. CASE table[c].link = HASH_FREE
    <2>1. c \notin Used
        BY <1>4, UsedIs
    <2>2. \A e \in Entries : e.key # k
        BY <1>1, <2>1, EntryPlace
    <2>3. QED
        BY <1>3, <1>4, <2>2, NothingRemoved
<1>5. CASE table[c].link # HASH_FREE /\ table[c].data.key = k
    <2>1. c \in Used /\ RemoveMain(c)
        BY <1>3, <1>5, UsedIs
    <2>2. Removes(table[c].data.key)
        BY <2>1, RemovesEmptying, RemovesMain
    <2>3. QED
        BY <1>5, <2>2
<1>6. CASE table[c].link # HASH_FREE /\ table[c].data.key # k
    <2>1. c \in Used /\ c \in Lists /\ Starts[c] = table[c].link
        BY <1>6, UsedIs, ListsAre DEF Starts
    <2>2. Chain(table[c].link) = p[c]
        BY <2>1, ChainIsPath DEF Held
    <2>3. PICK s \in Seq(Cell) : s = p[c]
        BY <2>1, PathsSeq DEF Held, HasPaths
    <2>4. found = {i \in 1..Len(s) : overflow[s[i]].data.key = k}
        <3>1. DOMAIN s = 1..Len(s)
            BY LenProperties
        <3>2. QED
            BY <1>2, <2>2, <2>3, <3>1
    <2>5. CASE found = {}
        <3>1. ASSUME NEW d \in Entries, d.key = k  PROVE FALSE
            <4>1. d = table[c].data \/ \E j \in 1..Len(p[c]) : d = overflow[p[c][j]].data
                BY <1>1, <3>1, EntryPlace
            <4>2. QED
                BY <1>6, <2>3, <2>4, <2>5, <3>1, <4>1
        <3>2. QED
            BY <1>3, <1>6, <2>5, <3>1, NothingRemoved
    <2>6. CASE found # {}
        <3>1. found \in SUBSET Nat
            BY <2>4, LenProperties
        <3>2. \E i \in found : \A j \in found : i <= j
            BY <2>6, <3>1, LeastNatural
        <3>3. PICK i \in found : i = CHOOSE h \in found : \A j \in found : h <= j
            BY <3>2
        <3>4. RemoveOverflow(c, i) /\ i \in 1..Len(p[c]) /\ overflow[p[c][i]].data.key = k
            <4>1. RemoveOverflow(c, CHOOSE h \in found : \A j \in found : h <= j)
                BY <1>3, <1>6, <2>6
            <4>2. RemoveOverflow(c, i)
                BY <3>3, <4>1
            <4>3. QED
                BY <2>3, <2>4, <4>2
        <3>5. Removes(overflow[p[c][i]].data.key)
            BY <2>1, <3>4, RemovesOverflow
        <3>6. QED
            BY <3>4, <3>5
    <2>7. QED
        BY <2>5, <2>6
<1>7. QED
    BY <1>4, <1>5, <1>6

-----------------------------------------------------------------------------
(* There is no space for a request: every overflow cell is taken.           *)

LEMMA EntriesFinite ==
    ASSUME NEW p, Held(p)
    PROVE  IsFiniteSet(Entries)
<1>1. IsFiniteSet(Used) /\ IsFiniteSet(Taken(p))
    <2>1. IsFiniteSet(Main) /\ IsFiniteSet(Cell)
        BY RequestHashAssumption, FS_Interval DEF Main, Cell
    <2>2. Used \in SUBSET Main /\ Taken(p) \in SUBSET Cell
        BY UsedIs DEF Taken
    <2>3. QED
        BY <2>1, <2>2, FS_Subset
<1>2. IsFiniteSet({table[c].data : c \in Used})
    <2>1. [c \in Used |-> table[c].data] \in Surjection(Used, {table[c].data : c \in Used})
        BY DEF Surjection
    <2>2. QED
        BY <1>1, <2>1, FS_Surjection
<1>3. IsFiniteSet({overflow[i].data : i \in Taken(p)})
    <2>1. [i \in Taken(p) |-> overflow[i].data] \in Surjection(Taken(p), {overflow[i].data : i \in Taken(p)})
        BY DEF Surjection
    <2>2. QED
        BY <1>1, <2>1, FS_Surjection
<1>4. Entries = {table[c].data : c \in Used} \cup {overflow[i].data : i \in Taken(p)}
    BY EntriesAre DEF Held, Stored
<1>5. QED
    BY <1>2, <1>3, <1>4, FS_Union

LEMMA NoRoom ==
    ASSUME HashTyped, NEW p, Held(p), NEW k \in Key, ~HashHasRoom(k)
    PROVE  Cardinality(Entries) > OverflowSize
<1>1. PICK c \in Used : TRUE
    BY HashInMain, UsedIs DEF HashHasRoom
<1>2. ovf_free = HASH_NULL /\ Starts[HASH_FREE] = HASH_NULL
    BY ListsAre DEF HashHasRoom, Starts
<1>3. Taken(p) = Cell
    <2>1. \A i : ~On(p[HASH_FREE], i)
        BY <1>2, PathBegins, ListsAre DEF Held, HasPaths
    <2>2. ASSUME NEW i \in Cell  PROVE i \in Taken(p)
        <3>1. PICK l \in Lists : On(p[l], i)
            BY OneList DEF Held, HasPaths
        <3>2. l \in Main
            BY <2>1, <3>1 DEF Lists
        <3>3. QED
            BY <3>1, <3>2 DEF Taken
    <2>3. QED
        BY <2>2 DEF Taken
<1>4. MAIN \notin Cell
    BY DEF Cell, MAIN
<1> DEFINE f == [i \in Cell \cup {MAIN} |-> IF i = MAIN THEN table[c].data ELSE overflow[i].data]
<1>5. f \in [Cell \cup {MAIN} -> Entries]
    BY <1>3, EntriesAre DEF Held, Stored
<1>6. \A i \in Cell \cup {MAIN} : \A j \in Cell \cup {MAIN} : f[i] = f[j] => i = j
    BY <1>3, <1>4, HeldOnce
<1>7. f \in Injection(Cell \cup {MAIN}, Entries)
    BY <1>5, <1>6 DEF Injection, IsInjective
<1>8. IsFiniteSet(Cell) /\ Cardinality(Cell) = OverflowSize
    BY RequestHashAssumption, FS_Interval DEF Cell
<1>9. Cardinality(Cell \cup {MAIN}) = OverflowSize + 1
    BY <1>4, <1>8, FS_AddElement
<1>10. IsFiniteSet(Entries)
    BY EntriesFinite
<1> HIDE DEF f
<1>11. Cardinality(Cell \cup {MAIN}) <= Cardinality(Entries)
    BY <1>7, <1>10, FS_Injection
<1>12. Cardinality(Entries) \in Nat
    BY <1>10, FS_CardinalityType
<1>13. QED
    BY <1>9, <1>11, <1>12, RequestHashAssumption

-----------------------------------------------------------------------------
(* The inductive invariant.                                                 *)

Searching == {"search", "search_main", "search_link", "search_cell", "search_next", "missed",
              "found", "remove", "crashed"}

\* Where a thread is, what it adds, what it has completed and where its search is.
ThreadVals(w, r, s, x) ==
    /\ w \in {"app", "add"} \cup Searching /\ r \in Data \cup {Nobody}
    /\ s \in Seq(Posted) /\ x \in Link \cup {HASH_FREE, MAIN}
    /\ w = "add" => r \in Data
    /\ IF w \in Searching THEN s # <<>> ELSE s = <<>>
    /\ w = "search_cell" => x # MAIN
    /\ w = "search_next" => x \in Cell

ThreadsOK ==
    /\ DOMAIN pc = Thread /\ DOMAIN req = Thread /\ DOMAIN save_reqs = Thread /\ DOMAIN cell = Thread
    /\ pc = [t \in Thread |-> pc[t]] /\ req = [t \in Thread |-> req[t]]
    /\ save_reqs = [t \in Thread |-> save_reqs[t]] /\ cell = [t \in Thread |-> cell[t]]
    /\ \A t \in Thread : ThreadVals(pc[t], req[t], save_reqs[t], cell[t])

SetsOK ==
    /\ PR_queue \subseteq Key /\ posted \subseteq Posted /\ refused \subseteq Data
    /\ freed \in 0..MaxFreed /\ mishaps \subseteq {"missed", "wrong"}

\* What is being added is not in the table and is added once.
Fresh ==
    \A t \in Thread : At(t, "add") =>
        req[t] \notin Entries /\ \A u \in Thread \ {t} : At(u, "add") => req[u] # req[t]

TableOK == HashTyped /\ \E p : Held(p)

IInv == TableOK /\ ThreadsOK /\ SetsOK /\ Fresh

LEMMA TypeFromInv == IInv => TypeOK
<1> SUFFICES ASSUME IInv  PROVE TypeOK
    OBVIOUS
<1>1. \A t \in Thread : ThreadVals(pc[t], req[t], save_reqs[t], cell[t])
    BY DEF IInv, ThreadsOK
<1>2. pc \in [Thread -> {"app", "add", "search", "search_main", "search_link", "search_cell",
                         "search_next", "missed", "found", "remove", "crashed"}]
    BY <1>1 DEF IInv, ThreadsOK, ThreadVals, Searching
<1>3. /\ req \in [Thread -> Data \cup {Nobody}] /\ save_reqs \in [Thread -> Seq(Posted)]
      /\ cell \in [Thread -> Link \cup {HASH_FREE, MAIN}]
    BY <1>1 DEF IInv, ThreadsOK, ThreadVals
<1>4. QED
    BY <1>2, <1>3 DEF IInv, TableOK, HashTyped, SetsOK, TypeOK, Main

LEMMA ThreadStep ==
    ASSUME ThreadsOK, NEW t \in Thread, NEW w, NEW r, NEW s, NEW x, ThreadVals(w, r, s, x),
           pc' = [pc EXCEPT ![t] = w], req' = [req EXCEPT ![t] = r],
           save_reqs' = [save_reqs EXCEPT ![t] = s], cell' = [cell EXCEPT ![t] = x]
    PROVE  ThreadsOK'
<1>1. ASSUME NEW u \in Thread  PROVE ThreadVals(pc'[u], req'[u], save_reqs'[u], cell'[u])
    <2>1. CASE u = t
        BY <2>1 DEF ThreadsOK
    <2>2. CASE u # t
        BY <2>2 DEF ThreadsOK
    <2>3. QED
        BY <2>1, <2>2
<1>2. QED
    BY <1>1 DEF ThreadsOK

\* A function that does not change has the value it had.
LEMMA Same ==
    ASSUME NEW S, NEW f, NEW t \in S, f = [u \in S |-> f[u]]
    PROVE  f = [f EXCEPT ![t] = f[t]]
OBVIOUS

-----------------------------------------------------------------------------
(* Every step keeps the threads' own state.                                 *)

LEMMA MineTyped ==
    ASSUME ThreadsOK, NEW t \in Thread, pc[t] \in Searching
    PROVE  /\ Mine(t) \in Posted /\ Mine(t).key \in Key /\ MyCell(t) \in Main
           /\ save_reqs[t] \in Seq(Posted) /\ save_reqs[t] # <<>> /\ Tail(save_reqs[t]) \in Seq(Posted)
           /\ Len(save_reqs[t]) = 1 <=> Tail(save_reqs[t]) = <<>>
<1>1. save_reqs[t] \in Seq(Posted) /\ save_reqs[t] # <<>>
    BY DEF ThreadsOK, ThreadVals
<1>2. PICK s \in Seq(Posted) : s = save_reqs[t] /\ s # <<>>
    BY <1>1
<1>3. Head(s) \in Posted /\ Tail(s) \in Seq(Posted) /\ Len(Tail(s)) = Len(s) - 1
    BY <1>2, HeadTailProperties
<1>4. Len(s) \in Nat
    BY LenProperties
<1>5. Tail(s) = <<>> <=> Len(Tail(s)) = 0
    BY <1>3, EmptySeq
<1>6. Mine(t).key \in Key
    BY <1>2, <1>3 DEF Mine, Posted
<1>7. QED
    BY <1>2, <1>3, <1>4, <1>5, <1>6, HashInMain DEF Mine, MyCell

LEMMA ThreadsIdle == ASSUME ThreadsOK, UNCHANGED <<pc, req, save_reqs, cell>>  PROVE ThreadsOK'
BY DEF ThreadsOK

LEMMA ThreadsPost ==
    ASSUME ThreadsOK, NEW t \in Thread, NEW d \in Data, At(t, "app"),
           req' = [req EXCEPT ![t] = d], Goes(t, "add"), save_reqs' = save_reqs, cell' = cell
    PROVE  ThreadsOK'
<1>1. ThreadVals(pc[t], req[t], save_reqs[t], cell[t])
    BY DEF ThreadsOK
<1>2. ThreadVals("add", d, save_reqs[t], cell[t])
    BY <1>1 DEF ThreadVals, At, Searching
<1>3. save_reqs' = [save_reqs EXCEPT ![t] = save_reqs[t]] /\ cell' = [cell EXCEPT ![t] = cell[t]]
    BY Same DEF ThreadsOK
<1>4. pc' = [pc EXCEPT ![t] = "add"] /\ req' = [req EXCEPT ![t] = d]
    BY DEF Goes
<1>5. PICK w, s, x : w = "add" /\ s = save_reqs[t] /\ x = cell[t]
    OBVIOUS
<1>6. ThreadVals(w, d, s, x)
    BY <1>2, <1>5
<1>7. /\ pc' = [pc EXCEPT ![t] = w] /\ req' = [req EXCEPT ![t] = d]
      /\ save_reqs' = [save_reqs EXCEPT ![t] = s] /\ cell' = [cell EXCEPT ![t] = x]
    BY <1>3, <1>4, <1>5
<1>8. QED
    BY <1>6, <1>7, ThreadStep

LEMMA ThreadsAdd == ASSUME ThreadsOK, NEW t \in Thread, AddsRequest(t)  PROVE ThreadsOK'
<1>1. ThreadVals(pc[t], req[t], save_reqs[t], cell[t])
    BY DEF ThreadsOK
<1>2. ThreadVals("app", Nobody, save_reqs[t], cell[t])
    BY <1>1 DEF ThreadVals, AddsRequest, At, Searching
<1>3. save_reqs' = [save_reqs EXCEPT ![t] = save_reqs[t]] /\ cell' = [cell EXCEPT ![t] = cell[t]]
    BY Same DEF ThreadsOK, AddsRequest
<1>4. pc' = [pc EXCEPT ![t] = "app"] /\ req' = [req EXCEPT ![t] = Nobody]
    BY DEF AddsRequest, Goes
<1>5. QED
    BY <1>2, <1>3, <1>4, ThreadStep

\* What Completes takes from the active requests.
Completed(s) == \E p \in posted : s = <<p>> \/ \E q \in posted \ {p} : s = <<p, q>>

LEMMA CompletedIs ==
    ASSUME SetsOK, NEW t \in Thread, Completes(t)
    PROVE  \E s \in Seq(Posted) : /\ Completed(s) /\ s # <<>>
                                  /\ save_reqs' = [save_reqs EXCEPT ![t] = s]
                                  /\ posted' = posted \ Range(s)
<1>1. PICK p \in posted : \E s \in {<<p>>} \cup {<<p, q>> : q \in posted \ {p}} :
          save_reqs' = [save_reqs EXCEPT ![t] = s] /\ posted' = posted \ Range(s)
    BY DEF Completes
<1>2. PICK s \in {<<p>>} \cup {<<p, q>> : q \in posted \ {p}} :
          save_reqs' = [save_reqs EXCEPT ![t] = s] /\ posted' = posted \ Range(s)
    BY <1>1
<1>3. Completed(s)
    BY <1>2 DEF Completed
<1>4. \A q \in posted : q \in Posted
    BY DEF SetsOK
<1>5. <<p>> \in Seq(Posted) /\ <<p>> # <<>>
    BY <1>4
<1>6. \A q \in posted : <<p, q>> \in Seq(Posted) /\ <<p, q>> # <<>>
    BY <1>4
<1>7. s \in Seq(Posted) /\ s # <<>>
    BY <1>5, <1>6
<1>8. QED
    BY <1>2, <1>3, <1>7

LEMMA ThreadsComplete == ASSUME ThreadsOK, SetsOK, NEW t \in Thread, Completes(t)  PROVE ThreadsOK'
<1>1. ThreadVals(pc[t], req[t], save_reqs[t], cell[t])
    BY DEF ThreadsOK
<1>2. PICK s \in Seq(Posted) : s # <<>> /\ save_reqs' = [save_reqs EXCEPT ![t] = s]
    BY CompletedIs
<1>3. ThreadVals("search", req[t], s, cell[t])
    BY <1>1, <1>2 DEF ThreadVals, Searching
<1>4. req' = [req EXCEPT ![t] = req[t]] /\ cell' = [cell EXCEPT ![t] = cell[t]]
    BY Same DEF ThreadsOK, Completes
<1>5. pc' = [pc EXCEPT ![t] = "search"]
    BY DEF Completes, Goes
<1>6. QED
    BY <1>2, <1>3, <1>4, <1>5, ThreadStep

\* A step of a search changes only where it is.
LEMMA ThreadsSearch ==
    ASSUME ThreadsOK, NEW t \in Thread, pc[t] \in Searching, NEW w \in Searching, Goes(t, w),
           NEW x \in Link \cup {HASH_FREE, MAIN}, w = "search_cell" => x # MAIN,
           w = "search_next" => x \in Cell, cell' = [cell EXCEPT ![t] = x], UNCHANGED <<req, save_reqs>>
    PROVE  ThreadsOK'
<1>1. ThreadVals(pc[t], req[t], save_reqs[t], cell[t])
    BY DEF ThreadsOK
<1>2. w # "add" /\ w \in {"app", "add"} \cup Searching
    BY DEF Searching
<1>3. ThreadVals(w, req[t], save_reqs[t], x)
    BY <1>1, <1>2 DEF ThreadVals
<1>4. req' = [req EXCEPT ![t] = req[t]] /\ save_reqs' = [save_reqs EXCEPT ![t] = save_reqs[t]]
    BY Same DEF ThreadsOK
<1>5. pc' = [pc EXCEPT ![t] = w]
    BY DEF Goes
<1>6. QED
    BY <1>3, <1>4, <1>5, ThreadStep

LEMMA ThreadsNext ==
    ASSUME ThreadsOK, NEW t \in Thread, pc[t] \in Searching, NextRequest(t), UNCHANGED req
    PROVE  ThreadsOK'
<1>1. ThreadVals(pc[t], req[t], save_reqs[t], cell[t])
    BY DEF ThreadsOK
<1>2. PICK w : w = IF Len(save_reqs[t]) = 1 THEN "app" ELSE "search"
    OBVIOUS
<1>3. PICK s \in Seq(Posted) : s = Tail(save_reqs[t])
    BY MineTyped
<1>4. IF w = "search" THEN s # <<>> ELSE s = <<>> /\ w = "app"
    BY <1>2, <1>3, MineTyped
<1>5. ThreadVals(w, req[t], s, HASH_NULL)
    BY <1>1, <1>4 DEF ThreadVals, Searching, Link
<1>6. req' = [req EXCEPT ![t] = req[t]]
    BY Same DEF ThreadsOK
<1>7. /\ pc' = [pc EXCEPT ![t] = w] /\ save_reqs' = [save_reqs EXCEPT ![t] = s]
      /\ cell' = [cell EXCEPT ![t] = HASH_NULL]
    BY <1>2, <1>3 DEF NextRequest, Goes
<1>8. QED
    BY <1>5, <1>6, <1>7, ThreadStep

LEMMA ThreadsKept == ASSUME IInv, Next  PROVE ThreadsOK'
<1> USE DEF IInv
<1>1. PICK u \in Thread :
         \/ MPI_Isend(u) \/ MPI_Irecv(u) \/ MPI_Recv_init(u) \/ MPI_Start(u) \/ AddsRequest(u)
         \/ Completes(u) \/ SearchBegins(u) \/ SearchesMain(u) \/ SearchesLink(u)
         \/ SearchesCell(u) \/ SearchesNext(u) \/ Missed(u) \/ Records(u)
         \/ RemovesRequest(u) \/ MPI_Cancel(u) \/ MPI_Request_free(u)
    BY DEF Next
<1>2. ThreadVals(pc[u], req[u], save_reqs[u], cell[u]) /\ cell = [cell EXCEPT ![u] = cell[u]]
    BY Same DEF ThreadsOK
<1>3. CASE MPI_Isend(u) \/ MPI_Recv_init(u) \/ MPI_Cancel(u) \/ MPI_Request_free(u)
    BY <1>3, ThreadsIdle DEF MPI_Isend, MPI_Recv_init, MPI_Cancel, MPI_Request_free
<1>4. CASE MPI_Irecv(u)
    <2>1. PICK k \in Key, r \in Receive : req' = [req EXCEPT ![u] = [key |-> k, recv |-> r]]
        BY <1>4 DEF MPI_Irecv, NewRequests, NewReceives
    <2>2. PICK d \in Data : d = [key |-> k, recv |-> r]
        BY DEF Data
    <2>3. At(u, "app") /\ Goes(u, "add") /\ save_reqs' = save_reqs /\ cell' = cell
        BY <1>4 DEF MPI_Irecv, MayCall
    <2>4. QED
        BY <2>1, <2>2, <2>3, ThreadsPost
<1>5. CASE MPI_Start(u)
    <2>1. PICK k \in Key, r \in Receive : req' = [req EXCEPT ![u] = [key |-> k, recv |-> r]]
        BY <1>5 DEF MPI_Start, Inactive, NewReceives, SetsOK
    <2>2. PICK d \in Data : d = [key |-> k, recv |-> r]
        BY DEF Data
    <2>3. At(u, "app") /\ Goes(u, "add") /\ save_reqs' = save_reqs /\ cell' = cell
        BY <1>5 DEF MPI_Start, MayCall
    <2>4. QED
        BY <2>1, <2>2, <2>3, ThreadsPost
<1>6. CASE AddsRequest(u)
    BY <1>6, ThreadsAdd
<1>7. CASE Completes(u)
    BY <1>7, ThreadsComplete
<1>8. CASE SearchBegins(u)
    <2>1. PICK w \in Searching : Goes(u, w) /\ w # "search_cell" /\ w # "search_next"
        BY <1>8 DEF SearchBegins, Searching
    <2>2. pc[u] \in Searching /\ UNCHANGED <<req, save_reqs, cell>>
        BY <1>8 DEF SearchBegins, Searching, At
    <2>3. QED
        BY <1>2, <2>1, <2>2, ThreadsSearch DEF ThreadVals
<1>9. CASE SearchesMain(u)
    <2>1. PICK w \in Searching : Goes(u, w) /\ w # "search_cell" /\ w # "search_next"
        BY <1>9 DEF SearchesMain, Searching
    <2>2. pc[u] \in Searching /\ UNCHANGED <<req, save_reqs>>
        BY <1>9 DEF SearchesMain, Searching, At
    <2>3. \/ cell' = [cell EXCEPT ![u] = MAIN]
          \/ cell' = [cell EXCEPT ![u] = cell[u]]
        BY <1>2, <1>9 DEF SearchesMain
    <2>4. QED
        BY <1>2, <2>1, <2>2, <2>3, ThreadsSearch DEF ThreadVals
<1>10. CASE SearchesLink(u)
    <2>1. pc[u] \in Searching /\ UNCHANGED <<req, save_reqs>> /\ Goes(u, "search_cell")
        BY <1>10 DEF SearchesLink, Searching, At
    <2>2. MyCell(u) \in Main
        BY <2>1, MineTyped
    <2>3. PICK x \in Link \cup {HASH_FREE} : x = table[MyCell(u)].link
        BY <2>2 DEF TableOK, HashTyped
    <2>4. x # MAIN /\ cell' = [cell EXCEPT ![u] = x]
        BY <1>10, <2>3 DEF SearchesLink, MAIN, HASH_FREE, HASH_NULL, Link
    <2>5. "search_cell" \in Searching
        BY DEF Searching
    <2>6. QED
        BY <2>1, <2>4, <2>5, ThreadsSearch
<1>11. CASE SearchesCell(u)
    <2>1. pc[u] = "search_cell" /\ pc[u] \in Searching /\ UNCHANGED <<req, save_reqs, cell>>
        BY <1>11 DEF SearchesCell, Searching, At
    <2>2. PICK w \in SearchOutcomes(u) : Goes(u, w)
        BY <1>11 DEF SearchesCell
    <2>3. w \in Searching /\ w # "search_cell" /\ (w = "search_next" => cell[u] \notin {HASH_FREE, HASH_NULL})
        BY <2>2 DEF SearchOutcomes, Searching
    <2>4. w = "search_next" => cell[u] \in Cell
        BY <1>2, <2>1, <2>3 DEF ThreadVals, Link, Cell
    <2>5. QED
        BY <1>2, <2>1, <2>2, <2>3, <2>4, ThreadsSearch DEF ThreadVals
<1>12. CASE SearchesNext(u)
    <2>1. pc[u] = "search_next" /\ pc[u] \in Searching /\ UNCHANGED <<req, save_reqs>> /\ Goes(u, "search_cell")
        BY <1>12 DEF SearchesNext, Searching, At
    <2>2. cell[u] \in Cell
        BY <1>2, <2>1 DEF ThreadVals
    <2>3. PICK x \in Link : x = overflow[cell[u]].next
        BY <2>2 DEF TableOK, HashTyped
    <2>4. x # MAIN /\ cell' = [cell EXCEPT ![u] = x]
        BY <1>12, <2>3 DEF SearchesNext, MAIN, HASH_NULL, Link
    <2>5. "search_cell" \in Searching
        BY DEF Searching
    <2>6. QED
        BY <2>1, <2>4, <2>5, ThreadsSearch
<1>13. CASE Missed(u)
    BY <1>13, ThreadsNext DEF Missed, At, Searching
<1>14. CASE Records(u)
    <2>1. PICK w \in Searching : Goes(u, w) /\ w # "search_cell" /\ w # "search_next"
        BY <1>14 DEF Records, Searching
    <2>2. pc[u] \in Searching /\ UNCHANGED <<req, save_reqs, cell>>
        BY <1>14 DEF Records, Searching, At
    <2>3. QED
        BY <1>2, <2>1, <2>2, ThreadsSearch DEF ThreadVals
<1>15. CASE RemovesRequest(u)
    BY <1>15, ThreadsNext DEF RemovesRequest, At, Searching
<1>16. QED
    BY <1>1, <1>3, <1>4, <1>5, <1>6, <1>7, <1>8, <1>9, <1>10, <1>11, <1>12, <1>13, <1>14, <1>15

-----------------------------------------------------------------------------
(* Every step keeps the sets.                                               *)

LEMMA SetsKept == ASSUME IInv, Next  PROVE SetsOK'
<1>1. PICK t \in Thread :
         \/ MPI_Isend(t) \/ MPI_Irecv(t) \/ MPI_Recv_init(t) \/ MPI_Start(t) \/ AddsRequest(t)
         \/ Completes(t) \/ SearchBegins(t) \/ SearchesMain(t) \/ SearchesLink(t)
         \/ SearchesCell(t) \/ SearchesNext(t) \/ Missed(t) \/ Records(t)
         \/ RemovesRequest(t) \/ MPI_Cancel(t) \/ MPI_Request_free(t)
    BY DEF Next
<1>2. SetsOK /\ ThreadVals(pc[t], req[t], save_reqs[t], cell[t])
    BY DEF IInv, ThreadsOK
<1>3. CASE MPI_Irecv(t) \/ MPI_Start(t) \/ SearchBegins(t) \/ SearchesMain(t)
            \/ SearchesLink(t) \/ SearchesCell(t) \/ SearchesNext(t)
    BY <1>2, <1>3 DEF SetsOK, history, MPI_Irecv, MPI_Start, SearchBegins, SearchesMain,
                      SearchesLink, SearchesCell, SearchesNext
<1>4. CASE MPI_Isend(t)
    <2>1. PICK k \in Key : posted' = posted \cup {[key |-> k, recv |-> none]}
        BY <1>4 DEF MPI_Isend, NewRequests
    <2>2. [key |-> k, recv |-> none] \in Posted
        BY DEF Posted
    <2>3. QED
        BY <1>2, <1>4, <2>1, <2>2 DEF SetsOK, MPI_Isend, history
<1>5. CASE MPI_Recv_init(t)
    BY <1>2, <1>5 DEF SetsOK, MPI_Recv_init, NewRequests, history
<1>6. CASE AddsRequest(t)
    <2>1. req[t] \in Data /\ req[t] \in Posted
        BY <1>2, <1>6 DEF AddsRequest, At, ThreadVals, Data, Posted
    <2>2. refused' \subseteq refused \cup {req[t]} /\ posted' = posted \cup {req[t]}
        BY <1>6 DEF AddsRequest
    <2>3. UNCHANGED <<PR_queue, freed, mishaps>>
        BY <1>6 DEF AddsRequest
    <2>4. QED
        BY <1>2, <2>1, <2>2, <2>3 DEF SetsOK
<1>7. CASE Completes(t)
    <2>1. posted' \subseteq posted
        BY <1>2, <1>7, CompletedIs
    <2>2. UNCHANGED <<PR_queue, refused, freed, mishaps>>
        BY <1>7 DEF Completes, history
    <2>3. QED
        BY <1>2, <2>1, <2>2 DEF SetsOK
<1>8. CASE Missed(t)
    <2>1. refused' \subseteq refused /\ mishaps' \subseteq mishaps \cup {"missed", "wrong"}
        BY <1>8 DEF Missed, NextRequest
    <2>2. UNCHANGED <<PR_queue, posted, freed>>
        BY <1>8 DEF Missed
    <2>3. QED
        BY <1>2, <2>1, <2>2 DEF SetsOK
<1>9. CASE Records(t)
    <2>1. mishaps' \subseteq mishaps \cup {"missed", "wrong"} /\ UNCHANGED <<PR_queue, posted, refused, freed>>
        BY <1>9 DEF Records
    <2>2. QED
        BY <1>2, <2>1 DEF SetsOK
<1>10. CASE RemovesRequest(t)
    <2>1. refused' \subseteq refused /\ UNCHANGED <<PR_queue, posted, freed, mishaps>>
        BY <1>10 DEF RemovesRequest, NextRequest
    <2>2. QED
        BY <1>2, <2>1 DEF SetsOK
<1>11. CASE MPI_Cancel(t)
    <2>1. PICK p \in posted : /\ posted' = (posted \ {p}) \cup {[p EXCEPT !.recv = none]}
                              /\ refused' = refused \ {p}
        BY <1>11 DEF MPI_Cancel
    <2>2. p \in Posted
        BY <1>2 DEF SetsOK
    <2>3. [p EXCEPT !.recv = none] \in Posted
        BY <2>2 DEF Posted
    <2>4. QED
        BY <1>2, <1>11, <2>1, <2>3 DEF SetsOK, MPI_Cancel
<1>12. CASE MPI_Request_free(t)
    <2>1. CASE UNCHANGED <<posted, freed, refused>> /\ PR_queue' \subseteq PR_queue
        BY <1>2, <1>12, <2>1 DEF SetsOK, MPI_Request_free
    <2>2. CASE \E p \in posted :
                  /\ PR_queue' = PR_queue \ {p.key} /\ posted' = posted \ {p}
                  /\ p.recv # none => freed < MaxFreed
                  /\ freed' = IF p.recv = none THEN freed ELSE freed + 1
                  /\ refused' = refused \ {p}
        <3>1. freed' \in 0..MaxFreed
            BY <1>2, <2>2, RequestHashAssumption DEF SetsOK
        <3>2. QED
            BY <1>2, <1>12, <2>2, <3>1 DEF SetsOK, MPI_Request_free
    <2>3. QED
        BY <1>12, <2>1, <2>2 DEF MPI_Request_free
<1>13. QED
    BY <1>1, <1>3, <1>4, <1>5, <1>6, <1>7, <1>8, <1>9, <1>10, <1>11, <1>12

-----------------------------------------------------------------------------
(* Every step keeps the table, and is a step of the abstract one.           *)

LEMMA Untouched == ASSUME TableOK, UNCHANGED hash  PROVE TableOK' /\ Entries' = Entries
<1>1. PICK p : Held(p)
    BY DEF TableOK
<1>2. table' = table /\ overflow' = overflow /\ ovf_free' = ovf_free
    BY DEF hash
<1>3. HashTyped'
    BY <1>2 DEF TableOK, HashTyped
<1>4. Starts' = Starts /\ Nexts' = Nexts /\ Used' = Used
    BY <1>2 DEF Starts, Nexts, Used
<1>5. HasPaths(p)'
    BY <1>1, <1>4 DEF HasPaths, Held
<1>6. Held(p)'
    BY <1>1, <1>2, <1>4, <1>5 DEF Held
<1>7. Entries' = Entries
    <2>1. Entries = Stored(p) /\ Entries' = Stored(p)'
        BY <1>1, <1>5, EntriesAre, EntriesAreAfter DEF Held
    <2>2. QED
        BY <1>2, <1>4, <2>1 DEF Stored, Taken
<1>8. QED
    BY <1>3, <1>6, <1>7 DEF TableOK

LEMMA RemovesTable == ASSUME TableOK, NEW k \in Key, hash_remove(k)  PROVE TableOK' /\ Gone(k)
<1>1. PICK p : Held(p)
    BY DEF TableOK
<1>2. Removes(k)
    BY <1>1, HashRemoves DEF TableOK
<1>3. QED
    BY <1>2 DEF Removes, TableOK

LEMMA AddsTable ==
    ASSUME IInv, NEW t \in Thread, AddsRequest(t)
    PROVE  /\ TableOK' /\ req[t] \in Data /\ req[t] \notin Entries
           /\ \/ Entries' = Entries \cup {req[t]} /\ refused' = refused
              \/ /\ Entries' = Entries /\ refused' = refused \cup {req[t]}
                 /\ Cardinality(Entries) > OverflowSize
<1>1. PICK p : Held(p)
    BY DEF IInv, TableOK
<1>2. PICK d \in Data : d = req[t]
    BY DEF IInv, ThreadsOK, ThreadVals, AddsRequest, At
<1>3. d \notin Entries
    BY <1>2 DEF IInv, Fresh, AddsRequest
<1>4. HashTyped /\ TableOK
    BY DEF IInv, TableOK
<1>5. CASE HashHasRoom(d.key)
    <2>1. hash_add(d) /\ refused' = refused
        BY <1>2, <1>5 DEF AddsRequest
    <2>2. AddsTo(d)
        BY <1>1, <1>3, <1>4, <1>5, <2>1, Adds
    <2>3. QED
        BY <1>2, <1>3, <2>1, <2>2 DEF AddsTo, TableOK
<1>6. CASE ~HashHasRoom(d.key)
    <2>1. refused' = refused \cup {d} /\ UNCHANGED hash
        BY <1>2, <1>6 DEF AddsRequest
    <2>2. TableOK' /\ Entries' = Entries
        BY <1>4, <2>1, Untouched
    <2>3. d.key \in Key
        BY DEF Data
    <2>4. Cardinality(Entries) > OverflowSize
        BY <1>1, <1>4, <1>6, <2>3, NoRoom
    <2>5. QED
        BY <1>2, <1>3, <2>1, <2>2, <2>4
<1>7. QED
    BY <1>5, <1>6

\* No thread begins to add a request.
NoneAdds == \A t \in Thread : At(t, "add")' => At(t, "add")
StepOK == TableOK' /\ Fresh' /\ [Requests!Next]_<<Entries, refused>>

LEMMA GoesElsewhere ==
    ASSUME ThreadsOK, NEW t \in Thread, NEW w, w # "add", pc' = [pc EXCEPT ![t] = w]
    PROVE  NoneAdds
BY DEF NoneAdds, At, ThreadsOK

LEMMA FreshLess ==
    ASSUME Fresh, NoneAdds, req' = req, Entries' \subseteq Entries
    PROVE  Fresh'
BY DEF Fresh, NoneAdds

LEMMA StepQuiet ==
    ASSUME IInv, UNCHANGED hash, refused' = refused, req' = req, NoneAdds
    PROVE  StepOK
<1>1. TableOK' /\ Entries' = Entries
    BY Untouched DEF IInv
<1>2. Fresh'
    BY <1>1, FreshLess DEF IInv
<1>3. QED
    BY <1>1, <1>2 DEF StepOK

LEMMA StepPost ==
    ASSUME IInv, NEW t \in Thread, NEW k, NEW r \in NewReceives, UNCHANGED hash, refused' = refused,
           req' = [req EXCEPT ![t] = [key |-> k, recv |-> r]], Goes(t, "add")
    PROVE  StepOK
<1>1. TableOK' /\ Entries' = Entries
    BY Untouched DEF IInv
<1>2. PICK d : d = [key |-> k, recv |-> r]
    OBVIOUS
<1>3. d \notin Entries /\ \A u \in Thread : d # req[u]
    <2>1. r \notin {e.recv : e \in Entries \cup posted} \cup {req[u].recv : u \in Thread}
        BY DEF NewReceives
    <2>2. d.recv = r
        BY <1>2
    <2>3. QED
        BY <2>1, <2>2
<1>4. /\ req'[t] = d /\ \A u \in Thread \ {t} : req'[u] = req[u]
      /\ \A u \in Thread \ {t} : At(u, "add")' => At(u, "add")
    BY <1>2 DEF IInv, ThreadsOK, Goes, At
<1>5. Fresh'
    <2> SUFFICES ASSUME NEW v \in Thread, At(v, "add")'
                 PROVE  /\ req'[v] \notin Entries'
                        /\ \A u \in Thread \ {v} : At(u, "add")' => req'[u] # req'[v]
        BY DEF Fresh
    <2>1. CASE v = t
        BY <1>1, <1>3, <1>4, <2>1
    <2>2. CASE v # t
        <3>1. At(v, "add") /\ req'[v] = req[v]
            BY <1>4, <2>2
        <3>2. req[v] \notin Entries /\ \A u \in Thread \ {v} : At(u, "add") => req[u] # req[v]
            BY <3>1 DEF IInv, Fresh
        <3>3. ASSUME NEW u \in Thread \ {v}, At(u, "add")'  PROVE req'[u] # req'[v]
            <4>1. CASE u = t
                BY <1>3, <1>4, <3>1, <4>1
            <4>2. CASE u # t
                BY <1>4, <3>1, <3>2, <3>3, <4>2
            <4>3. QED
                BY <4>1, <4>2
        <3>4. QED
            BY <1>1, <3>1, <3>2, <3>3
    <2>3. QED
        BY <2>1, <2>2
<1>6. QED
    BY <1>1, <1>5 DEF StepOK

LEMMA StepAdd == ASSUME IInv, NEW t \in Thread, AddsRequest(t)  PROVE StepOK
<1>1. PICK d \in Data : d = req[t]
    BY AddsTable
<1>2. /\ TableOK' /\ d \notin Entries
      /\ \/ Entries' = Entries \cup {d} /\ refused' = refused
         \/ /\ Entries' = Entries /\ refused' = refused \cup {d}
            /\ Cardinality(Entries) > OverflowSize
    BY <1>1, AddsTable
<1>3. /\ req' = [req EXCEPT ![t] = Nobody] /\ pc' = [pc EXCEPT ![t] = "app"]
      /\ At(t, "add")
    BY DEF AddsRequest, Goes
<1>4. /\ \A u \in Thread \ {t} : req'[u] = req[u] /\ (At(u, "add")' => At(u, "add"))
      /\ ~At(t, "add")'
    BY <1>3 DEF IInv, ThreadsOK, At
<1>5. Fresh'
    <2> SUFFICES ASSUME NEW v \in Thread, At(v, "add")'
                 PROVE  /\ req'[v] \notin Entries'
                        /\ \A u \in Thread \ {v} : At(u, "add")' => req'[u] # req'[v]
        BY DEF Fresh
    <2>1. v # t /\ At(v, "add") /\ req'[v] = req[v]
        BY <1>4
    <2>2. req[v] \notin Entries /\ \A u \in Thread \ {v} : At(u, "add") => req[u] # req[v]
        BY <2>1 DEF IInv, Fresh
    <2>3. req[v] # d
        BY <1>1, <1>3, <2>1, <2>2
    <2>4. req'[v] \notin Entries'
        BY <1>2, <2>1, <2>2, <2>3
    <2>5. QED
        BY <1>4, <2>1, <2>2, <2>4
<1>6. PICK k \in Key, r \in Receive : d = [key |-> k, recv |-> r]
    BY DEF Data
<1>7. Requests!Add(k, r) \/ Requests!Refuse(k, r)
    <2>1. CASE Entries' = Entries \cup {d} /\ refused' = refused
        BY <1>6, <2>1 DEF Requests!Add
    <2>2. CASE Entries' = Entries /\ refused' = refused \cup {d} /\ Cardinality(Entries) > OverflowSize
        <3>1. /\ Cardinality(Entries) > OverflowSize
              /\ refused' = refused \cup {[key |-> k, recv |-> r]} /\ UNCHANGED Entries
            BY <1>6, <2>2
        <3>2. QED
            BY <3>1 DEF Requests!Refuse, Requests!Cardinality, Cardinality
    <2>3. QED
        BY <1>2, <2>1, <2>2
<1>8. Requests!Next
    BY <1>7 DEF Requests!Next
<1>9. QED
    BY <1>2, <1>5, <1>8 DEF StepOK

\* A request is completed, cancelled or freed, and an entry of its key may go.
LEMMA StepRemove ==
    ASSUME IInv, NEW d \in Posted, refused' = refused \ {d}, req' = req, NoneAdds, TableOK',
           Entries' = Entries \/ \E e \in Entries : e.key = d.key /\ Entries' = Entries \ {e}
    PROVE  StepOK
<1>1. Fresh'
    BY FreshLess DEF IInv
<1>2. PICK k \in Key : k = d.key
    BY DEF Posted
<1>3. UNCHANGED Entries \/ \E e \in Entries : e.key = k /\ Entries' = Entries \ {e}
    BY <1>2
<1>4. UNCHANGED refused \/ \E e \in refused : e.key = k /\ refused' = refused \ {e}
    BY <1>2
<1>5. Requests!Remove(k)
    BY <1>3, <1>4 DEF Requests!Remove
<1>6. Requests!Next
    BY <1>5 DEF Requests!Next
<1>7. QED
    BY <1>1, <1>6 DEF StepOK

LEMMA StepIsOK == ASSUME IInv, Next  PROVE StepOK
<1>1. PICK t \in Thread :
         \/ MPI_Isend(t) \/ MPI_Irecv(t) \/ MPI_Recv_init(t) \/ MPI_Start(t) \/ AddsRequest(t)
         \/ Completes(t) \/ SearchBegins(t) \/ SearchesMain(t) \/ SearchesLink(t)
         \/ SearchesCell(t) \/ SearchesNext(t) \/ Missed(t) \/ Records(t)
         \/ RemovesRequest(t) \/ MPI_Cancel(t) \/ MPI_Request_free(t)
    BY DEF Next
<1>2. ThreadsOK /\ SetsOK /\ TableOK
    BY DEF IInv
<1>3. CASE MPI_Isend(t) \/ MPI_Recv_init(t)
    <2>1. UNCHANGED hash /\ refused' = refused /\ req' = req /\ pc' = pc
        BY <1>3 DEF MPI_Isend, MPI_Recv_init, history
    <2>2. NoneAdds
        BY <2>1 DEF NoneAdds, At
    <2>3. QED
        BY <2>1, <2>2, StepQuiet
<1>4. CASE Completes(t) \/ SearchBegins(t) \/ SearchesMain(t) \/ SearchesLink(t)
            \/ SearchesCell(t) \/ SearchesNext(t) \/ Records(t)
    <2>1. UNCHANGED hash /\ refused' = refused /\ req' = req
        BY <1>4 DEF Completes, SearchBegins, SearchesMain, SearchesLink, SearchesCell, SearchesNext,
                    Records, history
    <2>2. PICK w : w # "add" /\ pc' = [pc EXCEPT ![t] = w]
        BY <1>4 DEF Completes, SearchBegins, SearchesMain, SearchesLink, SearchesCell, SearchesNext,
                    Records, Goes, SearchOutcomes
    <2>3. NoneAdds
        BY <1>2, <2>2, GoesElsewhere
    <2>4. QED
        BY <2>1, <2>3, StepQuiet
<1>5. CASE MPI_Irecv(t) \/ MPI_Start(t)
    <2>1. PICK k \in Key, r \in NewReceives : req' = [req EXCEPT ![t] = [key |-> k, recv |-> r]]
        BY <1>2, <1>5 DEF MPI_Irecv, MPI_Start, NewRequests, Inactive, SetsOK
    <2>2. UNCHANGED hash /\ refused' = refused /\ Goes(t, "add")
        BY <1>5 DEF MPI_Irecv, MPI_Start, history
    <2>3. QED
        BY <2>1, <2>2, StepPost
<1>6. CASE AddsRequest(t)
    BY <1>6, StepAdd
<1>7. CASE Missed(t) \/ RemovesRequest(t)
    <2>1. pc[t] \in Searching
        BY <1>7 DEF Missed, RemovesRequest, At, Searching
    <2>2. PICK d \in Posted : d = Mine(t)
        BY <1>2, <2>1, MineTyped
    <2>3. refused' = refused \ {d} /\ req' = req
        BY <1>7, <2>2 DEF Missed, RemovesRequest, NextRequest
    <2>4. PICK w : w # "add" /\ pc' = [pc EXCEPT ![t] = w]
        BY <1>7 DEF Missed, RemovesRequest, NextRequest, Goes
    <2>5. NoneAdds
        BY <1>2, <2>4, GoesElsewhere
    <2>6. TableOK' /\ (Entries' = Entries \/ \E e \in Entries : e.key = d.key /\ Entries' = Entries \ {e})
        <3>1. CASE Missed(t)
            BY <1>2, <3>1, Untouched DEF Missed
        <3>2. CASE RemovesRequest(t)
            <4>1. hash_remove(d.key) /\ d.key \in Key
                BY <2>2, <3>2 DEF RemovesRequest, Posted
            <4>2. TableOK' /\ Gone(d.key)
                BY <1>2, <4>1, RemovesTable
            <4>3. QED
                BY <4>2 DEF Gone
        <3>3. QED
            BY <1>7, <3>1, <3>2
    <2>7. QED
        BY <2>3, <2>5, <2>6, StepRemove
<1>8. CASE MPI_Cancel(t)
    <2>1. PICK d \in posted : hash_remove(d.key) /\ refused' = refused \ {d}
        BY <1>8 DEF MPI_Cancel
    <2>2. d \in Posted /\ d.key \in Key
        BY <1>2 DEF SetsOK, Posted
    <2>3. TableOK' /\ (Entries' = Entries \/ \E e \in Entries : e.key = d.key /\ Entries' = Entries \ {e})
        BY <1>2, <2>1, <2>2, RemovesTable DEF Gone
    <2>4. req' = req /\ NoneAdds
        BY <1>8 DEF MPI_Cancel, NoneAdds, At
    <2>5. QED
        BY <2>1, <2>2, <2>3, <2>4, StepRemove
<1>9. CASE MPI_Request_free(t)
    <2>1. UNCHANGED hash /\ req' = req /\ NoneAdds
        BY <1>9 DEF MPI_Request_free, NoneAdds, At
    <2>2. TableOK' /\ Entries' = Entries
        BY <1>2, <2>1, Untouched
    <2>3. CASE refused' = refused
        BY <2>1, <2>3, StepQuiet
    <2>4. CASE \E d \in posted : refused' = refused \ {d}
        <3>1. PICK d \in posted : refused' = refused \ {d}
            BY <2>4
        <3>2. d \in Posted
            BY <1>2 DEF SetsOK
        <3>3. QED
            BY <2>1, <2>2, <3>1, <3>2, StepRemove
    <2>5. QED
        BY <1>9, <2>3, <2>4 DEF MPI_Request_free
<1>10. QED
    BY <1>1, <1>3, <1>4, <1>5, <1>6, <1>7, <1>8, <1>9

LEMMA Stuttered == ASSUME IInv, UNCHANGED vars  PROVE IInv' /\ UNCHANGED <<Entries, refused>>
<1>1. TableOK' /\ Entries' = Entries
    BY Untouched DEF IInv, vars, hash
<1>2. Fresh'
    BY <1>1 DEF IInv, Fresh, vars, At
<1>3. ThreadsOK'
    BY ThreadsIdle DEF IInv, vars
<1>4. SetsOK'
    BY DEF IInv, SetsOK, vars
<1>5. QED
    BY <1>1, <1>2, <1>3, <1>4 DEF IInv, vars

LEMMA Inductive == IInv /\ [Next]_vars => IInv' /\ [Requests!Next]_<<Entries, refused>>
<1>1. ASSUME IInv, Next  PROVE IInv' /\ [Requests!Next]_<<Entries, refused>>
    BY <1>1, ThreadsKept, SetsKept, StepIsOK DEF StepOK, IInv
<1>2. ASSUME IInv, UNCHANGED vars  PROVE IInv' /\ [Requests!Next]_<<Entries, refused>>
    BY <1>2, Stuttered
<1>3. QED
    BY <1>1, <1>2

-----------------------------------------------------------------------------
(* The initial state: all overflow cells are in the free list.              *)

InitialPaths == [l \in Lists |-> IF l = HASH_FREE THEN [j \in 1..OverflowSize |-> j - 1] ELSE <<>>]

LEMMA InitialPathsAre ==
    /\ InitialPaths \in [Lists -> Seq(Cell)]
    /\ Len(InitialPaths[HASH_FREE]) = OverflowSize
    /\ \A j \in 1..OverflowSize : InitialPaths[HASH_FREE][j] = j - 1
    /\ \A l \in Main : InitialPaths[l] = <<>> /\ Len(InitialPaths[l]) = 0
<1>1. PICK n \in Nat \ {0} : n = OverflowSize
    BY RequestHashAssumption
<1>2. PICK f : f = [j \in 1..n |-> j - 1]
    OBVIOUS
<1>3. f \in [1..n -> Cell]
    BY <1>1, <1>2 DEF Cell
<1>4. f \in Seq(Cell) /\ Len(f) = n
    BY <1>3, FunctionIsSeq
<1>5. InitialPaths = [l \in Lists |-> IF l = HASH_FREE THEN f ELSE <<>>]
    BY <1>1, <1>2 DEF InitialPaths
<1>6. <<>> \in Seq(Cell) /\ Len(<<>>) = 0
    BY EmptySeq
<1>7. QED
    BY <1>1, <1>2, <1>4, <1>5, <1>6, ListsAre

LEMMA InitPaths == Init => HasPaths(InitialPaths)
<1> SUFFICES ASSUME Init  PROVE HasPaths(InitialPaths)
    OBVIOUS
<1>1. PICK p : p = InitialPaths
    OBVIOUS
<1>2. /\ p \in [Lists -> Seq(Cell)] /\ Len(p[HASH_FREE]) = OverflowSize
      /\ \A j \in 1..OverflowSize : p[HASH_FREE][j] = j - 1
      /\ \A l \in Main : p[l] = <<>> /\ Len(p[l]) = 0
    BY <1>1, InitialPathsAre
<1>3. OverflowSize \in Nat \ {0}
    BY RequestHashAssumption
<1>4. ASSUME NEW l \in Lists  PROVE Leads(p[l], Starts[l], Nexts)
    <2>1. CASE l = HASH_FREE
        <3>1. Starts[l] = 0
            BY <2>1 DEF Starts, Init
        <3>2. Place(p[l], 1) = 0
            BY <1>2, <1>3, <2>1 DEF Place
        <3>3. ASSUME NEW j \in 1..OverflowSize  PROVE Nexts[p[l][j]] = Place(p[l], j + 1)
            <4>1. p[l][j] = j - 1 /\ j - 1 \in Cell
                BY <1>2, <1>3, <2>1 DEF Cell
            <4>2. Nexts[j - 1] = NextFree(j - 1)
                BY <4>1 DEF Nexts, Init, Cell
            <4>3. CASE j = OverflowSize
                <5>1. NextFree(j - 1) = HASH_NULL
                    BY <1>3, <4>3 DEF NextFree
                <5>2. Place(p[l], j + 1) = HASH_NULL
                    BY <1>2, <1>3, <2>1, <4>3 DEF Place
                <5>3. QED
                    BY <4>1, <4>2, <5>1, <5>2
            <4>4. CASE j # OverflowSize
                <5>1. NextFree(j - 1) = j
                    BY <1>3, <4>4 DEF NextFree
                <5>2. j + 1 \in 1..OverflowSize
                    BY <1>3, <4>4
                <5>3. Place(p[l], j + 1) = j
                    BY <1>2, <1>3, <2>1, <5>2 DEF Place
                <5>4. QED
                    BY <4>1, <4>2, <5>1, <5>3
            <4>5. QED
                BY <4>3, <4>4
        <3>4. QED
            BY <1>2, <2>1, <3>1, <3>2, <3>3 DEF Leads
    <2>2. CASE l # HASH_FREE
        <3>1. l \in Main
            BY <2>2 DEF Lists
        <3>2. Starts[l] = HASH_NULL
            BY <2>2, <3>1 DEF Starts, Init, Main
        <3>3. Len(p[l]) = 0
            BY <1>2, <3>1
        <3>4. QED
            BY <3>2, <3>3 DEF Leads, Place
    <2>3. QED
        BY <2>1, <2>2
<1>5. Apart(p)
    <2> SUFFICES ASSUME NEW l \in Lists, NEW m \in Lists, NEW j \in 1..Len(p[l]), NEW k \in 1..Len(p[m]),
                        p[l][j] = p[m][k]
                 PROVE  l = m /\ j = k
        BY DEF Apart
    <2>1. l = HASH_FREE /\ m = HASH_FREE
        BY <1>2 DEF Lists
    <2>2. j \in 1..OverflowSize /\ k \in 1..OverflowSize
        BY <1>2, <2>1
    <2>3. QED
        BY <1>2, <2>1, <2>2
<1>6. Covered(p)
    <2> SUFFICES ASSUME NEW i \in Cell
                 PROVE  \E l \in Lists : \E j \in 1..Len(p[l]) : p[l][j] = i
        BY DEF Covered
    <2>1. i + 1 \in 1..OverflowSize /\ (i + 1) - 1 = i
        BY <1>3 DEF Cell
    <2>2. QED
        BY <1>2, <2>1, ListsAre
<1>7. Paths(p, Starts, Nexts)
    BY <1>2, <1>4, <1>5, <1>6 DEF Paths
<1>8. QED
    BY <1>1, <1>7 DEF HasPaths

LEMMA Initially == Init => IInv /\ Entries = {}
<1> SUFFICES ASSUME Init  PROVE IInv /\ Entries = {}
    OBVIOUS
<1>1. PICK p : p = InitialPaths
    OBVIOUS
<1>2. HasPaths(p)
    BY <1>1, InitPaths
<1>3. Used = {}
    BY DEF Init, Used
<1>4. \A c \in Main : \A i : ~On(p[c], i)
    BY <1>1, InitialPathsAre DEF On
<1>5. Held(p)
    BY <1>2, <1>3, <1>4 DEF Held
<1>6. Entries = {}
    <2>1. Taken(p) = {}
        BY <1>4 DEF Taken
    <2>2. QED
        BY <1>2, <1>3, <2>1, EntriesAre DEF Stored
<1>7. HashTyped
    <2>1. OverflowSize \in Nat \ {0}
        BY RequestHashAssumption
    <2>2. 0 \in Link /\ \A i \in Cell : NextFree(i) \in Link
        BY <2>1 DEF Link, Cell, NextFree
    <2>3. QED
        BY <2>2 DEF Init, HashTyped, Main, Cell
<1>8. ThreadsOK
    <2>1. ASSUME NEW t \in Thread  PROVE ThreadVals(pc[t], req[t], save_reqs[t], cell[t])
        <3>1. pc[t] = "app" /\ req[t] = Nobody /\ save_reqs[t] = <<>> /\ cell[t] = HASH_NULL
            BY DEF Init
        <3>2. <<>> \in Seq(Posted)
            BY EmptySeq
        <3>3. QED
            BY <3>1, <3>2 DEF ThreadVals, Searching, Link
    <2>2. QED
        BY <2>1 DEF ThreadsOK, Init
<1>9. SetsOK
    BY RequestHashAssumption DEF SetsOK, Init
<1>10. Fresh
    BY DEF Fresh, At, Init
<1>11. QED
    BY <1>5, <1>6, <1>7, <1>8, <1>9, <1>10 DEF IInv, TableOK

-----------------------------------------------------------------------------
(* The invariant says what the runs check.                                  *)

LEMMA AccountedFromInv == IInv => CellsAccounted
<1> SUFFICES ASSUME IInv  PROVE CellsAccounted
    OBVIOUS
<1>1. PICK p : Held(p)
    BY DEF IInv, TableOK
<1>2. PICK lists : lists = {<<c, table[c].link>> : c \in Used} \cup {<<HASH_FREE, ovf_free>>}
    OBVIOUS
<1>3. ASSUME NEW l \in lists  PROVE l[1] \in Lists /\ l[2] = Starts[l[1]] /\ l = <<l[1], Starts[l[1]]>>
    BY <1>2, UsedIs, ListsAre DEF Starts
<1>4. ASSUME NEW l \in lists
      PROVE  Chain(l[2]) = p[l[1]] /\ p[l[1]] \in Seq(Cell)
    BY <1>1, <1>3, ChainIsPath, PathsSeq DEF Held, HasPaths
<1>5. ASSUME NEW k \in Lists, NEW i, On(p[k], i)  PROVE <<k, Starts[k]>> \in lists
    <2>1. CASE k = HASH_FREE
        BY <1>2, <2>1 DEF Starts
    <2>2. CASE k # HASH_FREE
        <3>1. k \in Main
            BY <2>2 DEF Lists
        <3>2. Starts[k] # HASH_NULL
            BY <1>1, <1>5, PathBegins DEF Held, HasPaths
        <3>3. k \in Used /\ Starts[k] = table[k].link
            BY <2>2, <3>1, <3>2, UsedIs DEF Starts
        <3>4. QED
            BY <1>2, <3>3
    <2>3. QED
        BY <2>1, <2>2
<1>6. ASSUME NEW i \in Cell  PROVE Cardinality({l \in lists : i \in Range(Chain(l[2]))}) = 1
    <2>1. PICK k \in Lists : On(p[k], i) /\ \A m \in Lists : On(p[m], i) => m = k
        BY <1>1, OneList DEF Held, HasPaths
    <2>2. ASSUME NEW l \in lists  PROVE i \in Range(Chain(l[2])) <=> l = <<k, Starts[k]>>
        <3>1. i \in Range(Chain(l[2])) <=> On(p[l[1]], i)
            BY <1>4, RangeOn
        <3>2. On(p[l[1]], i) => l = <<k, Starts[k]>>
            BY <1>3, <2>1
        <3>3. l = <<k, Starts[k]>> => On(p[l[1]], i)
            BY <2>1
        <3>4. QED
            BY <3>1, <3>2, <3>3
    <2>3. <<k, Starts[k]>> \in lists
        BY <1>5, <2>1
    <2>4. {l \in lists : i \in Range(Chain(l[2]))} = {<<k, Starts[k]>>}
        BY <2>2, <2>3
    <2>5. QED
        BY <2>4, FS_Singleton
<1>7. ASSUME NEW l \in lists  PROVE IsInjective(Chain(l[2]))
    <2>1. PICK q \in Seq(Cell) : q = p[l[1]]
        BY <1>4
    <2>2. l[1] \in Lists /\ Apart(p)
        BY <1>1, <1>3 DEF Held, HasPaths, Paths
    <2>3. \A a \in 1..Len(q) : \A b \in 1..Len(q) : q[a] = q[b] => a = b
        BY <2>1, <2>2 DEF Apart
    <2>4. DOMAIN q = 1..Len(q)
        BY LenProperties
    <2>5. IsInjective(q)
        BY <2>3, <2>4 DEF IsInjective
    <2>6. QED
        BY <1>4, <2>1, <2>5
<1>8. ASSUME NEW c \in Used
      PROVE  /\ HASH_FUNCTION(table[c].data.key) = c
             /\ \A i \in Range(Chain(table[c].link)) : HASH_FUNCTION(overflow[i].data.key) = c
    <2>1. c \in Main /\ c \in Lists /\ Starts[c] = table[c].link
        BY UsedIs, ListsAre DEF Starts
    <2>2. Chain(table[c].link) = p[c] /\ p[c] \in Seq(Cell)
        BY <1>1, <2>1, ChainIsPath, PathsSeq DEF Held, HasPaths
    <2>3. ASSUME NEW i \in Range(Chain(table[c].link))  PROVE i \in Cell /\ On(p[c], i)
        <3>1. On(p[c], i)
            BY <2>2, RangeOn
        <3>2. QED
            BY <1>1, <2>1, <3>1, PathsCells DEF On, Held, HasPaths
    <2>4. QED
        BY <1>1, <2>1, <2>3 DEF Held
<1>9. QED
    BY <1>2, <1>6, <1>7, <1>8 DEF CellsAccounted

(* Every variable keeps its type, in every reachable state.                 *)
THEOREM TypeCorrect == Spec => []TypeOK
<1>1. Init => IInv
    BY Initially
<1>2. IInv /\ [Next]_vars => IInv'
    BY Inductive
<1>3. QED
    BY <1>1, <1>2, TypeFromInv, PTL DEF Spec

(* hash_add and hash_remove neither lose an overflow cell nor link it       *)
(* twice, and an entry is always where hash_search looks for its key.       *)
THEOREM CellsAlwaysAccounted == Spec => []CellsAccounted
<1>1. Init => IInv
    BY Initially
<1>2. IInv /\ [Next]_vars => IInv'
    BY Inductive
<1>3. QED
    BY <1>1, <1>2, AccountedFromInv, PTL DEF Spec

(* The table of chains and of a fixed overflow area is, to its users, the   *)
(* set of entries of RequestMap: every step of the wrappers adds an entry,  *)
(* is refused for lack of space, takes one away, or changes none.           *)
THEOREM Refines == Spec => ImplementsRequestMap
<1>1. Init => IInv /\ Requests!Init
    BY Initially DEF Requests!Init, Init
<1>2. IInv /\ [Next]_vars => IInv' /\ [Requests!Next]_<<Entries, refused>>
    BY Inductive
<1>3. QED
    BY <1>1, <1>2, PTL DEF Spec, ImplementsRequestMap, Requests!Spec

-----------------------------------------------------------------------------
(* Below MPI_THREAD_MULTIPLE: the requests that are active or being         *)
(* completed, and what the table holds of them.                             *)

Waiting == UNION {Range(save_reqs[t]) : t \in Thread}
Outstanding == posted \cup Waiting
Pending == {p \in Outstanding : p \in Data /\ p \notin refused}

OneBusy == \A t \in Thread : \A u \in Thread \ {t} : At(t, "app") \/ At(u, "app")
KeysOnce == \A p \in Outstanding : \A q \in Outstanding : p.key = q.key => p = q
AddKeys == \A t \in Thread : At(t, "add") => \A p \in Outstanding : p.key # req[t].key
OnceEach ==
    \A t \in Thread : \A i \in 1..Len(save_reqs[t]) :
        /\ save_reqs[t][i] \notin posted
        /\ \A j \in 1..Len(save_reqs[t]) : save_reqs[t][i] = save_reqs[t][j] => i = j

\* Unless the program frees active requests, the table holds the receives that are pending.
Books ==
    /\ KeysOnce /\ AddKeys /\ OnceEach /\ refused \subseteq Outstanding
    /\ freed = 0 => Entries = Pending

\* The cells before place j of its path are not the thread's.
PassedBy(p, t, j) ==
    \A i \in 1..Len(p[MyCell(t)]) : i < j => overflow[p[MyCell(t)][i]].data.key # Mine(t).key

SearchOK(p, t) ==
    /\ pc[t] \in {"search_main", "search_link", "search_cell", "search_next"} => MyCell(t) \in Used
    /\ pc[t] \in {"search_link", "search_cell", "search_next"} =>
          table[MyCell(t)].data.key # Mine(t).key
    /\ pc[t] = "search_cell" =>
          \E j \in 1..(Len(p[MyCell(t)]) + 1) : cell[t] = Place(p[MyCell(t)], j) /\ PassedBy(p, t, j)
    /\ pc[t] = "search_next" =>
          \E j \in 1..Len(p[MyCell(t)]) : cell[t] = p[MyCell(t)][j] /\ PassedBy(p, t, j + 1)
    /\ pc[t] = "missed" => Mine(t) \notin Entries
    /\ pc[t] = "found" =>
          (IF cell[t] = MAIN THEN table[MyCell(t)].data ELSE overflow[cell[t]].data) = Mine(t)
    /\ pc[t] # "crashed"

SearchesOK == \E p : Held(p) /\ \A t \in Thread : SearchOK(p, t)

Orderly == OneBusy /\ Books /\ (freed = 0 => mishaps = {} /\ SearchesOK)
RInv == IInv /\ (Level = "serialized" => Orderly)

Alone(t) == \A u \in Thread \ {t} : pc[u] = "app" /\ save_reqs[u] = <<>>

LEMMA AloneIs ==
    ASSUME ThreadsOK, NEW t \in Thread,
           \/ \A u \in Thread : At(u, "app")
           \/ OneBusy /\ ~At(t, "app")
    PROVE  Alone(t)
BY DEF ThreadsOK, ThreadVals, OneBusy, Alone, At, Searching

LEMMA EmptyRange == Range(<<>>) = {}
<1>1. PICK q \in Seq({}) : q = <<>>
    BY EmptySeq
<1>2. Len(q) = 0 /\ DOMAIN q = 1..Len(q)
    BY <1>1
<1>3. Range(q) = {}
    BY <1>2 DEF Range
<1>4. QED
    BY <1>1, <1>3

LEMMA WaitingIs ==
    ASSUME NEW t \in Thread, Alone(t)
    PROVE  Waiting = Range(save_reqs[t])
<1>1. ASSUME NEW u \in Thread \ {t}, NEW i  PROVE i \notin Range(save_reqs[u])
    <2>1. save_reqs[u] = <<>>
        BY DEF Alone
    <2>2. QED
        BY <2>1, EmptyRange
<1>2. QED
    BY <1>1 DEF Waiting

WaitsFor(s) == Waiting = Range(s)
AloneWith(t, s) == Alone(t) /\ save_reqs[t] = s

LEMMA WaitingAfter ==
    ASSUME NEW t \in Thread, NEW s
    PROVE  AloneWith(t, s)' => WaitsFor(s)'
<1>1. AloneWith(t, s) => WaitsFor(s)
    BY WaitingIs DEF AloneWith, WaitsFor
<1>2. QED
    BY <1>1, PTL

\* One thread moves, and the others stay in the program.
Leaves(t, w, s) ==
    /\ OneBusy' /\ Waiting' = Range(s)
    /\ pc'[t] = w /\ save_reqs'[t] = s
    /\ \A u \in Thread \ {t} : pc'[u] = "app" /\ save_reqs'[u] = <<>>

LEMMA AloneAfter ==
    ASSUME ThreadsOK, NEW t \in Thread, Alone(t), NEW w, NEW s,
           pc' = [pc EXCEPT ![t] = w], save_reqs' = [save_reqs EXCEPT ![t] = s]
    PROVE  Leaves(t, w, s)
<1>1. /\ pc'[t] = w /\ save_reqs'[t] = s
      /\ \A u \in Thread \ {t} : pc'[u] = "app" /\ save_reqs'[u] = <<>>
    BY DEF ThreadsOK, Alone
<1>2. OneBusy'
    BY <1>1 DEF OneBusy, At
<1>3. AloneWith(t, s)'
    BY <1>1 DEF AloneWith, Alone
<1>4. WaitsFor(s)'
    BY <1>3, WaitingAfter
<1>5. QED
    BY <1>1, <1>2, <1>4 DEF WaitsFor, Leaves

LEMMA SearchTrivial ==
    ASSUME TableOK', \A t \in Thread : pc'[t] \in {"app", "add", "search", "remove"}
    PROVE  SearchesOK'
<1>1. PICK p : Held(p)'
    BY DEF TableOK
<1>2. \A t \in Thread : SearchOK(p, t)'
    BY DEF SearchOK
<1>3. QED
    BY <1>1, <1>2 DEF SearchesOK

-----------------------------------------------------------------------------
(* The books after a step. s is what the thread still has to look up.       *)

LEMMA OnceEachEmpty ==
    ASSUME \A t \in Thread : save_reqs'[t] = <<>>
    PROVE  OnceEach'
BY EmptySeq DEF OnceEach

\* An active request is posted, or cancelled for another one with no receive.
LEMMA BooksPost ==
    ASSUME Books, Waiting = {}, Waiting' = {}, NEW d, posted' = posted \cup {d},
           \A p \in posted : p.key # d.key,
           \A t \in Thread : ~At(t, "add")', \A t \in Thread : save_reqs'[t] = <<>>,
           \/ d \notin Data /\ refused' = refused /\ Entries' = Entries
           \/ d \in Data /\ refused' = refused /\ Entries' = Entries \cup {d}
           \/ d \in Data /\ refused' = refused \cup {d} /\ Entries' = Entries,
           freed' = freed
    PROVE  Books'
<1>1. Outstanding = posted /\ Outstanding' = posted \cup {d} /\ d \notin posted
    BY DEF Outstanding
<1>2. KeysOnce'
    BY <1>1 DEF Books, KeysOnce
<1>3. AddKeys' /\ OnceEach'
    BY OnceEachEmpty DEF AddKeys
<1>4. refused' \subseteq Outstanding'
    BY <1>1 DEF Books
<1>5. d \notin refused
    BY <1>1 DEF Books
<1>6. Pending' = {p \in posted \cup {d} : p \in Data /\ p \notin refused'}
    BY <1>1 DEF Pending
<1>7. freed = 0 => Entries = {p \in posted : p \in Data /\ p \notin refused}
    BY <1>1 DEF Books, Pending
<1>8. freed' = 0 => Entries' = Pending'
    <2>1. CASE d \notin Data /\ refused' = refused /\ Entries' = Entries
        BY <1>6, <1>7, <2>1
    <2>2. CASE d \in Data /\ refused' = refused /\ Entries' = Entries \cup {d}
        BY <1>5, <1>6, <1>7, <2>2
    <2>3. CASE d \in Data /\ refused' = refused \cup {d} /\ Entries' = Entries
        BY <1>1, <1>6, <1>7, <2>3
    <2>4. QED
        BY <2>1, <2>2, <2>3
<1>9. QED
    BY <1>2, <1>3, <1>4, <1>8 DEF Books

\* What is outstanding, refused and in the table stays; a thread may have begun to add.
LEMMA BooksSame ==
    ASSUME Books, Outstanding' = Outstanding, OnceEach', AddKeys', refused' = refused,
           Entries' = Entries, freed' = freed
    PROVE  Books'
<1>1. KeysOnce'
    BY DEF Books, KeysOnce
<1>2. Pending' = Pending
    BY DEF Pending
<1>3. QED
    BY <1>1, <1>2 DEF Books

\* A request goes. If it was a receive its entry goes, or it is forgotten, or it was freed.
LEMMA BooksLess ==
    ASSUME Books, NEW d \in Outstanding, Outstanding' = Outstanding \ {d}, OnceEach',
           \A t \in Thread : ~At(t, "add")', refused' = refused \ {d},
           freed' = 0 => freed = 0 /\ (Gone(d.key) \/ (Entries' = Entries /\ d \notin Entries))
    PROVE  Books'
<1>1. KeysOnce'
    BY DEF Books, KeysOnce
<1>2. AddKeys' /\ refused' \subseteq Outstanding'
    BY DEF Books, AddKeys
<1>3. ASSUME freed' = 0  PROVE Entries' = Pending'
    <2>1. Entries = {p \in Outstanding : p \in Data /\ p \notin refused}
        BY <1>3 DEF Books, Pending
    <2>2. Pending' = {p \in Outstanding : p # d /\ p \in Data /\ p \notin refused}
        BY DEF Pending
    <2>3. Pending' = Entries \ {d}
        BY <2>1, <2>2
    <2>4. Entries' = Entries \ {d}
        <3>1. CASE Entries' = Entries /\ d \notin Entries
            BY <3>1
        <3>2. CASE Gone(d.key)
            <4>1. \A e \in Entries : e.key = d.key => e = d
                BY <2>1 DEF Books, KeysOnce
            <4>2. QED
                BY <3>2, <4>1 DEF Gone
        <3>3. QED
            BY <1>3, <3>1, <3>2
    <2>5. QED
        BY <2>3, <2>4
<1>4. QED
    BY <1>1, <1>2, <1>3 DEF Books

\* A request is cancelled: one of its key that has no receive takes its place.
LEMMA BooksCancel ==
    ASSUME Books, Waiting = {}, Waiting' = {}, NEW p \in posted, NEW q, q.key = p.key, q \notin Data,
           posted' = (posted \ {p}) \cup {q}, refused \subseteq Data, refused' = refused \ {p},
           \A t \in Thread : ~At(t, "add")', \A t \in Thread : save_reqs'[t] = <<>>,
           Gone(p.key), freed' = freed
    PROVE  Books'
<1>1. Outstanding = posted /\ Outstanding' = (posted \ {p}) \cup {q}
    BY DEF Outstanding
<1>2. KeysOnce'
    BY <1>1 DEF Books, KeysOnce
<1>3. AddKeys' /\ OnceEach'
    BY OnceEachEmpty DEF AddKeys
<1>4. refused' \subseteq Outstanding'
    BY <1>1 DEF Books
<1>5. ASSUME freed' = 0  PROVE Entries' = Pending'
    <2>1. Entries = {e \in posted : e \in Data /\ e \notin refused}
        BY <1>1, <1>5 DEF Books, Pending
    <2>2. Pending' = {e \in (posted \ {p}) \cup {q} : e \in Data /\ e \notin refused'}
        BY <1>1 DEF Pending
    <2>3. Pending' = {e \in posted : e # p /\ e \in Data /\ e \notin refused}
        BY <2>2
    <2>4. Pending' = Entries \ {p}
        BY <2>1, <2>3
    <2>5. \A e \in Entries : e.key = p.key => e = p
        BY <1>1, <2>1 DEF Books, KeysOnce
    <2>6. Entries' = Entries \ {p}
        BY <2>1, <2>5 DEF Gone
    <2>7. QED
        BY <2>4, <2>6
<1>6. QED
    BY <1>2, <1>3, <1>4, <1>5 DEF Books

-----------------------------------------------------------------------------
(* What may happen while no call is under way.                              *)

Idle == \A t \in Thread : pc[t] = "app" /\ save_reqs[t] = <<>>

LEMMA IdleIs ==
    ASSUME ThreadsOK, NEW t \in Thread, MayCall(t), Level = "serialized"
    PROVE  Idle /\ Alone(t) /\ At(t, "app")
<1>1. \A u \in Thread : pc[u] = "app"
    BY DEF MayCall, At
<1>2. \A u \in Thread : save_reqs[u] = <<>>
    BY <1>1 DEF ThreadsOK, ThreadVals, Searching
<1>3. QED
    BY <1>1, <1>2 DEF Idle, Alone, At

LEMMA IdleWaits == ASSUME Idle  PROVE Waiting = {}
BY EmptyRange DEF Idle, Waiting

\* No thread leaves the program.
LEMMA IdleStays ==
    ASSUME Idle, TableOK', pc' = pc, save_reqs' = save_reqs
    PROVE  /\ Waiting = {} /\ Waiting' = {} /\ OneBusy' /\ SearchesOK'
           /\ \A u \in Thread : ~At(u, "add")'
           /\ \A u \in Thread : save_reqs'[u] = <<>>
<1>1. Waiting = {} /\ Waiting' = Waiting
    BY IdleWaits DEF Waiting
<1>2. \A u \in Thread : pc'[u] = "app" /\ save_reqs'[u] = <<>>
    BY DEF Idle
<1>3. OneBusy'
    BY <1>2 DEF OneBusy, At
<1>4. SearchesOK'
    BY <1>2, SearchTrivial
<1>5. QED
    BY <1>1, <1>2, <1>3, <1>4 DEF At

\* The keys of new requests are of no other request.
LEMMA NewKey ==
    ASSUME NEW k \in NewRequests \cup Inactive
    PROVE  \A p \in posted : p.key # k
BY DEF NewRequests, Inactive

LEMMA OrderlyIsend ==
    ASSUME IInv, Orderly, Level = "serialized", TableOK', NEW t \in Thread, MPI_Isend(t)
    PROVE  Orderly'
<1>1. PICK k \in NewRequests : posted' = posted \cup {[key |-> k, recv |-> none]}
    BY DEF MPI_Isend
<1>2. PICK d : d = [key |-> k, recv |-> none]
    OBVIOUS
<1>3. d.key = k /\ d \notin Data
    BY <1>2, RequestHashAssumption DEF Data
<1>4. Idle
    BY IdleIs DEF IInv, MPI_Isend
<1>5. pc' = pc /\ save_reqs' = save_reqs /\ refused' = refused /\ freed' = freed /\ mishaps' = mishaps
    BY DEF MPI_Isend, history
<1>6. Entries' = Entries
    BY Untouched DEF IInv, MPI_Isend
<1>7. /\ Waiting = {} /\ Waiting' = {} /\ OneBusy' /\ SearchesOK'
      /\ \A u \in Thread : ~At(u, "add")'
      /\ \A u \in Thread : save_reqs'[u] = <<>>
    BY <1>4, <1>5, IdleStays
<1>8. posted' = posted \cup {d} /\ \A p \in posted : p.key # d.key
    BY <1>1, <1>2, <1>3, NewKey
<1>9. Books'
    BY <1>3, <1>5, <1>6, <1>7, <1>8, BooksPost DEF Orderly
<1>10. QED
    BY <1>5, <1>7, <1>9 DEF Orderly

LEMMA OrderlyRecvInit ==
    ASSUME IInv, Orderly, Level = "serialized", TableOK', NEW t \in Thread, MPI_Recv_init(t)
    PROVE  Orderly'
<1>1. Idle
    BY IdleIs DEF IInv, MPI_Recv_init
<1>2. /\ pc' = pc /\ save_reqs' = save_reqs /\ posted' = posted
      /\ refused' = refused /\ freed' = freed /\ mishaps' = mishaps
    BY DEF MPI_Recv_init, history
<1>3. Entries' = Entries
    BY Untouched DEF IInv, MPI_Recv_init
<1>4. /\ Waiting = {} /\ Waiting' = {} /\ OneBusy' /\ SearchesOK'
      /\ \A u \in Thread : ~At(u, "add")'
      /\ \A u \in Thread : save_reqs'[u] = <<>>
    BY <1>1, <1>2, IdleStays
<1>5. Outstanding' = Outstanding /\ OnceEach' /\ AddKeys'
    BY <1>2, <1>4, OnceEachEmpty DEF Outstanding, AddKeys
<1>6. Books'
    BY <1>2, <1>3, <1>5, BooksSame DEF Orderly
<1>7. QED
    BY <1>2, <1>4, <1>6 DEF Orderly

\* A receive is posted or started, and is to be added.
LEMMA OrderlyPost ==
    ASSUME IInv, Orderly, Level = "serialized", TableOK', NEW t \in Thread,
           MPI_Irecv(t) \/ MPI_Start(t)
    PROVE  Orderly'
<1>1. PICK k \in NewRequests \cup Inactive :
          \E r \in NewReceives : req' = [req EXCEPT ![t] = [key |-> k, recv |-> r]]
    BY DEF MPI_Irecv, MPI_Start
<1>2. Idle /\ Alone(t)
    BY IdleIs DEF IInv, MPI_Irecv, MPI_Start
<1>3. /\ pc' = [pc EXCEPT ![t] = "add"] /\ save_reqs' = save_reqs /\ posted' = posted
      /\ refused' = refused /\ freed' = freed /\ mishaps' = mishaps
    BY DEF MPI_Irecv, MPI_Start, Goes, history
<1>4. Entries' = Entries
    BY Untouched DEF IInv, MPI_Irecv, MPI_Start
<1>5. Waiting = {} /\ Waiting' = Waiting
    BY <1>2, <1>3, IdleWaits DEF Waiting
<1>6. pc'[t] = "add" /\ \A u \in Thread \ {t} : pc'[u] = "app"
    BY <1>2, <1>3 DEF Idle, IInv, ThreadsOK
<1>7. OneBusy'
    BY <1>6 DEF OneBusy, At
<1>8. SearchesOK'
    BY <1>6, SearchTrivial
<1>9. Outstanding = posted /\ Outstanding' = posted
    BY <1>3, <1>5 DEF Outstanding
<1>10. req'[t].key = k
    BY <1>1 DEF IInv, ThreadsOK
<1>11. AddKeys'
    BY <1>6, <1>9, <1>10, NewKey DEF AddKeys, At
<1>12. OnceEach'
    BY <1>2, <1>3, OnceEachEmpty DEF Idle
<1>13. Books'
    BY <1>3, <1>4, <1>9, <1>11, <1>12, BooksSame DEF Orderly
<1>14. QED
    BY <1>3, <1>7, <1>8, <1>13 DEF Orderly

LEMMA OrderlyCancel ==
    ASSUME IInv, Orderly, Level = "serialized", TableOK', NEW t \in Thread, MPI_Cancel(t)
    PROVE  Orderly'
<1>1. PICK p \in posted : /\ hash_remove(p.key) /\ refused' = refused \ {p}
                          /\ posted' = (posted \ {p}) \cup {[p EXCEPT !.recv = none]}
    BY DEF MPI_Cancel
<1>2. PICK q : q = [p EXCEPT !.recv = none]
    OBVIOUS
<1>3. p \in Posted /\ p.key \in Key
    BY DEF IInv, SetsOK, Posted
<1>4. q.key = p.key /\ q \notin Data
    BY <1>2, <1>3, RequestHashAssumption DEF Posted, Data
<1>5. Idle
    BY IdleIs DEF IInv, MPI_Cancel
<1>6. pc' = pc /\ save_reqs' = save_reqs /\ freed' = freed /\ mishaps' = mishaps
    BY DEF MPI_Cancel
<1>7. Gone(p.key)
    BY <1>1, <1>3, RemovesTable DEF IInv
<1>8. /\ Waiting = {} /\ Waiting' = {} /\ OneBusy' /\ SearchesOK'
      /\ \A u \in Thread : ~At(u, "add")'
      /\ \A u \in Thread : save_reqs'[u] = <<>>
    BY <1>5, <1>6, IdleStays
<1>9. refused \subseteq Data /\ Books
    BY DEF IInv, SetsOK, Orderly
<1>10. posted' = (posted \ {p}) \cup {q} /\ refused' = refused \ {p}
    BY <1>1, <1>2
<1>11. Books'
    BY <1>4, <1>6, <1>7, <1>8, <1>9, <1>10, BooksCancel
<1>12. QED
    BY <1>6, <1>8, <1>11 DEF Orderly

LEMMA OrderlyFree ==
    ASSUME IInv, Orderly, Level = "serialized", TableOK', NEW t \in Thread, MPI_Request_free(t)
    PROVE  Orderly'
<1>1. Idle
    BY IdleIs DEF IInv, MPI_Request_free
<1>2. pc' = pc /\ save_reqs' = save_reqs /\ mishaps' = mishaps
    BY DEF MPI_Request_free
<1>3. Entries' = Entries
    BY Untouched DEF IInv, MPI_Request_free
<1>4. /\ Waiting = {} /\ Waiting' = {} /\ OneBusy' /\ SearchesOK'
      /\ \A u \in Thread : ~At(u, "add")'
      /\ \A u \in Thread : save_reqs'[u] = <<>>
    BY <1>1, <1>2, IdleStays
<1>5. OnceEach' /\ AddKeys'
    BY <1>4, OnceEachEmpty DEF AddKeys
<1>6. Books' /\ (freed' = 0 => freed = 0)
    <2>1. CASE UNCHANGED <<posted, freed, refused>>
        <3>1. posted' = posted /\ freed' = freed /\ refused' = refused
            BY <2>1
        <3>2. Outstanding' = Outstanding
            BY <1>4, <3>1 DEF Outstanding
        <3>3. QED
            BY <1>3, <1>5, <3>1, <3>2, BooksSame DEF Orderly
    <2>2. CASE \E p \in posted : /\ posted' = posted \ {p} /\ refused' = refused \ {p}
                                 /\ freed' = IF p.recv = none THEN freed ELSE freed + 1
        <3>1. PICK d \in posted : /\ posted' = posted \ {d} /\ refused' = refused \ {d}
                                  /\ freed' = IF d.recv = none THEN freed ELSE freed + 1
            BY <2>2
        <3>2. d \in Outstanding /\ Outstanding' = Outstanding \ {d}
            BY <1>4, <3>1 DEF Outstanding
        <3>3. freed \in Nat
            BY RequestHashAssumption DEF IInv, SetsOK
        <3>4. freed' = 0 => freed = 0 /\ d.recv = none
            BY <3>1, <3>3
        <3>5. d.recv = none => d \notin Data
            BY RequestHashAssumption DEF Data
        <3>6. freed' = 0 => d \notin Entries
            BY <3>4, <3>5 DEF Orderly, Books, Pending
        <3>7. Books'
            BY <1>3, <1>4, <1>5, <3>1, <3>2, <3>4, <3>6, BooksLess DEF Orderly
        <3>8. QED
            BY <3>4, <3>7
    <2>3. QED
        BY <2>1, <2>2 DEF MPI_Request_free
<1>7. QED
    BY <1>2, <1>4, <1>6 DEF Orderly

-----------------------------------------------------------------------------
(* Requests are completed, one after the other.                             *)

LEMMA CompletedRange ==
    ASSUME NEW s, Completed(s)
    PROVE  /\ Range(s) \subseteq posted
           /\ \A i \in 1..Len(s) : s[i] \in Range(s)
           /\ \A i \in 1..Len(s) : \A j \in 1..Len(s) : s[i] = s[j] => i = j
<1>1. PICK p \in posted : s = <<p>> \/ \E q \in posted \ {p} : s = <<p, q>>
    BY DEF Completed
<1>2. CASE s = <<p>>
    <2>1. Len(s) = 1 /\ DOMAIN s = {1} /\ s[1] = p
        BY <1>2
    <2>2. 1..1 = {1}
        OBVIOUS
    <2>3. QED
        BY <2>1, <2>2 DEF Range
<1>3. CASE \E q \in posted \ {p} : s = <<p, q>>
    <2>1. PICK q \in posted \ {p} : s = <<p, q>>
        BY <1>3
    <2>2. Len(s) = 2 /\ DOMAIN s = 1..2 /\ s[1] = p /\ s[2] = q
        BY <2>1
    <2>3. 1..2 = {1, 2}
        OBVIOUS
    <2>4. QED
        BY <2>2, <2>3 DEF Range
<1>4. QED
    BY <1>1, <1>2, <1>3

LEMMA OrderlyCompletes ==
    ASSUME IInv, Orderly, Level = "serialized", TableOK', NEW t \in Thread, Completes(t)
    PROVE  Orderly'
<1>1. PICK s \in Seq(Posted) : /\ Completed(s) /\ s # <<>>
                               /\ save_reqs' = [save_reqs EXCEPT ![t] = s]
                               /\ posted' = posted \ Range(s)
    BY CompletedIs DEF IInv
<1>2. PICK w : w = "search" /\ pc' = [pc EXCEPT ![t] = w]
    BY DEF Completes, Goes
<1>3. Idle /\ Alone(t)
    BY IdleIs DEF IInv, Completes
<1>4. refused' = refused /\ freed' = freed /\ mishaps' = mishaps
    BY DEF Completes, history
<1>5. Entries' = Entries
    BY Untouched DEF IInv, Completes
<1>6. /\ OneBusy' /\ Waiting' = Range(s) /\ pc'[t] = w /\ save_reqs'[t] = s
      /\ \A u \in Thread \ {t} : pc'[u] = "app" /\ save_reqs'[u] = <<>>
    BY <1>1, <1>2, <1>3, AloneAfter DEF IInv, Leaves
<1>7. SearchesOK'
    BY <1>2, <1>6, SearchTrivial
<1>8. Outstanding' = Outstanding
    BY <1>1, <1>3, <1>6, IdleWaits, CompletedRange DEF Outstanding
<1>9. AddKeys'
    BY <1>2, <1>6 DEF AddKeys, At
<1>10. OnceEach'
    <2> SUFFICES ASSUME NEW u \in Thread, NEW i \in 1..Len(save_reqs'[u])
                 PROVE  /\ save_reqs'[u][i] \notin posted'
                        /\ \A j \in 1..Len(save_reqs'[u]) : save_reqs'[u][i] = save_reqs'[u][j] => i = j
        BY DEF OnceEach
    <2>1. CASE u = t
        BY <1>1, <1>6, <2>1, CompletedRange
    <2>2. CASE u # t
        BY <1>6, <2>2, EmptySeq
    <2>3. QED
        BY <2>1, <2>2
<1>11. Books'
    BY <1>4, <1>5, <1>8, <1>9, <1>10, BooksSame DEF Orderly
<1>12. QED
    BY <1>4, <1>6, <1>7, <1>11 DEF Orderly

\* A thread in a call is the only one in a call.
LEMMA BusyIs ==
    ASSUME IInv, Orderly, NEW t \in Thread, pc[t] # "app"
    PROVE  Alone(t)
BY AloneIs DEF IInv, Orderly, At

LEMMA OrderlyAdds ==
    ASSUME IInv, Orderly, TableOK', NEW t \in Thread, AddsRequest(t)
    PROVE  Orderly'
<1>1. PICK d \in Data : d = req[t]
    BY AddsTable
<1>2. /\ \/ Entries' = Entries \cup {d} /\ refused' = refused
         \/ Entries' = Entries /\ refused' = refused \cup {d}
    BY <1>1, AddsTable
<1>3. Alone(t) /\ At(t, "add")
    BY BusyIs DEF AddsRequest, At
<1>4. save_reqs[t] = <<>>
    BY <1>3 DEF IInv, ThreadsOK, ThreadVals, At, Searching
<1>5. PICK w : w = "app" /\ pc' = [pc EXCEPT ![t] = w]
    BY DEF AddsRequest, Goes
<1>6. PICK s : s = <<>>
    OBVIOUS
<1>7. save_reqs' = [save_reqs EXCEPT ![t] = s]
    BY <1>4, <1>6, Same DEF AddsRequest, IInv, ThreadsOK
<1>8. /\ OneBusy' /\ Waiting' = Range(s) /\ pc'[t] = w /\ save_reqs'[t] = s
      /\ \A u \in Thread \ {t} : pc'[u] = "app" /\ save_reqs'[u] = <<>>
    BY <1>3, <1>5, <1>7, AloneAfter DEF IInv, Leaves
<1>9. Waiting' = {} /\ \A u \in Thread : save_reqs'[u] = <<>>
    BY <1>6, <1>8, EmptyRange
<1>10. Waiting = {}
    BY <1>3, <1>4, WaitingIs, EmptyRange
<1>11. \A u \in Thread : pc'[u] = "app" /\ ~At(u, "add")'
    BY <1>5, <1>8 DEF At
<1>12. SearchesOK'
    BY <1>11, SearchTrivial
<1>13. posted' = posted \cup {d} /\ freed' = freed /\ mishaps' = mishaps
    BY <1>1 DEF AddsRequest
<1>14. \A p \in posted : p.key # d.key
    BY <1>1, <1>3 DEF Orderly, Books, AddKeys, Outstanding
<1>15. Books'
    BY <1>2, <1>9, <1>10, <1>11, <1>13, <1>14, BooksPost DEF Orderly
<1>16. QED
    BY <1>8, <1>12, <1>13, <1>15 DEF Orderly

\* The elements of a sequence, each there once, but its first.
LEMMA RangeOfTail ==
    ASSUME NEW S, NEW s \in Seq(S), s # <<>>,
           \A i \in 1..Len(s) : \A j \in 1..Len(s) : s[i] = s[j] => i = j
    PROVE  Range(Tail(s)) = Range(s) \ {Head(s)} /\ Head(s) \in Range(s)
<1>1. PICK n \in Nat \ {0} : n = Len(s)
    BY EmptySeq
<1>2. DOMAIN s = 1..n
    BY <1>1, LenProperties
<1>3. PICK q \in Seq(S) : q = Tail(s)
    BY HeadTailProperties
<1>4. Len(q) = n - 1 /\ \A i \in 1..Len(q) : q[i] = s[i + 1]
    BY <1>1, <1>3, HeadTailProperties
<1>5. DOMAIN q = 1..(n - 1)
    BY <1>4, LenProperties
<1>6. Head(s) = s[1]
    OBVIOUS
<1>7. ASSUME NEW i \in 1..(n - 1)  PROVE q[i] \in Range(s) /\ q[i] # Head(s)
    <2>1. i + 1 \in 1..n /\ 1 \in 1..n /\ i + 1 # 1
        BY <1>1
    <2>2. q[i] = s[i + 1]
        BY <1>4
    <2>3. s[i + 1] \in Range(s)
        BY <1>2, <2>1 DEF Range
    <2>4. s[i + 1] # s[1]
        BY <1>1, <2>1
    <2>5. QED
        BY <1>6, <2>2, <2>3, <2>4
<1>8. ASSUME NEW i \in 1..n, s[i] # Head(s)  PROVE s[i] \in Range(q)
    <2>1. i # 1
        BY <1>6, <1>8
    <2>2. PICK k \in 1..(n - 1) : k + 1 = i
        <3>1. i - 1 \in 1..(n - 1) /\ (i - 1) + 1 = i
            BY <1>1, <2>1
        <3>2. QED
            BY <3>1
    <2>3. q[k] = s[i]
        BY <1>4, <2>2
    <2>4. q[k] \in Range(q)
        BY <1>5 DEF Range
    <2>5. QED
        BY <2>3, <2>4
<1>9. Head(s) \in Range(s)
    BY <1>1, <1>2, <1>6 DEF Range
<1>10. Range(q) \subseteq Range(s) \ {Head(s)}
    BY <1>5, <1>7 DEF Range
<1>11. Range(s) \ {Head(s)} \subseteq Range(q)
    BY <1>2, <1>8 DEF Range
<1>12. QED
    BY <1>3, <1>9, <1>10, <1>11

\* What is left when the first request of a thread has been dealt with.
LEMMA NextLeaves ==
    ASSUME IInv, Orderly, NEW t \in Thread, pc[t] \in Searching, NextRequest(t), posted' = posted
    PROVE  /\ Mine(t) \in Outstanding /\ Mine(t) \in Posted
           /\ Outstanding' = Outstanding \ {Mine(t)} /\ OnceEach' /\ OneBusy'
           /\ \A u \in Thread : pc'[u] \in {"app", "search"} /\ ~At(u, "add")'
<1>1. ThreadsOK /\ OnceEach
    BY DEF IInv, Orderly, Books
<1>2. Alone(t)
    BY BusyIs DEF Searching
<1>3. PICK s \in Seq(Posted) : s = save_reqs[t] /\ s # <<>>
    BY <1>1, MineTyped
<1>4. /\ \A i \in 1..Len(s) : s[i] \notin posted
      /\ \A i \in 1..Len(s) : \A j \in 1..Len(s) : s[i] = s[j] => i = j
    BY <1>1, <1>3 DEF OnceEach
<1>5. PICK d : d = Head(s)
    OBVIOUS
<1>6. PICK r \in Seq(Posted) : r = Tail(s)
    BY <1>3, HeadTailProperties
<1>7. Range(r) = Range(s) \ {d} /\ d \in Range(s)
    BY <1>3, <1>4, <1>5, <1>6, RangeOfTail
<1>8. PICK w : w \in {"app", "search"} /\ pc' = [pc EXCEPT ![t] = w]
    BY DEF NextRequest, Goes
<1>9. save_reqs' = [save_reqs EXCEPT ![t] = r]
    BY <1>3, <1>6 DEF NextRequest
<1>10. /\ OneBusy' /\ Waiting' = Range(r) /\ pc'[t] = w /\ save_reqs'[t] = r
       /\ \A u \in Thread \ {t} : pc'[u] = "app" /\ save_reqs'[u] = <<>>
    <2>1. Leaves(t, w, r)
        BY <1>1, <1>2, <1>8, <1>9, AloneAfter
    <2>2. QED
        BY <2>1 DEF Leaves
<1>11. Waiting = Range(s)
    BY <1>2, <1>3, WaitingIs
<1>12. d \notin posted
    <2>1. DOMAIN s = 1..Len(s)
        BY LenProperties
    <2>2. PICK i \in 1..Len(s) : s[i] = d
        BY <1>7, <2>1 DEF Range
    <2>3. QED
        BY <1>4, <2>2
<1>13. d \in Outstanding /\ Outstanding' = Outstanding \ {d}
    BY <1>7, <1>10, <1>11, <1>12 DEF Outstanding
<1>14. OnceEach'
    <2> SUFFICES ASSUME NEW u \in Thread, NEW i \in 1..Len(save_reqs'[u])
                 PROVE  /\ save_reqs'[u][i] \notin posted'
                        /\ \A j \in 1..Len(save_reqs'[u]) : save_reqs'[u][i] = save_reqs'[u][j] => i = j
        BY DEF OnceEach
    <2>1. CASE u = t
        <3>1. PICK n \in Nat : n = Len(s)
            BY LenProperties
        <3>2. Len(r) = n - 1 /\ \A k \in 1..Len(r) : r[k] = s[k + 1]
            BY <1>3, <1>6, <3>1, HeadTailProperties
        <3>3. \A k \in 1..(n - 1) : r[k] \notin posted
            BY <1>4, <3>1, <3>2
        <3>4. \A k \in 1..(n - 1) : \A j \in 1..(n - 1) : r[k] = r[j] => k = j
            <4> TAKE k \in 1..(n - 1)
            <4> TAKE j \in 1..(n - 1)
            <4>1. k + 1 \in 1..n /\ j + 1 \in 1..n
                BY <3>1
            <4>2. s[k + 1] = s[j + 1] => k + 1 = j + 1
                BY <1>4, <3>1, <4>1
            <4>3. QED
                BY <3>2, <4>2
        <3>5. QED
            BY <1>10, <2>1, <3>2, <3>3, <3>4
    <2>2. CASE u # t
        BY <1>10, <2>2, EmptySeq
    <2>3. QED
        BY <2>1, <2>2
<1>15. \A u \in Thread : pc'[u] \in {"app", "search"} /\ ~At(u, "add")'
    BY <1>8, <1>10 DEF At
<1>16. d = Mine(t) /\ d \in Posted
    BY <1>1, <1>3, <1>5, MineTyped DEF Mine
<1>17. QED
    BY <1>10, <1>13, <1>14, <1>15, <1>16

LEMMA OrderlyMissed ==
    ASSUME IInv, Orderly, TableOK', NEW t \in Thread, Missed(t)
    PROVE  Orderly'
<1>1. pc[t] \in Searching /\ pc[t] = "missed"
    BY DEF Missed, At, Searching
<1>2. NextRequest(t) /\ posted' = posted /\ freed' = freed
    BY DEF Missed
<1>3. PICK d : d = Mine(t)
    OBVIOUS
<1>4. /\ d \in Outstanding /\ d \in Posted
      /\ Outstanding' = Outstanding \ {d} /\ OnceEach' /\ OneBusy'
      /\ \A u \in Thread : pc'[u] \in {"app", "search"} /\ ~At(u, "add")'
    BY <1>1, <1>2, <1>3, NextLeaves
<1>5. refused' = refused \ {d}
    BY <1>2, <1>3 DEF NextRequest
<1>6. Entries' = Entries
    BY Untouched DEF IInv, Missed
<1>7. SearchesOK'
    BY <1>4, SearchTrivial
<1>8. freed = 0 => d \notin Entries
    BY <1>1, <1>3 DEF Orderly, SearchesOK, SearchOK
<1>9. Books'
    BY <1>2, <1>4, <1>5, <1>6, <1>8, BooksLess DEF Orderly
<1>10. freed = 0 => mishaps' = {}
    <2> SUFFICES ASSUME freed = 0  PROVE mishaps' = {}
        OBVIOUS
    <2>1. d \notin Entries /\ mishaps = {}
        BY <1>8 DEF Orderly
    <2>2. d \notin Data \/ d \in refused
        BY <1>4, <2>1 DEF Orderly, Books, Pending
    <2>3. d \notin Data => d.recv = none
        BY <1>4 DEF Posted, Data
    <2>4. mishaps' = mishaps \cup {}
        BY <1>3, <2>1, <2>2, <2>3 DEF Missed
    <2>5. QED
        BY <2>1, <2>4
<1>11. QED
    BY <1>2, <1>4, <1>7, <1>9, <1>10 DEF Orderly

LEMMA OrderlyRemoves ==
    ASSUME IInv, Orderly, TableOK', NEW t \in Thread, RemovesRequest(t)
    PROVE  Orderly'
<1>1. pc[t] \in Searching
    BY DEF RemovesRequest, At, Searching
<1>2. NextRequest(t) /\ posted' = posted /\ freed' = freed /\ mishaps' = mishaps
    BY DEF RemovesRequest
<1>3. PICK d : d = Mine(t)
    OBVIOUS
<1>4. /\ d \in Outstanding /\ d \in Posted
      /\ Outstanding' = Outstanding \ {d} /\ OnceEach' /\ OneBusy'
      /\ \A u \in Thread : pc'[u] \in {"app", "search"} /\ ~At(u, "add")'
    BY <1>1, <1>2, <1>3, NextLeaves
<1>5. refused' = refused \ {d}
    BY <1>2, <1>3 DEF NextRequest
<1>6. hash_remove(d.key) /\ d.key \in Key
    BY <1>3, <1>4 DEF RemovesRequest, Posted
<1>7. Gone(d.key)
    BY <1>6, RemovesTable DEF IInv
<1>8. SearchesOK'
    BY <1>4, SearchTrivial
<1>9. Books'
    BY <1>2, <1>4, <1>5, <1>7, BooksLess DEF Orderly
<1>10. QED
    BY <1>2, <1>4, <1>8, <1>9 DEF Orderly

\* A step of a thread that is looking its first request up, or has found it.
LEMMA SearchGoes ==
    ASSUME IInv, Orderly, NEW t \in Thread, pc[t] \in Searching, NEW w, w \in Searching, Goes(t, w),
           UNCHANGED hash, save_reqs' = save_reqs, posted' = posted, refused' = refused, freed' = freed
    PROVE  /\ Books' /\ OneBusy' /\ pc'[t] = w
           /\ \A u \in Thread \ {t} : pc'[u] = "app"
<1>1. Alone(t)
    BY BusyIs DEF Searching
<1>2. pc'[t] = w /\ \A u \in Thread \ {t} : pc'[u] = "app"
    BY <1>1 DEF Alone, Goes, IInv, ThreadsOK
<1>3. OneBusy'
    BY <1>2 DEF OneBusy, At
<1>4. Waiting' = Waiting
    BY DEF Waiting
<1>5. Outstanding' = Outstanding
    BY <1>4 DEF Outstanding
<1>6. OnceEach'
    BY DEF Orderly, Books, OnceEach
<1>7. w # "add"
    BY DEF Searching
<1>8. AddKeys'
    BY <1>2, <1>7 DEF AddKeys, At
<1>9. Entries' = Entries
    BY Untouched DEF IInv
<1>10. Books'
    BY <1>5, <1>6, <1>8, <1>9, BooksSame DEF Orderly
<1>11. QED
    BY <1>2, <1>3, <1>10

LEMMA OrderlyRecords ==
    ASSUME IInv, Orderly, TableOK', NEW t \in Thread, Records(t)
    PROVE  Orderly'
<1>1. pc[t] \in Searching /\ pc[t] = "found"
    BY DEF Records, At, Searching
<1>2. PICK w : w = "remove" /\ Goes(t, w)
    BY DEF Records
<1>3. w \in Searching
    BY <1>2 DEF Searching
<1>4. /\ UNCHANGED hash /\ save_reqs' = save_reqs /\ posted' = posted
      /\ refused' = refused /\ freed' = freed
    BY DEF Records
<1>5. /\ Books' /\ OneBusy' /\ pc'[t] = w
      /\ \A u \in Thread \ {t} : pc'[u] = "app"
    BY <1>1, <1>2, <1>3, <1>4, SearchGoes
<1>6. SearchesOK'
    BY <1>2, <1>5, SearchTrivial
<1>7. freed = 0 => mishaps' = {}
    <2> SUFFICES ASSUME freed = 0  PROVE mishaps' = {}
        OBVIOUS
    <2>1. PICK p : SearchOK(p, t)
        BY DEF Orderly, SearchesOK
    <2>2. (IF cell[t] = MAIN THEN table[MyCell(t)].data ELSE overflow[cell[t]].data) = Mine(t)
        BY <1>1, <2>1 DEF SearchOK
    <2>3. mishaps' = mishaps
        BY <2>2 DEF Records
    <2>4. QED
        BY <2>3 DEF Orderly
<1>8. QED
    BY <1>4, <1>5, <1>6, <1>7 DEF Orderly

-----------------------------------------------------------------------------
(* The steps of a search.                                                   *)

\* What the table holds under the key of the request is the request.
LEMMA EntryMine ==
    ASSUME IInv, Orderly, freed = 0, NEW t \in Thread, pc[t] \in Searching,
           NEW e \in Entries, e.key = Mine(t).key
    PROVE  e = Mine(t)
<1>1. PICK s \in Seq(Posted) : s = save_reqs[t] /\ s # <<>>
    BY MineTyped DEF IInv
<1>2. PICK n \in Nat \ {0} : n = Len(s)
    BY <1>1, EmptySeq
<1>3. DOMAIN s = 1..n /\ 1 \in 1..n
    BY <1>2, LenProperties
<1>4. Mine(t) = s[1]
    BY <1>1 DEF Mine
<1>5. s[1] \in Range(s)
    BY <1>3 DEF Range
<1>6. Mine(t) \in Outstanding
    BY <1>1, <1>4, <1>5 DEF Outstanding, Waiting
<1>7. e \in Outstanding
    BY DEF Orderly, Books, Pending
<1>8. QED
    BY <1>6, <1>7 DEF Orderly, Books, KeysOnce

LEMMA StoredMain == ASSUME NEW p, Held(p), NEW c \in Used  PROVE table[c].data \in Entries
BY EntriesAre DEF Held, Stored

LEMMA StoredCell ==
    ASSUME NEW p, Held(p), NEW c \in Main, NEW j \in 1..Len(p[c])
    PROVE  p[c][j] \in Cell /\ overflow[p[c][j]].data \in Entries
<1>1. c \in Lists
    BY ListsAre
<1>2. p[c][j] \in Cell
    BY <1>1, PathsCells DEF Held, HasPaths
<1>3. p[c][j] \in Taken(p)
    BY <1>2 DEF Taken, On
<1>4. Entries = Stored(p)
    BY EntriesAre DEF Held
<1>5. QED
    BY <1>2, <1>3, <1>4 DEF Stored

LEMMA PathPlaces ==
    ASSUME NEW p, Held(p), NEW c \in Used
    PROVE  /\ c \in Main /\ Len(p[c]) \in Nat
           /\ table[c].link = Place(p[c], 1)
           /\ \A j \in 1..Len(p[c]) : overflow[p[c][j]].next = Place(p[c], j + 1)
<1>1. c \in Main /\ c \in Lists /\ Starts[c] = table[c].link
    BY UsedIs, ListsAre DEF Starts
<1>2. PICK q \in Seq(Cell) : q = p[c]
    BY <1>1, PathsSeq DEF Held, HasPaths
<1>3. Leads(q, Starts[c], Nexts)
    BY <1>1, <1>2 DEF Held, HasPaths, Paths
<1>4. PICK n \in Nat : n = Len(q)
    BY LenProperties
<1>5. \A j \in 1..n : Nexts[q[j]] = Place(q, j + 1) /\ q[j] \in Cell
    BY <1>3, <1>4, ElementOfSeq DEF Leads
<1>6. \A j \in 1..n : overflow[q[j]].next = Place(q, j + 1)
    BY <1>5 DEF Nexts
<1>7. table[c].link = Place(q, 1)
    BY <1>1, <1>3 DEF Leads
<1>8. QED
    BY <1>1, <1>2, <1>4, <1>6, <1>7

\* One thread searches, and the table stays.
LEMMA SearchKept ==
    ASSUME TableOK, UNCHANGED hash, NEW p, Held(p), NEW t \in Thread, SearchOK(p, t)',
           \A u \in Thread \ {t} : pc'[u] = "app"
    PROVE  SearchesOK'
<1>1. table' = table /\ overflow' = overflow /\ ovf_free' = ovf_free
    BY DEF hash
<1>2. Starts' = Starts /\ Nexts' = Nexts /\ Used' = Used
    BY <1>1 DEF Starts, Nexts, Used
<1>3. HasPaths(p)'
    BY <1>2 DEF HasPaths, Held
<1>4. Held(p)'
    BY <1>1, <1>2, <1>3 DEF Held
<1>5. \A u \in Thread : SearchOK(p, u)'
    <2>1. \A u \in Thread \ {t} : SearchOK(p, u)'
        BY DEF SearchOK
    <2>2. QED
        BY <2>1
<1>6. QED
    BY <1>4, <1>5 DEF SearchesOK

\* Nothing the search changes matters to the books.
LEMMA OrderlySearch ==
    ASSUME IInv, Orderly, NEW t \in Thread, pc[t] \in Searching, NEW w, w \in Searching, Goes(t, w),
           UNCHANGED hash, save_reqs' = save_reqs, posted' = posted, UNCHANGED history,
           NEW p, freed = 0 => Held(p) /\ SearchOK(p, t)'
    PROVE  Orderly'
<1>1. refused' = refused /\ freed' = freed /\ mishaps' = mishaps
    BY DEF history
<1>2. /\ Books' /\ OneBusy' /\ pc'[t] = w
      /\ \A u \in Thread \ {t} : pc'[u] = "app"
    BY <1>1, SearchGoes
<1>3. freed = 0 => SearchesOK'
    BY <1>2, SearchKept DEF IInv
<1>4. QED
    BY <1>1, <1>2, <1>3 DEF Orderly

\* The request a thread looks up, and where its search looks.
LEMMA MineStays ==
    ASSUME NEW t \in Thread, UNCHANGED hash, save_reqs' = save_reqs
    PROVE  /\ Mine(t)' = Mine(t) /\ MyCell(t)' = MyCell(t)
           /\ table' = table /\ overflow' = overflow /\ Used' = Used
BY DEF Mine, MyCell, hash, Used

LEMMA PassedStays ==
    ASSUME NEW t \in Thread, UNCHANGED hash, save_reqs' = save_reqs, NEW p, NEW j, PassedBy(p, t, j)
    PROVE  PassedBy(p, t, j)'
<1>1. Mine(t)' = Mine(t) /\ MyCell(t)' = MyCell(t) /\ overflow' = overflow
    BY MineStays
<1>2. QED
    BY <1>1 DEF PassedBy

LEMMA OrderlyBegins ==
    ASSUME IInv, Orderly, NEW t \in Thread, SearchBegins(t)
    PROVE  Orderly'
<1>1. pc[t] \in Searching
    BY DEF SearchBegins, At, Searching
<1>2. PICK w : w = (IF table[MyCell(t)].link = HASH_FREE THEN "missed" ELSE "search_main") /\ Goes(t, w)
    BY DEF SearchBegins
<1>3. w \in Searching
    BY <1>2 DEF Searching
<1>4. UNCHANGED hash /\ save_reqs' = save_reqs /\ posted' = posted /\ UNCHANGED history
    BY DEF SearchBegins
<1>5. PICK p : Held(p)
    BY DEF IInv, TableOK
<1>6. pc'[t] = w
    BY <1>2 DEF Goes, IInv, ThreadsOK
<1>7. MyCell(t) \in Main
    BY <1>1, MineTyped DEF IInv
<1>8. SearchOK(p, t)'
    <2>1. CASE table[MyCell(t)].link = HASH_FREE
        <3>1. MyCell(t) \notin Used
            BY <2>1, UsedIs
        <3>2. Mine(t) \notin Entries
            BY <1>5, <3>1, EntryPlace DEF MyCell
        <3>3. Entries' = Entries
            BY <1>4, Untouched DEF IInv
        <3>4. Mine(t)' \notin Entries'
            BY <1>4, <3>2, <3>3, MineStays
        <3>5. pc'[t] = "missed"
            BY <1>2, <1>6, <2>1
        <3>6. QED
            BY <3>4, <3>5 DEF SearchOK
    <2>2. CASE table[MyCell(t)].link # HASH_FREE
        <3>1. MyCell(t) \in Used
            BY <1>7, <2>2, UsedIs
        <3>2. MyCell(t)' \in Used'
            BY <1>4, <3>1, MineStays
        <3>3. pc'[t] = "search_main"
            BY <1>2, <1>6, <2>2
        <3>4. QED
            BY <3>2, <3>3 DEF SearchOK
    <2>3. QED
        BY <2>1, <2>2
<1>9. QED
    BY <1>1, <1>2, <1>3, <1>4, <1>5, <1>8, OrderlySearch

\* What is known of a search that has begun and has not found anything yet.
LEMMA SearchBegun ==
    ASSUME IInv, Orderly, freed = 0, NEW t \in Thread,
           pc[t] \in {"search_main", "search_link", "search_cell", "search_next"}
    PROVE  /\ MyCell(t) \in Used /\ pc[t] \in Searching
           /\ \E p : Held(p) /\ SearchOK(p, t)
BY DEF Orderly, SearchesOK, SearchOK, Searching

LEMMA OrderlyMain ==
    ASSUME IInv, Orderly, NEW t \in Thread, SearchesMain(t)
    PROVE  Orderly'
<1>1. pc[t] \in Searching /\ pc[t] = "search_main"
    BY DEF SearchesMain, At, Searching
<1>2. UNCHANGED hash /\ save_reqs' = save_reqs /\ posted' = posted /\ UNCHANGED history
    BY DEF SearchesMain
<1>3. PICK w : w = (IF table[MyCell(t)].data.key = Mine(t).key THEN "found" ELSE "search_link")
    OBVIOUS
<1>4. Goes(t, w) /\ (table[MyCell(t)].data.key = Mine(t).key => cell' = [cell EXCEPT ![t] = MAIN])
    BY <1>3 DEF SearchesMain
<1>5. w \in Searching
    BY <1>3 DEF Searching
<1>6. pc'[t] = w /\ DOMAIN cell = Thread
    BY <1>4 DEF Goes, IInv, ThreadsOK
<1>7. PICK p : freed = 0 => Held(p)
    BY DEF IInv, TableOK
<1>8. freed = 0 => SearchOK(p, t)'
    <2> SUFFICES ASSUME freed = 0  PROVE SearchOK(p, t)'
        OBVIOUS
    <2>1. MyCell(t) \in Used
        BY <1>1, SearchBegun
    <2>2. /\ MyCell(t)' = MyCell(t) /\ Mine(t)' = Mine(t) /\ table' = table /\ Used' = Used
        BY <1>2, MineStays
    <2>3. CASE table[MyCell(t)].data.key = Mine(t).key
        <3>1. table[MyCell(t)].data \in Entries
            BY <1>7, <2>1, StoredMain
        <3>2. table[MyCell(t)].data = Mine(t)
            BY <1>1, <2>3, <3>1, EntryMine
        <3>3. cell'[t] = MAIN
            BY <1>4, <1>6, <2>3
        <3>4. pc'[t] = "found"
            BY <1>3, <1>6, <2>3
        <3>5. (IF cell'[t] = MAIN THEN table'[MyCell(t)'].data ELSE overflow'[cell'[t]].data) = Mine(t)'
            BY <2>2, <3>2, <3>3
        <3>6. QED
            BY <3>4, <3>5 DEF SearchOK
    <2>4. CASE table[MyCell(t)].data.key # Mine(t).key
        <3>1. pc'[t] = "search_link"
            BY <1>3, <1>6, <2>4
        <3>2. MyCell(t)' \in Used' /\ table'[MyCell(t)'].data.key # Mine(t)'.key
            BY <2>1, <2>2, <2>4
        <3>3. QED
            BY <3>1, <3>2 DEF SearchOK
    <2>5. QED
        BY <2>3, <2>4
<1>9. QED
    BY <1>1, <1>2, <1>4, <1>5, <1>7, <1>8, OrderlySearch

LEMMA OrderlyLink ==
    ASSUME IInv, Orderly, NEW t \in Thread, SearchesLink(t)
    PROVE  Orderly'
<1>1. pc[t] \in Searching /\ pc[t] = "search_link"
    BY DEF SearchesLink, At, Searching
<1>2. UNCHANGED hash /\ save_reqs' = save_reqs /\ posted' = posted /\ UNCHANGED history
    BY DEF SearchesLink
<1>3. PICK w : w = "search_cell" /\ Goes(t, w)
    BY DEF SearchesLink
<1>4. w \in Searching
    BY <1>3 DEF Searching
<1>5. pc'[t] = w /\ cell'[t] = table[MyCell(t)].link
    BY <1>3 DEF SearchesLink, Goes, IInv, ThreadsOK
<1>6. PICK p : freed = 0 => Held(p) /\ SearchOK(p, t)
    BY <1>1, SearchBegun
<1>7. freed = 0 => SearchOK(p, t)'
    <2> SUFFICES ASSUME freed = 0  PROVE SearchOK(p, t)'
        OBVIOUS
    <2>1. MyCell(t) \in Used /\ table[MyCell(t)].data.key # Mine(t).key
        BY <1>1, <1>6 DEF SearchOK
    <2>2. MyCell(t)' = MyCell(t) /\ Mine(t)' = Mine(t) /\ table' = table /\ Used' = Used
        BY <1>2, MineStays
    <2>3. PICK n \in Nat : n = Len(p[MyCell(t)])
        BY <1>6, <2>1, PathPlaces
    <2>4. cell'[t] = Place(p[MyCell(t)], 1)
        BY <1>5, <1>6, <2>1, PathPlaces
    <2>5. PassedBy(p, t, 1)
        BY <2>3 DEF PassedBy
    <2>6. PassedBy(p, t, 1)'
        BY <1>2, <2>5, PassedStays
    <2>7. \E j \in 1..(n + 1) : cell'[t] = Place(p[MyCell(t)], j) /\ PassedBy(p, t, j)'
        BY <2>4, <2>6
    <2>8. \E j \in 1..(Len(p[MyCell(t)']) + 1) : cell'[t] = Place(p[MyCell(t)'], j) /\ PassedBy(p, t, j)'
        BY <2>2, <2>3, <2>7
    <2>9. MyCell(t)' \in Used' /\ table'[MyCell(t)'].data.key # Mine(t)'.key
        BY <2>1, <2>2
    <2>10. QED
        BY <1>3, <1>5, <2>8, <2>9 DEF SearchOK
<1>8. QED
    BY <1>1, <1>2, <1>3, <1>4, <1>6, <1>7, OrderlySearch

LEMMA OrderlyNext ==
    ASSUME IInv, Orderly, NEW t \in Thread, SearchesNext(t)
    PROVE  Orderly'
<1>1. pc[t] \in Searching /\ pc[t] = "search_next"
    BY DEF SearchesNext, At, Searching
<1>2. UNCHANGED hash /\ save_reqs' = save_reqs /\ posted' = posted /\ UNCHANGED history
    BY DEF SearchesNext
<1>3. PICK w : w = "search_cell" /\ Goes(t, w)
    BY DEF SearchesNext
<1>4. w \in Searching
    BY <1>3 DEF Searching
<1>5. pc'[t] = w /\ cell'[t] = overflow[cell[t]].next
    BY <1>3 DEF SearchesNext, Goes, IInv, ThreadsOK
<1>6. PICK p : freed = 0 => Held(p) /\ SearchOK(p, t)
    BY <1>1, SearchBegun
<1>7. freed = 0 => SearchOK(p, t)'
    <2> SUFFICES ASSUME freed = 0  PROVE SearchOK(p, t)'
        OBVIOUS
    <2>1. MyCell(t) \in Used /\ table[MyCell(t)].data.key # Mine(t).key
        BY <1>1, <1>6 DEF SearchOK
    <2>2. MyCell(t)' = MyCell(t) /\ Mine(t)' = Mine(t) /\ table' = table /\ Used' = Used
        BY <1>2, MineStays
    <2>3. PICK n \in Nat : n = Len(p[MyCell(t)])
        BY <1>6, <2>1, PathPlaces
    <2>4. PICK j \in 1..n : cell[t] = p[MyCell(t)][j] /\ PassedBy(p, t, j + 1)
        BY <1>1, <1>6, <2>3 DEF SearchOK
    <2>5. cell'[t] = Place(p[MyCell(t)], j + 1)
        BY <1>5, <1>6, <2>1, <2>3, <2>4, PathPlaces
    <2>6. PassedBy(p, t, j + 1)'
        BY <1>2, <2>4, PassedStays
    <2>7. \E i \in 1..(n + 1) : cell'[t] = Place(p[MyCell(t)], i) /\ PassedBy(p, t, i)'
        <3>1. j + 1 \in 1..(n + 1)
            BY <2>3, <2>4
        <3>2. QED
            BY <2>5, <2>6, <3>1
    <2>8. \E i \in 1..(Len(p[MyCell(t)']) + 1) : cell'[t] = Place(p[MyCell(t)'], i) /\ PassedBy(p, t, i)'
        BY <2>2, <2>3, <2>7
    <2>9. MyCell(t)' \in Used' /\ table'[MyCell(t)'].data.key # Mine(t)'.key
        BY <2>1, <2>2
    <2>10. QED
        BY <1>3, <1>5, <2>8, <2>9 DEF SearchOK
<1>8. QED
    BY <1>1, <1>2, <1>3, <1>4, <1>6, <1>7, OrderlySearch

\* The whole path has been passed by: the request is not in the table.
LEMMA NotStored ==
    ASSUME NEW p, Held(p), NEW t \in Thread, table[MyCell(t)].data.key # Mine(t).key,
           PassedBy(p, t, Len(p[MyCell(t)]) + 1), Len(p[MyCell(t)]) \in Nat
    PROVE  Mine(t) \notin Entries
<1> SUFFICES ASSUME Mine(t) \in Entries  PROVE FALSE
    OBVIOUS
<1>1. PICK n \in Nat : n = Len(p[MyCell(t)])
    OBVIOUS
<1>2. PICK j \in 1..n : Mine(t) = overflow[p[MyCell(t)][j]].data
    BY <1>1, EntryPlace DEF MyCell
<1>3. j < n + 1
    BY <1>2
<1>4. QED
    BY <1>1, <1>2, <1>3 DEF PassedBy

LEMMA OrderlyCell ==
    ASSUME IInv, Orderly, NEW t \in Thread, SearchesCell(t)
    PROVE  Orderly'
<1>1. pc[t] \in Searching /\ pc[t] = "search_cell"
    BY DEF SearchesCell, At, Searching
<1>2. /\ UNCHANGED hash /\ save_reqs' = save_reqs /\ posted' = posted /\ UNCHANGED history
      /\ cell' = cell
    BY DEF SearchesCell
<1>3. PICK w : w \in SearchOutcomes(t) /\ Goes(t, w)
    BY DEF SearchesCell
<1>4. w \in Searching
    BY <1>3 DEF Searching, SearchOutcomes
<1>5. pc'[t] = w
    BY <1>3 DEF Goes, IInv, ThreadsOK
<1>6. PICK p : freed = 0 => Held(p) /\ SearchOK(p, t)
    BY <1>1, SearchBegun
<1>7. freed = 0 => SearchOK(p, t)'
    <2> SUFFICES ASSUME freed = 0  PROVE SearchOK(p, t)'
        OBVIOUS
    <2>1. MyCell(t) \in Used /\ table[MyCell(t)].data.key # Mine(t).key
        BY <1>1, <1>6 DEF SearchOK
    <2>2. /\ MyCell(t)' = MyCell(t) /\ Mine(t)' = Mine(t) /\ Used' = Used
          /\ table' = table /\ overflow' = overflow
        BY <1>2, MineStays
    <2>3. PICK n \in Nat : n = Len(p[MyCell(t)])
        BY <1>6, <2>1, PathPlaces
    <2>4. PICK j \in 1..(n + 1) : cell[t] = Place(p[MyCell(t)], j) /\ PassedBy(p, t, j)
        BY <1>1, <1>6, <2>3 DEF SearchOK
    <2>5. MyCell(t) \in Main
        BY <2>1, UsedIs
    <2>6. CASE ~(j <= n)
        <3>1. j = n + 1
            BY <2>3, <2>4, <2>6
        <3>2. cell[t] = HASH_NULL
            BY <2>3, <2>4, <2>6 DEF Place
        <3>3. w = "missed"
            BY <1>3, <3>2 DEF SearchOutcomes, HASH_NULL, HASH_FREE
        <3>4. PassedBy(p, t, Len(p[MyCell(t)]) + 1)
            BY <2>3, <2>4, <3>1
        <3>5. Mine(t) \notin Entries
            BY <1>6, <2>1, <2>3, <3>4, NotStored
        <3>6. Mine(t)' \notin Entries'
            BY <1>2, <2>2, <3>5, Untouched DEF IInv
        <3>7. QED
            BY <1>5, <3>3, <3>6 DEF SearchOK
    <2>7. CASE j <= n
        <3>1. j \in 1..n /\ j \in 1..Len(p[MyCell(t)])
            BY <2>3, <2>4, <2>7
        <3>2. cell[t] = p[MyCell(t)][j]
            BY <2>3, <2>4, <2>7 DEF Place
        <3>3. cell[t] \in Cell /\ overflow[cell[t]].data \in Entries
            BY <1>6, <2>5, <3>1, <3>2, StoredCell
        <3>4. cell[t] # HASH_FREE /\ cell[t] # HASH_NULL /\ cell[t] # MAIN
            BY <3>3 DEF Cell, HASH_FREE, HASH_NULL, MAIN
        <3>5. w = IF overflow[cell[t]].data.key = Mine(t).key THEN "found" ELSE "search_next"
            BY <1>3, <3>4 DEF SearchOutcomes
        <3>6. CASE overflow[cell[t]].data.key = Mine(t).key
            <4>1. overflow[cell[t]].data = Mine(t)
                BY <1>1, <3>3, <3>6, EntryMine
            <4>2. (IF cell'[t] = MAIN THEN table'[MyCell(t)'].data ELSE overflow'[cell'[t]].data) = Mine(t)'
                BY <1>2, <2>2, <3>4, <4>1
            <4>3. pc'[t] = "found"
                BY <1>5, <3>5, <3>6
            <4>4. QED
                BY <4>2, <4>3 DEF SearchOK
        <3>7. CASE overflow[cell[t]].data.key # Mine(t).key
            <4>1. PassedBy(p, t, j + 1)
                <5> SUFFICES ASSUME NEW i \in 1..n, i < j + 1
                             PROVE  overflow[p[MyCell(t)][i]].data.key # Mine(t).key
                    BY <2>3 DEF PassedBy
                <5>1. CASE i = j
                    BY <3>2, <3>7, <5>1
                <5>2. CASE i # j
                    <6>1. i < j
                        BY <3>1, <5>2
                    <6>2. QED
                        BY <2>3, <2>4, <6>1 DEF PassedBy
                <5>3. QED
                    BY <5>1, <5>2
            <4>2. PassedBy(p, t, j + 1)'
                BY <1>2, <4>1, PassedStays
            <4>3. cell'[t] = p[MyCell(t)][j]
                BY <1>2, <3>2
            <4>4. \E i \in 1..Len(p[MyCell(t)']) : cell'[t] = p[MyCell(t)'][i] /\ PassedBy(p, t, i + 1)'
                BY <2>2, <3>1, <4>2, <4>3
            <4>5. MyCell(t)' \in Used' /\ table'[MyCell(t)'].data.key # Mine(t)'.key
                BY <2>1, <2>2
            <4>6. pc'[t] = "search_next"
                BY <1>5, <3>5, <3>7
            <4>7. QED
                BY <4>4, <4>5, <4>6 DEF SearchOK
        <3>8. QED
            BY <3>6, <3>7
    <2>8. QED
        BY <2>6, <2>7
<1>8. QED
    BY <1>1, <1>2, <1>3, <1>4, <1>6, <1>7, OrderlySearch

-----------------------------------------------------------------------------
LEMMA OrderlyKept ==
    ASSUME IInv, Orderly, Level = "serialized", TableOK', Next
    PROVE  Orderly'
<1>1. PICK t \in Thread :
         \/ MPI_Isend(t) \/ MPI_Irecv(t) \/ MPI_Recv_init(t) \/ MPI_Start(t) \/ AddsRequest(t)
         \/ Completes(t) \/ SearchBegins(t) \/ SearchesMain(t) \/ SearchesLink(t)
         \/ SearchesCell(t) \/ SearchesNext(t) \/ Missed(t) \/ Records(t)
         \/ RemovesRequest(t) \/ MPI_Cancel(t) \/ MPI_Request_free(t)
    BY DEF Next
<1>2. CASE MPI_Isend(t) \/ MPI_Recv_init(t)
    BY <1>2, OrderlyIsend, OrderlyRecvInit
<1>3. CASE MPI_Irecv(t) \/ MPI_Start(t)
    BY <1>3, OrderlyPost
<1>4. CASE AddsRequest(t)
    BY <1>4, OrderlyAdds
<1>5. CASE Completes(t)
    BY <1>5, OrderlyCompletes
<1>6. CASE SearchBegins(t) \/ SearchesMain(t) \/ SearchesLink(t)
    BY <1>6, OrderlyBegins, OrderlyMain, OrderlyLink
<1>7. CASE SearchesCell(t) \/ SearchesNext(t)
    BY <1>7, OrderlyCell, OrderlyNext
<1>8. CASE Missed(t) \/ Records(t) \/ RemovesRequest(t)
    BY <1>8, OrderlyMissed, OrderlyRecords, OrderlyRemoves
<1>9. CASE MPI_Cancel(t) \/ MPI_Request_free(t)
    BY <1>9, OrderlyCancel, OrderlyFree
<1>10. QED
    BY <1>1, <1>2, <1>3, <1>4, <1>5, <1>6, <1>7, <1>8, <1>9

LEMMA OrderlyStutters ==
    ASSUME IInv, Orderly, UNCHANGED vars
    PROVE  Orderly'
<1>1. /\ pc' = pc /\ req' = req /\ save_reqs' = save_reqs /\ cell' = cell /\ posted' = posted
      /\ refused' = refused /\ freed' = freed /\ mishaps' = mishaps /\ UNCHANGED hash
    BY DEF vars, hash
<1>2. Entries' = Entries
    BY <1>1, Stuttered
<1>3. Waiting' = Waiting
    BY <1>1 DEF Waiting
<1>4. Outstanding' = Outstanding /\ OnceEach' /\ AddKeys'
    BY <1>1, <1>3 DEF Outstanding, Orderly, Books, OnceEach, AddKeys, At
<1>5. Books'
    BY <1>1, <1>2, <1>4, BooksSame DEF Orderly
<1>6. OneBusy'
    BY <1>1 DEF Orderly, OneBusy, At
<1>7. freed' = 0 => SearchesOK'
    <2> SUFFICES ASSUME freed = 0  PROVE SearchesOK'
        BY <1>1
    <2>1. PICK p : Held(p) /\ \A t \in Thread : SearchOK(p, t)
        BY DEF Orderly, SearchesOK
    <2>2. table' = table /\ overflow' = overflow /\ ovf_free' = ovf_free
        BY <1>1 DEF hash
    <2>3. Starts' = Starts /\ Nexts' = Nexts /\ Used' = Used
        BY <2>2 DEF Starts, Nexts, Used
    <2>4. HasPaths(p)'
        BY <2>1, <2>3 DEF HasPaths, Held
    <2>5. Held(p)'
        BY <2>1, <2>2, <2>3, <2>4 DEF Held
    <2>6. ASSUME NEW t \in Thread  PROVE SearchOK(p, t)'
        <3>1. Mine(t)' = Mine(t) /\ MyCell(t)' = MyCell(t)
            BY <1>1, MineStays
        <3>2. \A j : PassedBy(p, t, j) => PassedBy(p, t, j)'
            BY <1>1, PassedStays
        <3>3. SearchOK(p, t)
            BY <2>1
        <3>4. QED
            BY <1>1, <1>2, <2>2, <2>3, <3>1, <3>2, <3>3 DEF SearchOK
    <2>7. QED
        BY <2>5, <2>6 DEF SearchesOK
<1>8. QED
    BY <1>1, <1>5, <1>6, <1>7 DEF Orderly

LEMMA OrderlyInit == ASSUME Init, IInv, Entries = {}  PROVE Orderly
<1>1. \A t \in Thread : pc[t] = "app" /\ save_reqs[t] = <<>>
    BY DEF Init
<1>2. OneBusy
    BY <1>1 DEF OneBusy, At
<1>3. Waiting = {}
    BY <1>1, EmptyRange DEF Waiting
<1>4. Outstanding = {} /\ refused = {} /\ mishaps = {}
    BY <1>3 DEF Outstanding, Init
<1>5. KeysOnce /\ AddKeys
    BY <1>4 DEF KeysOnce, AddKeys
<1>6. OnceEach
    BY <1>1, EmptySeq DEF OnceEach
<1>7. Books
    BY <1>4, <1>5, <1>6 DEF Books, Pending
<1>8. PICK p : Held(p)
    BY DEF IInv, TableOK
<1>9. \A t \in Thread : SearchOK(p, t)
    BY <1>1 DEF SearchOK
<1>10. QED
    BY <1>2, <1>4, <1>7, <1>8, <1>9 DEF Orderly, SearchesOK

(* Below MPI_THREAD_MULTIPLE, for any number of threads, requests and       *)
(* cells: as long as no active receive is freed the table holds the         *)
(* receives that are pending, a search finds the entry of its key when      *)
(* there is one, and what is traced is what was kept of that receive.       *)
THEOREM RecordsAlwaysOwn == Spec => []RecordsOwn
<1>1. Init => RInv
    BY Initially, OrderlyInit DEF RInv
<1>2. RInv /\ [Next]_vars => RInv'
    <2>1. ASSUME RInv, [Next]_vars  PROVE RInv'
        <3>1. IInv /\ IInv' /\ TableOK'
            BY <2>1, Inductive DEF RInv, IInv
        <3>2. ASSUME Level = "serialized"  PROVE Orderly'
            <4>1. Orderly
                BY <2>1, <3>2 DEF RInv
            <4>2. CASE Next
                BY <3>1, <3>2, <4>1, <4>2, OrderlyKept
            <4>3. CASE UNCHANGED vars
                BY <3>1, <4>1, <4>3, OrderlyStutters
            <4>4. QED
                BY <2>1, <4>2, <4>3
        <3>3. QED
            BY <3>1, <3>2 DEF RInv
    <2>2. QED
        BY <2>1
<1>3. RInv => RecordsOwn
    BY DEF RInv, Orderly, RecordsOwn
<1>4. QED
    BY <1>1, <1>2, <1>3, PTL DEF Spec
=============================================================================
