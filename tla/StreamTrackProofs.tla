---------------------------- MODULE StreamTrackProofs ----------------------------
(***************************************************************************)
(* What the proofs of the two reassemblers share: a sequence number stands *)
(* for one offset, and output that is put together, trimmed or skipped     *)
(* keeps every cell in its place and within max_buffer.                    *)
(***************************************************************************)
EXTENDS StreamTrack, FoldTheorems, FiniteSetTheorems

\* What a place in the output holds.
Cell == Nat \cup {Gap}

Candidate == [off : Int, pos : Nat, len : Nat, ts : Nat, missing : Nat]

\* A segment's bytes are those of the stream anchored at `a`, of length `n`.
Fits(c, a, n) == c \in Candidate /\ c.pos = a + c.off /\ a + End(c) <= n

\* Every cell of a piece of output that starts at position `from` is a gap or
\* the byte sent there.
Aligned(cells, from) == \A i \in DOMAIN cells : cells[i] \in {Gap, from + i - 1}

\* Cells that belong after what is ready.
Continues(q, cells, a, g) == q.stop = None => Aligned(cells, a + g + Len(q.ready))

\* Output in place of what is ready: `j` cells are owed after it, where `k` were.
Replaces(q, out, a, g, k, j) ==
  /\ Aligned(out, a + g)
  /\ Len(out) + j = Len(q.ready) + k
  /\ MaxBuffer # None => Held(out) <= MaxBuffer

------------------------------------------------------------------------------
(* Sequence numbers.                                                       *)

LEMMA Shifted ==
  ASSUME NEW g \in Int, NEW x \in Int, NEW j \in Int, NEW y \in Int, NEW k \in Int,
         x + j = y + k
  PROVE  g + x + j = g + y + k
  OBVIOUS

LEMMA DivMod ==
  ASSUME NEW x \in Int, NEW m \in Nat, m > 0
  PROVE  /\ x % m \in Int /\ 0 <= x % m /\ x % m < m
         /\ x \div m \in Int /\ x = m * (x \div m) + (x % m)
  OBVIOUS

LEMMA ModUnique ==
  ASSUME NEW q \in Int, NEW s \in Int, NEW m \in Nat, m > 0, 0 <= s, s < m
  PROVE  (m * q + s) % m = s
  OBVIOUS

\* A sequence number stands for one offset, however often the space wraps:
\* no two positions of the stream are half the space apart.
LEMMA OffsetIsPosition ==
  \A q : \A a, p \in Int :
    /\ q.next_off \in Int
    /\ q.next_seq = SeqOf(a + q.next_off)
    /\ p - (a + q.next_off) <= MaxLen + 1
    /\ (a + q.next_off) - p <= MaxLen + 1
    =>   OffsetOf(q, SeqOf(p)) = p - a
<1>ModSmall. ASSUME NEW s \in Int, NEW m \in Nat, m > 0, 0 <= s, s < m
             PROVE  s % m = s
  BY <1>ModSmall
\* The difference of two sequence numbers is that of the positions they stand
\* for, modulo the space.
<1>ModDifference. ASSUME NEW x \in Int, NEW y \in Int, NEW m \in Nat, m > 0
                  PROVE  ((x % m) - (y % m)) % m = (x - y) % m
  <2> USE <1>ModDifference
  <2> DEFINE u == x % m  v == y % m  z == u - v
  <2>1. PICK i \in Int, j \in Int : x = m * i + u /\ y = m * j + v
    BY DivMod
  <2>2. u \in Int /\ v \in Int /\ z \in Int
    BY DivMod
  <2> HIDE DEF u, v
  <2>3. PICK k \in Int : z = m * k + (z % m)
    BY <2>2, DivMod
  <2>4. z % m \in Int /\ 0 <= z % m /\ z % m < m
    BY <2>2, DivMod
  <2> DEFINE s == z % m
  <2>5. x - y = m * (i - j + k) + s
    <3>1. x - y = (m * i - m * j) + z
      BY <2>1, <2>2
    <3>2. m * i - m * j = m * (i - j) /\ m * (i - j) + m * k = m * (i - j + k)
      OBVIOUS
    <3>3. m * i \in Int /\ m * j \in Int /\ m * k \in Int /\ m * (i - j) \in Int
      OBVIOUS
    <3> QED BY <3>1, <3>2, <3>3, <2>3, <2>4
  <2> HIDE DEF s
  <2>6. (m * (i - j + k) + s) % m = s
    BY <2>4, ModUnique DEF s
  <2> QED
    BY <2>5, <2>6 DEF s, z, u, v
<1> SUFFICES ASSUME NEW q, NEW a \in Int, NEW p \in Int, q.next_off \in Int,
                    q.next_seq = SeqOf(a + q.next_off),
                    p - (a + q.next_off) <= MaxLen + 1, (a + q.next_off) - p <= MaxLen + 1
             PROVE  OffsetOf(q, SeqOf(p)) = p - a
  OBVIOUS
<1> DEFINE t == a + q.next_off
           d == (SeqOf(p) - q.next_seq) % SeqMod
<1>1. SeqMod \in Nat /\ SeqMod > 0 /\ Isn \in Int /\ MaxLen \in Nat /\ 2 * (MaxLen + 1) < SeqMod
  BY SpaceAssumption, LengthAssumption
<1>2. t \in Int /\ p - t <= MaxLen + 1 /\ t - p <= MaxLen + 1
  OBVIOUS
<1>3. d = (p - t) % SeqMod
  <2>1. d = (((Isn + p) % SeqMod) - ((Isn + t) % SeqMod)) % SeqMod
    BY DEF SeqOf
  <2>2. (((Isn + p) % SeqMod) - ((Isn + t) % SeqMod)) % SeqMod = ((Isn + p) - (Isn + t)) % SeqMod
    <3> DEFINE x == Isn + p  y == Isn + t
    <3>1. x \in Int /\ y \in Int
      BY <1>1, <1>2
    <3> HIDE DEF x, y
    <3>2. ((x % SeqMod) - (y % SeqMod)) % SeqMod = (x - y) % SeqMod
      BY <3>1, <1>1, <1>ModDifference
    <3> QED BY <3>2 DEF x, y
  <2>3. (Isn + p) - (Isn + t) = p - t
    <3> HIDE DEF t
    <3> QED BY <1>1, <1>2
  <2> QED BY <2>1, <2>2, <2>3
<1>4. CASE p >= t
  <2>1. d = p - t
    <3>1. p - t \in Int /\ 0 <= p - t /\ p - t < SeqMod
      BY <1>1, <1>2, <1>4
    <3> DEFINE z == p - t
    <3> HIDE DEF z
    <3>2. z % SeqMod = z
      BY <3>1, <1>1, <1>ModSmall DEF z
    <3> QED BY <3>2, <1>3 DEF z
  <2>2. OffsetOf(q, SeqOf(p)) = q.next_off + (IF 2 * d >= SeqMod THEN d - SeqMod ELSE d)
    BY DEF OffsetOf
  <2> HIDE DEF d
  <2>3. 2 * d < SeqMod /\ d \in Int
    BY <2>1, <1>1, <1>2, <1>4
  <2> QED BY <2>1, <2>2, <2>3, <1>1
<1>5. CASE p < t
  <2>1. d = p - t + SeqMod
    <3>1. (SeqMod * (-1) + (p - t + SeqMod)) % SeqMod = p - t + SeqMod
      <4>1. p - t + SeqMod \in Int /\ 0 <= p - t + SeqMod /\ p - t + SeqMod < SeqMod
        BY <1>1, <1>2, <1>5
      <4> HIDE DEF t
      <4> QED BY <4>1, <1>1, ModUnique
    <3>2. SeqMod * (-1) + (p - t + SeqMod) = p - t
      BY <1>1, <1>2
    <3> QED BY <3>1, <3>2, <1>3
  <2>2. OffsetOf(q, SeqOf(p)) = q.next_off + (IF 2 * d >= SeqMod THEN d - SeqMod ELSE d)
    BY DEF OffsetOf
  <2> HIDE DEF d
  <2>3. 2 * d >= SeqMod /\ d \in Int
    BY <2>1, <1>1, <1>2, <1>5
  <2> QED BY <2>1, <2>2, <2>3, <1>1
<1> QED
  BY <1>2, <1>4, <1>5

\* Moving along the stream moves the sequence number with the offset.
LEMMA SeqMoves ==
  ASSUME NEW x \in Int, NEW k \in Int
  PROVE  (SeqOf(x) + k) % SeqMod = SeqOf(x + k) /\ SeqOf(x) \in Int
<1> DEFINE m == SeqMod  y == Isn + x  u == y % m  z == u + k
<1>1. m \in Nat /\ m > 0 /\ y \in Int /\ Isn \in Int
  BY SpaceAssumption, LengthAssumption
<1> HIDE DEF m
<1>2. PICK i \in Int : y = m * i + u
  BY <1>1, DivMod
<1>3. u \in Int /\ z \in Int
  BY <1>1, DivMod
<1>4. PICK j \in Int : z = m * j + (z % m)
  BY <1>1, <1>3, DivMod
<1> DEFINE s == z % m
<1>5. s \in Int /\ 0 <= s /\ s < m
  BY <1>1, <1>3, DivMod
<1>6. y + k = m * (i + j) + s
  <2>1. m * i + m * j = m * (i + j) /\ m * i \in Int /\ m * j \in Int
    BY <1>1
  <2> HIDE DEF y, u, s
  <2>2. z = m * j + s
    BY <1>4 DEF s
  <2>3. y + k = m * i + z /\ y \in Int
    BY <1>1, <1>2, <1>3
  <2> HIDE DEF z
  <2> QED BY <2>1, <2>2, <2>3, <1>5
<1> HIDE DEF s
<1>7. (m * (i + j) + s) % m = s
  BY <1>1, <1>5, ModUnique
<1>8. Isn + (x + k) = y + k
  BY <1>1
<1> QED
  BY <1>3, <1>6, <1>7, <1>8 DEF SeqOf, s, z, u, m, y

------------------------------------------------------------------------------
(* Output.                                                                 *)

\* The cells of output that are bytes.
Solid(s) == {i \in DOMAIN s : s[i] # Gap}

LEMMA HeldOf ==
  ASSUME NEW s \in Seq(Cell)
  PROVE  IsFiniteSet(Solid(s)) /\ Held(s) = Cardinality(Solid(s))
         /\ Held(s) \in Nat /\ Held(s) <= Len(s)
<1>1. DOMAIN s = 1..Len(s) /\ Len(s) \in Nat
  BY SeqIs
<1>2. 1 \in Int /\ Len(s) \in Int
  BY <1>1
<1>3. IsFiniteSet(1..Len(s)) /\ Cardinality(1..Len(s)) = IF 1 > Len(s) THEN 0 ELSE Len(s) - 1 + 1
  BY <1>2, FS_Interval
<1>4. Solid(s) \in SUBSET (1..Len(s))
  BY <1>1 DEF Solid
<1>5. IsFiniteSet(Solid(s)) /\ Cardinality(Solid(s)) <= Cardinality(1..Len(s))
  BY <1>3, <1>4, FS_Subset
<1>6. Cardinality(Solid(s)) \in Nat
  BY <1>5, FS_CardinalityType
<1>7. Held(s) = Cardinality(Solid(s))
  BY DEF Held, Solid
<1> QED
  BY <1>1, <1>3, <1>5, <1>6, <1>7

\* Output put after output adds at most its bytes.
LEMMA HeldConcat ==
  ASSUME NEW s \in Seq(Cell), NEW t \in Seq(Cell)
  PROVE  s \o t \in Seq(Cell) /\ Held(s \o t) <= Held(s) + Held(t)
<1> DEFINE u == s \o t
           n == Len(s)
           L == {i \in Solid(u) : i <= n}
           R == {i \in Solid(u) : i > n}
           f == [i \in R |-> i - n]
<1>1. /\ u \in Seq(Cell) /\ n \in Nat /\ Len(t) \in Nat /\ DOMAIN u = 1..(n + Len(t))
      /\ DOMAIN s = 1..n /\ DOMAIN t = 1..Len(t)
      /\ \A i \in 1..(n + Len(t)) : u[i] = IF i <= n THEN s[i] ELSE t[i - n]
  BY JoinIs, SeqIs
<1> HIDE DEF u, n
<1>2. /\ IsFiniteSet(Solid(s)) /\ IsFiniteSet(Solid(t)) /\ IsFiniteSet(Solid(u))
      /\ Held(s) = Cardinality(Solid(s)) /\ Held(t) = Cardinality(Solid(t))
      /\ Held(u) = Cardinality(Solid(u))
  BY <1>1, HeldOf
<1>3. Solid(u) = L \cup R /\ L \cap R = {}
  BY <1>1 DEF Solid
<1>4. L \in SUBSET Solid(s)
  BY <1>1 DEF Solid
<1>5. IsFiniteSet(L) /\ Cardinality(L) <= Cardinality(Solid(s))
  BY <1>2, <1>4, FS_Subset
<1>6. f \in Injection(R, Solid(t))
  <2>1. \A i \in R : i \in Int /\ f[i] = i - n /\ i - n \in Solid(t)
    BY <1>1 DEF Solid
  <2>2. f \in [R -> Solid(t)]
    BY <2>1
  <2>3. \A i, j \in R : f[i] = f[j] => i = j
    BY <2>1, <1>1
  <2> HIDE DEF f, R
  <2> QED BY <2>2, <2>3 DEF Injection, IsInjective
<1>7. IsFiniteSet(R) /\ Cardinality(R) <= Cardinality(Solid(t))
  <2> HIDE DEF f, R
  <2> QED BY <1>2, <1>6, FS_Injection
<1> HIDE DEF L, R
<1>8. Cardinality(L \cup R) = Cardinality(L) + Cardinality(R) - Cardinality(L \cap R)
  BY <1>5, <1>7, FS_Union
<1>9. Cardinality(L \cap R) = 0
  BY <1>3, FS_EmptySet
<1>10. /\ Cardinality(L) \in Nat /\ Cardinality(R) \in Nat
       /\ Cardinality(Solid(s)) \in Nat /\ Cardinality(Solid(t)) \in Nat
  BY <1>2, <1>5, <1>7, FS_CardinalityType
<1>11. Held(u) <= Held(s) + Held(t)
  BY <1>2, <1>3, <1>5, <1>7, <1>8, <1>9, <1>10
<1> QED
  BY <1>1, <1>11 DEF u

LEMMA GapsHeld ==
  ASSUME NEW n \in Nat
  PROVE  Gaps(n) \in Seq(Cell) /\ Len(Gaps(n)) = n /\ Held(Gaps(n)) = 0
         /\ \A i \in 1..n : Gaps(n)[i] = Gap
<1>1. Gaps(n) \in [1..n -> Cell] /\ \A i \in 1..n : Gaps(n)[i] = Gap
  BY DEF Gaps, Cell
<1>2. Gaps(n) \in Seq(Cell) /\ Len(Gaps(n)) = n
  BY <1>1
<1>3. Solid(Gaps(n)) = {}
  BY <1>1 DEF Solid
<1> QED
  BY <1>1, <1>2, <1>3, HeldOf, FS_EmptySet

\* Output continued by output that belongs after it.
LEMMA AlignedConcat ==
  ASSUME NEW s \in Seq(Cell), NEW t \in Seq(Cell), NEW from \in Int,
         Aligned(s, from), Aligned(t, from + Len(s))
  PROVE  Aligned(s \o t, from) /\ s \o t \in Seq(Cell) /\ Len(s \o t) = Len(s) + Len(t)
<1> DEFINE u == s \o t
           n == Len(s)
           m == Len(t)
<1>1. /\ u \in Seq(Cell) /\ n \in Nat /\ m \in Nat /\ DOMAIN u = 1..(n + m) /\ Len(u) = n + m
      /\ DOMAIN s = 1..n /\ DOMAIN t = 1..m
      /\ \A i \in 1..(n + m) : u[i] = IF i <= n THEN s[i] ELSE t[i - n]
  BY JoinIs, SeqIs
<1>2. Aligned(t, from + n)
  OBVIOUS
<1> HIDE DEF u, n, m
<1>3. ASSUME NEW i \in 1..(n + m)
      PROVE  u[i] \in {Gap, from + i - 1}
  <2>1. CASE i <= n
    BY <2>1, <1>1 DEF Aligned
  <2>2. CASE i > n
    <3>1. i - n \in 1..m /\ u[i] = t[i - n]
      BY <2>2, <1>1
    <3>2. t[i - n] \in {Gap, (from + n) + (i - n) - 1}
      BY <3>1, <1>1, <1>2 DEF Aligned
    <3>3. (from + n) + (i - n) - 1 = from + i - 1
      BY <1>1
    <3> QED BY <3>1, <3>2, <3>3
  <2> QED BY <2>1, <2>2, <1>1
<1> QED
  BY <1>1, <1>3 DEF Aligned, u, n, m

LEMMA GapsAligned ==
  ASSUME NEW n \in Nat, NEW from
  PROVE  Aligned(Gaps(n), from)
  BY DEF Gaps, Aligned

\* append_with_cap and append_ready under SlidingWindow: the oldest bytes, and
\* what exceeds max_buffer by itself, become gaps.
LEMMA TrimmedOutput ==
  \A ready, cells \in Seq(Cell) : \A from \in Int :
    /\ MaxBuffer # None
    /\ Held(ready) + Len(cells) - MaxBuffer > 0
    /\ Aligned(ready, from)
    /\ Aligned(cells, from + Len(ready))
    => ( LET over == Held(ready) + Len(cells) - MaxBuffer
             extra == Most(Len(cells) - MaxBuffer, 0)
             out == DropFront(ready, over) \o Gaps(extra) \o SubSeq(cells, extra + 1, Len(cells))
         IN /\ out \in Seq(Cell) /\ Len(out) = Len(ready) + Len(cells)
            /\ Aligned(out, from) /\ Held(out) <= MaxBuffer )
\* drop_front keeps the length and takes away n bytes, or all of them.
<1>DropFrontHeld. ASSUME NEW s \in Seq(Cell), NEW n \in Nat
                  PROVE  LET d == DropFront(s, n)
                         IN /\ d \in Seq(Cell) /\ Len(d) = Len(s)
                            /\ \A i \in DOMAIN s : d[i] = Gap \/ d[i] = s[i]
                            /\ Held(d) <= Most(Held(s) - n, 0)
  <2> DEFINE d == DropFront(s, n)
             h == Held(s)
             pre(i) == SubSeq(s, 1, i)
             f == [i \in Solid(d) |-> Held(pre(i))]
             T == (n + 1)..h
  <2>1. DOMAIN s = 1..Len(s) /\ Len(s) \in Nat /\ \A i \in 1..Len(s) : s[i] \in Cell
    BY SeqIs, ElementIn
  <2>2. \A i \in DOMAIN s : d[i] = IF Held(pre(i)) <= n THEN Gap ELSE s[i]
    BY DEF DropFront
  <2>3. DOMAIN d = DOMAIN s /\ d \in [1..Len(s) -> Cell]
    <3>1. d = [i \in DOMAIN s |-> d[i]] /\ \A i \in DOMAIN s : d[i] \in Cell
      BY <2>1 DEF DropFront, Cell
    <3> QED BY <2>1, <3>1
  <2>4. d \in Seq(Cell) /\ Len(d) = Len(s)
    BY <2>1, <2>3
  <2> HIDE DEF d
  <2>5. ASSUME NEW i \in 1..Len(s)
        PROVE  /\ Solid(pre(i)) = {j \in Solid(s) : j <= i}
               /\ IsFiniteSet(Solid(pre(i))) /\ Held(pre(i)) = Cardinality(Solid(pre(i)))
               /\ Held(pre(i)) \in Nat /\ Held(pre(i)) <= h
    <3>1. \A j \in 1..i : s[j] \in Cell
      BY <2>1
    <3>2. /\ pre(i) \in Seq(Cell) /\ Len(pre(i)) = i
          /\ \A j \in 1..i : pre(i)[j] = s[j]
      <4>1. 1 \in Int /\ i \in Int /\ 1 <= i /\ i - 1 + 1 = i
        BY <2>1
      <4>2. /\ SubSeq(s, 1, i) \in Seq(Cell)
            /\ Len(SubSeq(s, 1, i)) = IF 1 <= i THEN i - 1 + 1 ELSE 0
            /\ \A j \in 1..(i - 1 + 1) : SubSeq(s, 1, i)[j] = s[1 + j - 1]
        BY <3>1, <4>1, PartIs
      <4>3. \A j \in 1..i : 1 + j - 1 = j
        BY <2>1
      <4> QED BY <4>1, <4>2, <4>3
    <3>3. DOMAIN pre(i) = 1..i
      BY <3>2, SeqIs
    <3> HIDE DEF pre
    <3>4. Solid(pre(i)) = {j \in Solid(s) : j <= i}
      BY <2>1, <3>2, <3>3 DEF Solid
    <3>5. /\ IsFiniteSet(Solid(pre(i))) /\ Held(pre(i)) = Cardinality(Solid(pre(i)))
          /\ Held(pre(i)) \in Nat
      BY <3>2, HeldOf
    <3>6. IsFiniteSet(Solid(s)) /\ h = Cardinality(Solid(s)) /\ Solid(pre(i)) \in SUBSET Solid(s)
      BY <3>4, HeldOf
    <3>7. Cardinality(Solid(pre(i))) <= Cardinality(Solid(s))
      BY <3>6, FS_Subset
    <3> QED BY <3>4, <3>5, <3>6, <3>7
  <2> HIDE DEF pre
  <2>6. ASSUME NEW i \in Solid(d)
        PROVE  i \in 1..Len(s) /\ s[i] # Gap /\ Held(pre(i)) > n
    <3>1. i \in 1..Len(s) /\ d[i] # Gap
      BY <2>1, <2>3 DEF Solid
    <3>2. ~(Held(pre(i)) <= n) /\ s[i] # Gap
      BY <3>1, <2>1, <2>2
    <3>3. Held(pre(i)) \in Nat
      BY <3>1, <2>5
    <3> QED BY <3>1, <3>2, <3>3
  <2>7. h \in Nat
    BY HeldOf
  <2>8. ASSUME NEW i \in Solid(d), NEW j \in Solid(d), i < j
        PROVE  Held(pre(i)) < Held(pre(j))
    <3>1. i \in 1..Len(s) /\ j \in 1..Len(s) /\ s[j] # Gap
      BY <2>6
    <3>2. Solid(pre(i)) \in SUBSET Solid(pre(j)) /\ Solid(pre(i)) # Solid(pre(j))
      <4>1. /\ Solid(pre(i)) = {x \in Solid(s) : x <= i}
            /\ Solid(pre(j)) = {x \in Solid(s) : x <= j}
        BY <3>1, <2>5
      <4>2. \A x \in Solid(s) : x \in Int
        BY <2>1 DEF Solid
      <4>3. j \in Solid(s) /\ i \in Int /\ j \in Int /\ i < j
        BY <3>1, <2>1, <2>8 DEF Solid
      <4>4. \A x \in Solid(s) : x <= i => x <= j
        BY <4>2, <4>3
      <4>5. j \in {x \in Solid(s) : x <= j} /\ j \notin {x \in Solid(s) : x <= i}
        BY <4>3
      <4> QED BY <4>1, <4>4, <4>5
    <3>3. /\ Cardinality(Solid(pre(i))) <= Cardinality(Solid(pre(j)))
          /\ Cardinality(Solid(pre(i))) # Cardinality(Solid(pre(j)))
      BY <3>1, <3>2, <2>5, FS_Subset
    <3>4. /\ Held(pre(i)) \in Nat /\ Held(pre(j)) \in Nat
          /\ Held(pre(i)) = Cardinality(Solid(pre(i))) /\ Held(pre(j)) = Cardinality(Solid(pre(j)))
      BY <3>1, <2>5
    <3> QED BY <3>3, <3>4
  <2>9. f \in Injection(Solid(d), T)
    <3>1. \A i \in Solid(d) : f[i] = Held(pre(i)) /\ f[i] \in T
      BY <2>5, <2>6, <2>7
    <3>2. f \in [Solid(d) -> T]
      BY <3>1
    <3>3. ASSUME NEW i \in Solid(d), NEW j \in Solid(d), i # j
          PROVE  f[i] # f[j]
      <4>1. i < j \/ j < i
        BY <2>1, <2>6, <3>3
      <4>2. f[i] \in Int /\ f[j] \in Int
        BY <3>1, <2>7
      <4> QED BY <4>1, <4>2, <3>1, <2>8
    <3> HIDE DEF f, T
    <3> QED BY <3>2, <3>3 DEF Injection, IsInjective
  <2>10. IsFiniteSet(T) /\ Cardinality(T) = Most(h - n, 0)
    <3>1. n + 1 \in Int /\ h \in Int
      BY <2>7
    <3>2. IsFiniteSet(T) /\ Cardinality(T) = IF n + 1 > h THEN 0 ELSE h - (n + 1) + 1
      BY <3>1, FS_Interval
    <3> QED BY <3>2, <2>7 DEF Most
  <2>11. Cardinality(Solid(d)) <= Cardinality(T)
    <3> HIDE DEF f, T
    <3> QED BY <2>9, <2>10, FS_Injection
  <2>12. Held(d) = Cardinality(Solid(d))
    BY <2>4, HeldOf
  <2> QED
    BY <2>2, <2>4, <2>10, <2>11, <2>12 DEF d
<1>JoinedCells. \A x, y, z \in Seq(Cell) : (x \o y) \o z = x \o (y \o z)
    BY JoinAgain
<1> SUFFICES ASSUME NEW ready \in Seq(Cell), NEW cells \in Seq(Cell), MaxBuffer # None,
                    Held(ready) + Len(cells) - MaxBuffer > 0,
                    NEW from \in Int, Aligned(ready, from), Aligned(cells, from + Len(ready))
             PROVE  LET over == Held(ready) + Len(cells) - MaxBuffer
                        extra == Most(Len(cells) - MaxBuffer, 0)
                        out == DropFront(ready, over) \o Gaps(extra) \o SubSeq(cells, extra + 1, Len(cells))
                    IN /\ out \in Seq(Cell) /\ Len(out) = Len(ready) + Len(cells)
                       /\ Aligned(out, from) /\ Held(out) <= MaxBuffer
  OBVIOUS
<1> DEFINE L == Len(cells)
           over == Held(ready) + Len(cells) - MaxBuffer
           extra == Most(Len(cells) - MaxBuffer, 0)
           d == DropFront(ready, over)
           e == Gaps(extra)
           c == SubSeq(cells, extra + 1, Len(cells))
           out == d \o e \o c
<1>0. /\ L \in Nat /\ Len(ready) \in Nat /\ Held(ready) \in Nat /\ Aligned(ready, from)
      /\ Aligned(cells, from + Len(ready)) /\ from \in Int
  BY SeqIs, HeldOf
<1>1. MaxBuffer \in Nat /\ over \in Nat /\ extra \in Nat /\ extra <= L
      /\ (L <= MaxBuffer => extra = 0 /\ over <= Held(ready))
      /\ (L > MaxBuffer => extra = L - MaxBuffer /\ over > Held(ready))
  BY <1>0, BufferAssumption DEF Most
<1>2. over = Held(ready) + L - MaxBuffer
  OBVIOUS
<1> HIDE DEF over, extra
<1>3. /\ d \in Seq(Cell) /\ Len(d) = Len(ready) /\ Held(d) <= Most(Held(ready) - over, 0)
      /\ \A i \in DOMAIN ready : d[i] = Gap \/ d[i] = ready[i]
  <2> QED BY <1>0, <1>1, <1>DropFrontHeld
<1>4. /\ e \in Seq(Cell) /\ Len(e) = extra /\ Held(e) = 0
      /\ \A i \in 1..extra : e[i] = Gap
  <2> QED BY <1>1, GapsHeld
<1>5. /\ c \in Seq(Cell) /\ Len(c) = L - extra
      /\ \A i \in 1..(L - extra) : c[i] = cells[extra + i]
  <2>1. extra + 1 \in Int /\ L \in Int /\ \A i \in (extra + 1)..L : cells[i] \in Cell
    BY <1>0, <1>1, ElementIn
  <2> DEFINE m == extra + 1
  <2>2. m \in Int /\ \A i \in m..L : cells[i] \in Cell
    BY <2>1
  <2> HIDE DEF m, L
  <2>3. /\ SubSeq(cells, m, L) \in Seq(Cell)
        /\ Len(SubSeq(cells, m, L)) = IF m <= L THEN L - m + 1 ELSE 0
        /\ \A i \in 1..(L - m + 1) : SubSeq(cells, m, L)[i] = cells[m + i - 1]
    BY <2>1, <2>2, PartIs
  <2>4. L - m + 1 = L - extra /\ (~(m <= L) => L - extra = 0)
        /\ \A i \in 1..(L - extra) : m + i - 1 = extra + i
    BY <1>1, <2>1 DEF m
  <2>5. Len(SubSeq(cells, m, L)) = L - extra
    BY <2>3, <2>4
  <2> QED BY <2>3, <2>4, <2>5 DEF m, L
<1> HIDE DEF d, e, c, out
<1>6. Aligned(d, from)
  BY <1>0, <1>3, SeqIs DEF Aligned
<1>7. Aligned(e \o c, from + Len(ready)) /\ e \o c \in Seq(Cell) /\ Len(e \o c) = L
  <2>1. Aligned(cells, from + Len(ready)) /\ DOMAIN cells = 1..L /\ DOMAIN c = 1..(L - extra)
        /\ DOMAIN e = 1..extra
    BY <1>0, <1>4, <1>5, SeqIs
  <2> DEFINE f == from + Len(ready)
  <2>2. f \in Int
    BY <1>0
  <2>3. Aligned(cells, f)
    BY <2>1
  <2> HIDE DEF f, L
  <2>4. Aligned(e, f)
    BY <1>4, <2>1 DEF Aligned
  <2>5. ASSUME NEW i \in DOMAIN c
        PROVE  c[i] \in {Gap, (f + extra) + i - 1}
    <3>1. i \in 1..(L - extra) /\ extra + i \in 1..L
      BY <2>1, <1>1, <1>0
    <3>2. cells[extra + i] \in {Gap, f + (extra + i) - 1}
      BY <2>1, <2>3, <3>1 DEF Aligned
    <3>3. f + (extra + i) - 1 = (f + extra) + i - 1
      BY <2>2, <1>1, <3>1
    <3> QED BY <3>1, <3>2, <3>3, <1>5
  <2>6. Aligned(c, f + Len(e))
    BY <2>5, <1>4 DEF Aligned
  <2>7. Aligned(e \o c, f) /\ e \o c \in Seq(Cell) /\ Len(e \o c) = Len(e) + Len(c)
    BY <2>2, <2>4, <2>6, <1>4, <1>5, AlignedConcat
  <2>8. Len(e) + Len(c) = L
    BY <1>1, <1>4, <1>5, <1>0
  <2> QED BY <2>7, <2>8 DEF f
<1>8. out = d \o (e \o c)
  <2>1. (d \o e) \o c = d \o (e \o c)
    <3>1. d \in Seq(Cell)
      BY <1>3
    <3>2. e \in Seq(Cell)
      BY <1>4
    <3>3. c \in Seq(Cell)
      BY <1>5
    <3> QED BY ONLY Zenon, <3>1, <3>2, <3>3, <1>JoinedCells
  <2> QED BY <2>1 DEF out
<1>9. out \in Seq(Cell) /\ Len(out) = Len(ready) + L /\ Aligned(out, from)
  <2> DEFINE f == from  t == e \o c
  <2>0. f \in Int
    OBVIOUS
  <2>1. Aligned(t, f + Len(d)) /\ Aligned(d, f)
    BY <1>3, <1>6, <1>7
  <2>3. t \in Seq(Cell) /\ Len(t) = L /\ out = d \o t
    BY <1>7, <1>8
  <2> HIDE DEF f, t
  <2>2. Aligned(d \o t, f) /\ d \o t \in Seq(Cell) /\ Len(d \o t) = Len(d) + Len(t)
    BY <1>3, <2>0, <2>1, <2>3, AlignedConcat
  <2> QED BY <1>3, <2>2, <2>3 DEF f
<1>10. Held(out) <= MaxBuffer
  <2>1. Held(e \o c) <= Held(e) + Held(c) /\ Held(out) <= Held(d) + Held(e \o c)
    <3> QED BY <1>3, <1>4, <1>5, <1>7, <1>8, HeldConcat
  <2>2. /\ Held(c) <= L - extra /\ Held(c) \in Nat /\ Held(d) \in Nat
        /\ Held(out) \in Nat /\ Held(e \o c) \in Nat
    BY <1>3, <1>5, <1>7, <1>9, HeldOf
  <2> HIDE DEF L
  <2>3. CASE L <= MaxBuffer
    <3>1. over = Held(ready) + L - MaxBuffer
      BY <1>2
    <3>2. Held(d) <= MaxBuffer - L
      <4> DEFINE h == Held(ready)  x == Held(d)
      <4>1. /\ h \in Nat /\ x \in Nat /\ over = h + L - MaxBuffer
            /\ x <= Most(h - over, 0) /\ L \in Nat /\ MaxBuffer \in Nat
        BY <1>0, <1>1, <1>3, <2>2, <3>1
      <4> HIDE DEF h, x
      <4>2. h - over = MaxBuffer - L
        BY <4>1
      <4>3. x <= MaxBuffer - L
        BY <2>3, <4>1, <4>2 DEF Most
      <4> QED BY <4>3 DEF x
    <3> QED BY <3>2, <2>1, <2>2, <2>3, <1>1, <1>4, <1>0
  <2>4. CASE L > MaxBuffer
    <3>1. Held(d) <= 0
      BY <2>2, <2>4, <1>1, <1>3, <1>0 DEF Most
    <3> QED BY <3>1, <2>1, <2>2, <2>4, <1>1, <1>4, <1>0
  <2> QED BY <2>3, <2>4, <1>1, <1>0
<1> QED
  BY <1>9, <1>10 DEF out, d, e, c, over, extra

\* What a candidate that fits says of the stream.
LEMMA FitsTypes ==
  ASSUME NEW a \in Nat, NEW n \in Nat, NEW c, Fits(c, a, n)
  PROVE  /\ c.off \in Int /\ c.len \in Nat /\ End(c) \in Int
         /\ a + c.off <= n /\ a + End(c) <= n
  BY DEF Fits, Candidate, End

\* The front of a concatenation.
LEMMA PrefixOfConcat ==
  ASSUME NEW S, NEW u \in Seq(S), NEW v \in Seq(S)
  PROVE  SubSeq(u \o v, 1, Len(u)) = u
<1> DEFINE w == u \o v
           l == Len(u)
<1>1. l \in Nat /\ Len(v) \in Nat
  BY SeqIs
<1>2. \A i \in 1..l : w[i] = u[i] /\ u[i] \in S
  BY <1>1, JoinIs, ElementIn
<1> HIDE DEF w
<1>3. /\ SubSeq(w, 1, l) \in Seq(S)
      /\ Len(SubSeq(w, 1, l)) = IF 1 <= l THEN l - 1 + 1 ELSE 0
      /\ \A i \in 1..(l - 1 + 1) : SubSeq(w, 1, l)[i] = w[1 + i - 1]
  BY <1>1, <1>2, PartIs
<1>4. Len(SubSeq(w, 1, l)) = l /\ \A i \in 1..l : SubSeq(w, 1, l)[i] = u[i]
  BY <1>1, <1>2, <1>3
<1> QED
  BY <1>3, <1>4, SameElements DEF w

==============================================================================
