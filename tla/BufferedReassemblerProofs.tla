---------------------- MODULE BufferedReassemblerProofs ----------------------
(***************************************************************************)
(* What BufferedReassembler promises, for every stream, buffer size,       *)
(* window and sequence space: it implements the byte stream of its         *)
(* consumer, and never buffers more than max_buffer.                       *)
(***************************************************************************)
EXTENDS BufferedReassembler, StreamTrackProofs

Reassembler ==
  [policy : Policies, anchored : BOOLEAN, next_seq : Int, next_off : Nat, evidence : Nat,
   evidence_since : Nat \cup {None}, fin_off : Int \cup {None},
   oow : Candidate \cup {None}, reorder : Candidate \cup {None},
   ready : Seq(Cell), stop : {None, "Overflow", "Memcap"}]

\* A reassembler anchored at position `a` of a stream of `n` bytes, whose
\* consumer has `g` cells: what it holds belongs where it says, and what is
\* ready continues what was taken, up to `k` cells before the stream position.
\* Only a stopped reassembler's output ends short of that.
Owing(q, a, g, n, k) ==
  /\ q \in Reassembler
  /\ q.anchored
  /\ a + q.next_off <= n
  /\ q.next_seq = SeqOf(a + q.next_off)
  /\ a + q.evidence <= n
  /\ q.fin_off # None => a + q.fin_off = n
  /\ q.oow # None => Fits(q.oow, a, n)
  /\ q.reorder # None => Fits(q.reorder, a, n)
  /\ Aligned(q.ready, a + g)
  /\ g + Len(q.ready) + k <= q.next_off
  /\ q.stop = None => g + Len(q.ready) + k = q.next_off
  /\ MaxBuffer # None => Held(q.ready) <= MaxBuffer

\* In the middle of a call a reassembler may owe cells, between calls none.
Good(q, a, g, n) == Owing(q, a, g, n, 0)

\* A reassembler that saw no sequence number yet.
Fresh(q) ==
  /\ q \in Reassembler
  /\ ~q.anchored
  /\ q.next_off = 0 /\ q.evidence = 0 /\ q.evidence_since = None /\ q.fin_off = None
  /\ q.oow = None /\ q.reorder = None /\ q.ready = <<>>

ReassemblerInv ==
  /\ total \in 0..MaxLen
  /\ taken \in Seq(Cell)
  /\ IF r.anchored THEN anchor \in 0..total /\ Good(r, anchor, Len(taken), total)
     ELSE anchor = None /\ taken = <<>> /\ Fresh(r)

------------------------------------------------------------------------------
(* Steps of a call.                                                        *)

\* The bytes of a segment are where they were sent.
LEMMA BytesAligned ==
  ASSUME NEW pos \in Nat, NEW len \in Nat
  PROVE  /\ Bytes(pos, len) \in Seq(Cell) /\ Len(Bytes(pos, len)) = len
         /\ Aligned(Bytes(pos, len), pos)
<1>1. \A i \in 1..len : pos + i - 1 \in Nat
  OBVIOUS
<1>2. Bytes(pos, len) \in [1..len -> Cell]
  BY <1>1 DEF Bytes, Cell
<1>3. Bytes(pos, len) \in Seq(Cell) /\ Len(Bytes(pos, len)) = len
  BY <1>2
<1> QED
  BY <1>3 DEF Bytes, Aligned

Alike(q, s) ==
  s.policy = q.policy /\ s.oow = q.oow /\ s.reorder = q.reorder /\ s.stop = q.stop
  /\ s.evidence = q.evidence /\ s.anchored = q.anchored

LEMMA AdvanceOwes ==
  ASSUME NEW a \in Nat, NEW g \in Nat, NEW n \in Nat, NEW k \in Int, NEW q,
         Owing(q, a, g, n, k), NEW to \in Int, to > q.next_off, a + to <= n,
         NEW j \in Int, j = k + (to - q.next_off)
  PROVE  LET s == AdvanceTo(q, to)
         IN /\ Owing(s, a, g, n, j)
            /\ s.next_off = to /\ s.ready = q.ready /\ Alike(q, s)
<1> DEFINE s == AdvanceTo(q, to)
           since == IF q.evidence <= to THEN None ELSE q.evidence_since
           seq == (q.next_seq + to - q.next_off) % SeqMod
<1>1. q \in Reassembler /\ q.next_off \in Nat /\ q.next_seq = SeqOf(a + q.next_off)
  BY DEF Owing, Reassembler
<1>2. s = [q EXCEPT !.next_off = to, !.next_seq = seq, !.evidence_since = since]
  BY <1>1 DEF AdvanceTo
<1>3. seq = SeqOf(a + to) /\ seq \in Int
  <2>1. /\ (SeqOf(a + q.next_off) + (to - q.next_off)) % SeqMod
             = SeqOf((a + q.next_off) + (to - q.next_off))
        /\ SeqOf(a + q.next_off) \in Int
    <3>1. a + q.next_off \in Int /\ to - q.next_off \in Int
      BY <1>1
    <3> QED BY <3>1, SeqMoves
  <2>2. (a + q.next_off) + (to - q.next_off) = a + to
    BY <1>1
  <2>3. q.next_seq + to - q.next_off = SeqOf(a + q.next_off) + (to - q.next_off)
    BY <1>1, <2>1
  <2>4. SeqOf(a + to) \in Int
    <3>1. a + to \in Int /\ 0 \in Int
      OBVIOUS
    <3> QED BY <3>1, SeqMoves
  <2> QED BY <2>1, <2>2, <2>3, <2>4
<1>4. since \in Nat \cup {None} /\ to \in Nat
  BY <1>1 DEF Reassembler
<1> HIDE DEF since, seq
<1>5. /\ s \in Reassembler /\ s.next_off = to /\ s.next_seq = seq /\ s.ready = q.ready
      /\ s.fin_off = q.fin_off /\ Alike(q, s)
  BY ZenonT(60), <1>1, <1>2, <1>3, <1>4 DEF Reassembler, Alike
<1> HIDE DEF s
<1>6. Len(q.ready) \in Nat
  BY <1>1, SeqIs DEF Reassembler
<1>7. g + Len(q.ready) + j = (g + Len(q.ready) + k) + (to - q.next_off)
  <2> DEFINE x == q.next_off  l == Len(q.ready)
  <2>1. x \in Int /\ l \in Int /\ j = k + (to - x)
    BY <1>1, <1>6
  <2> HIDE DEF x, l
  <2>2. g + l + j = (g + l + k) + (to - x)
    BY <2>1
  <2> QED BY <2>2 DEF x, l
<1>8. /\ s.anchored /\ a + s.next_off <= n /\ s.next_seq = SeqOf(a + s.next_off)
      /\ a + s.evidence <= n
  BY <1>3, <1>5 DEF Owing, Alike
<1>9. /\ (s.fin_off # None => a + s.fin_off = n) /\ (s.oow # None => Fits(s.oow, a, n))
      /\ (s.reorder # None => Fits(s.reorder, a, n)) /\ Aligned(s.ready, a + g)
      /\ (MaxBuffer # None => Held(s.ready) <= MaxBuffer)
  BY <1>5 DEF Owing, Alike
<1>10. /\ g + Len(s.ready) + j <= s.next_off
       /\ s.stop = None => g + Len(s.ready) + j = s.next_off
  <2> DEFINE x == q.next_off  y == g + Len(q.ready) + k  z == g + Len(q.ready) + j
  <2>1. x \in Int /\ y \in Int /\ y <= x /\ (q.stop = None => y = x) /\ z = y + (to - x)
    BY <1>1, <1>6, <1>7 DEF Owing
  <2> HIDE DEF x, y, z
  <2>2. z <= to /\ (q.stop = None => z = to)
    BY <2>1
  <2> QED BY <1>5, <2>2 DEF z, Alike
<1>11. Owing(s, a, g, n, j)
  BY <1>5, <1>8, <1>9, <1>10 DEF Owing
<1> QED
  BY <1>5, <1>11 DEF s

\* Other output that fits, with j cells still owed.
LEMMA RefillOwes ==
  ASSUME NEW a \in Nat, NEW g \in Nat, NEW n \in Nat, NEW k \in Int, NEW q,
         Owing(q, a, g, n, k), NEW out \in Seq(Cell), NEW j \in Int,
         Replaces(q, out, a, g, k, j), NEW s, s = [q EXCEPT !.ready = out]
  PROVE  /\ Owing(s, a, g, n, j)
         /\ s.next_off = q.next_off /\ s.ready = out /\ Alike(q, s)
<1>1. /\ q \in Reassembler /\ q.next_off \in Nat
  BY DEF Owing, Reassembler
<1>2. /\ s \in Reassembler /\ s.next_off = q.next_off /\ s.next_seq = q.next_seq
      /\ s.ready = out /\ s.fin_off = q.fin_off /\ Alike(q, s)
  BY <1>1 DEF Reassembler, Alike
<1>3. Len(q.ready) \in Nat /\ Len(out) \in Nat
  BY <1>1, SeqIs DEF Reassembler
<1> DEFINE lo == Len(out)  lr == Len(q.ready)
<1>4. lo + j = lr + k /\ lo \in Nat /\ lr \in Nat
  BY <1>3 DEF Replaces
<1> HIDE DEF lo, lr
<1>5. g + lo + j = g + lr + k
  BY <1>4, Shifted
<1>6. g + Len(out) + j = g + Len(q.ready) + k
  BY <1>5 DEF lo, lr
<1>7. Aligned(out, a + g) /\ (MaxBuffer # None => Held(out) <= MaxBuffer)
  BY DEF Replaces
<1> QED
  BY <1>1, <1>2, <1>3, <1>6, <1>7 DEF Owing, Alike

\* skip_to: the hole becomes a gap.
LEMMA SkipToGood ==
  ASSUME NEW a \in Nat, NEW g \in Nat, NEW n \in Nat, NEW q, Good(q, a, g, n),
         NEW to \in Int, a + to <= n
  PROVE  LET s == SkipTo(q, to)
         IN /\ Good(s, a, g, n) /\ Alike(q, s)
            /\ s.next_off \in Nat /\ q.next_off \in Nat
            /\ s.next_off >= q.next_off /\ s.next_off >= to
<1>1. q \in Reassembler /\ q.next_off \in Nat /\ q.ready \in Seq(Cell) /\ Owing(q, a, g, n, 0)
  BY DEF Good, Owing, Reassembler
<1>2. CASE to <= q.next_off
  BY <1>1, <1>2 DEF SkipTo, Alike
<1>3. CASE to > q.next_off
  <2> DEFINE j == to - q.next_off
             out == q.ready \o Gaps(j)
             p == [q EXCEPT !.ready = out]
  <2>1. j \in Nat /\ Len(q.ready) \in Nat /\ Held(q.ready) \in Nat
    BY <1>1, <1>3, SeqIs, HeldOf
  <2> HIDE DEF j
  <2>2. Gaps(j) \in Seq(Cell) /\ Len(Gaps(j)) = j /\ Held(Gaps(j)) = 0
    BY <2>1, GapsHeld
  <2> DEFINE f == a + g
  <2>3. f \in Int /\ Aligned(q.ready, f)
    <3>1. f \in Int
      OBVIOUS
    <3>2. Aligned(q.ready, f)
      BY <1>1 DEF Owing
    <3> QED BY <3>1, <3>2
  <2>4. out \in Seq(Cell) /\ Len(out) = Len(q.ready) + j /\ Aligned(out, f)
    <3> HIDE DEF f
    <3>1. Aligned(Gaps(j), f + Len(q.ready))
      BY <2>1, GapsAligned
    <3>2. Aligned(out, f) /\ out \in Seq(Cell) /\ Len(out) = Len(q.ready) + Len(Gaps(j))
      BY <1>1, <2>2, <2>3, <3>1, AlignedConcat
    <3> QED BY <2>2, <3>2
  <2>5. MaxBuffer # None => Held(out) <= MaxBuffer
    <3>1. Held(out) <= Held(q.ready) + 0 /\ Held(out) \in Nat
      BY <1>1, <2>2, <2>4, HeldConcat, HeldOf
    <3> QED BY <3>1, <2>1, <1>1, BufferAssumption DEF Owing
  <2> HIDE DEF out
  <2> DEFINE d == 0 - j
  <2>6. /\ Owing(p, a, g, n, d) /\ p.next_off = q.next_off /\ Alike(q, p)
    <3> DEFINE z == 0  lo == Len(out)  lr == Len(q.ready)
    <3>1. lo = lr + j /\ lr \in Nat /\ j \in Nat
      BY <2>1, <2>4
    <3> HIDE DEF lo, lr
    <3>2. d \in Int /\ z \in Int /\ lo + d = lr + z
      BY <3>1
    <3>3. Owing(q, a, g, n, z)
      BY <1>1
    <3>4. Replaces(q, out, a, g, z, d) /\ out \in Seq(Cell)
      BY <2>4, <2>5, <3>2 DEF lo, lr, Replaces
    <3>5. p = [q EXCEPT !.ready = out]
      OBVIOUS
    <3> HIDE DEF d, z, p
    <3> QED BY <3>2, <3>3, <3>4, <3>5, RefillOwes
  <2> HIDE DEF p
  <2> DEFINE s == AdvanceTo(p, to)
  <2>7. Owing(s, a, g, n, 0) /\ s.next_off = to /\ Alike(p, s)
    <3>1. d \in Int /\ to > p.next_off /\ 0 = d + (to - p.next_off)
      BY <1>1, <1>3, <2>1, <2>6 DEF j
    <3> HIDE DEF d
    <3> QED BY <2>6, <3>1, AdvanceOwes
  <2>9. s = SkipTo(q, to)
    BY <1>1, <1>3 DEF SkipTo, p, out, j
  <2> HIDE DEF s
  <2>10. to \in Nat
    BY <1>1, <1>3
  <2> QED BY <1>1, <1>3, <2>6, <2>7, <2>9, <2>10 DEF Good, Alike
<1> QED
  BY <1>1, <1>2, <1>3

\* append_with_cap: the cells owed are buffered, or trimmed, or the flow stops.
LEMMA AppendGood ==
  ASSUME NEW a \in Nat, NEW g \in Nat, NEW n \in Nat, NEW q, NEW cells \in Seq(Cell),
         Owing(q, a, g, n, Len(cells)), Continues(q, cells, a, g)
  PROVE  LET s == AppendWithCap(q, cells)
         IN Good(s, a, g, n) /\ s.next_off = q.next_off
<1> DEFINE L == Len(cells)
           s == AppendWithCap(q, cells)
           over == Held(q.ready) + Len(cells) - MaxBuffer
           extra == Most(Len(cells) - MaxBuffer, 0)
<1>0. q.stop = None => Aligned(cells, a + g + Len(q.ready))
  BY DEF Continues
<1>1. /\ q \in Reassembler /\ q.next_off \in Nat /\ q.ready \in Seq(Cell) /\ L \in Nat
      /\ Len(q.ready) \in Nat /\ Held(q.ready) \in Nat /\ Aligned(q.ready, a + g)
  BY SeqIs, HeldOf DEF Owing, Reassembler
<1>2. Held(cells) \in Nat /\ Held(cells) <= L
  BY HeldOf
<1>3. CASE q.stop # None \/ cells = <<>>
  <2>1. s = q
    BY <1>3 DEF AppendWithCap
  <2>2. Owing(q, a, g, n, L)
    OBVIOUS
  <2>3. q.stop = None => L = 0
    BY <1>3
  <2> HIDE DEF L
  <2>4. /\ g + Len(q.ready) + L <= q.next_off
        /\ q.stop = None => g + Len(q.ready) + L = q.next_off
    BY <2>2 DEF Owing
  <2>5. /\ g + Len(q.ready) + 0 <= q.next_off
        /\ q.stop = None => g + Len(q.ready) + 0 = q.next_off
    BY <1>1, <2>3, <2>4
  <2>6. Owing(q, a, g, n, 0)
    BY <2>2, <2>5 DEF Owing
  <2> QED BY <2>1, <2>6 DEF Good
<1>4. CASE q.stop = None /\ cells # <<>> /\ (MaxBuffer = None \/ (MaxBuffer # None /\ over <= 0))
  <2> DEFINE out == q.ready \o cells
  <2>1. s = [q EXCEPT !.ready = out]
    BY <1>4 DEF AppendWithCap
  <2>2. out \in Seq(Cell) /\ Len(out) = Len(q.ready) + L /\ Aligned(out, a + g)
    <3> DEFINE f == a + g
    <3>0. f \in Int
      OBVIOUS
    <3>1. Aligned(cells, f + Len(q.ready)) /\ Aligned(q.ready, f)
      BY <1>0, <1>1, <1>4
    <3> HIDE DEF f
    <3>2. Aligned(out, f) /\ out \in Seq(Cell) /\ Len(out) = Len(q.ready) + Len(cells)
      BY <1>1, <3>0, <3>1, AlignedConcat
    <3> QED BY <3>2 DEF f
  <2>3. MaxBuffer # None => Held(out) <= MaxBuffer
    <3>1. Held(out) <= Held(q.ready) + Held(cells) /\ Held(out) \in Nat
      BY <1>1, <2>2, HeldConcat, HeldOf
    <3> HIDE DEF out
    <3> QED BY <3>1, <1>1, <1>2, <1>4, BufferAssumption
  <2> HIDE DEF out
  <2>4. Owing([q EXCEPT !.ready = out], a, g, n, 0)
        /\ [q EXCEPT !.ready = out].next_off = q.next_off
    <3> DEFINE z == 0
    <3>1. /\ Owing(q, a, g, n, L) /\ L \in Int /\ z \in Int
          /\ Len(out) + z = Len(q.ready) + L
      BY <1>1, <2>2, <2>3
    <3> DEFINE t == [q EXCEPT !.ready = out]
    <3>2. Replaces(q, out, a, g, L, z) /\ out \in Seq(Cell)
      BY <2>2, <2>3, <3>1 DEF Replaces
    <3>3. t = [q EXCEPT !.ready = out]
      OBVIOUS
    <3> HIDE DEF L, z, t
    <3>4. Owing(t, a, g, n, z) /\ t.next_off = q.next_off
      BY <3>1, <3>2, <3>3, RefillOwes
    <3> QED BY <3>4 DEF z, t
  <2> QED BY <2>1, <2>4 DEF Good
<1>5. CASE /\ q.stop = None /\ cells # <<>> /\ MaxBuffer # None /\ over > 0
           /\ q.policy = "DropFlow"
  <2>1. s = [q EXCEPT !.stop = "Overflow", !.reorder = None, !.oow = None]
    <3>1. ~(over <= 0)
      BY <1>1, <1>5, BufferAssumption
    <3> HIDE DEF over
    <3> QED BY <3>1, <1>5 DEF AppendWithCap, over
  <2>2. /\ s \in Reassembler /\ s.next_off = q.next_off /\ s.next_seq = q.next_seq
        /\ s.ready = q.ready /\ s.fin_off = q.fin_off /\ s.evidence = q.evidence
        /\ s.anchored = q.anchored /\ s.oow = None /\ s.reorder = None /\ s.stop = "Overflow"
    BY <1>1, <2>1 DEF Reassembler
  <2>3. "Overflow" # None
    BY StopAssumption
  <2> QED BY <1>1, <2>2, <2>3 DEF Good, Owing
<1>6. CASE /\ q.stop = None /\ cells # <<>> /\ MaxBuffer # None /\ over > 0
           /\ q.policy # "DropFlow"
  <2> DEFINE out == DropFront(q.ready, over) \o Gaps(extra)
                      \o SubSeq(cells, extra + 1, Len(cells))
  <2>2. s = [q EXCEPT !.ready = out]
    <3>1. ~(over <= 0)
      BY <1>1, <1>6, BufferAssumption
    <3> QED BY <3>1, <1>6 DEF AppendWithCap
  <2>9. out \in Seq(Cell) /\ Len(out) = Len(q.ready) + L /\ Aligned(out, a + g)
        /\ Held(out) <= MaxBuffer
    <3> DEFINE f == a + g  rd == q.ready
    <3>1. f \in Int /\ f + Len(rd) = a + g + Len(q.ready)
      OBVIOUS
    <3>2. Aligned(rd, f) /\ Aligned(cells, f + Len(rd)) /\ rd \in Seq(Cell)
      BY <1>0, <1>1, <1>6, <3>1
    <3>3. Held(rd) + Len(cells) - MaxBuffer > 0
      BY <1>6
    <3> HIDE DEF f, rd
    <3> QED BY <1>6, <3>1, <3>2, <3>3, TrimmedOutput DEF f, rd
  <2>10. Held(out) <= MaxBuffer
    BY <2>9
  <2> HIDE DEF out
  <2>11. Owing([q EXCEPT !.ready = out], a, g, n, 0)
        /\ [q EXCEPT !.ready = out].next_off = q.next_off
    <3> DEFINE z == 0
    <3>1. /\ Owing(q, a, g, n, L) /\ L \in Int /\ z \in Int
          /\ Len(out) + z = Len(q.ready) + L
      BY <1>1, <2>9, <2>10
    <3> DEFINE t == [q EXCEPT !.ready = out]
    <3>2. Replaces(q, out, a, g, L, z) /\ out \in Seq(Cell)
      BY <2>9, <2>10, <3>1 DEF Replaces
    <3>3. t = [q EXCEPT !.ready = out]
      OBVIOUS
    <3> HIDE DEF L, z, t
    <3>4. Owing(t, a, g, n, z) /\ t.next_off = q.next_off
      BY <3>1, <3>2, <3>3, RefillOwes
    <3> QED BY <3>4 DEF z, t
  <2> QED BY <2>2, <2>11 DEF Good
<1>7. MaxBuffer # None => over \in Int
  BY <1>1, BufferAssumption
<1> HIDE DEF s, over, extra
<1>8. MaxBuffer # None => over <= 0 \/ over > 0
  BY <1>7
<1> QED
  BY <1>3, <1>4, <1>5, <1>6, <1>8 DEF s

LEMMA GoodTypes ==
  ASSUME NEW a, NEW g, NEW n, NEW q, Good(q, a, g, n)
  PROVE  /\ q \in Reassembler /\ q.next_off \in Nat /\ q.evidence \in Nat
         /\ q.ready \in Seq(Cell) /\ Len(q.ready) \in Nat
         /\ q.fin_off \in Int \cup {None}
  BY SeqIs DEF Good, Owing, Reassembler

\* deliver_at: bytes the stream has reached, without those it has passed.
LEMMA DeliverGood ==
  ASSUME NEW a \in Nat, NEW g \in Nat, NEW n \in Nat, NEW q, Good(q, a, g, n),
         NEW c, Fits(c, a, n), c.off <= q.next_off
  PROVE  LET s == DeliverAt(q, c)
         IN Good(s, a, g, n) /\ s.next_off \in Nat /\ s.next_off >= q.next_off
<1> DEFINE skip == Most(q.next_off - c.off, 0)
           to == c.off + c.len
           p == AdvanceTo(q, to)
           cells == Bytes(c.pos + skip, c.len - skip)
<1>1. q.next_off \in Nat /\ Len(q.ready) \in Nat
  BY GoodTypes
<1>2. /\ c.off \in Int /\ c.pos \in Nat /\ c.len \in Nat /\ c.missing \in Nat
      /\ c.pos = a + c.off /\ a + (c.off + c.len + c.missing) <= n
  BY DEF Fits, Candidate, End
<1>3. CASE to <= q.next_off
  BY <1>1, <1>3 DEF DeliverAt
<1>4. CASE to > q.next_off
  <2> DEFINE L == c.len - skip
             from == c.pos + skip
             f == a + g + Len(q.ready)
  <2>1. /\ L \in Nat /\ from \in Nat /\ L = 0 + (to - q.next_off) /\ from = a + q.next_off
        /\ to \in Int /\ a + to <= n
    <3> DEFINE o == c.off  l == c.len  m == c.missing  x == q.next_off  b == c.pos
    <3>1. /\ o \in Int /\ l \in Nat /\ m \in Nat /\ x \in Nat /\ b \in Nat
          /\ b = a + o /\ a + (o + l + m) <= n /\ o <= x /\ o + l > x
      BY <1>1, <1>2, <1>4
    <3>2. skip = Most(x - o, 0) /\ L = l - skip /\ from = b + skip /\ to = o + l
      OBVIOUS
    <3> HIDE DEF o, l, m, x, b, skip, L, from, to
    <3>3. skip = x - o
      BY <3>1, <3>2 DEF Most
    <3>4. /\ L \in Nat /\ from \in Nat /\ L = 0 + (to - x) /\ from = a + x
          /\ to \in Int /\ a + to <= n
      BY <3>1, <3>2, <3>3
    <3> QED BY <3>4 DEF x
  <2> HIDE DEF L, from, to
  <2>2. DeliverAt(q, c) = AppendWithCap(p, cells)
    <3>1. ~(to <= q.next_off)
      BY <1>1, <1>4, <2>1
    <3> QED BY <3>1 DEF DeliverAt, to
  <2>3. cells = Bytes(from, L)
    BY DEF from, L
  <2> HIDE DEF cells
  <2>4. cells \in Seq(Cell) /\ Len(cells) = L /\ Aligned(cells, from)
    BY <2>1, <2>3, BytesAligned
  <2>5. Owing(p, a, g, n, L) /\ p.next_off = to /\ p.ready = q.ready /\ Alike(q, p)
    <3> DEFINE z == 0
    <3>1. Owing(q, a, g, n, z) /\ z \in Int
      BY DEF Good
    <3>2. L \in Int /\ L = z + (to - q.next_off)
      BY <2>1
    <3> HIDE DEF z, p
    <3> QED BY <1>4, <2>1, <3>1, <3>2, AdvanceOwes DEF p
  <2> HIDE DEF p
  <2>6. p.stop = None => Aligned(cells, f)
    <3> SUFFICES ASSUME p.stop = None PROVE Aligned(cells, f)
      OBVIOUS
    <3>1. q.stop = None
      BY <2>5 DEF Alike
    <3>2. g + Len(q.ready) + 0 = q.next_off
      BY <3>1 DEF Good, Owing
    <3>3. f = from
      <4> DEFINE l == Len(q.ready)  x == q.next_off
      <4>1. l \in Nat /\ x \in Nat /\ g + l + 0 = x /\ f = a + g + l /\ from = a + x
        BY <1>1, <2>1, <3>2
      <4> HIDE DEF l, x, f
      <4> QED BY <4>1
    <3> HIDE DEF f
    <3> QED BY <2>4, <3>3
  <2>7. Owing(p, a, g, n, Len(cells))
    BY <2>4, <2>5
  <2>8. Good(AppendWithCap(p, cells), a, g, n) /\ AppendWithCap(p, cells).next_off = p.next_off
    <3>1. Continues(p, cells, a, g)
      BY <2>5, <2>6 DEF Continues
    <3>2. cells \in Seq(Cell)
      BY <2>4
    <3> QED BY <2>7, <3>1, <3>2, AppendGood
  <2>9. to \in Nat /\ to >= q.next_off
    BY <1>1, <1>4, <2>1
  <2> QED BY <2>2, <2>5, <2>8, <2>9
<1> QED
  BY <1>1, <1>2, <1>3, <1>4

LEMMA OowGood ==
  ASSUME NEW a, NEW g, NEW n, NEW q, Good(q, a, g, n),
         NEW c, c = None \/ Fits(c, a, n), NEW s, s = [q EXCEPT !.oow = c]
  PROVE  Good(s, a, g, n) /\ s.next_off = q.next_off /\ s.reorder = q.reorder
         /\ s.stop = q.stop /\ s.evidence = q.evidence
<1>1. q \in Reassembler /\ c \in Candidate \cup {None}
  BY DEF Good, Owing, Fits
<1>2. /\ s \in Reassembler /\ s.next_off = q.next_off /\ s.next_seq = q.next_seq
      /\ s.ready = q.ready /\ s.fin_off = q.fin_off /\ s.evidence = q.evidence
      /\ s.anchored = q.anchored /\ s.oow = c /\ s.reorder = q.reorder /\ s.stop = q.stop
  BY <1>1 DEF Reassembler
<1> QED
  BY <1>2 DEF Good, Owing

LEMMA ReorderGood ==
  ASSUME NEW a, NEW g, NEW n, NEW q, Good(q, a, g, n),
         NEW c, c = None \/ Fits(c, a, n), NEW s, s = [q EXCEPT !.reorder = c]
  PROVE  Good(s, a, g, n) /\ s.next_off = q.next_off /\ s.oow = q.oow
         /\ s.stop = q.stop /\ s.evidence = q.evidence /\ s.reorder = c
<1>1. q \in Reassembler /\ c \in Candidate \cup {None}
  BY DEF Good, Owing, Fits
<1>2. /\ s \in Reassembler /\ s.next_off = q.next_off /\ s.next_seq = q.next_seq
      /\ s.ready = q.ready /\ s.fin_off = q.fin_off /\ s.evidence = q.evidence
      /\ s.anchored = q.anchored /\ s.oow = q.oow /\ s.reorder = c /\ s.stop = q.stop
  BY <1>1 DEF Reassembler
<1> QED
  BY <1>2 DEF Good, Owing

LEMMA ReleaseGood ==
  ASSUME NEW a \in Nat, NEW g \in Nat, NEW n \in Nat, NEW q, Good(q, a, g, n)
  PROVE  LET s == ReleaseReorder(q)
         IN Good(s, a, g, n) /\ s.next_off \in Nat /\ s.next_off >= q.next_off
<1>1. q.next_off \in Nat
  BY GoodTypes
<1>2. CASE q.reorder = None
  BY <1>1, <1>2 DEF ReleaseReorder
<1>3. CASE q.reorder # None
  <2> DEFINE c == q.reorder
             p == [q EXCEPT !.reorder = None]
             s == SkipTo(p, c.off)
  <2>1. Fits(c, a, n)
    BY <1>3 DEF Good, Owing
  <2>2. c.off \in Int /\ a + c.off <= n
    BY <2>1, FitsTypes
  <2>3. Good(p, a, g, n) /\ p.next_off = q.next_off
    BY ReorderGood
  <2> HIDE DEF p, c
  <2>4. Good(s, a, g, n) /\ s.next_off \in Nat /\ s.next_off >= q.next_off /\ s.next_off >= c.off
    BY <2>2, <2>3, SkipToGood
  <2> HIDE DEF s
  <2>5. LET t == DeliverAt(s, c)
        IN Good(t, a, g, n) /\ t.next_off \in Nat /\ t.next_off >= s.next_off
    <3>1. c.off <= s.next_off
      BY <2>2, <2>4
    <3> QED BY <2>1, <2>4, <3>1, DeliverGood
  <2>6. ReleaseReorder(q) = DeliverAt(s, c)
    BY <1>3 DEF ReleaseReorder, s, p, c
  <2> QED BY <1>1, <2>4, <2>5, <2>6
<1> QED
  BY <1>2, <1>3

LEMMA TryGood ==
  ASSUME NEW a \in Nat, NEW g \in Nat, NEW n \in Nat, NEW q, Good(q, a, g, n)
  PROVE  LET s == TryReorder(q)
         IN Good(s, a, g, n) /\ s.next_off \in Nat /\ s.next_off >= q.next_off
<1>1. q.next_off \in Nat
  BY GoodTypes
<1>2. CASE ~(q.reorder # None /\ q.reorder.off <= q.next_off)
  BY <1>1, <1>2 DEF TryReorder
<1>3. CASE q.reorder # None /\ q.reorder.off <= q.next_off
  <2> DEFINE c == q.reorder
             p == [q EXCEPT !.reorder = None]
  <2>1. Fits(c, a, n) /\ c.off <= q.next_off
    BY <1>3 DEF Good, Owing
  <2>2. Good(p, a, g, n) /\ p.next_off = q.next_off
    BY ReorderGood
  <2>3. TryReorder(q) = DeliverAt(p, c)
    BY <1>3 DEF TryReorder
  <2> HIDE DEF p, c
  <2>4. LET t == DeliverAt(p, c)
        IN Good(t, a, g, n) /\ t.next_off \in Nat /\ t.next_off >= p.next_off
    BY <2>1, <2>2, DeliverGood
  <2> QED BY <2>2, <2>3, <2>4
<1> QED
  BY <1>2, <1>3

\* resync: everything up to the corroborated candidate and its cut end.
LEMMA ResyncGood ==
  ASSUME NEW a \in Nat, NEW g \in Nat, NEW n \in Nat, NEW q, Good(q, a, g, n),
         NEW c, Fits(c, a, n)
  PROVE  Good(Resync(q, c), a, g, n)
<1> DEFINE p == [q EXCEPT !.oow = None]
           s == ReleaseReorder(p)
           t == SkipTo(s, c.off)
           u == DeliverAt(t, c)
<1>1. Good(p, a, g, n)
  BY OowGood
<1> HIDE DEF p
<1>2. Good(s, a, g, n)
  BY <1>1, ReleaseGood
<1> HIDE DEF s
<1>3. c.off \in Int /\ a + c.off <= n /\ End(c) \in Int /\ a + End(c) <= n
  BY FitsTypes
<1>4. Good(t, a, g, n) /\ t.next_off \in Nat /\ t.next_off >= c.off
  BY <1>2, <1>3, SkipToGood
<1> HIDE DEF t
<1>5. Good(u, a, g, n)
  <2>1. c.off <= t.next_off
    BY <1>3, <1>4
  <2> QED BY <1>4, <2>1, DeliverGood
<1> HIDE DEF u
<1>6. Good(SkipTo(u, End(c)), a, g, n)
  BY <1>3, <1>5, SkipToGood
<1>7. Resync(q, c) = IF u.stop = None THEN SkipTo(u, End(c)) ELSE u
  BY DEF Resync, p, s, t, u
<1> QED
  BY <1>5, <1>6, <1>7

------------------------------------------------------------------------------
(* Evidence, timers and segments.                                          *)

\* The offset of a position the sender reached, or of the one before it.
LEMMA OffsetGood ==
  ASSUME NEW a \in Nat, NEW g \in Nat, NEW n \in Nat, n <= MaxLen, NEW q, Good(q, a, g, n),
         NEW p \in Int, -1 <= p, p <= n
  PROVE  OffsetOf(q, SeqOf(p)) = p - a /\ p - a \in Int
<1>1. /\ q.next_off \in Nat /\ a + q.next_off <= n /\ q.next_seq = SeqOf(a + q.next_off)
  BY GoodTypes DEF Good, Owing
<1>2. MaxLen \in Nat
  BY LengthAssumption
<1> DEFINE x == q.next_off
<1>3. x \in Int /\ p - (a + x) <= MaxLen + 1 /\ (a + x) - p <= MaxLen + 1
  <2>1. x \in Nat /\ a + x <= n
    BY <1>1
  <2> HIDE DEF x
  <2> QED BY <2>1, <1>2
<1> QED
  BY <1>1, <1>3, OffsetIsPosition

LEMMA EvidenceGood ==
  ASSUME NEW a \in Nat, NEW g \in Nat, NEW n \in Nat, n <= MaxLen, NEW q, Good(q, a, g, n),
         NEW p \in Int, -1 <= p, p <= n, NEW ts \in Nat
  PROVE  Good(Evidence(q, SeqOf(p), ts), a, g, n)
<1> DEFINE seq == SeqOf(p)
           pr == Proven(q, seq)
<1>1. q \in Reassembler /\ q.next_off \in Nat /\ q.evidence \in Nat /\ a + q.evidence <= n
  BY GoodTypes DEF Good, Owing
<1>2. pr \in Int /\ a + pr <= n
  <2> DEFINE off == OffsetOf(q, seq)
  <2>1. off = p - a
    BY OffsetGood
  <2>2. pr = IF q.fin_off = None THEN off ELSE Least(off, q.fin_off)
    BY DEF Proven
  <2>3. q.fin_off = None \/ (q.fin_off \in Int)
    BY GoodTypes
  <2> HIDE DEF pr, off
  <2> QED BY <2>1, <2>2, <2>3 DEF Least
<1> HIDE DEF pr
<1>3. CASE Confirms(q, seq)
  <2>1. q.oow # None
    BY <1>3 DEF Confirms
  <2>2. Fits(q.oow, a, n)
    BY <2>1 DEF Good, Owing
  <2> QED BY <1>3, <2>2, ResyncGood DEF Evidence
<1>4. CASE ~Confirms(q, seq)
  <2>1. Evidence(q, seq, ts) = Noted(q, seq, ts)
    BY <1>4 DEF Evidence
  <2>2. CASE ~(q.anchored /\ pr - q.next_off \in 1..MaxAhead)
    BY <2>1, <2>2 DEF Noted, pr
  <2>3. CASE q.anchored /\ pr - q.next_off \in 1..MaxAhead
    <3> DEFINE ev == Most(q.evidence, pr)
               since == IF q.evidence_since = None THEN ts ELSE q.evidence_since
               s == [q EXCEPT !.evidence = ev, !.evidence_since = since]
    <3>1. Noted(q, seq, ts) = s
      BY <2>3 DEF Noted, pr
    <3>2. pr \in Nat
      BY <1>1, <1>2, <2>3
    <3>3. ev \in Nat /\ a + ev <= n
      BY <1>1, <1>2, <3>2 DEF Most
    <3>4. since \in Nat \cup {None}
      BY <1>1 DEF Reassembler
    <3> HIDE DEF ev, since
    <3>5. /\ s \in Reassembler /\ s.next_off = q.next_off /\ s.next_seq = q.next_seq
          /\ s.ready = q.ready /\ s.fin_off = q.fin_off /\ s.evidence = ev
          /\ s.anchored = q.anchored /\ s.oow = q.oow /\ s.reorder = q.reorder
          /\ s.stop = q.stop
      BY <1>1, <3>3, <3>4 DEF Reassembler
    <3> HIDE DEF s
    <3>6. Good(s, a, g, n)
      BY <3>3, <3>5 DEF Good, Owing
    <3> QED BY <2>1, <3>1, <3>6
  <2> QED BY <2>2, <2>3
<1> QED
  BY <1>3, <1>4

LEMMA ExpireGood ==
  ASSUME NEW a, NEW g, NEW n, NEW q, Good(q, a, g, n), NEW now
  PROVE  Good(ExpireStray(q, now), a, g, n)
<1>1. Good([q EXCEPT !.oow = None], a, g, n)
  BY OowGood
<1> QED
  BY <1>1 DEF ExpireStray

LEMMA TimersGood ==
  ASSUME NEW a \in Nat, NEW g \in Nat, NEW n \in Nat, NEW q, Good(q, a, g, n), NEW now
  PROVE  Good(CheckTimers(q, now), a, g, n)
<1> DEFINE acked == CASE EvidenceDue(q, now) /\ q.reorder = None -> SkipTo(q, q.evidence)
                      [] EvidenceDue(q, now) /\ q.reorder # None
                           -> IF q.reorder.off <= q.evidence THEN ReleaseReorder(q) ELSE q
                      [] OTHER -> q
           late == acked.reorder # None /\ Elapsed(now, acked.reorder.ts) > Deadline
           last == IF late THEN ReleaseReorder(acked) ELSE acked
<1>1. Good(SkipTo(q, q.evidence), a, g, n)
  <2>1. q.evidence \in Int
    BY GoodTypes
  <2>2. a + q.evidence <= n
    BY DEF Good, Owing
  <2> QED BY <2>1, <2>2, SkipToGood
<1>2. Good(ReleaseReorder(q), a, g, n)
  BY ReleaseGood
<1>3. Good(acked, a, g, n)
  BY <1>1, <1>2
<1> HIDE DEF acked
<1>4. Good(ReleaseReorder(acked), a, g, n)
  BY <1>3, ReleaseGood
<1>5. Good(last, a, g, n)
  BY <1>3, <1>4
<1> HIDE DEF last
<1>6. Good(ExpireStray(last, now), a, g, n)
  BY <1>5, ExpireGood
<1>7. CheckTimers(q, now) = IF q.stop # None THEN q ELSE ExpireStray(last, now)
  BY DEF CheckTimers, last, acked
<1> QED
  BY <1>6, <1>7

LEMMA OpenedGood ==
  ASSUME NEW a \in Nat, NEW g \in Nat, NEW n \in Nat, NEW q, Good(q, a, g, n), NEW off
  PROVE  Good(Opened(q, off), a, g, n)
<1>1. Corroborated(q, off) => Good(Resync(q, q.oow), a, g, n)
  <2> SUFFICES ASSUME Corroborated(q, off) PROVE Good(Resync(q, q.oow), a, g, n)
    OBVIOUS
  <2>1. Fits(q.oow, a, n)
    BY DEF Corroborated, Good, Owing
  <2> QED BY <2>1, ResyncGood
<1>2. Good(ReleaseReorder(q), a, g, n)
  BY ReleaseGood
<1> QED
  BY <1>1, <1>2 DEF Opened

LEMMA PlacedGood ==
  ASSUME NEW a \in Nat, NEW g \in Nat, NEW n \in Nat, NEW q, Good(q, a, g, n),
         NEW c, Fits(c, a, n)
  PROVE  Good(Placed(q, c), a, g, n)
<1>1. Good([q EXCEPT !.oow = c], a, g, n)
  BY OowGood
<1>2. Good(CheckTimers([q EXCEPT !.reorder = c], c.ts), a, g, n)
  <2>1. Good([q EXCEPT !.reorder = c], a, g, n)
    BY ReorderGood
  <2> QED BY <2>1, TimersGood
<1>3. Good(CheckTimers(q, c.ts), a, g, n)
  BY TimersGood
<1>4. c.off <= q.next_off => Good(CheckTimers(TryReorder(DeliverAt(q, c)), c.ts), a, g, n)
  <2> SUFFICES ASSUME c.off <= q.next_off
               PROVE  Good(CheckTimers(TryReorder(DeliverAt(q, c)), c.ts), a, g, n)
    OBVIOUS
  <2>1. Good(DeliverAt(q, c), a, g, n)
    BY DeliverGood
  <2>2. Good(TryReorder(DeliverAt(q, c)), a, g, n)
    BY <2>1, TryGood
  <2> QED BY <2>2, TimersGood
<1>5. c.off \in Int /\ q.next_off \in Nat
  BY FitsTypes, GoodTypes
<1>6. c.off <= q.next_off => ~IsFar(q, c.off) /\ ~(c.off > q.next_off)
  BY <1>5, RulesAssumption DEF IsFar
<1>7. c.off <= q.next_off \/ c.off > q.next_off
  BY <1>5
<1> QED
  BY <1>1, <1>2, <1>3, <1>4, <1>6, <1>7 DEF Placed

LEMMA CrossedGood ==
  ASSUME NEW a \in Nat, NEW g \in Nat, NEW n \in Nat, NEW q, Good(q, a, g, n),
         NEW to \in Int, a + to <= n
  PROVE  Good(Crossed(q, to), a, g, n)
<1> DEFINE step(p) == IF p.stop # None \/ p.next_off >= to THEN p
                      ELSE TryReorder(SkipTo(p, IF p.reorder = None THEN to
                                                ELSE Least(p.reorder.off, to)))
<1>1. ASSUME NEW p, Good(p, a, g, n) PROVE Good(step(p), a, g, n)
  <2> DEFINE e == IF p.reorder = None THEN to ELSE Least(p.reorder.off, to)
  <2>1. e \in Int /\ a + e <= n
    <3>1. CASE p.reorder = None
      BY <3>1
    <3>2. CASE p.reorder # None
      <4>1. Fits(p.reorder, a, n)
        BY <1>1, <3>2 DEF Good, Owing
      <4>2. p.reorder.off \in Int
        BY <4>1, FitsTypes
      <4> QED BY <3>2, <4>2 DEF Least
    <3> QED BY <3>1, <3>2
  <2> HIDE DEF e
  <2>2. Good(SkipTo(p, e), a, g, n)
    BY <1>1, <2>1, SkipToGood
  <2>3. Good(TryReorder(SkipTo(p, e)), a, g, n)
    BY <2>2, TryGood
  <2> QED BY <1>1, <2>3 DEF e
<1>2. Crossed(q, to) = step(step(q))
  BY DEF Crossed
<1> HIDE DEF step
<1>3. Good(step(q), a, g, n)
  BY <1>1
<1>4. Good(step(step(q)), a, g, n)
  BY <1>1, <1>3
<1> QED
  BY <1>2, <1>4

LEMMA FeedGood ==
  ASSUME NEW a \in Nat, NEW g \in Nat, NEW n \in Nat, n <= MaxLen, NEW q, Good(q, a, g, n),
         NEW pos \in Nat, NEW len \in Nat, pos + len <= n, NEW ts \in Nat
  PROVE  Good(Feed(q, pos, len, ts), a, g, n)
<1> DEFINE off == OffsetOf(q, SeqOf(pos))
           c == Cand(off, pos, len, ts)
<1>1. Anchored(q, SeqOf(pos)) = q
  BY DEF Good, Owing, Anchored
<1>2. off = pos - a
  BY OffsetGood
<1> HIDE DEF off
<1>3. Fits(c, a, n)
  BY <1>2 DEF Fits, Candidate, Cand, End
<1> HIDE DEF c
<1>4. Good(Opened(q, off), a, g, n)
  BY OpenedGood
<1>5. Good(Placed(Opened(q, off), c), a, g, n)
  BY <1>3, <1>4, PlacedGood
<1>6. Feed(q, pos, len, ts) = IF len = 0 \/ q.stop # None THEN q ELSE Placed(Opened(q, off), c)
  BY <1>1 DEF Feed, off, c
<1> QED
  BY <1>5, <1>6

\* far_missing leaves a stray that ends where the cut bytes do.
LEMMA StrayFits ==
  ASSUME NEW a \in Nat, NEW g \in Nat, NEW n \in Nat, NEW q, Good(q, a, g, n),
         NEW off \in Int, NEW pos \in Nat, NEW len \in Nat, NEW ts \in Nat,
         pos = a + off, pos + len <= n
  PROVE  Fits(Stray(q, off, pos, len, ts), a, n)
<1>1. CASE Extends(q, off, ts)
  <2> DEFINE c == q.oow
             s == [c EXCEPT !.missing = c.missing + len]
  <2>1. q.oow # None /\ End(c) = off
    BY <1>1 DEF Extends
  <2>2. Fits(c, a, n)
    BY <2>1 DEF Good, Owing
  <2>3. Stray(q, off, pos, len, ts) = s
    BY <1>1 DEF Stray
  <2> HIDE DEF c
  <2>4. c \in Candidate /\ c.pos = a + c.off /\ c.off + c.len + c.missing = off
    BY <2>1, <2>2 DEF Fits, End
  <2>5. /\ s \in Candidate /\ s.off = c.off /\ s.pos = c.pos /\ s.len = c.len
        /\ s.missing = c.missing + len
    BY <2>4 DEF Candidate
  <2>6. c.off \in Int /\ c.len \in Nat /\ c.missing \in Nat
    BY <2>4 DEF Candidate
  <2> HIDE DEF s
  <2>7. a + (s.off + s.len + s.missing) <= n
    <3> DEFINE o == c.off  l == c.len  m == c.missing
    <3>1. o \in Int /\ l \in Nat /\ m \in Nat /\ o + l + m = off
      BY <2>4, <2>6
    <3> HIDE DEF o, l, m
    <3>2. a + (o + l + (m + len)) <= n
      BY <3>1
    <3> QED BY <3>2, <2>5 DEF o, l, m
  <2> QED BY <2>3, <2>4, <2>5, <2>7 DEF Fits, End
<1>2. CASE ~Extends(q, off, ts)
  <2> DEFINE s == [Cand(off, pos, 0, ts) EXCEPT !.missing = len]
  <2>1. s = [off |-> off, pos |-> pos, len |-> 0, ts |-> ts, missing |-> len]
    BY DEF Cand
  <2>2. Stray(q, off, pos, len, ts) = s
    BY <1>2 DEF Stray
  <2> HIDE DEF s
  <2> QED BY <2>1, <2>2 DEF Fits, Candidate, End
<1> QED
  BY <1>1, <1>2

LEMMA MissingGood ==
  ASSUME NEW a \in Nat, NEW g \in Nat, NEW n \in Nat, n <= MaxLen, NEW q, Good(q, a, g, n),
         NEW pos \in Nat, NEW len \in Nat, pos + len <= n, NEW ts \in Nat
  PROVE  Good(Missing(q, pos, len, ts), a, g, n)
<1> DEFINE off == OffsetOf(q, SeqOf(pos))
           near(p) == CASE p.stop # None \/ off + len <= p.next_off -> p
                        [] p.stop = None /\ off <= p.next_off /\ off + len > p.next_off ->
                             CheckTimers(Crossed(p, off + len), ts)
                        [] OTHER -> CheckTimers(Evidence(p, SeqOf(pos + len), ts), ts)
           stray == Stray(q, off, pos, len, ts)
<1>1. Anchored(q, SeqOf(pos)) = q
  BY DEF Good, Owing, Anchored
<1>2. off = pos - a
  BY OffsetGood
<1>3. off \in Int /\ pos = a + off
  BY <1>2
<1> HIDE DEF off
<1>4. ASSUME NEW p, Good(p, a, g, n) PROVE Good(near(p), a, g, n)
  <2>1. Good(CheckTimers(Crossed(p, off + len), ts), a, g, n)
    <3>1. off + len \in Int /\ a + (off + len) <= n
      BY <1>3
    <3> DEFINE to == off + len
    <3> HIDE DEF to
    <3>2. Good(Crossed(p, to), a, g, n)
      BY <1>4, <3>1, CrossedGood DEF to
    <3>3. Good(CheckTimers(Crossed(p, to), ts), a, g, n)
      BY <3>2, TimersGood
    <3> QED BY <3>3 DEF to
  <2>2. Good(CheckTimers(Evidence(p, SeqOf(pos + len), ts), ts), a, g, n)
    <3> DEFINE x == pos + len
    <3>1. x \in Int /\ -1 <= x /\ x <= n
      OBVIOUS
    <3> HIDE DEF x
    <3>2. Good(Evidence(p, SeqOf(x), ts), a, g, n)
      BY <1>4, <3>1, EvidenceGood
    <3>3. Good(CheckTimers(Evidence(p, SeqOf(x), ts), ts), a, g, n)
      BY <3>2, TimersGood
    <3> QED BY <3>3 DEF x
  <2>3. p.next_off \in Nat /\ off \in Int
    BY <1>3, <1>4, GoodTypes
  <2>4. CASE p.stop # None \/ off + len <= p.next_off
    <3>1. ~(p.stop = None /\ off <= p.next_off /\ off + len > p.next_off)
      BY <2>3, <2>4
    <3>2. near(p) = p
      BY <2>4, <3>1
    <3> QED BY <3>2, <1>4
  <2>5. CASE ~(p.stop # None \/ off + len <= p.next_off)
    BY <2>1, <2>2, <2>5
  <2> QED BY <2>4, <2>5
<1>5. Fits(stray, a, n)
  BY <1>3, StrayFits
<1> HIDE DEF stray
<1>6. Good(CheckTimers([q EXCEPT !.oow = stray], ts), a, g, n)
  <2>1. Good([q EXCEPT !.oow = stray], a, g, n)
    BY <1>5, OowGood
  <2> QED BY <2>1, TimersGood
<1>7. Corroborated(q, off) => Good(Resync(q, q.oow), a, g, n)
  <2> SUFFICES ASSUME Corroborated(q, off) PROVE Good(Resync(q, q.oow), a, g, n)
    OBVIOUS
  <2>1. Fits(q.oow, a, n)
    BY DEF Corroborated, Good, Owing
  <2> QED BY <2>1, ResyncGood
<1>8. Missing(q, pos, len, ts) =
        CASE q.stop # None \/ len = 0 -> q
          [] q.stop = None /\ len > 0 /\ ~IsFar(q, off) -> near(q)
          [] OTHER -> IF ~Extends(q, off, ts) /\ Corroborated(q, off)
                      THEN near(Resync(q, q.oow))
                      ELSE CheckTimers([q EXCEPT !.oow = stray], ts)
  BY <1>1 DEF Missing, off, stray
<1> HIDE DEF near
<1>9. Good(near(q), a, g, n)
  BY <1>4
<1>10. Corroborated(q, off) => Good(near(Resync(q, q.oow)), a, g, n)
  BY <1>4, <1>7
<1>11. len > 0 => len # 0
  OBVIOUS
<1> QED
  BY <1>6, <1>8, <1>9, <1>10, <1>11

------------------------------------------------------------------------------
(* Before the first sequence number.                                       *)

LEMMA FreshAnchored ==
  ASSUME NEW q, Fresh(q), NEW pos \in Nat, NEW n \in Nat, pos <= n
  PROVE  LET at == Anchored(q, SeqOf(pos))
         IN /\ Good(at, pos, 0, n) /\ at.stop = q.stop /\ at.anchored
            /\ at.ready = q.ready /\ at.reorder = q.reorder
<1> DEFINE at == Anchored(q, SeqOf(pos))
<1>1. q \in Reassembler /\ q.ready = <<>>
  BY DEF Fresh
<1>2. at = [q EXCEPT !.anchored = TRUE, !.next_seq = SeqOf(pos)]
  BY DEF Fresh, Anchored
<1>3. SeqOf(pos) \in Int /\ SeqOf(pos + 0) = SeqOf(pos)
  <2>1. pos \in Int /\ 0 \in Int /\ pos + 0 = pos
    OBVIOUS
  <2> QED BY <2>1, SeqMoves
<1>4. /\ at \in Reassembler /\ at.next_off = q.next_off /\ at.next_seq = SeqOf(pos)
      /\ at.ready = q.ready /\ at.fin_off = q.fin_off /\ at.evidence = q.evidence
      /\ at.anchored /\ at.oow = q.oow /\ at.reorder = q.reorder /\ at.stop = q.stop
  BY <1>1, <1>2, <1>3 DEF Reassembler
<1> HIDE DEF at
<1>5. Held(<<>>) = 0 /\ Len(<<>>) = 0
  <2>1. {i \in DOMAIN <<>> : <<>>[i] # Gap} = {}
    OBVIOUS
  <2> QED BY <2>1, FS_EmptySet DEF Held
<1>6. Aligned(<<>>, pos + 0)
  BY DEF Aligned
<1>7. MaxBuffer # None => 0 <= MaxBuffer
  BY BufferAssumption
<1>8. Owing(at, pos, 0, n, 0)
  BY <1>3, <1>4, <1>5, <1>6, <1>7 DEF Owing, Fresh
<1> QED
  BY <1>4, <1>8 DEF Good, at

LEMMA FreshFeed ==
  ASSUME NEW q, Fresh(q), NEW pos \in Nat, NEW len \in Nat, len > 0, q.stop = None,
         NEW n \in Nat, n <= MaxLen, pos + len <= n, NEW ts \in Nat
  PROVE  Good(Feed(q, pos, len, ts), pos, 0, n)
<1> DEFINE at == Anchored(q, SeqOf(pos))
<1>1. Good(at, pos, 0, n) /\ at.stop = q.stop /\ at.anchored
  BY FreshAnchored
<1>2. Anchored(at, SeqOf(pos)) = at
  BY <1>1 DEF Anchored
<1>3. Feed(q, pos, len, ts) = Feed(at, pos, len, ts)
  <2> HIDE DEF at
  <2> QED BY <1>1, <1>2 DEF Feed, at
<1> HIDE DEF at
<1> QED
  BY <1>1, <1>3, FeedGood

LEMMA FreshMissing ==
  ASSUME NEW q, Fresh(q), NEW pos \in Nat, NEW len \in Nat, len > 0, q.stop = None,
         NEW n \in Nat, n <= MaxLen, pos + len <= n, NEW ts \in Nat
  PROVE  Good(Missing(q, pos, len, ts), pos, 0, n)
<1> DEFINE at == Anchored(q, SeqOf(pos))
<1>1. Good(at, pos, 0, n) /\ at.stop = q.stop /\ at.anchored
  BY FreshAnchored
<1>2. Anchored(at, SeqOf(pos)) = at
  BY <1>1 DEF Anchored
<1>3. Missing(q, pos, len, ts) = Missing(at, pos, len, ts)
  <2> HIDE DEF at
  <2> QED BY <1>1, <1>2 DEF Missing, at
<1> HIDE DEF at
<1> QED
  BY <1>1, <1>3, MissingGood

\* Evidence, the time and the end of the flow say nothing to it.
LEMMA FreshQuiet ==
  ASSUME NEW q, Fresh(q), NEW seq, NEW ts
  PROVE  /\ Evidence(q, seq, ts) = q /\ FinNoted(q, seq) = q
         /\ CheckTimers(q, ts) = q
         /\ ReleaseReorder(q) = q /\ SkipTo(q, q.evidence) = q
<1>1. Evidence(q, seq, ts) = q
  BY DEF Fresh, Evidence, Confirms, Noted
<1>2. FinNoted(q, seq) = q
  BY DEF Fresh, FinNoted
<1>3. ~EvidenceDue(q, ts) /\ ExpireStray(q, ts) = q
  BY DEF Fresh, EvidenceDue, ExpireStray
<1>4. CheckTimers(q, ts) = q
  BY <1>3 DEF CheckTimers, Fresh
<1>5. ReleaseReorder(q) = q /\ SkipTo(q, q.evidence) = q
  BY DEF Fresh, ReleaseReorder, SkipTo
<1> QED
  BY <1>1, <1>2, <1>4, <1>5

------------------------------------------------------------------------------
(* The calls.                                                              *)

\* A call that gives the consumer `new`, the cells that come next.
LEMMA GiveStep ==
  ASSUME ReassemblerInv, ReassemblerInv', total' = total,
         anchor' = anchor \/ (anchor = None /\ anchor' \in 0..total),
         NEW new \in Seq(Cell), taken' = taken \o new,
         new # <<>> => Aligned(new, anchor' + Len(taken))
  PROVE  Consumer!Give
<1>1. taken \in Seq(Cell) /\ Len(taken) \in Nat /\ Len(new) \in Nat /\ total \in Nat
  BY SeqIs DEF ReassemblerInv
<1>2. /\ Len(taken') = Len(taken) + Len(new)
      /\ \A i \in 1..(Len(taken) + Len(new)) :
           taken'[i] = IF i <= Len(taken) THEN taken[i] ELSE new[i - Len(taken)]
  BY <1>1, JoinIs
<1>3. Len(taken') >= Len(taken)
  BY <1>1, <1>2
<1>4. SubSeq(taken', 1, Len(taken)) = taken
  BY <1>1, PrefixOfConcat
<1>5. taken' # <<>> => anchor' # None /\ anchor' + Len(taken') <= total
  <2> SUFFICES ASSUME taken' # <<>> PROVE anchor' # None /\ anchor' + Len(taken') <= total
    OBVIOUS
  <2>1. anchor' \in 0..total' /\ Good(r', anchor', Len(taken'), total')
    BY DEF ReassemblerInv
  <2>2. anchor' \in Nat /\ anchor' # None
    BY <1>1, <2>1, BufferAssumption
  <2> DEFINE x == r'.next_off  l == Len(r'.ready)  h == Len(taken')
  <2>3. x \in Nat /\ l \in Nat
    BY <2>1, GoodTypes
  <2>4. anchor' + x <= total /\ h + l + 0 <= x
    BY <2>1 DEF Good, Owing
  <2>5. h \in Nat
    BY <1>1, <1>2
  <2> DEFINE b == anchor'
  <2> HIDE DEF x, l, h, b
  <2>6. b \in Nat /\ b + x <= total
    BY <2>2, <2>4 DEF b
  <2>7. b + h <= total
    BY <1>1, <2>3, <2>4, <2>5, <2>6
  <2>8. anchor' + h <= total
    BY <2>7 DEF b
  <2> QED BY <2>2, <2>8 DEF h
<1>6. ASSUME NEW i \in (Len(taken) + 1)..Len(taken')
      PROVE  taken'[i] \in {Gap, anchor' + i - 1}
  <2> DEFINE l == Len(taken)
  <2>1. i \in Int /\ i - l \in 1..Len(new) /\ taken'[i] = new[i - l]
    BY <1>1, <1>2
  <2>2. new # <<>>
    <3>1. Len(new) > 0
      BY <1>1, <2>1
    <3> QED BY <3>1
  <2>3. Aligned(new, anchor' + l) /\ DOMAIN new = 1..Len(new)
    BY <2>2, SeqIs
  <2>4. new[i - l] \in {Gap, (anchor' + l) + (i - l) - 1}
    BY <2>1, <2>3 DEF Aligned
  <2>5. anchor' \in Nat
    <3>1. taken' # <<>>
      <4>1. Len(taken') > 0
        BY <1>1, <1>2, <2>1
      <4> QED BY <4>1
    <3>2. anchor' \in 0..total'
      BY <3>1 DEF ReassemblerInv
    <3> QED BY <1>1, <3>2
  <2>6. (anchor' + l) + (i - l) - 1 = anchor' + i - 1
    BY <1>1, <2>1, <2>5
  <2> QED BY <2>1, <2>4, <2>6
<1> QED
  BY <1>3, <1>4, <1>5, <1>6 DEF Consumer!Give

\* A call that gives the consumer nothing.
LEMMA QuietStep ==
  ASSUME ReassemblerInv, ReassemblerInv', total' = total, taken' = taken,
         anchor' = anchor \/ (anchor = None /\ anchor' \in 0..total)
  PROVE  Consumer!Give
<1> DEFINE new == <<>>
<1>1. new \in Seq(Cell) /\ taken' = taken \o new
  BY JoinEmpty, EmptyIs DEF ReassemblerInv
<1>2. ~(new # <<>>)
  OBVIOUS
<1> HIDE DEF new
<1> QED
  BY <1>1, <1>2, GiveStep

\* What the invariant says of an anchored reassembler and of a fresh one.
LEMMA InvParts ==
  ASSUME ReassemblerInv
  PROVE  /\ total \in Nat /\ total <= MaxLen /\ taken \in Seq(Cell) /\ Len(taken) \in Nat
         /\ r.anchored => anchor \in Nat /\ anchor <= total
                          /\ Good(r, anchor, Len(taken), total)
         /\ ~r.anchored => anchor = None /\ taken = <<>> /\ Len(taken) = 0 /\ Fresh(r)
  BY LengthAssumption, SeqIs, EmptyIs DEF ReassemblerInv

\* A call that leaves an anchored reassembler good.
LEMMA GoodStep ==
  ASSUME ReassemblerInv, UNCHANGED <<total, taken>>, NEW a \in Nat, a <= total,
         anchor' = a, r.anchored => anchor = a,
         Good(r', a, Len(taken), total)
  PROVE  ReassemblerInv' /\ Consumer!Give
<1>1. r'.anchored
  BY DEF Good, Owing
<1>2. a \in 0..total
  BY InvParts
<1>3. ReassemblerInv'
  BY <1>1, <1>2 DEF ReassemblerInv
<1>4. anchor' = anchor \/ (anchor = None /\ anchor' \in 0..total)
  BY <1>2, InvParts
<1> QED
  BY <1>3, <1>4, QuietStep

\* A call that leaves a fresh one fresh.
LEMMA FreshStep ==
  ASSUME ReassemblerInv, UNCHANGED <<total, taken, anchor>>, ~r.anchored, Fresh(r')
  PROVE  ReassemblerInv' /\ Consumer!Give
<1>1. ReassemblerInv'
  BY DEF ReassemblerInv, Fresh
<1> QED
  BY <1>1, QuietStep

LEMMA SegmentStep ==
  ASSUME ReassemblerInv, NEW pos \in Nat, NEW len \in Nat, NEW cut \in Nat, NEW ts \in Nat,
         Segment(pos, len, cut, ts)
  PROVE  ReassemblerInv' /\ Consumer!Give
<1> DEFINE fed == Feed(r, pos, len, ts)
           at == pos + len
<1>1. /\ len + cut > 0 /\ pos + len + cut <= total
      /\ r' = Missing(fed, at, cut, ts)
      /\ IF r'.anchored THEN Anchors(pos) ELSE UNCHANGED anchor
      /\ UNCHANGED <<total, taken>>
  BY DEF Segment
<1>2. /\ total \in Nat /\ total <= MaxLen /\ taken \in Seq(Cell) /\ Len(taken) \in Nat
      /\ r.anchored => anchor \in Nat /\ anchor <= total
                       /\ Good(r, anchor, Len(taken), total)
      /\ ~r.anchored => anchor = None /\ taken = <<>> /\ Len(taken) = 0 /\ Fresh(r)
  BY InvParts
<1>3. /\ pos <= total /\ pos + len <= total /\ at \in Nat /\ at + cut <= total
  BY <1>1, <1>2
<1> HIDE DEF at
<1>4. CASE r.anchored
  <2>1. Good(fed, anchor, Len(taken), total)
    BY <1>2, <1>3, <1>4, FeedGood
  <2> HIDE DEF fed
  <2>2. Good(r', anchor, Len(taken), total)
    BY <1>1, <1>2, <1>3, <1>4, <2>1, MissingGood
  <2>3. anchor' = anchor
    BY <1>1, <1>4 DEF Anchors
  <2> QED BY <1>1, <1>2, <1>4, <2>2, <2>3, GoodStep
<1>5. CASE ~r.anchored /\ r.stop # None
  <2>1. fed = r
    BY <1>5 DEF Feed
  <2>2. r' = r
    BY <1>1, <1>5, <2>1 DEF Missing
  <2>3. anchor' = anchor
    BY <1>1, <1>5, <2>2
  <2> QED BY <1>1, <1>2, <1>5, <2>2, <2>3, FreshStep
<1>6. CASE ~r.anchored /\ r.stop = None
  <2>1. Fresh(r) /\ Len(taken) = 0
    BY <1>2, <1>6
  <2>2. Good(r', pos, 0, total)
    <3>1. CASE len > 0
      <4>1. Good(fed, pos, 0, total)
        BY <1>2, <1>3, <1>6, <2>1, <3>1, FreshFeed
      <4> HIDE DEF fed
      <4>2. 0 \in Nat
        OBVIOUS
      <4> QED BY <1>1, <1>2, <1>3, <4>1, <4>2, MissingGood
    <3>2. CASE len = 0
      <4>1. fed = r
        BY <3>2 DEF Feed
      <4>2. at = pos /\ cut > 0
        BY <1>1, <3>2 DEF at
      <4>3. r' = Missing(r, pos, cut, ts) /\ pos + cut <= total
        BY <1>1, <1>3, <4>1, <4>2
      <4> QED BY <1>2, <1>6, <2>1, <4>2, <4>3, FreshMissing
    <3> QED BY <3>1, <3>2
  <2>3. anchor' = pos
    <3>1. r'.anchored
      BY <2>2 DEF Good, Owing
    <3> QED BY <1>1, <1>6, <3>1 DEF Anchors
  <2>4. Good(r', pos, Len(taken), total)
    BY <2>1, <2>2
  <2> QED BY <1>1, <1>3, <1>6, <2>3, <2>4, GoodStep
<1> QED
  BY <1>4, <1>5, <1>6

\* segment_into lets bytes through: those at the stream position.
LEMMA PassedGood ==
  ASSUME NEW a \in Nat, NEW g \in Nat, NEW n \in Nat, n <= MaxLen, NEW q, Good(q, a, g, n),
         NEW pos \in Nat, NEW len \in Nat, pos + len <= n, Passes(q, pos, len) # <<>>
  PROVE  LET new == Passes(q, pos, len)
         IN /\ new \in Seq(Cell) /\ Len(new) \in Nat /\ Aligned(new, a + g)
            /\ Good(AdvanceTo(q, q.next_off + Len(new)), a, g + Len(new), n)
<1> DEFINE x == q.next_off
           off == OffsetOf(q, SeqOf(pos))
           k == off + len - x
           new == Passes(q, pos, len)
<1>1. Anchored(q, SeqOf(pos)) = q
  BY DEF Good, Owing, Anchored
<1>2. /\ len > 0 /\ q.stop = None /\ off <= x /\ k > 0 /\ q.ready = <<>>
      /\ new = Bytes(pos + len - k, k)
  BY <1>1 DEF Passes
<1>3. off = pos - a
  <2>1. pos \in Int /\ -1 <= pos /\ pos <= n
    OBVIOUS
  <2> QED BY <2>1, OffsetGood
<1>4. x \in Nat /\ q \in Reassembler
  BY GoodTypes
<1> HIDE DEF off
<1>5. k \in Nat /\ pos + len - k = a + x /\ a + (x + k) <= n
  BY <1>2, <1>3, <1>4
<1>6. g = x /\ Aligned(<<>>, a + g)
  <2>1. g + Len(q.ready) + 0 = x
    BY <1>2 DEF Good, Owing
  <2>2. Len(q.ready) = 0
    BY <1>2
  <2> HIDE DEF x
  <2>3. g = x
    BY <1>4, <2>1, <2>2
  <2> QED BY <2>3 DEF Aligned
<1> HIDE DEF k, x
<1>7. /\ new \in Seq(Cell) /\ Len(new) = k /\ Aligned(new, a + g)
  <2>1. a + x \in Nat
    BY <1>4
  <2> QED BY <1>2, <1>5, <1>6, <2>1, BytesAligned
<1> DEFINE s == AdvanceTo(q, x + k)
           f == g + k
<1>8. Owing(s, a, g, n, k) /\ s.next_off = x + k /\ s.ready = <<>>
  <2>1. x + k \in Int /\ x + k > x /\ k = 0 + ((x + k) - x) /\ k \in Int /\ 0 \in Int
    BY <1>2, <1>4, <1>5
  <2>2. Owing(q, a, g, n, 0)
    BY DEF Good
  <2> QED BY <1>2, <1>5, <2>1, <2>2, AdvanceOwes DEF x
<1> HIDE DEF s
<1>9. Good(s, a, f, n)
  <2>1. Aligned(s.ready, a + f)
    BY <1>8 DEF Aligned
  <2>2. Len(s.ready) = 0
    BY <1>8
  <2>3. f + 0 + 0 = x + k /\ x + k \in Nat
    BY <1>4, <1>5, <1>6
  <2>4. f + Len(s.ready) + 0 <= s.next_off /\ f + Len(s.ready) + 0 = s.next_off
    BY <1>8, <2>2, <2>3
  <2> QED BY <1>8, <2>1, <2>4 DEF Good, Owing
<1> QED
  BY <1>5, <1>7, <1>9 DEF s, x

LEMMA SegmentIntoStep ==
  ASSUME ReassemblerInv, NEW pos \in Nat, NEW len \in Nat, NEW ts \in Nat,
         SegmentInto(pos, len, ts)
  PROVE  ReassemblerInv' /\ Consumer!Give
<1> DEFINE through == Passes(r, pos, len)
           at == Anchored(r, SeqOf(pos))
<1>1. /\ len > 0 /\ pos + len <= total /\ taken' = taken \o through
      /\ r' = IF through # <<>> THEN AdvanceTo(at, at.next_off + Len(through))
              ELSE Feed(r, pos, len, ts)
      /\ IF r'.anchored THEN Anchors(pos) ELSE UNCHANGED anchor
      /\ total' = total
  BY DEF SegmentInto
<1>2. /\ total \in Nat /\ total <= MaxLen /\ taken \in Seq(Cell) /\ Len(taken) \in Nat
      /\ r.anchored => anchor \in Nat /\ anchor <= total
                       /\ Good(r, anchor, Len(taken), total)
      /\ ~r.anchored => anchor = None /\ taken = <<>> /\ Len(taken) = 0 /\ Fresh(r)
  BY InvParts
<1>3. pos <= total
  BY <1>1, <1>2
<1> DEFINE a == IF r.anchored THEN anchor ELSE pos
<1>4. a \in Nat /\ a <= total /\ Good(at, a, Len(taken), total) /\ a \in 0..total
  <2>1. CASE r.anchored
    <3>1. at = r
      BY <2>1 DEF Anchored
    <3> QED BY <1>2, <2>1, <3>1
  <2>2. CASE ~r.anchored
    <3>1. Good(at, pos, 0, total)
      BY <1>2, <1>3, <2>2, FreshAnchored
    <3> HIDE DEF at
    <3> QED BY <1>2, <1>3, <2>2, <3>1
  <2> QED BY <2>1, <2>2
<1>5. r'.anchored => anchor' = a
  BY <1>1 DEF Anchors
<1>6. anchor = a \/ (anchor = None /\ a \in 0..total)
  BY <1>2, <1>4
<1>7. CASE through # <<>>
  <2>1. Passes(at, pos, len) = through
    <3>1. Anchored(at, SeqOf(pos)) = at
      BY <1>4 DEF Good, Owing, Anchored
    <3>2. at.stop = r.stop /\ at.ready = r.ready /\ at.reorder = r.reorder
      <4>1. CASE r.anchored
        BY <4>1 DEF Anchored
      <4>2. CASE ~r.anchored
        BY <1>2, <1>3, <4>2, FreshAnchored
      <4> QED BY <4>1, <4>2
    <3> HIDE DEF at
    <3> QED BY <3>1, <3>2 DEF Passes, at
  <2> HIDE DEF at, through, a
  <2> DEFINE f == Len(taken) + Len(through)
  <2>2. /\ through \in Seq(Cell) /\ Len(through) \in Nat /\ Aligned(through, a + Len(taken))
        /\ Good(AdvanceTo(at, at.next_off + Len(through)), a, f, total)
    BY <1>1, <1>2, <1>4, <1>7, <2>1, PassedGood
  <2>3. Good(r', a, f, total)
    BY <1>1, <1>7, <2>2
  <2>4. r'.anchored
    BY <2>3 DEF Good, Owing
  <2>5. taken' \in Seq(Cell) /\ Len(taken') = f
    BY <1>1, <1>2, <2>2, JoinIs
  <2> HIDE DEF f
  <2>6. anchor' = a
    BY <1>5, <2>4 DEF a
  <2>7. ReassemblerInv'
    BY <1>1, <1>4, <2>3, <2>4, <2>5, <2>6 DEF ReassemblerInv
  <2>8. anchor' = anchor \/ (anchor = None /\ anchor' \in 0..total)
    BY <1>6, <2>6
  <2> QED BY <1>1, <2>2, <2>6, <2>7, <2>8, GiveStep
<1>8. CASE through = <<>>
  <2>1. taken' = taken /\ r' = Feed(r, pos, len, ts)
    BY <1>1, <1>2, <1>8, JoinEmpty
  <2> HIDE DEF through, at
  <2>2. CASE r.anchored
    <3>1. Good(r', anchor, Len(taken), total)
      BY <1>1, <1>2, <2>1, <2>2, FeedGood
    <3>2. r'.anchored
      BY <3>1 DEF Good, Owing
    <3> QED BY <1>1, <1>2, <1>5, <2>1, <2>2, <3>1, <3>2, GoodStep
  <2>3. CASE ~r.anchored /\ r.stop # None
    <3>1. r' = r
      BY <2>1, <2>3 DEF Feed
    <3>2. anchor' = anchor
      BY <1>1, <2>3, <3>1
    <3> QED BY <1>1, <1>2, <2>1, <2>3, <3>1, <3>2, FreshStep
  <2>4. CASE ~r.anchored /\ r.stop = None
    <3>1. Good(r', pos, 0, total)
      BY <1>1, <1>2, <2>1, <2>4, FreshFeed
    <3>2. r'.anchored
      BY <3>1 DEF Good, Owing
    <3>3. Good(r', pos, Len(taken), total) /\ anchor' = pos
      BY <1>2, <1>5, <2>4, <3>1, <3>2
    <3> QED BY <1>1, <1>3, <2>1, <2>4, <3>3, GoodStep
  <2> QED BY <2>2, <2>3, <2>4
<1> QED
  BY <1>7, <1>8

LEMMA PeerAckStep ==
  ASSUME ReassemblerInv, NEW ack \in 0..total + 1, NEW ts \in Nat, PeerAck(ack, ts)
  PROVE  ReassemblerInv' /\ Consumer!Give
<1> DEFINE p == ack - 1
           e == Evidence(r, SeqOf(p), ts)
<1>1. /\ r' = IF r.stop # None THEN r ELSE CheckTimers(e, ts)
      /\ UNCHANGED <<total, taken, anchor>>
  BY DEF PeerAck
<1>2. /\ total \in Nat /\ total <= MaxLen /\ taken \in Seq(Cell) /\ Len(taken) \in Nat
      /\ r.anchored => anchor \in Nat /\ anchor <= total
                       /\ Good(r, anchor, Len(taken), total)
      /\ ~r.anchored => anchor = None /\ taken = <<>> /\ Len(taken) = 0 /\ Fresh(r)
  BY InvParts
<1>3. p \in Int /\ -1 <= p /\ p <= total
  BY <1>2
<1> HIDE DEF p
<1>4. CASE r.anchored
  <2>1. Good(e, anchor, Len(taken), total)
    BY <1>2, <1>3, <1>4, EvidenceGood
  <2> HIDE DEF e
  <2>2. Good(CheckTimers(e, ts), anchor, Len(taken), total)
    BY <1>2, <1>4, <2>1, TimersGood
  <2>3. Good(r', anchor, Len(taken), total)
    BY <1>1, <1>2, <1>4, <2>2
  <2> QED BY <1>1, <1>2, <1>4, <2>3, GoodStep
<1>5. CASE ~r.anchored
  <2>1. e = r /\ CheckTimers(r, ts) = r
    BY <1>2, <1>5, FreshQuiet
  <2> HIDE DEF e
  <2>2. r' = r
    BY <1>1, <2>1
  <2> QED BY <1>1, <1>2, <1>5, <2>2, FreshStep
<1> QED
  BY <1>4, <1>5

\* note_fin: the end of the stream, where it was sent.
LEMMA FinNotedGood ==
  ASSUME NEW a \in Nat, NEW g \in Nat, NEW n \in Nat, n <= MaxLen, NEW q, Good(q, a, g, n)
  PROVE  Good(FinNoted(q, SeqOf(n)), a, g, n)
<1> DEFINE off == OffsetOf(q, SeqOf(n))
           least == Least(q.evidence, off)
           s == [q EXCEPT !.fin_off = off, !.evidence = least]
<1>1. off = n - a
  <2>1. n \in Int /\ -1 <= n /\ n <= n
    OBVIOUS
  <2> QED BY <2>1, OffsetGood
<1>2. q \in Reassembler /\ q.next_off \in Nat /\ q.evidence \in Nat
  BY GoodTypes
<1>3. q.anchored /\ a + q.evidence <= n
  BY DEF Good, Owing
<1> HIDE DEF off
<1>4. CASE off < q.next_off
  BY <1>4 DEF FinNoted, off
<1>5. CASE ~(off < q.next_off)
  <2>1. FinNoted(q, SeqOf(n)) = s
    BY <1>3, <1>5 DEF FinNoted, off
  <2>2. off \in Nat /\ least \in Nat /\ a + least <= n /\ a + off = n
    BY <1>1, <1>2, <1>3, <1>5 DEF Least
  <2> HIDE DEF least
  <2>3. /\ s \in Reassembler /\ s.next_off = q.next_off /\ s.next_seq = q.next_seq
        /\ s.ready = q.ready /\ s.fin_off = off /\ s.evidence = least
        /\ s.anchored = q.anchored /\ s.oow = q.oow /\ s.reorder = q.reorder
        /\ s.stop = q.stop
    <3> DEFINE t == [q EXCEPT !.fin_off = off]
    <3>1. off \in Int \cup {None}
      BY <2>2
    <3>2. /\ t \in Reassembler /\ t.next_off = q.next_off /\ t.next_seq = q.next_seq
          /\ t.ready = q.ready /\ t.fin_off = off
          /\ t.anchored = q.anchored /\ t.oow = q.oow /\ t.reorder = q.reorder
          /\ t.stop = q.stop
      BY <1>2, <3>1 DEF Reassembler
    <3>3. s = [t EXCEPT !.evidence = least]
      BY <1>2 DEF Reassembler
    <3> HIDE DEF t, s
    <3>4. /\ s \in Reassembler /\ s.next_off = t.next_off /\ s.next_seq = t.next_seq
          /\ s.ready = t.ready /\ s.fin_off = t.fin_off /\ s.evidence = least
          /\ s.anchored = t.anchored /\ s.oow = t.oow /\ s.reorder = t.reorder
          /\ s.stop = t.stop
      BY <2>2, <3>2, <3>3 DEF Reassembler
    <3> QED BY <3>2, <3>4
  <2> HIDE DEF s
  <2>4. Good(s, a, g, n)
    BY <2>2, <2>3 DEF Good, Owing
  <2> QED BY <2>1, <2>4
<1> QED
  BY <1>4, <1>5

LEMMA FinSeenStep ==
  ASSUME ReassemblerInv, NEW ts \in Nat, FinSeen(ts)
  PROVE  ReassemblerInv' /\ Consumer!Give
<1> DEFINE f == FinNoted(r, SeqOf(total))
<1>1. /\ r' = IF r.stop # None THEN r ELSE Evidence(f, SeqOf(total), ts)
      /\ UNCHANGED <<total, taken, anchor>>
  BY DEF FinSeen
<1>2. /\ total \in Nat /\ total <= MaxLen /\ taken \in Seq(Cell) /\ Len(taken) \in Nat
      /\ r.anchored => anchor \in Nat /\ anchor <= total
                       /\ Good(r, anchor, Len(taken), total)
      /\ ~r.anchored => anchor = None /\ taken = <<>> /\ Len(taken) = 0 /\ Fresh(r)
  BY InvParts
<1>3. total \in Int /\ -1 <= total /\ total <= total
  BY <1>2
<1>4. CASE r.anchored
  <2>1. Good(f, anchor, Len(taken), total)
    BY <1>2, <1>4, FinNotedGood
  <2> HIDE DEF f
  <2>2. Good(Evidence(f, SeqOf(total), ts), anchor, Len(taken), total)
    BY <1>2, <1>3, <1>4, <2>1, EvidenceGood
  <2>3. Good(r', anchor, Len(taken), total)
    BY <1>1, <1>2, <1>4, <2>2
  <2> QED BY <1>1, <1>2, <1>4, <2>3, GoodStep
<1>5. CASE ~r.anchored
  <2>1. f = r /\ Evidence(r, SeqOf(total), ts) = r
    BY <1>2, <1>5, FreshQuiet
  <2> HIDE DEF f
  <2>2. r' = r
    BY <1>1, <2>1
  <2> QED BY <1>1, <1>2, <1>5, <2>2, FreshStep
<1> QED
  BY <1>4, <1>5

LEMMA AdvanceTimeStep ==
  ASSUME ReassemblerInv, NEW now, AdvanceTime(now)
  PROVE  ReassemblerInv' /\ Consumer!Give
<1>1. r' = CheckTimers(r, now) /\ UNCHANGED <<total, taken, anchor>>
  BY DEF AdvanceTime
<1>2. CASE r.anchored
  <2>1. /\ total \in Nat /\ Len(taken) \in Nat /\ anchor \in Nat /\ anchor <= total
        /\ Good(r, anchor, Len(taken), total)
    BY <1>2, InvParts
  <2>2. Good(r', anchor, Len(taken), total)
    BY <1>1, <2>1, TimersGood
  <2> QED BY <1>1, <1>2, <2>1, <2>2, GoodStep
<1>3. CASE ~r.anchored
  <2>1. Fresh(r)
    BY <1>3, InvParts
  <2>2. r' = r
    BY <1>1, <2>1, FreshQuiet
  <2> QED BY <1>1, <1>3, <2>1, <2>2, FreshStep
<1> QED
  BY <1>2, <1>3

\* drain_into: what is ready goes to the consumer.
LEMMA DrainedGood ==
  ASSUME NEW a \in Nat, NEW g \in Nat, NEW n \in Nat, NEW q, Good(q, a, g, n),
         NEW f, f = g + Len(q.ready), NEW s, s = [q EXCEPT !.ready = <<>>]
  PROVE  Good(s, a, f, n)
<1>1. q \in Reassembler /\ q.next_off \in Nat /\ Len(q.ready) \in Nat /\ <<>> \in Seq(Cell)
  BY GoodTypes
<1>2. /\ s \in Reassembler /\ s.next_off = q.next_off /\ s.next_seq = q.next_seq
      /\ s.ready = <<>> /\ s.fin_off = q.fin_off /\ s.evidence = q.evidence
      /\ s.anchored = q.anchored /\ s.oow = q.oow /\ s.reorder = q.reorder
      /\ s.stop = q.stop
  BY <1>1 DEF Reassembler
<1>3. Held(s.ready) = 0 /\ Len(s.ready) = 0 /\ Aligned(s.ready, a + f)
  <2>1. {i \in DOMAIN s.ready : s.ready[i] # Gap} = {}
    BY <1>2
  <2> QED BY <1>2, <2>1, FS_EmptySet DEF Held, Aligned
<1>4. MaxBuffer # None => Held(s.ready) <= MaxBuffer
  BY <1>3, BufferAssumption
<1> DEFINE l == Len(q.ready)  x == q.next_off
<1>5. g + l + 0 <= x /\ (q.stop = None => g + l + 0 = x)
  BY DEF Good, Owing
<1> HIDE DEF l, x
<1>6. f + Len(s.ready) + 0 <= s.next_off /\ (s.stop = None => f + Len(s.ready) + 0 = s.next_off)
  <2>1. l \in Nat /\ x \in Nat /\ f = g + l /\ s.next_off = x /\ s.stop = q.stop
    BY <1>1, <1>2 DEF l, x
  <2> QED BY <1>3, <1>5, <2>1
<1> QED
  BY <1>2, <1>3, <1>4, <1>6 DEF Good, Owing

LEMMA DrainIntoStep ==
  ASSUME ReassemblerInv, DrainInto
  PROVE  ReassemblerInv' /\ Consumer!Give
<1> DEFINE new == r.ready
           f == Len(taken) + Len(new)
<1>1. /\ taken' = taken \o new /\ r' = [r EXCEPT !.ready = <<>>]
      /\ UNCHANGED <<total, anchor>>
  BY DEF DrainInto
<1>2. CASE r.anchored
  <2>1. /\ total \in Nat /\ taken \in Seq(Cell) /\ Len(taken) \in Nat
        /\ anchor \in Nat /\ anchor <= total /\ Good(r, anchor, Len(taken), total)
    BY <1>2, InvParts
  <2>2. new \in Seq(Cell) /\ Len(new) \in Nat /\ Aligned(new, anchor + Len(taken))
    BY <2>1, GoodTypes DEF Good, Owing
  <2>3. Good(r', anchor, f, total)
    BY <1>1, <2>1, DrainedGood
  <2> HIDE DEF new
  <2>4. taken' \in Seq(Cell) /\ Len(taken') = f
    BY <1>1, <2>1, <2>2, JoinIs
  <2> HIDE DEF f
  <2>5. r'.anchored
    BY <2>3 DEF Good, Owing
  <2>6. ReassemblerInv'
    BY <1>1, <1>2, <2>3, <2>4, <2>5 DEF ReassemblerInv
  <2> QED BY <1>1, <2>2, <2>6, GiveStep
<1>3. CASE ~r.anchored
  <2>1. taken = <<>> /\ Fresh(r)
    BY <1>3, InvParts
  <2>2. new = <<>> /\ r \in Reassembler
    BY <2>1 DEF Fresh
  <2>3. r' = r
    BY <1>1, <2>2 DEF Reassembler
  <2>4. taken' = taken
    BY <1>1, <2>1, <2>2
  <2> QED BY <1>1, <1>3, <2>1, <2>3, <2>4, FreshStep
<1> QED
  BY <1>2, <1>3

LEMMA FlushPendingStep ==
  ASSUME ReassemblerInv, FlushPending
  PROVE  ReassemblerInv' /\ Consumer!Give
<1> DEFINE last == ReleaseReorder(r)
           ended == SkipTo(last, last.evidence)
           s == [ended EXCEPT !.oow = None]
<1>1. r' = (IF r.stop # None THEN r ELSE s) /\ UNCHANGED <<total, taken, anchor>>
  BY DEF FlushPending
<1>2. CASE r.anchored
  <2>1. /\ total \in Nat /\ Len(taken) \in Nat /\ anchor \in Nat /\ anchor <= total
        /\ Good(r, anchor, Len(taken), total)
    BY <1>2, InvParts
  <2>2. Good(last, anchor, Len(taken), total)
    BY <2>1, ReleaseGood
  <2> HIDE DEF last
  <2>3. last.evidence \in Int
    BY <2>2, GoodTypes
  <2>4. anchor + last.evidence <= total
    BY <2>2 DEF Good, Owing
  <2>5. Good(ended, anchor, Len(taken), total)
    BY <2>1, <2>2, <2>3, <2>4, SkipToGood
  <2> HIDE DEF ended
  <2>6. Good(s, anchor, Len(taken), total)
    BY <2>5, OowGood
  <2>7. Good(r', anchor, Len(taken), total)
    BY <1>1, <2>1, <2>6
  <2> QED BY <1>1, <1>2, <2>1, <2>7, GoodStep
<1>3. CASE ~r.anchored
  <2>1. Fresh(r)
    BY <1>3, InvParts
  <2>2. last = r /\ SkipTo(r, r.evidence) = r
    BY <2>1, FreshQuiet
  <2> HIDE DEF last
  <2>3. ended = r
    BY <2>2
  <2> HIDE DEF ended
  <2>4. s = r
    BY <2>1, <2>3 DEF Fresh, Reassembler
  <2>5. r' = r
    BY <1>1, <2>4
  <2> QED BY <1>1, <1>3, <2>1, <2>5, FreshStep
<1> QED
  BY <1>2, <1>3

\* release: nothing held stays, what was taken does.
LEMMA ReleaseStep ==
  ASSUME ReassemblerInv, Release
  PROVE  ReassemblerInv' /\ Consumer!Give
<1> DEFINE st == IF r.stop = None THEN "Memcap" ELSE r.stop
           t == [r EXCEPT !.ready = <<>>]
           u == [t EXCEPT !.reorder = None]
           v == [u EXCEPT !.oow = None]
           s == [v EXCEPT !.stop = st]
<1>1. r \in Reassembler /\ <<>> \in Seq(Cell)
  BY InvParts DEF Fresh, Good, Owing
<1>2. r' = s /\ UNCHANGED <<total, taken, anchor>>
  BY <1>1 DEF Release, Reassembler
<1>3. st \in {"Overflow", "Memcap"} /\ st # None
  BY <1>1, StopAssumption DEF Reassembler
<1> HIDE DEF st
<1>4. /\ t \in Reassembler /\ t.next_off = r.next_off /\ t.next_seq = r.next_seq
      /\ t.ready = <<>> /\ t.fin_off = r.fin_off /\ t.evidence = r.evidence
      /\ t.anchored = r.anchored /\ t.evidence_since = r.evidence_since
  BY <1>1 DEF Reassembler
<1> HIDE DEF t
<1>5. /\ u \in Reassembler /\ u.next_off = t.next_off /\ u.next_seq = t.next_seq
      /\ u.ready = t.ready /\ u.fin_off = t.fin_off /\ u.evidence = t.evidence
      /\ u.anchored = t.anchored /\ u.evidence_since = t.evidence_since /\ u.reorder = None
  BY <1>4 DEF Reassembler
<1> HIDE DEF u
<1>6. /\ v \in Reassembler /\ v.next_off = u.next_off /\ v.next_seq = u.next_seq
      /\ v.ready = u.ready /\ v.fin_off = u.fin_off /\ v.evidence = u.evidence
      /\ v.anchored = u.anchored /\ v.evidence_since = u.evidence_since
      /\ v.reorder = u.reorder /\ v.oow = None
  BY <1>5 DEF Reassembler
<1> HIDE DEF v
<1>7. /\ s \in Reassembler /\ s.next_off = v.next_off /\ s.next_seq = v.next_seq
      /\ s.ready = v.ready /\ s.fin_off = v.fin_off /\ s.evidence = v.evidence
      /\ s.anchored = v.anchored /\ s.evidence_since = v.evidence_since
      /\ s.reorder = v.reorder /\ s.oow = v.oow /\ s.stop = st
  BY <1>3, <1>6 DEF Reassembler
<1> HIDE DEF s
<1>8. /\ s \in Reassembler /\ s.next_off = r.next_off /\ s.next_seq = r.next_seq
      /\ s.ready = <<>> /\ s.fin_off = r.fin_off /\ s.evidence = r.evidence
      /\ s.anchored = r.anchored /\ s.evidence_since = r.evidence_since
      /\ s.reorder = None /\ s.oow = None /\ s.stop = st
  BY <1>4, <1>5, <1>6, <1>7
<1>9. CASE r.anchored
  <2> DEFINE a == anchor  g == Len(taken)  n == total
  <2>1. /\ n \in Nat /\ g \in Nat /\ a \in Nat /\ a <= n /\ Good(r, a, g, n)
    BY <1>9, InvParts
  <2>2. Held(s.ready) = 0 /\ Len(s.ready) = 0 /\ Aligned(s.ready, a + g)
    <3>1. {i \in DOMAIN s.ready : s.ready[i] # Gap} = {}
      BY <1>8
    <3> QED BY <1>8, <3>1, FS_EmptySet DEF Held, Aligned
  <2>3. MaxBuffer # None => Held(s.ready) <= MaxBuffer
    BY <2>2, BufferAssumption
  <2> DEFINE l == Len(r.ready)  x == r.next_off
  <2>4. g + l + 0 <= x /\ l \in Nat /\ x \in Nat
    BY <2>1, GoodTypes DEF Good, Owing
  <2> HIDE DEF a, g, n, l, x
  <2>5. g + 0 + 0 <= x
    BY <2>1, <2>4
  <2>6. g + Len(s.ready) + 0 <= s.next_off
    BY <1>8, <2>2, <2>5 DEF x
  <2>7. Good(s, a, g, n)
    BY <1>3, <1>8, <1>9, <2>1, <2>2, <2>3, <2>6 DEF Good, Owing
  <2> QED BY <1>2, <1>9, <2>1, <2>7, GoodStep DEF a, g, n
<1>10. CASE ~r.anchored
  <2>1. Fresh(r)
    BY <1>10, InvParts
  <2>2. Fresh(s)
    BY <1>8, <2>1 DEF Fresh
  <2> QED BY <1>2, <1>10, <2>2, FreshStep
<1> QED
  BY <1>9, <1>10

------------------------------------------------------------------------------
(* The theorems.                                                           *)

LEMMA ReassemblerInit == Init => ReassemblerInv /\ Consumer!Init
<1> SUFFICES ASSUME Init PROVE ReassemblerInv /\ Consumer!Init
  OBVIOUS
<1>1. /\ total \in 0..MaxLen /\ taken = <<>>
      /\ \E policy \in Policies :
           \/ r = New(policy) /\ anchor = None
           \/ r = Anchored(New(policy), SeqOf(0)) /\ anchor = 0
  BY DEF Init
<1>2. PICK policy \in Policies :
        \/ r = New(policy) /\ anchor = None
        \/ r = Anchored(New(policy), SeqOf(0)) /\ anchor = 0
  BY <1>1
<1>3. total \in Nat /\ taken \in Seq(Cell) /\ Len(taken) = 0 /\ 0 <= total
  BY <1>1, LengthAssumption
<1>4. Consumer!Init
  BY <1>1, <1>2, <1>3 DEF Consumer!Init
<1>5. New(policy) \in Reassembler /\ Fresh(New(policy))
  <2>1. <<>> \in Seq(Cell)
    OBVIOUS
  <2>2. /\ policy \in {"SlidingWindow", "DropFlow"}
    BY PolicyAssumption
  <2> QED BY <2>1, <2>2 DEF New, Reassembler, Fresh
<1>6. CASE r = New(policy) /\ anchor = None
  <2>1. Fresh(r) /\ anchor = None
    BY <1>5, <1>6
  <2>2. ~r.anchored
    BY <2>1 DEF Fresh
  <2> QED BY <1>1, <1>3, <1>4, <2>1, <2>2 DEF ReassemblerInv
<1>7. CASE r = Anchored(New(policy), SeqOf(0)) /\ anchor = 0
  <2> DEFINE z == 0
  <2>1. z \in Nat /\ z <= total /\ z \in 0..total
    BY <1>3
  <2>2. Good(Anchored(New(policy), SeqOf(z)), z, 0, total)
    <3> HIDE DEF z
    <3> QED BY <1>3, <1>5, <2>1, FreshAnchored
  <2>3. Good(r, anchor, Len(taken), total)
    BY <1>3, <1>7, <2>2
  <2>4. r.anchored
    BY <2>3 DEF Good, Owing
  <2>5. anchor \in 0..total
    BY <1>7, <2>1
  <2> QED BY <1>1, <1>3, <1>4, <2>3, <2>4, <2>5 DEF ReassemblerInv
<1> QED
  BY <1>2, <1>4, <1>6, <1>7

\* One step of the reassembler, whatever the call: a step of the byte stream.
LEMMA ReassemblerStep ==
  ASSUME ReassemblerInv, [Next]_vars
  PROVE  ReassemblerInv' /\ [Consumer!Give]_(Consumer!vars)
<1>1. 0..MaxLen \subseteq Nat /\ 0..MaxSegment \subseteq Nat /\ Times \subseteq Nat
  BY LengthAssumption DEF Times
<1>2. ASSUME NEW pos \in 0..MaxLen, NEW len \in 0..MaxSegment, NEW cut \in 0..MaxSegment,
             NEW ts \in Times, Segment(pos, len, cut, ts)
      PROVE  ReassemblerInv' /\ Consumer!Give
  BY <1>1, <1>2, SegmentStep
<1>3. ASSUME NEW pos \in 0..MaxLen, NEW len \in 0..MaxSegment, NEW ts \in Times,
             SegmentInto(pos, len, ts)
      PROVE  ReassemblerInv' /\ Consumer!Give
  BY <1>1, <1>3, SegmentIntoStep
<1>4. ASSUME NEW ack \in 0..total + 1, NEW ts \in Times, PeerAck(ack, ts)
      PROVE  ReassemblerInv' /\ Consumer!Give
  BY <1>1, <1>4, PeerAckStep
<1>5. ASSUME NEW ts \in Times, FinSeen(ts)
      PROVE  ReassemblerInv' /\ Consumer!Give
  BY <1>1, <1>5, FinSeenStep
<1>6. ASSUME NEW now, AdvanceTime(now)
      PROVE  ReassemblerInv' /\ Consumer!Give
  BY <1>6, AdvanceTimeStep
<1>7. CASE UNCHANGED vars
  BY <1>7 DEF vars, ReassemblerInv, Consumer!vars
<1> QED
  BY <1>2, <1>3, <1>4, <1>5, <1>6, <1>7, DrainIntoStep, FlushPendingStep, ReleaseStep DEF Next

\* Between two calls the reassembler is fresh, or anchored and its position,
\* evidence, held segments and ready cells agree with the stream sent.
THEOREM ReassemblerInvariance == Spec => []ReassemblerInv
<1>1. ReassemblerInv /\ [Next]_vars => ReassemblerInv'
  BY ReassemblerStep
<1> QED
  BY <1>1, ReassemblerInit, PTL DEF Spec

\* append_with_cap: undrained bytes never exceed max_buffer.
THEOREM BufferBounded == Spec => []WithinBuffer
<1>1. ReassemblerInv => WithinBuffer
  <2> SUFFICES ASSUME ReassemblerInv, MaxBuffer # None PROVE Held(r.ready) <= MaxBuffer
    BY DEF WithinBuffer
  <2>1. CASE r.anchored
    BY <2>1, InvParts DEF Good, Owing
  <2>2. CASE ~r.anchored
    <3>1. r.ready = <<>>
      BY <2>2, InvParts DEF Fresh
    <3>2. {i \in DOMAIN r.ready : r.ready[i] # Gap} = {}
      BY <3>1
    <3> QED BY <3>2, FS_EmptySet, BufferAssumption DEF Held
  <2> QED BY <2>1, <2>2
<1> QED
  BY <1>1, ReassemblerInvariance, PTL

\* The reassembler implements the byte stream promised to its consumer: every
\* cell is the byte sent at that place or a gap, in order, and none is given
\* twice, moved or taken back.
THEOREM ImplementsByteStream == Spec => IsByteStream
<1>1. ReassemblerInv /\ [Next]_vars => [Consumer!Give]_(Consumer!vars)
  BY ReassemblerStep
<1> QED
  BY <1>1, ReassemblerInit, ReassemblerInvariance, PTL DEF Spec, IsByteStream, Consumer!Spec

==============================================================================
