------------------------------ MODULE Sketches ------------------------------
(***************************************************************************)
(* The mergeable summaries of correlate/ and aggregate/: two shards of one *)
(* kind count the items of their own traffic and are merged.               *)
(*                                                                         *)
(*   "bloom"      correlate/bloom.rs           a set of bits               *)
(*   "counting"   correlate/counting_bloom.rs  cells that stick at CellMax *)
(*   "count_min"  correlate/count_min.rs       saturating counters         *)
(*   "hll"        correlate/hyperloglog.rs     registers, maximum wins     *)
(*   "topk"       correlate/topk.rs            at most K counters          *)
(*   "histogram"  aggregate/histogram.rs       counts per bucket           *)
(*   "ddsketch"   correlate/ddsketch.rs        K logarithmic bins, the     *)
(*                                             lowest one collapsing       *)
(*                                                                         *)
(* Hashing is a constant: Probe[x] is the sequence of places an item       *)
(* hashes to (double hashing may name a place twice).                      *)
(*                                                                         *)
(* self   the kind, and the shards a and b                                 *)
(* past   for each shard how often each item is in it (added less removed),*)
(*        how much was added, and whether any call added more than one     *)
(***************************************************************************)
EXTENDS Naturals, FiniteSets, Sequences, SequencesExt

CONSTANTS Items, Places, Probe, CellMax, CountMax, K, MaxAdds, MaxBatch

VARIABLES self, past

Shards == {"a", "b"}
AtMost(n, limit) == IF n < limit THEN n ELSE limit
Larger(m, n) == IF m < n THEN n ELSE m
PlacesOf(x) == {Probe[x][i] : i \in DOMAIN Probe[x]}
Rows == 1..2
TotalOf(count) == FoldSet(LAMBDA x, n : count[x] + n, 0, DOMAIN count)

Kinds == {"bloom", "counting", "count_min", "hll", "topk", "histogram", "ddsketch"}
NewBloom == {}
NewCounting == [c \in Places |-> 0]
NewCountMin == [cell \in Rows \X Places |-> 0]
NewHll == [c \in Places |-> 0]
NewTopK == <<>>
NewHistogram == [c \in Places |-> 0]
NewDdSketch == [bins |-> <<>>, min_key |-> 0, zero_count |-> 0]
Empty == [bloom |-> NewBloom, counting |-> NewCounting, count_min |-> NewCountMin, hll |-> NewHll,
          topk |-> NewTopK, histogram |-> NewHistogram, ddsketch |-> NewDdSketch]

-----------------------------------------------------------------------------
\* BloomFilter::insert and contains.
BloomInsert(bits, x) == bits \cup PlacesOf(x)
BloomContains(bits, x) == PlacesOf(x) \subseteq bits

\* CountingBloomFilter: a cell at CellMax sticks, in both directions.
CellUp(cells, c) == IF cells[c] < CellMax THEN [cells EXCEPT ![c] = @ + 1] ELSE cells
\* Mutant: a stuck cell counts down.
CellDownUnstuck(cells, c) == [cells EXCEPT ![c] = IF @ = 0 THEN CellMax ELSE @ - 1]

CellDown(cells, c) ==
    IF cells[c] < CellMax THEN [cells EXCEPT ![c] = (@ + CellMax) % (CellMax + 1)] ELSE cells
CountingContains(cells, x) == \A c \in PlacesOf(x) : cells[c] # 0
CountingInsert(cells, x) == FoldLeft(CellUp, cells, Probe[x])
CountingRemove(cells, x) ==
    IF CountingContains(cells, x) THEN FoldLeft(CellDown, cells, Probe[x]) ELSE cells

\* CountMinSketch::add and estimate: row i of an item is its i-th place.
InRow(x, cell) == cell[2] = Probe[x][cell[1]]
CountMinAdd(grid, x, n) ==
    [cell \in DOMAIN grid |-> IF InRow(x, cell) THEN AtMost(grid[cell] + n, CountMax) ELSE grid[cell]]
CountMinEstimate(grid, x) ==
    LET row(i) == grid[<<i, Probe[x][i]>>] IN CHOOSE n \in {row(i) : i \in Rows} :
                                                  \A i \in Rows : n <= row(i)

\* HyperLogLog::add_hash: the first place is the register, the second the
\* number of leading zeros of the rest of the hash.
HllAdd(registers, x) == [registers EXCEPT ![Probe[x][1]] = Larger(@, Probe[x][2])]

\* TopK::observe_n.
TopKObserve(counts, x, n) ==
    LET left == {y \in DOMAIN counts : counts[y] > n}
        cut  == [y \in left |-> counts[y] - n]
        with(table) == [y \in DOMAIN table \cup {x} |-> IF y = x THEN n ELSE table[y]]
    IN IF x \in DOMAIN counts THEN [counts EXCEPT ![x] = @ + n]
       ELSE IF Cardinality(DOMAIN counts) < K THEN with(counts)
       ELSE IF Cardinality(left) < K THEN with(cut) ELSE cut

\* Histogram::record: the bucket is the item's first place.
HistogramRecord(counts, x) == [counts EXCEPT ![Probe[x][1]] = @ + 1]

\* DdSketch: key_for is the logarithm of the value, here a constant of the
\* item; 0 stands for a value that is not positive.
KeyFor(x) == 3 * Probe[x][1] + Probe[x][2] - 1

Resized(s, len) == [s EXCEPT !.bins = @ \o [i \in 1..(len - Len(@)) |-> 0]]

\* collapse_below: the bins under the new lowest are folded into it.
CollapseBelow(s, min) ==
    LET dropped == AtMost(min - s.min_key, Len(s.bins))
        folded  == FoldSeq(LAMBDA c, n : c + n, 0, SubSeq(s.bins, 1, dropped))
        left    == SubSeq(s.bins, dropped + 1, Len(s.bins))
    IN [s EXCEPT !.min_key = min,
                 !.bins = IF left = <<>> THEN <<folded>> ELSE [left EXCEPT ![1] = @ + folded]]

AddPositive(s, key, n) ==
    LET max == s.min_key + Len(s.bins) - 1
        counted(t) == [t EXCEPT !.bins[key - t.min_key + 1] = @ + n]
        below == [i \in 1..(s.min_key - key) |-> IF i = 1 THEN n ELSE 0]
    IN IF s.bins = <<>> THEN [s EXCEPT !.min_key = key, !.bins = <<n>>]
       ELSE IF key \in s.min_key..max THEN counted(s)
       ELSE IF key > max /\ key - s.min_key < K THEN counted(Resized(s, key - s.min_key + 1))
       ELSE IF key > max THEN counted(Resized(CollapseBelow(s, key - K + 1), K))
       ELSE IF max - key < K THEN [s EXCEPT !.min_key = key, !.bins = below \o @]
       ELSE [s EXCEPT !.bins[1] = @ + n]

DdSketchAdd(s, x, n) ==
    IF KeyFor(x) = 0 THEN [s EXCEPT !.zero_count = @ + n] ELSE AddPositive(s, KeyFor(x), n)

DdSketchMerge(s, t) ==
    FoldLeft(LAMBDA acc, i : IF t.bins[i] = 0 THEN acc
                             ELSE AddPositive(acc, t.min_key + i - 1, t.bins[i]),
             [s EXCEPT !.zero_count = @ + t.zero_count], [i \in DOMAIN t.bins |-> i])

-----------------------------------------------------------------------------
\* Mergeable::merge of each kind: s absorbs t.
TopKMerge(s, t) ==
    LET of(table, y) == IF y \in DOMAIN table THEN table[y] ELSE 0
        sum    == [y \in DOMAIN s \cup DOMAIN t |-> of(s, y) + of(t, y)]
        above(y) == {z \in DOMAIN sum : sum[z] > sum[y]}
        atLeast(y) == {z \in DOMAIN sum : sum[z] >= sum[y]}
        pivot  == sum[CHOOSE y \in DOMAIN sum :
                        Cardinality(above(y)) <= K /\ Cardinality(atLeast(y)) > K]
    IN IF Cardinality(DOMAIN sum) <= K THEN sum
       ELSE [y \in {z \in DOMAIN sum : sum[z] > pivot} |-> sum[y] - pivot]

BloomMerge(s, t) == s \cup t
CountingMerge(s, t) == [c \in Places |-> AtMost(s[c] + t[c], CellMax)]
CountMinMerge(s, t) == [cell \in DOMAIN s |-> AtMost(s[cell] + t[cell], CountMax)]
HllMerge(s, t) == [c \in Places |-> Larger(s[c], t[c])]
HistogramMerge(s, t) == [c \in Places |-> s[c] + t[c]]

Merged(kind, s, t) ==
    CASE kind = "bloom"     -> BloomMerge(s, t)
      [] kind = "counting"  -> CountingMerge(s, t)
      [] kind = "count_min" -> CountMinMerge(s, t)
      [] kind = "hll"       -> HllMerge(s, t)
      [] kind = "topk"      -> TopKMerge(s, t)
      [] kind = "histogram" -> HistogramMerge(s, t)
      [] kind = "ddsketch"  -> DdSketchMerge(s, t)

Init ==
    /\ \E kind \in Kinds :
          self = [kind |-> kind, shard |-> [i \in Shards |-> Empty[kind]]]
    /\ past = [net   |-> [i \in Shards |-> [x \in Items |-> 0]],
               added |-> [i \in Shards |-> 0],
               units |-> TRUE]

Added(i, x, n) ==
    /\ past.added["a"] + past.added["b"] + n <= MaxAdds
    /\ past' = [past EXCEPT !.net[i][x] = @ + n, !.added[i] = @ + n,
                            !.units = @ /\ n = 1]

Stored(i, s) == self' = [self EXCEPT !.shard[i] = s]

Add(i, x) ==
    /\ Added(i, x, 1)
    /\ \/ self.kind = "bloom" /\ Stored(i, BloomInsert(self.shard[i], x))
       \/ self.kind = "counting" /\ Stored(i, CountingInsert(self.shard[i], x))
       \/ self.kind = "hll" /\ Stored(i, HllAdd(self.shard[i], x))
       \/ self.kind = "histogram" /\ Stored(i, HistogramRecord(self.shard[i], x))

AddMany(i, x, n) ==
    /\ Added(i, x, n)
    /\ \/ self.kind = "count_min" /\ Stored(i, CountMinAdd(self.shard[i], x, n))
       \/ self.kind = "topk" /\ Stored(i, TopKObserve(self.shard[i], x, n))
       \/ self.kind = "ddsketch" /\ Stored(i, DdSketchAdd(self.shard[i], x, n))

\* CountingBloomFilter::remove of an item that was inserted.
RemoveItem(i, x) ==
    /\ self.kind = "counting"
    /\ past.net[i][x] > 0
    /\ Stored(i, CountingRemove(self.shard[i], x))
    /\ past' = [past EXCEPT !.net[i][x] = @ - 1]

\* `a.merge(b)` consumes b; the worker behind b starts an empty one.
Merge ==
    /\ self' = [self EXCEPT !.shard = [a |-> Merged(self.kind, @["a"], @["b"]), b |-> Empty[self.kind]]]
    /\ past' = [past EXCEPT
                  !.net = [a |-> [x \in Items |-> @["a"][x] + @["b"][x]], b |-> [x \in Items |-> 0]],
                  !.added = [a |-> @["a"] + @["b"], b |-> 0]]

Clear(i) ==
    /\ self.kind # "histogram"
    /\ Stored(i, Empty[self.kind])
    /\ past' = [past EXCEPT !.net[i] = [x \in Items |-> 0], !.added[i] = 0]

Next ==
    \/ \E i \in Shards, x \in Items : Add(i, x) \/ RemoveItem(i, x)
    \/ \E i \in Shards, x \in Items, n \in 1..MaxBatch : AddMany(i, x, n)
    \/ \E i \in Shards : Clear(i)
    \/ Merge

-----------------------------------------------------------------------------
\* How much was added to shard i at the places that satisfy a hash condition.
AddedAt(i, hit) == TotalOf([x \in {y \in Items : hit[y]} |-> past.net[i][x]])

(***************************************************************************)
(* Merging shards loses nothing that a single summary of the same traffic  *)
(* would have: a Bloom filter, a HyperLogLog and a histogram are exactly   *)
(* the summary of all the items; a count-min sketch never answers less     *)
(* than the true count; a counting filter never denies an item that is     *)
(* still in it, whatever cells stuck on the way; TopK never claims more    *)
(* than was counted and, for observations of one, undercounts by at most   *)
(* a K-th of them; a DdSketch counts every value, at its own bin or above. *)
(* (Not only below the lowest bin: a value that does not fit goes into the *)
(* lowest bin of the moment, and the window may grow down afterwards.)     *)
(***************************************************************************)
MergedAsOne ==
    \A i \in Shards :
        LET s == self.shard[i]
            n == past.net[i]
            in == {x \in Items : n[x] > 0}
            estimate(x) == IF x \in DOMAIN s THEN s[x] ELSE 0
        IN CASE self.kind = "bloom" -> s = UNION {PlacesOf(x) : x \in in}
             [] self.kind = "counting" -> \A x \in in : CountingContains(s, x)
             [] self.kind = "count_min" ->
                  \A x \in in : CountMinEstimate(s, x) >= AtMost(n[x], CountMax)
             [] self.kind = "hll" ->
                  \A c \in Places : s[c] = FoldSet(Larger, 0, {Probe[x][2] : x \in {y \in in : Probe[y][1] = c}})
             [] self.kind = "topk" ->
                  /\ Cardinality(DOMAIN s) <= K
                  /\ \A x \in Items : estimate(x) <= n[x]
                  /\ past.units => \A x \in Items : K * (n[x] - estimate(x)) <= past.added[i]
             [] self.kind = "ddsketch" ->
                  /\ Len(s.bins) <= K
                  /\ s.zero_count = AddedAt(i, [x \in Items |-> KeyFor(x) = 0])
                  /\ \A b \in DOMAIN s.bins :
                        LET above == FoldSeq(LAMBDA c, m : c + m, 0, SubSeq(s.bins, b, Len(s.bins)))
                            true  == AddedAt(i, [x \in Items |-> KeyFor(x) >= s.min_key + b - 1])
                        IN above >= true
                  /\ FoldSeq(LAMBDA c, m : c + m, 0, s.bins) + s.zero_count = past.added[i]
             [] self.kind = "histogram" ->
                  \A c \in Places : s[c] = AddedAt(i, [x \in Items |-> Probe[x][1] = c])
=============================================================================
