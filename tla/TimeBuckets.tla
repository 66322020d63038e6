---------------------------- MODULE TimeBuckets -----------------------------
(***************************************************************************)
(* The buckets of the sliding windows of correlate/:                       *)
(*                                                                         *)
(*   "counter"  bucketed.rs      TimeBucketedCounter                       *)
(*   "set"      set.rs           TimeBucketedSet                           *)
(*   "rate"     rolling_rate.rs  RollingRate                               *)
(*                                                                         *)
(* A window is a sequence of buckets: a bucket's start, what it holds per  *)
(* key, and (rate) the sum of the keys beyond Capacity.                    *)
(***************************************************************************)
EXTENDS Naturals, FiniteSets, Sequences, SequencesExt

CONSTANTS Window, Width, Capacity

-----------------------------------------------------------------------------
\* bucket_start_for and cutoff_for.
StartOf(t) == (t \div Width) * Width
Cutoff(now) == IF now > Window THEN now - Window ELSE 0

\* What a bucket holds under one key: a count, a set of values, a sum.
One(kind, v) == CASE kind = "counter" -> 1 [] kind = "set" -> {v} [] kind = "rate" -> v
Plus(kind, x, y) == IF kind = "set" THEN x \cup y ELSE x + y
Size(kind, x) == IF kind = "set" THEN Cardinality(x) ELSE x

\* `*map.entry(k).or_insert(0) += x`.
Entered(kind, held, k, x) ==
    [j \in DOMAIN held \cup {k} |->
        IF j # k THEN held[j] ELSE IF k \in DOMAIN held THEN Plus(kind, held[k], x) ELSE x]

NewBucket(start) == [start |-> start, held |-> <<>>, other |-> 0]

\* Bucket::add: beyond Capacity keys a rate adds to `other`; a counter and a
\* set have no bound here.
Add(kind, b, k, x) ==
    IF kind = "rate" /\ k \notin DOMAIN b.held /\ Cardinality(DOMAIN b.held) >= Capacity
    THEN [b EXCEPT !.other = @ + x]
    ELSE [b EXCEPT !.held = Entered(kind, @, k, x)]

\* The buckets from the front on that are not expired: the first one that is
\* not stops the eviction, whatever stands behind it.
PopFront(bs, now) ==
    LET kept == {i \in 1..Len(bs) : \E j \in 1..i : bs[j].start >= Cutoff(now)}
    IN SubSeq(bs, Len(bs) - Cardinality(kept) + 1, Len(bs))

KeysHeld(bs) == FoldSeq(LAMBDA b, n : Cardinality(DOMAIN b.held) + n, 0, bs)

\* The soft bound on keys: the oldest bucket loses its smallest entries, in
\* the order of a hash map among equals.  The set of possible outcomes.
Squeezed(kind, bs) ==
    LET over   == KeysHeld(bs) - Capacity
        oldest == Head(bs).held
        size(k) == Size(kind, oldest[k])
        gone   == {g \in SUBSET DOMAIN oldest :
                     /\ Cardinality(g) = IF over < Cardinality(DOMAIN oldest) THEN over
                                         ELSE Cardinality(DOMAIN oldest)
                     /\ \A k \in g, j \in DOMAIN oldest \ g : size(k) <= size(j)}
    IN {[bs EXCEPT ![1].held = [k \in DOMAIN oldest \ g |-> oldest[k]]] : g \in gone}

\* evict_expired.
Evicted(kind, bs, now) ==
    LET kept == PopFront(bs, now)
    IN IF kind # "rate" /\ KeysHeld(kept) > Capacity THEN Squeezed(kind, kept) ELSE {kept}

\* bump and insert: the newest bucket if it is the right one, a new bucket at
\* the back otherwise, even when time went back.
Appended(kind, bs, k, x, now) ==
    IF bs # <<>> /\ Last(bs).start = StartOf(now)
    THEN [bs EXCEPT ![Len(bs)] = Add(kind, @, k, x)]
    ELSE Append(bs, Add(kind, NewBucket(StartOf(now)), k, x))

\* Find the bucket of `start`, or insert it before the first later one.
Place(bs, start) ==
    LET earlier == {i \in 1..Len(bs) : bs[i].start < start}
        at      == 1 + Cardinality(earlier)
    IN IF \E i \in 1..Len(bs) : bs[i].start = start THEN bs
       ELSE InsertAt(bs, at, NewBucket(start))

\* RollingRate::record: buckets more than a window ahead of the record go.
Recorded(bs, k, x, now) ==
    LET near == SelectSeq(PopFront(bs, now), LAMBDA b : b.start <= now + Window)
        room == Place(near, StartOf(now))
    IN [i \in 1..Len(room) |->
          IF room[i].start = StartOf(now) THEN Add("rate", room[i], k, x) ELSE room[i]]

-----------------------------------------------------------------------------
\* One bucket of the other shard: into the first bucket of its start, or in
\* before the first later one (the counter and the set search from the front
\* and do not assume the order).
FirstAt(bs, start) ==
    LET hits == {i \in 1..Len(bs) : bs[i].start = start}
    IN IF hits = {} THEN 0 ELSE CHOOSE i \in hits : \A j \in hits : i <= j
FirstAfter(bs, start) ==
    LET hits == {i \in 1..Len(bs) : bs[i].start > start}
    IN IF hits = {} THEN Len(bs) + 1 ELSE CHOOSE i \in hits : \A j \in hits : i <= j

\* Mutant: what the other shard could not attribute is lost.
AbsorbKeyed(kind, bs, b) ==
    LET room == IF FirstAt(bs, b.start) # 0 THEN bs
                ELSE InsertAt(bs, FirstAfter(bs, b.start), NewBucket(b.start))
        pos  == FirstAt(room, b.start)
        sum(k) == IF k \in DOMAIN room[pos].held THEN Plus(kind, room[pos].held[k], b.held[k]) ELSE b.held[k]
    IN {[room EXCEPT ![pos].held = [k \in DOMAIN @ \cup DOMAIN b.held |->
            IF k \in DOMAIN b.held THEN sum(k) ELSE @[k]]]}

Absorb(kind, bs, b) ==
    LET room == IF FirstAt(bs, b.start) # 0 THEN bs
                ELSE InsertAt(bs, FirstAfter(bs, b.start), NewBucket(b.start))
        pos  == FirstAt(room, b.start)
        mine == room[pos]
        \* the keys of b in every order its hash map may give them
        orders == {o \in [1..Cardinality(DOMAIN b.held) -> DOMAIN b.held] :
                     \A i, j \in DOMAIN o : o[i] = o[j] => i = j}
        full(o) == FoldLeft(LAMBDA acc, k : Add(kind, acc, k, b.held[k]), mine, o)
    IN {[room EXCEPT ![pos] = [full(o) EXCEPT !.other = @ + b.other]] : o \in orders}

\* Mergeable::merge.
Merges(kind, mine, theirs) ==
    FoldLeft(LAMBDA results, b : UNION {Absorb(kind, bs, b) : bs \in results}, {mine}, theirs)

-----------------------------------------------------------------------------
\* count, cardinality, sum and other_sum: the buckets that start in the window.
Active(bs, now) == SelectSeq(bs, LAMBDA b : b.start >= Cutoff(now))

Answer(kind, bs, k, now) ==
    LET zero == IF kind = "set" THEN {} ELSE 0
        sum  == FoldSeq(LAMBDA b, acc : IF k \in DOMAIN b.held THEN Plus(kind, acc, b.held[k]) ELSE acc,
                        zero, Active(bs, now))
    IN Size(kind, sum)

OtherSum(bs, now) == FoldSeq(LAMBDA b, acc : b.other + acc, 0, Active(bs, now))
=============================================================================
