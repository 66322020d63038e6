---------------------------- MODULE TimeWindows -----------------------------
(***************************************************************************)
(* The sliding windows of correlate/: counts, distinct values and sums per *)
(* key over the last Window, kept in buckets of Width.                     *)
(*                                                                         *)
(*   "counter"  bucketed.rs      TimeBucketedCounter                       *)
(*   "set"      set.rs           TimeBucketedSet                           *)
(*   "rate"     rolling_rate.rs  RollingRate (BandwidthByKey holds two)    *)
(*                                                                         *)
(* Timestamps may go back: several capture queues feed one window.         *)
(*                                                                         *)
(* self   the kind, and the buckets of two shards a and b                  *)
(* past   per shard the bag of what was recorded, <<key, value, time>>;    *)
(*        the latest time it saw, and whether a key was squeezed out       *)
(***************************************************************************)
EXTENDS TimeBuckets

CONSTANTS Keys, Values, Times, MaxRecords

VARIABLES self, past

Shards == {"a", "b"}
Kinds == {"counter", "set", "rate"}

Init ==
    /\ \E kind \in Kinds : self = [kind |-> kind, shard |-> [i \in Shards |-> <<>>]]
    /\ past = [seen |-> [i \in Shards |-> EmptyBag], latest |-> 0, squeezed |-> FALSE]

Room == BagCardinality(past.seen["a"]) + BagCardinality(past.seen["b"]) < MaxRecords

With(seen, k, v, now) == seen (+) SetToBag({<<k, v, now>>})

Later(now) == IF now > past.latest THEN now ELSE past.latest

\* bump (value 1), insert, record.
Record(i, k, v, now) ==
    \/ /\ self.kind # "rate"
       /\ self.kind = "counter" => v = 1
       /\ \E bs \in Evicted(self.kind, self.shard[i], now) :
             /\ self' = [self EXCEPT !.shard[i] = Appended(self.kind, bs, k, One(self.kind, v), now)]
             /\ past' = [past EXCEPT !.seen[i] = With(@, k, v, now), !.latest = Later(now),
                           !.squeezed = @ \/ KeysHeld(bs) < KeysHeld(PopFront(self.shard[i], now))]
    \/ /\ self.kind = "rate"
       /\ LET bs == Recorded(self.shard[i], k, v, now)
              \* a record more than a window ahead of this one is forgotten
              kept == Restrict(past.seen[i], {e \in DOMAIN past.seen[i] : StartOf(e[3]) <= now + Window})
          IN /\ self' = [self EXCEPT !.shard[i] = bs]
             /\ past' = [past EXCEPT !.seen[i] = With(kept, k, v, now), !.latest = Later(now)]

Evict(i, now) ==
    \E bs \in Evicted(self.kind, self.shard[i], now) :
        /\ self' = [self EXCEPT !.shard[i] = bs]
        /\ past' = [past EXCEPT !.latest = Later(now),
                      !.squeezed = @ \/ KeysHeld(bs) < KeysHeld(PopFront(self.shard[i], now))]

Merge ==
    /\ self.shard["b"] # <<>>
    /\ \E bs \in Merges(self.kind, self.shard["a"], self.shard["b"]) :
          self' = [self EXCEPT !.shard = [a |-> bs, b |-> <<>>]]
    /\ past' = [past EXCEPT !.seen = [a |-> @["a"] (+) @["b"], b |-> EmptyBag]]

\* RollingRate::clear.
Clear(i) ==
    /\ self.kind = "rate"
    /\ self' = [self EXCEPT !.shard[i] = <<>>]
    /\ past' = [past EXCEPT !.seen[i] = EmptyBag]

Next ==
    \/ Room /\ \E i \in Shards, k \in Keys, v \in Values, now \in Times : Record(i, k, v, now)
    \/ \E i \in Shards, now \in Times : Evict(i, now)
    \/ \E i \in Shards : Clear(i)
    \/ Merge

-----------------------------------------------------------------------------
\* What was recorded under k in buckets that start within the window.
Recent(i, k, now) ==
    {e \in DOMAIN past.seen[i] : e[1] = k /\ StartOf(e[3]) >= Cutoff(now)}

Happened(i, k, now) ==
    CASE self.kind = "set" -> Cardinality({e[2] : e \in Recent(i, k, now)})
      [] self.kind = "counter" -> FoldSet(LAMBDA e, n : past.seen[i][e] + n, 0, Recent(i, k, now))
      [] self.kind = "rate" -> FoldSet(LAMBDA e, n : past.seen[i][e] * e[2] + n, 0, Recent(i, k, now))

(***************************************************************************)
(* Asked at the latest time it saw, or later, a window answers with what   *)
(* was recorded in it, in whatever order the timestamps came and whatever  *)
(* was merged in: exactly, while no key was squeezed out; never more, once *)
(* one was.  A rate at its bound on keys moves what it cannot attribute to *)
(* `other`: the keys and `other` together still add up to everything.      *)
(***************************************************************************)
WindowCountsWhatHappened ==
    \A i \in Shards, now \in {t \in Times : t >= past.latest} :
        LET keysum(f) == FoldSet(LAMBDA k, n : f[k] + n, 0, Keys)
            answers   == [k \in Keys |-> Answer(self.kind, self.shard[i], k, now)]
            truth     == [k \in Keys |-> Happened(i, k, now)]
        IN /\ \A k \in Keys : answers[k] <= truth[k]
           /\ (self.kind # "rate" /\ ~past.squeezed) => answers = truth
           /\ self.kind = "rate" => keysum(answers) + OtherSum(self.shard[i], now) = keysum(truth)
=============================================================================
