-------------------------- MODULE FlowDriverCharges --------------------------
(***************************************************************************)
(* Lemmas about the streams of FlowDriver and the pool that accounts for   *)
(* them: what each helper of a driver call does to the sum of the charges, *)
(* for every set of keys, every configuration and every bound.             *)
(***************************************************************************)
EXTENDS FlowDriver, FlowTrackerProofs

------------------------------------------------------------------------------
(* Streams, as predicates of a value.                                      *)

\* Only a live side holds or is charged anything, and never more than its
\* charge.
SlotOK(slot) ==
  /\ slot \in Slot
  /\ slot.held <= slot.accounted
  /\ slot.st # "Live" => slot.accounted = 0

SidesOK(sides) == sides \in [Sides -> Slot] /\ \A s \in Sides : SlotOK(sides[s])

StreamOK(stream) ==
  /\ stream \in [sides : [Sides -> Slot], flow : Nat]
  /\ SidesOK(stream.sides)

IsStreams(strs) ==
  /\ DOMAIN strs \subseteq Keys
  /\ IsFiniteSet(DOMAIN strs)
  /\ strs = [k \in DOMAIN strs |-> strs[k]]
  /\ \A k \in DOMAIN strs : StreamOK(strs[k])

\* Streams and the pool that accounts for them.
Balanced(strs, total) == IsStreams(strs) /\ total = Charges(strs, DOMAIN strs)

NothingHeld(stream) == \A s \in Sides : ~IsLive(stream.sides[s])

------------------------------------------------------------------------------
(* What the streams are charged.                                           *)

ChargeOf(sides) == sides["Initiator"].accounted + sides["Responder"].accounted

\* The bytes charged to finitely many flows are finitely many.
LEMMA BytesFinite ==
  ASSUME NEW strs, IsStreams(strs), NEW keys
  PROVE  IsFiniteSet(Bytes(strs, keys)) /\ Charges(strs, keys) \in Nat
<1> DEFINE D == DOMAIN strs
           B == (D \X Sides) \X (1..MaxBuf)
<1>1. IsFiniteSet(D) /\ IsFiniteSet(Sides) /\ IsFiniteSet(1..MaxBuf)
  <2>1. Sides = {"Initiator"} \cup {"Responder"}
    BY DEF Sides
  <2>2. IsFiniteSet(Sides)
    BY <2>1, FS_Singleton, FS_Union
  <2>3. 1 \in Int /\ MaxBuf \in Int
    BY SegmentAssumption
  <2>4. IsFiniteSet(1..MaxBuf)
    BY <2>3, FS_Interval
  <2> QED
    BY <2>2, <2>4 DEF IsStreams
<1>2. IsFiniteSet(B)
  <2> HIDE DEF D
  <2>1. IsFiniteSet(D \X Sides)
    BY <1>1, FS_Product
  <2> QED BY <2>1, <1>1, FS_Product
<1>3. Bytes(strs, keys) \in SUBSET B
  BY DEF Bytes
<1> QED
  BY <1>2, <1>3, FS_Subset, FS_CardinalityType DEF Charges

\* Charges to disjoint sets of flows add up.
LEMMA ChargesSplit ==
  ASSUME NEW strs, IsStreams(strs), NEW S, NEW T, S \cap T = {}
  PROVE  Charges(strs, S \cup T) = Charges(strs, S) + Charges(strs, T)
<1> DEFINE A == Bytes(strs, S)
           B == Bytes(strs, T)
<1>1. Bytes(strs, S \cup T) = A \cup B
  BY DEF Bytes
<1>2. A \cap B = {}
  BY DEF Bytes
<1>3. IsFiniteSet(A) /\ IsFiniteSet(B) /\ Cardinality(A) \in Nat /\ Cardinality(B) \in Nat
  BY BytesFinite DEF Charges
<1>4. Cardinality(A \cap B) = 0
  BY <1>2, FS_EmptySet
<1>5. Cardinality(A \cup B) = Cardinality(A) + Cardinality(B) - Cardinality(A \cap B)
  <2> HIDE DEF A, B
  <2> QED BY <1>3, FS_Union
<1>6. Cardinality(A \cup B) = Cardinality(A) + Cardinality(B)
  <2> HIDE DEF A, B
  <2> QED BY <1>3, <1>4, <1>5
<1> QED
  BY <1>1, <1>6 DEF Charges

\* One flow is charged what its two sides are charged.
LEMMA ChargesOne ==
  ASSUME NEW strs, IsStreams(strs), NEW k
  PROVE  Charges(strs, {k}) = IF k \in DOMAIN strs THEN ChargeOf(strs[k].sides) ELSE 0
<1>1. CASE k \notin DOMAIN strs
  <2>1. Bytes(strs, {k}) = {}
    BY <1>1 DEF Bytes
  <2> QED BY <2>1, <1>1, FS_EmptySet DEF Charges
<1>2. CASE k \in DOMAIN strs
  <2> DEFINE a(s) == strs[k].sides[s].accounted
             A(s) == {<<k, s>>} \X (1..a(s))
             i == "Initiator"
             r == "Responder"
  <2>1. a(i) \in 0..MaxBuf /\ a(r) \in 0..MaxBuf
    BY <1>2 DEF IsStreams, StreamOK, SidesOK, Sides, Slot, Sizes
  <2>2. Bytes(strs, {k}) = A(i) \cup A(r)
    <3>1. ASSUME NEW b \in Bytes(strs, {k}) PROVE b \in A(i) \cup A(r)
      <4>1. PICK s \in Sides, n \in 1..MaxBuf : b = <<<<k, s>>, n>> /\ n <= a(s)
        BY <1>2 DEF Bytes
      <4>2. n \in 1..a(s)
        BY <4>1, <2>1, SegmentAssumption DEF Sides
      <4> QED BY <4>1, <4>2 DEF Sides
    <3>2. ASSUME NEW s \in Sides, NEW b \in A(s) PROVE b \in Bytes(strs, {k})
      <4>1. PICK n \in 1..a(s) : b = <<<<k, s>>, n>>
        OBVIOUS
      <4>2. n \in 1..MaxBuf /\ n <= a(s)
        BY <4>1, <2>1, SegmentAssumption DEF Sides
      <4> QED BY <1>2, <4>1, <4>2 DEF Bytes
    <3> HIDE DEF A
    <3> QED BY <3>1, <3>2 DEF Sides
  <2>3. A(i) \cap A(r) = {}
    OBVIOUS
  <2>4. ASSUME NEW s \in Sides
        PROVE  IsFiniteSet(A(s)) /\ Cardinality(A(s)) = a(s)
    <3>0. a(s) \in Nat /\ a(s) \in Int /\ 1 \in Int
      BY <2>1, SegmentAssumption DEF Sides
    <3>1. IsFiniteSet(1..a(s)) /\ Cardinality(1..a(s)) = a(s)
      <4> HIDE DEF a
      <4> QED BY <3>0, FS_Interval
    <3>2. IsFiniteSet({<<k, s>>}) /\ Cardinality({<<k, s>>}) = 1
      BY FS_Singleton
    <3> HIDE DEF a
    <3> QED BY <3>0, <3>1, <3>2, FS_Product
  <2>5. IsFiniteSet(A(i)) /\ Cardinality(A(i)) = a(i) /\ IsFiniteSet(A(r)) /\ Cardinality(A(r)) = a(r)
    <3> HIDE DEF A, a
    <3> QED BY <2>4 DEF Sides
  <2>6. a(i) \in Nat /\ a(r) \in Nat
    BY <2>1, SegmentAssumption
  <2> HIDE DEF A, a
  <2>7. Cardinality(A(i) \cap A(r)) = 0
    BY <2>3, FS_EmptySet
  <2>8. Cardinality(A(i) \cup A(r))
          = Cardinality(A(i)) + Cardinality(A(r)) - Cardinality(A(i) \cap A(r))
    BY <2>5, FS_Union
  <2>9. Cardinality(A(i) \cup A(r)) = a(i) + a(r)
    BY <2>5, <2>6, <2>7, <2>8
  <2> QED BY <1>2, <2>2, <2>9 DEF Charges, ChargeOf, a
<1> QED
  BY <1>1, <1>2

\* Streams whose charges agree on `keys` have charged the same for them.
LEMMA ChargesSame ==
  ASSUME NEW strs, NEW other, NEW keys,
         keys \cap DOMAIN strs = keys \cap DOMAIN other,
         \A k \in keys \cap DOMAIN strs, s \in Sides :
           strs[k].sides[s].accounted = other[k].sides[s].accounted
  PROVE  Charges(strs, keys) = Charges(other, keys)
<1>1. Bytes(strs, keys) = Bytes(other, keys)
  BY DEF Bytes
<1> QED
  BY <1>1 DEF Charges

------------------------------------------------------------------------------
(* One flow's slots in the middle of a call; `base` is what the other flows *)
(* are charged.                                                             *)

AtOK(r, base) == SidesOK(r.sides) /\ r.pool = base + ChargeOf(r.sides)

\* What MemcapHolds asks of a pool of `total` bytes.
WithinCap(total) ==
  LET cap == config.reassembly_memcap
      slack == IF config.reassembly_memcap_policy = "DropPacket" THEN Overhead ELSE 0
  IN cap # None /\ config.reassembly_memcap_policy # "Ignore" => total <= cap + slack

CapKept(from, to) == to <= from \/ WithinCap(to)

LEMMA SideTypes ==
  ASSUME NEW sides, SidesOK(sides), NEW s \in Sides
  PROVE  /\ sides[s] \in Slot
         /\ sides[s].held \in Nat /\ sides[s].accounted \in Nat
         /\ sides[s].held \in Sizes /\ sides[s].accounted \in Sizes
         /\ sides[s].held <= sides[s].accounted
         /\ ChargeOf(sides) \in Nat /\ sides[s].accounted <= ChargeOf(sides)
<1>1. \A t \in Sides : /\ sides[t].held \in Nat /\ sides[t].accounted \in Nat
                       /\ sides[t].held \in Sizes /\ sides[t].accounted \in Sizes
                       /\ sides[t] \in Slot /\ sides[t].held <= sides[t].accounted
  BY SegmentAssumption DEF SidesOK, SlotOK, Slot, Sizes
<1> QED
  BY <1>1 DEF ChargeOf, Sides

\* Replacing a side's slot moves the flow's charge by the difference.
LEMMA SideReplaced ==
  ASSUME NEW sides, SidesOK(sides), NEW side \in Sides, NEW slot, SlotOK(slot)
  PROVE  LET t == [sides EXCEPT ![side] = slot]
         IN /\ SidesOK(t)
            /\ ChargeOf(t) = ChargeOf(sides) - sides[side].accounted + slot.accounted
            /\ t[side] = slot
            /\ t[Other(side)] = sides[Other(side)]
<1> DEFINE t == [sides EXCEPT ![side] = slot]
<1>1. t \in [Sides -> Slot] /\ \A s \in Sides : t[s] = IF s = side THEN slot ELSE sides[s]
  BY DEF SidesOK, SlotOK
<1>2. SidesOK(t)
  BY <1>1 DEF SidesOK
<1>3. Other(side) \in Sides /\ Other(side) # side
  BY DEF Other, Sides
<1>4. \A s \in Sides : sides[s].accounted \in Nat /\ t[s].accounted \in Nat
  BY <1>2, SideTypes
<1> HIDE DEF t
<1>5. ChargeOf(t) = ChargeOf(sides) - sides[side].accounted + slot.accounted
  BY <1>1, <1>4 DEF ChargeOf, Sides
<1> QED
  BY <1>1, <1>2, <1>3, <1>5 DEF t

\* resync charges a side what it holds and leaves the rest of the pool.
LEMMA ResyncedOK ==
  ASSUME NEW r, NEW base \in Nat, AtOK(r, base), NEW side \in Sides, NEW n \in Sizes
  PROVE  LET u == Resynced(r, side, n)
         IN /\ AtOK(u, base)
            /\ u.sides[side] = Holding(n, n)
            /\ u.sides[Other(side)] = r.sides[Other(side)]
            /\ u.pool = r.pool - r.sides[side].accounted + n
            /\ r.pool \in Nat /\ u.pool \in Nat
<1> DEFINE t == [r.sides EXCEPT ![side] = Holding(n, n)]
           u == Resynced(r, side, n)
           a == r.sides[side].accounted
<1>0. n \in Nat
  BY SegmentAssumption DEF Sizes
<1>1. SlotOK(Holding(n, n)) /\ Holding(n, n).accounted = n
  BY <1>0 DEF SlotOK, Holding, Slot
<1>2. a \in Nat /\ ChargeOf(r.sides) \in Nat /\ a <= ChargeOf(r.sides)
  BY SideTypes DEF AtOK
<1>3. r.pool = base + ChargeOf(r.sides)
  BY DEF AtOK
<1>4. /\ SidesOK(t) /\ ChargeOf(t) = ChargeOf(r.sides) - a + n
      /\ t[side] = Holding(n, n) /\ t[Other(side)] = r.sides[Other(side)]
  BY <1>1, SideReplaced DEF AtOK
<1>5. u.sides = t /\ u.pool = Less(r.pool, a) + n
  BY DEF Resynced, At
<1> HIDE DEF t, u, a
<1>6. Less(r.pool, a) = r.pool - a
  BY <1>2, <1>3 DEF Less
<1> QED
  BY <1>0, <1>2, <1>3, <1>4, <1>5, <1>6 DEF AtOK, t, u, a

\* tombstone refunds the side.
LEMMA TombstonedOK ==
  ASSUME NEW r, NEW base \in Nat, AtOK(r, base), NEW side \in Sides,
         NEW stop \in {"Memcap", None}
  PROVE  LET u == Tombstoned(r, side, stop)
         IN /\ AtOK(u, base)
            /\ u.pool = r.pool - r.sides[side].accounted
            /\ r.pool \in Nat /\ u.pool \in Nat
<1> DEFINE a == r.sides[side].accounted
           u == Tombstoned(r, side, stop)
           d == Done(stop, stop = None)
           t == [r.sides EXCEPT ![side] = d]
<1>1. a \in Nat /\ ChargeOf(r.sides) \in Nat /\ a <= ChargeOf(r.sides)
  BY SideTypes DEF AtOK
<1>2. r.pool = base + ChargeOf(r.sides)
  BY DEF AtOK
<1>3. CASE r.sides[side].st = "Done"
  <2>1. u = r
    BY <1>3 DEF Tombstoned
  <2>2. a = 0
    BY <1>3 DEF AtOK, SidesOK, SlotOK
  <2> HIDE DEF a, u
  <2> QED BY <1>1, <1>2, <2>1, <2>2 DEF a, u
<1>4. CASE r.sides[side].st # "Done"
  <2>1. u.sides = t /\ u.pool = Less(r.pool, a)
    BY <1>4 DEF Tombstoned, At
  <2>2. SlotOK(d) /\ d.accounted = 0
    <3>1. 0 \in Sizes
      BY SegmentAssumption DEF Sizes
    <3>2. (stop = None) \in BOOLEAN
      OBVIOUS
    <3> QED BY <3>1, <3>2 DEF SlotOK, Done, Slot
  <2>3. SidesOK(t) /\ ChargeOf(t) = ChargeOf(r.sides) - a + 0
    <3> HIDE DEF d
    <3> QED BY <2>2, SideReplaced DEF AtOK
  <2> HIDE DEF a, u, t, d
  <2>4. Less(r.pool, a) = r.pool - a
    BY <1>1, <1>2 DEF Less
  <2> QED BY <1>1, <1>2, <2>1, <2>3, <2>4 DEF AtOK, a, u, t
<1> QED
  BY <1>3, <1>4

LEMMA OtherSide ==
  ASSUME NEW side \in Sides
  PROVE  Other(side) \in Sides /\ Other(side) # side
  BY DEF Other, Sides

\* A reassembler call other than a segment leaves a smaller charge.
LEMMA EasedOK ==
  ASSUME NEW r, NEW base \in Nat, AtOK(r, base), NEW side \in Sides,
         NEW u \in Eased(r, side)
  PROVE  AtOK(u, base) /\ u.pool \in Nat /\ r.pool \in Nat /\ u.pool <= r.pool
<1>1. PICK n \in 0..r.sides[side].held : u = Resynced(r, side, n)
  BY DEF Eased
<1>2. /\ r.sides[side].held \in Sizes /\ r.sides[side].held \in Nat
      /\ r.sides[side].accounted \in Nat /\ r.sides[side].held <= r.sides[side].accounted
  BY SideTypes DEF AtOK
<1>3. n \in Sizes /\ n \in Nat /\ n <= r.sides[side].accounted
  BY <1>2, SegmentAssumption DEF Sizes
<1>4. /\ AtOK(u, base) /\ r.pool \in Nat /\ u.pool \in Nat
      /\ u.pool = r.pool - r.sides[side].accounted + n
  BY <1>1, <1>3, ResyncedOK
<1> QED
  BY <1>2, <1>3, <1>4

\* Where the memcap's answer leaves the pool, once a segment has brought the
\* side from `was` to what it holds in r.
LEMMA CappedOK ==
  ASSUME Scalars, NEW r, NEW base \in Nat, AtOK(r, base), NEW side \in Sides
  PROVE  LET u == Capped(r, side)
         IN /\ AtOK(u, base) /\ u.pool \in Nat /\ r.pool \in Nat
            /\ \/ u.pool <= r.pool - r.sides[side].accounted
               \/ u = r /\ (~OverCap(r.pool)
                            \/ config.reassembly_memcap_policy \in {"Ignore", "DropPacket"})
<1> DEFINE u == Capped(r, side)
           a == r.sides[side].accounted
           policy == config.reassembly_memcap_policy
           v == Tombstoned(r, side, "Memcap")
           w == Tombstoned(v, Other(side), "Memcap")
<1>1. policy \in MemcapPolicies
  BY ConfigAssumption DEF Scalars, Config
<1>2. AtOK(v, base) /\ v.pool = r.pool - a /\ r.pool \in Nat /\ v.pool \in Nat
  BY TombstonedOK
<1>3. v.sides[Other(side)].accounted \in Nat
  BY <1>2, OtherSide, SideTypes DEF AtOK
<1>4. AtOK(w, base) /\ w.pool = v.pool - v.sides[Other(side)].accounted /\ w.pool \in Nat
  <2> HIDE DEF v
  <2> QED BY <1>2, OtherSide, TombstonedOK
<1>5. a \in Nat
  BY SideTypes DEF AtOK
<1>6. \/ u = r /\ ~OverCap(r.pool)
      \/ u = v
      \/ u = w
      \/ u = r /\ policy \in {"Ignore", "DropPacket"}
  BY <1>1 DEF Capped, MemcapPolicies
<1> HIDE DEF u, v, w, a
<1>7. CASE u = v
  BY <1>7, <1>2, <1>5 DEF u, a
<1>8. CASE u = w
  BY <1>8, <1>2, <1>3, <1>4, <1>5 DEF u, a
<1> QED
  BY <1>2, <1>6, <1>7, <1>8 DEF u, a

\* A segment with data keeps the pool within the memcap or does not grow it.
LEMMA FedOK ==
  ASSUME Scalars, NEW r, NEW base \in Nat, AtOK(r, base), NEW p, NEW seg \in Segment,
         NEW side \in Sides, NEW u \in Fed(r, p, seg, side)
  PROVE  AtOK(u, base) /\ u.pool \in Nat /\ r.pool \in Nat /\ CapKept(r.pool, u.pool)
<1> DEFINE h == r.sides[side].held
           a == r.sides[side].accounted
           synced == Resynced(r, side, h)
           cap == config.reassembly_memcap
           policy == config.reassembly_memcap_policy
<1>1. h \in Sizes /\ h \in Nat /\ a \in Nat /\ h <= a
  BY SideTypes DEF AtOK
<1>2. /\ AtOK(synced, base) /\ synced.sides[side] = Holding(h, h)
      /\ synced.pool = r.pool - a + h /\ r.pool \in Nat /\ synced.pool \in Nat
  BY <1>1, ResyncedOK
<1>3. synced.pool <= r.pool
  <2> HIDE DEF h, a, synced
  <2> QED BY <1>1, <1>2
<1>4. seg.payload \in Nat /\ Overhead \in Nat
  BY SegmentAssumption DEF Segment
<1>5. cap \in Nat \cup {None} /\ None \notin Nat
  BY ConfigAssumption, KeysAssumption DEF Scalars, Config
<1>6. CASE u = r
  BY <1>6, <1>2 DEF CapKept
<1>7. CASE u = synced
  BY <1>7, <1>2, <1>3 DEF CapKept
<1>8. ASSUME ~Refused(synced.pool, seg.payload),
             NEW n \in Sizes, n <= h + seg.payload + Overhead,
             u = Capped(Resynced(synced, side, n), side)
      PROVE  AtOK(u, base) /\ u.pool \in Nat /\ r.pool \in Nat /\ CapKept(r.pool, u.pool)
  <2> DEFINE f == Resynced(synced, side, n)
  <2>1. n \in Nat
    BY SegmentAssumption DEF Sizes
  <2>2. synced.sides[side].accounted = h
    BY <1>2 DEF Holding
  <2>3. /\ AtOK(f, base) /\ f.sides[side] = Holding(n, n) /\ f.pool \in Nat
        /\ f.pool = synced.pool - h + n
    <3> HIDE DEF synced
    <3> QED BY <1>2, <2>2, ResyncedOK
  <2>4. f.sides[side].accounted = n
    BY <2>3 DEF Holding
  <2>5. /\ AtOK(u, base) /\ u.pool \in Nat
        /\ \/ u.pool <= f.pool - n
           \/ u = f /\ (~OverCap(f.pool) \/ policy \in {"Ignore", "DropPacket"})
    <3>1. u = Capped(f, side)
      BY <1>8
    <3> HIDE DEF f
    <3> QED BY <3>1, <2>3, <2>4, CappedOK
  <2> HIDE DEF f, synced, h, a
  <2>6. CASE u.pool <= f.pool - n
    BY <2>6, <2>1, <2>3, <2>5, <1>1, <1>2, <1>3 DEF CapKept
  <2>7. CASE u = f /\ ~OverCap(f.pool)
    BY <2>5, <2>7, <1>2, <1>4, <1>5 DEF OverCap, CapKept, WithinCap
  <2>8. CASE u = f /\ policy = "Ignore"
    BY <2>5, <2>8, <1>2 DEF CapKept, WithinCap
  <2>9. CASE u = f /\ policy = "DropPacket"
    <3>1. cap # None => f.pool <= cap + Overhead
      BY <2>9, <1>8, <2>1, <2>3, <1>1, <1>2, <1>4, <1>5 DEF Refused, OverCap
    <3> QED BY <3>1, <2>5, <2>9, <1>2 DEF CapKept, WithinCap
  <2> QED BY <2>5, <2>6, <2>7, <2>8, <2>9
<1>9. \/ u = r \/ u = synced
      \/ /\ ~Refused(synced.pool, seg.payload)
         /\ \E n \in Sizes : /\ n <= h + seg.payload + Overhead
                             /\ u = Capped(Resynced(synced, side, n), side)
  BY DEF Fed
<1> QED
  BY <1>6, <1>7, <1>8, <1>9

\* One packet against its flow's slots.
LEMMA ReceivedOK ==
  ASSUME Scalars, NEW r, NEW base \in Nat, AtOK(r, base), NEW p, NEW seg \in Segment,
         NEW side \in Sides, NEW u \in Received(r, p, seg, side)
  PROVE  AtOK(u, base) /\ u.pool \in Nat /\ r.pool \in Nat /\ CapKept(r.pool, u.pool)
<1>0. r.pool \in Nat
  <2>1. ChargeOf(r.sides) \in Nat
    BY SideTypes DEF AtOK
  <2> QED BY <2>1 DEF AtOK
<1>1. PICK x : /\ x = r \/ x \in Eased(r, Other(side))
               /\ \/ u = x
                  \/ u \in Fed(x, p, seg, side)
                  \/ u \in Eased(x, side)
  BY DEF Received
<1>2. AtOK(x, base) /\ x.pool \in Nat /\ x.pool <= r.pool
  BY <1>0, <1>1, OtherSide, EasedOK
<1>3. AtOK(u, base) /\ u.pool \in Nat /\ CapKept(x.pool, u.pool)
  <2>1. CASE u = x
    BY <2>1, <1>2 DEF CapKept
  <2>2. CASE u \in Fed(x, p, seg, side)
    BY <2>2, <1>2, FedOK
  <2>3. CASE u \in Eased(x, side)
    BY <2>3, <1>2, EasedOK DEF CapKept
  <2> QED BY <1>1, <2>1, <2>2, <2>3
<1> QED
  BY <1>0, <1>2, <1>3 DEF CapKept

------------------------------------------------------------------------------
(* Streams released, eased and fed.                                        *)

\* Bytes are charged to flows that have streams.
LEMMA ChargesOfKnown ==
  ASSUME NEW strs, NEW keys
  PROVE  Charges(strs, keys) = Charges(strs, keys \cap DOMAIN strs)
<1>1. Bytes(strs, keys) = Bytes(strs, keys \cap DOMAIN strs)
  BY DEF Bytes
<1> QED
  BY <1>1 DEF Charges

\* Refunding the flows that go leaves a pool that accounts for the others.
LEMMA WithoutBalanced ==
  ASSUME NEW strs, NEW total, Balanced(strs, total), NEW gone
  PROVE  LET rest == Less(total, Charges(strs, gone))
         IN /\ Balanced(Without(strs, gone), rest)
            /\ total \in Nat /\ rest \in Nat /\ rest <= total
            /\ DOMAIN Without(strs, gone) = DOMAIN strs \ gone
            /\ \A k \in DOMAIN strs \ gone : Without(strs, gone)[k] = strs[k]
<1> DEFINE w == Without(strs, gone)
           D == DOMAIN strs
           c == Charges(strs, gone)
           o == Charges(strs, D \ gone)
<1>1. DOMAIN w = D \ gone /\ \A k \in D \ gone : w[k] = strs[k]
  BY DEF Without
<1>2. w = [k \in DOMAIN w |-> w[k]]
  BY DEF Without
<1>3. IsStreams(w)
  <2>1. IsFiniteSet(D \ gone)
    BY FS_Difference DEF Balanced, IsStreams
  <2> HIDE DEF w
  <2> QED BY <1>1, <1>2, <2>1 DEF Balanced, IsStreams
<1>4. c \in Nat /\ o \in Nat
  BY BytesFinite DEF Balanced
<1>5. c = Charges(strs, gone \cap D)
  BY ChargesOfKnown
<1>6. Charges(strs, D) = c + o
  <2>1. D = (gone \cap D) \cup (D \ gone) /\ (gone \cap D) \cap (D \ gone) = {}
    OBVIOUS
  <2>2. Charges(strs, (gone \cap D) \cup (D \ gone)) = Charges(strs, gone \cap D) + o
    <3> HIDE DEF D
    <3> QED BY <2>1, ChargesSplit DEF Balanced, D
  <2> HIDE DEF D, c, o
  <2> QED BY <1>5, <2>1, <2>2
<1>7. Charges(w, D \ gone) = o
  <2>1. (D \ gone) \cap DOMAIN w = (D \ gone) \cap D
    BY <1>1
  <2> HIDE DEF w
  <2> QED BY <1>1, <2>1, ChargesSame
<1>8. total = c + o
  BY <1>6 DEF Balanced
<1>9. Less(total, c) = o
  <2> HIDE DEF c, o
  <2> QED BY <1>4, <1>8 DEF Less
<1> HIDE DEF w, c, o, D
<1> QED
  BY <1>1, <1>3, <1>4, <1>7, <1>8, <1>9 DEF Balanced, w, c, D

\* The same flows, sides in the same state and charges; only what they hold
\* may differ.
Alike(strs, other) ==
  /\ DOMAIN other = DOMAIN strs
  /\ \A k \in DOMAIN strs :
       /\ other[k].flow = strs[k].flow
       /\ \A s \in Sides : /\ other[k].sides[s].accounted = strs[k].sides[s].accounted
                           /\ other[k].sides[s].st = strs[k].sides[s].st

LEMMA EasingsOK ==
  ASSUME NEW strs, IsStreams(strs), NEW keys, NEW e \in Easings(strs, keys)
  PROVE  IsStreams(e) /\ Alike(strs, e)
<1> DEFINE D == DOMAIN strs
<1>1. PICK h \in [keys \cap D -> [Sides -> Sizes]] :
        /\ \A k \in keys \cap D, s \in Sides : h[k][s] <= strs[k].sides[s].held
        /\ e = [k \in D |->
                  IF k \in keys
                  THEN [strs[k] EXCEPT !.sides =
                          [s \in Sides |-> [@[s] EXCEPT !.held = h[k][s]]]]
                  ELSE strs[k]]
  BY DEF Easings
<1>2. ASSUME NEW k \in D
      PROVE  /\ StreamOK(e[k]) /\ e[k].flow = strs[k].flow
             /\ \A s \in Sides : /\ e[k].sides[s].accounted = strs[k].sides[s].accounted
                                 /\ e[k].sides[s].st = strs[k].sides[s].st
  <2>1. StreamOK(strs[k])
    BY DEF IsStreams
  <2>2. CASE k \notin keys
    BY <1>1, <2>1, <2>2
  <2>3. CASE k \in keys
    <3> DEFINE t == [s \in Sides |-> [strs[k].sides[s] EXCEPT !.held = h[k][s]]]
    <3>1. e[k] = [strs[k] EXCEPT !.sides = t]
      BY <1>1, <2>3
    <3>2. ASSUME NEW s \in Sides
          PROVE  SlotOK(t[s]) /\ t[s].accounted = strs[k].sides[s].accounted
                 /\ t[s].st = strs[k].sides[s].st
      <4>1. strs[k].sides[s] \in Slot /\ SlotOK(strs[k].sides[s])
        BY <2>1 DEF StreamOK, SidesOK
      <4>2. h[k][s] \in Sizes /\ h[k][s] <= strs[k].sides[s].held
        BY <1>1, <2>3
      <4>3. t[s] = [strs[k].sides[s] EXCEPT !.held = h[k][s]]
        OBVIOUS
      <4> HIDE DEF t
      <4> QED BY <4>1, <4>2, <4>3, SegmentAssumption DEF SlotOK, Slot, Sizes
    <3>3. t \in [Sides -> Slot]
      <4>1. \A s \in Sides : t[s] \in Slot
        BY <3>2 DEF SlotOK
      <4> QED BY <4>1
    <3>4. SidesOK(t)
      BY <3>2, <3>3 DEF SidesOK
    <3> HIDE DEF t
    <3>5. e[k] \in [sides : [Sides -> Slot], flow : Nat] /\ e[k].sides = t
          /\ e[k].flow = strs[k].flow
      BY <3>1, <3>3, <2>1 DEF StreamOK
    <3> QED BY <3>2, <3>4, <3>5 DEF StreamOK
  <2> QED BY <2>2, <2>3
<1>3. DOMAIN e = D /\ e = [k \in DOMAIN e |-> e[k]]
  BY <1>1
<1> QED
  BY <1>2, <1>3 DEF IsStreams, Alike

\* Streams that are alike have charged the same.
LEMMA AlikeCharges ==
  ASSUME NEW strs, NEW other, Alike(strs, other), NEW keys
  PROVE  Charges(other, keys) = Charges(strs, keys)
  BY ChargesSame DEF Alike

\* finalize_flow and reconcile keep the pool exact.
LEMMA ReleaseOK ==
  ASSUME NEW x, Balanced(x.streams, x.pool), NEW gone, NEW told, Release(x, gone, told)
  PROVE  /\ Balanced(streams', pool')
         /\ Alike(Without(x.streams, gone), streams')
         /\ DOMAIN streams' = DOMAIN x.streams \ gone
         /\ pool' \in Nat /\ pool' <= x.pool
         /\ \A k \in DOMAIN streams' :
              /\ streams'[k].flow = x.streams[k].flow
              /\ NothingHeld(x.streams[k]) => NothingHeld(streams'[k])
<1> DEFINE w == Without(x.streams, gone)
           rest == Less(x.pool, Charges(x.streams, gone))
<1>1. /\ Balanced(w, rest) /\ rest \in Nat /\ rest <= x.pool
      /\ DOMAIN w = DOMAIN x.streams \ gone
      /\ \A k \in DOMAIN x.streams \ gone : w[k] = x.streams[k]
  BY WithoutBalanced
<1>2. streams' \in Easings(w, told) /\ pool' = rest
  BY DEF Release
<1> HIDE DEF w, rest
<1>3. IsStreams(streams') /\ Alike(w, streams')
  BY <1>1, <1>2, EasingsOK DEF Balanced
<1>4. Charges(streams', DOMAIN streams') = Charges(w, DOMAIN w)
  BY <1>3, AlikeCharges DEF Alike
<1>5. Balanced(streams', pool')
  BY <1>1, <1>2, <1>3, <1>4 DEF Balanced
<1>6. /\ DOMAIN streams' = DOMAIN w
      /\ \A k \in DOMAIN w : /\ streams'[k].flow = w[k].flow
                             /\ NothingHeld(w[k]) => NothingHeld(streams'[k])
  BY <1>3 DEF Alike, NothingHeld, IsLive
<1>7. \A k \in DOMAIN streams' :
        /\ streams'[k].flow = x.streams[k].flow
        /\ NothingHeld(x.streams[k]) => NothingHeld(streams'[k])
  <2> TAKE k \in DOMAIN streams'
  <2>1. k \in DOMAIN w /\ w[k] = x.streams[k]
    BY <1>1, <1>6
  <2> QED BY <1>6, <2>1
<1> QED
  BY <1>1, <1>2, <1>3, <1>5, <1>6, <1>7 DEF w

\* `put` is `strs` with the sides of r for the flow k.
IsPut(put, strs, k, sides, number) ==
  /\ put = [j \in DOMAIN strs \cup {k} |-> put[j]]
  /\ put[k] = [sides |-> sides, flow |-> number]
  /\ \A j \in DOMAIN strs \ {k} : put[j] = strs[j]

\* Putting a flow's new sides back among the streams of the others.
LEMMA PutBalanced ==
  ASSUME NEW strs, IsStreams(strs), NEW k \in Keys, NEW r, NEW number \in Nat,
         AtOK(r, Charges(strs, DOMAIN strs \ {k})),
         NEW put, IsPut(put, strs, k, r.sides, number)
  PROVE  Balanced(put, r.pool)
<1> DEFINE D == DOMAIN strs
           new == [sides |-> r.sides, flow |-> number]
<1>1. StreamOK(new) /\ new.sides = r.sides
  BY DEF StreamOK, AtOK, SidesOK
<1>2. /\ DOMAIN put = D \cup {k}
      /\ \A j \in D \cup {k} : put[j] = IF j = k THEN new ELSE strs[j]
      /\ put = [j \in DOMAIN put |-> put[j]]
  <2>1. put = [j \in D \cup {k} |-> put[j]]
    BY DEF IsPut
  <2>2. DOMAIN put = D \cup {k}
    BY <2>1
  <2> QED BY <2>1, <2>2 DEF IsPut
<1> HIDE DEF new
<1>3. IsFiniteSet(D \cup {k})
  BY FS_AddElement DEF IsStreams
<1>4. IsStreams(put)
  BY <1>1, <1>2, <1>3 DEF IsStreams
<1>5. Charges(put, D \ {k}) = Charges(strs, D \ {k})
  <2>1. (D \ {k}) \cap DOMAIN put = (D \ {k}) \cap DOMAIN strs
    BY <1>2
  <2> QED BY <1>2, <2>1, ChargesSame
<1>6. Charges(put, {k}) = ChargeOf(r.sides)
  BY <1>1, <1>2, <1>4, ChargesOne
<1>7. Charges(put, DOMAIN put) = Charges(put, D \ {k}) + Charges(put, {k})
  <2>1. DOMAIN put = (D \ {k}) \cup {k} /\ (D \ {k}) \cap {k} = {}
    BY <1>2
  <2> HIDE DEF D
  <2> QED BY <1>4, <2>1, ChargesSplit
<1>8. r.pool = Charges(strs, D \ {k}) + ChargeOf(r.sides)
  BY DEF AtOK
<1> QED
  BY <1>4, <1>5, <1>6, <1>7, <1>8 DEF Balanced

\* The flow's slots as they are found, among the charges of the others.
LEMMA FoundAtOK ==
  ASSUME NEW strs, NEW total, Balanced(strs, total), NEW k
  PROVE  LET sides == IF k \in DOMAIN strs THEN strs[k].sides ELSE NoSides
             base == Charges(strs, DOMAIN strs \ {k})
         IN AtOK(At(sides, total), base) /\ base \in Nat
<1> DEFINE D == DOMAIN strs
           sides == IF k \in D THEN strs[k].sides ELSE NoSides
           base == Charges(strs, D \ {k})
<1>1. IsStreams(strs) /\ total = Charges(strs, D)
  BY DEF Balanced
<1>2. base \in Nat
  BY <1>1, BytesFinite
<1>3. Charges(strs, D) = base + Charges(strs, {k})
  <2>1. Charges(strs, D \cup {k}) = Charges(strs, (D \cup {k}) \cap D)
    BY ChargesOfKnown
  <2>2. (D \cup {k}) \cap D = D
    OBVIOUS
  <2>3. D \cup {k} = (D \ {k}) \cup {k} /\ (D \ {k}) \cap {k} = {}
    OBVIOUS
  <2>4. Charges(strs, (D \ {k}) \cup {k}) = base + Charges(strs, {k})
    <3> HIDE DEF D
    <3> QED BY <1>1, <2>3, ChargesSplit
  <2> HIDE DEF D, base
  <2> QED BY <2>1, <2>2, <2>3, <2>4
<1>4. SidesOK(sides) /\ Charges(strs, {k}) = ChargeOf(sides)
  <2>1. CASE k \in D
    BY <2>1, <1>1, ChargesOne DEF IsStreams, StreamOK
  <2>2. CASE k \notin D
    <3>1. Empty \in Slot /\ SlotOK(Empty) /\ Empty.accounted = 0
      BY SegmentAssumption DEF Empty, Slot, SlotOK, Sizes
    <3>2. SidesOK(NoSides) /\ ChargeOf(NoSides) = 0
      BY <3>1 DEF SidesOK, NoSides, ChargeOf, Sides
    <3> QED BY <2>2, <3>2, <1>1, ChargesOne
  <2> QED BY <2>1, <2>2
<1> QED
  BY <1>1, <1>2, <1>3, <1>4 DEF AtOK, At

\* The packet callback keeps the pool exact and within the memcap, touches
\* the packet's flow only, and leaves that flow stream state of its own.
LEMMA FedByOK ==
  ASSUME Inv, Balanced(streams, pool), NoInheritance, born \in [Keys -> Nat],
         NEW p \in Packet, NEW seg \in Segment, NEW wants, NEW x \in FedBy(p, seg, wants)
  PROVE  /\ Balanced(x.streams, x.pool)
         /\ pool \in Nat /\ x.pool \in Nat /\ CapKept(pool, x.pool)
         /\ \A k \in DOMAIN x.streams \ {p.key} :
              k \in DOMAIN streams /\ x.streams[k] = streams[k]
         /\ p.key \in DOMAIN x.streams => x.streams[p.key].flow = Number(p)
<1> DEFINE from == Inherited(p)
           k == p.key
           known == k \in DOMAIN from.streams
           sides == IF known THEN from.streams[k].sides ELSE NoSides
           number == IF known THEN from.streams[k].flow ELSE Number(p)
           base == Charges(from.streams, DOMAIN from.streams \ {k})
           put(s) == [j \in DOMAIN from.streams \cup {k} |->
                        IF j = k THEN [sides |-> s, flow |-> number] ELSE from.streams[j]]
<1>1. k \in Keys /\ (IsNew(p) <=> k \notin Live)
  BY KnownFlow
<1>2. /\ Balanced(from.streams, from.pool) /\ pool \in Nat /\ from.pool \in Nat
      /\ from.pool <= pool
      /\ \A j \in DOMAIN from.streams : j \in DOMAIN streams /\ from.streams[j] = streams[j]
      /\ known => ~IsNew(p)
  <2>1. CASE IsNew(p)
    <3>1. /\ from.streams = Without(streams, {k})
          /\ from.pool = Less(pool, Charges(streams, {k}))
      BY <2>1 DEF Inherited, State
    <3>2. LET w == Without(streams, {k})
              rest == Less(pool, Charges(streams, {k}))
          IN /\ Balanced(w, rest) /\ pool \in Nat /\ rest \in Nat /\ rest <= pool
             /\ DOMAIN w = DOMAIN streams \ {k}
             /\ \A j \in DOMAIN streams \ {k} : w[j] = streams[j]
      BY WithoutBalanced
    <3> HIDE DEF from
    <3> QED BY <3>1, <3>2
  <2>2. CASE ~IsNew(p)
    <3>1. from.streams = streams /\ from.pool = pool
      BY <2>2 DEF Inherited, State
    <3>2. pool \in Nat
      BY BytesFinite DEF Balanced
    <3> HIDE DEF from
    <3> QED BY <3>1, <3>2, <2>2
  <2> QED BY <2>1, <2>2
<1>3. known => from.streams[k].flow = Number(p)
  BY <1>1, <1>2 DEF Number, NoInheritance
<1>4. number = Number(p) /\ number \in Nat
  <2>1. Number(p) \in Nat
    BY <1>1 DEF Number, Inv, Scalars
  <2> QED BY <1>3, <2>1
<1>5. AtOK(At(sides, from.pool), base) /\ base \in Nat
  <2> HIDE DEF from
  <2> QED BY <1>2, FoundAtOK
<1>6. CASE x = from
  <2> HIDE DEF from
  <2> QED BY <1>2, <1>3, <1>6 DEF CapKept
<1>7. ASSUME NEW r \in Received(At(sides, from.pool), p, seg, SideFor(Found(p), p.dir)),
             x = State(put(r.sides), r.pool)
      PROVE  /\ Balanced(x.streams, x.pool)
             /\ x.pool \in Nat /\ CapKept(pool, x.pool)
             /\ \A j \in DOMAIN x.streams \ {k} :
                  j \in DOMAIN streams /\ x.streams[j] = streams[j]
             /\ k \in DOMAIN x.streams => x.streams[k].flow = Number(p)
  <2>1. SideFor(Found(p), p.dir) \in Sides
    BY DEF SideFor, Sides
  <2>2. At(sides, from.pool).pool = from.pool
    BY DEF At
  <2>3. AtOK(r, base) /\ r.pool \in Nat /\ CapKept(from.pool, r.pool)
    <3> DEFINE a == At(sides, from.pool)
               side == SideFor(Found(p), p.dir)
    <3>1. Scalars
      BY DEF Inv
    <3>2. AtOK(a, base) /\ a.pool = from.pool /\ r \in Received(a, p, seg, side)
      BY <1>5, <1>7, <2>2
    <3> HIDE DEF a, sides, from, base, side
    <3>3. AtOK(r, base) /\ r.pool \in Nat /\ CapKept(a.pool, r.pool)
      BY <1>5, <2>1, <3>1, <3>2, ReceivedOK DEF side
    <3> QED BY <3>2, <3>3
  <2>4. Balanced(put(r.sides), r.pool)
    <3> DEFINE strs == from.streams
               u == put(r.sides)
    <3>1. IsPut(u, strs, k, r.sides, number)
      <4> HIDE DEF from, number
      <4> QED BY DEF IsPut
    <3>2. IsStreams(strs) /\ AtOK(r, Charges(strs, DOMAIN strs \ {k}))
      <4> HIDE DEF from
      <4> QED BY <1>2, <2>3 DEF Balanced
    <3> HIDE DEF u, strs, from, number
    <3>3. Balanced(u, r.pool)
      BY <1>1, <1>4, <3>1, <3>2, PutBalanced
    <3> QED BY <3>3 DEF u, strs
  <2>5. x.streams = put(r.sides) /\ x.pool = r.pool
    BY <1>7 DEF State
  <2>6. CapKept(pool, x.pool)
    <3> DEFINE f == from.pool
               l == r.pool
    <3>1. f \in Nat /\ f <= pool /\ pool \in Nat /\ l \in Nat /\ (l <= f \/ WithinCap(l))
      <4> HIDE DEF from
      <4> QED BY <1>2, <2>3 DEF CapKept
    <3> HIDE DEF f, from, l
    <3>2. CASE l <= f
      <4>1. l <= pool
        BY ONLY <3>1, <3>2
      <4> QED BY <2>5, <4>1 DEF CapKept, l
    <3>3. CASE WithinCap(l)
      BY <2>5, <3>3 DEF CapKept, l
    <3> QED BY <3>1, <3>2, <3>3
  <2> HIDE DEF from, number
  <2>7. /\ \A j \in DOMAIN put(r.sides) \ {k} :
             j \in DOMAIN streams /\ put(r.sides)[j] = streams[j]
        /\ put(r.sides)[k].flow = Number(p)
    BY <1>2, <1>4
  <2> QED BY <2>3, <2>4, <2>5, <2>6, <2>7
<1>8. \/ x = from
      \/ \E r \in Received(At(sides, from.pool), p, seg, SideFor(Found(p), p.dir)) :
           x = State(put(r.sides), r.pool)
  BY DEF FedBy
<1> QED
  BY <1>2, <1>6, <1>7, <1>8
==============================================================================
