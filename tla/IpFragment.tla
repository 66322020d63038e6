----------------------------- MODULE IpFragment -----------------------------
(***************************************************************************)
(* ip_fragment.rs: IpFragmentReassembler.  Per key (addresses, protocol,   *)
(* identification) the fragments of one datagram by offset; overlap and    *)
(* oversize drop the datagram, a timeout and a bound on datagrams drop the *)
(* oldest.  A byte is <<tag, position>>: the tag tells apart datagrams     *)
(* that reuse a key.  The field `poisoned` is never set, and left out.     *)
(*                                                                         *)
(* self   pending datagrams and the counters                               *)
(* past   how many datagrams were opened, and displaced; what arrived for  *)
(*        each key since it was opened; what the last push returned        *)
(***************************************************************************)
EXTENDS Naturals, Sequences, FiniteSets, SequencesExt

CONSTANTS FragmentKeys, Tags, Offsets, Lengths, Times, Timeout, MaxDatagrams,
          MaxDatagramBytes, MaxPushes, None

VARIABLES self, past

Age(now, then) == IF now > then THEN now - then ELSE 0

Init ==
    /\ self = [pending |-> <<>>, reassembled |-> 0, timed_out |-> 0, overlaps |-> 0,
               oversize_dropped |-> 0]
    /\ past = [pushes |-> 0, opened |-> 0, displaced |-> 0,
               arrived |-> [k \in FragmentKeys |-> {}], out |-> None]

-----------------------------------------------------------------------------
Without(pending, gone) == [k \in DOMAIN pending \ gone |-> pending[k]]

\* Mutant: a timeout is not counted.
EvictUncounted(r, now) ==
    [r EXCEPT !.pending = Without(@, {k \in DOMAIN @ : Age(now, @[k].first_seen) > Timeout})]

EvictExpired(r, now) ==
    LET gone == {k \in DOMAIN r.pending : Age(now, r.pending[k].first_seen) > Timeout}
    IN [r EXCEPT !.pending = Without(@, gone), !.timed_out = @ + Cardinality(gone)]

\* drop_oldest: any of the oldest, in hash-map order.  Nothing counts it.
DropOldest(r) ==
    {[r EXCEPT !.pending = Without(@, {k})] :
        k \in {k \in DOMAIN r.pending :
                 \A j \in DOMAIN r.pending : r.pending[k].first_seen <= r.pending[j].first_seen}}

\* Room for the datagram of this key.
MakeRoom(r, key) ==
    IF key \notin DOMAIN r.pending /\ Cardinality(DOMAIN r.pending) >= MaxDatagrams
    THEN DropOldest(r) ELSE {r}

Entry(r, key, now) ==
    IF key \in DOMAIN r.pending THEN r.pending[key]
    ELSE [fragments |-> <<>>, total_len |-> None, buffered |-> 0, first_seen |-> now]

Overlaps(fragments, offset, end) ==
    \E o \in DOMAIN fragments : offset < o + fragments[o].len /\ o < end

BytesOf(o, f) == [i \in 1..f.len |-> <<f.tag, o + i - 1>>]

\* The fragments in offset order, end to end.
Joined(fragments) ==
    FoldLeft(LAMBDA out, o : out \o BytesOf(o, fragments[o]), <<>>,
             SetToSortSeq(DOMAIN fragments, <))

\* Mutant: only the ends are compared.
HasBothEnds(fragments, total) ==
    /\ 0 \in DOMAIN fragments
    /\ \E o \in DOMAIN fragments : o + fragments[o].len = total

IsContiguous(fragments, total) ==
    LET offsets == SetToSortSeq(DOMAIN fragments, <)
        end(i)  == offsets[i] + fragments[offsets[i]].len
    IN /\ offsets[1] = 0
       /\ \A i \in 2..Len(offsets) : offsets[i] = end(i - 1)
       /\ end(Len(offsets)) = total

\* BTreeMap::insert: a fragment already at that offset is replaced.
Stored(e, offset, more, f) ==
    [e EXCEPT !.fragments = [o \in DOMAIN @ \cup {offset} |-> IF o = offset THEN f ELSE @[o]],
              !.buffered = @ + f.len,
              !.total_len = IF more THEN @ ELSE offset + f.len]

\* The rest of push, on the entry: the reassembler and what push returns.
Dropped(r, key, counter) ==
    [r |-> [r EXCEPT !.pending = Without(@, {key}), ![counter] = @ + 1], out |-> None]

Complete(r, key, e) ==
    IF e.total_len # None /\ IsContiguous(e.fragments, e.total_len)
    THEN [Dropped(r, key, "reassembled") EXCEPT
            !.out = [key |-> key, total |-> e.total_len, bytes |-> Joined(e.fragments)]]
    ELSE [r |-> [r EXCEPT !.pending = [k \in DOMAIN @ \cup {key} |-> IF k = key THEN e ELSE @[k]]],
          out |-> None]

Accept(r, key, e, offset, more, f) ==
    IF Overlaps(e.fragments, offset, offset + f.len) THEN Dropped(r, key, "overlaps")
    ELSE IF e.buffered + f.len > MaxDatagramBytes \/ offset + f.len > MaxDatagramBytes
    THEN Dropped(r, key, "oversize_dropped")
    ELSE Complete(r, key, Stored(e, offset, more, f))

\* What a push leaves for the property: a new entry starts the key afresh.
Note(r, room, key, bytes, out) ==
    LET isNew == key \notin DOMAIN r.pending
    IN [past EXCEPT
          !.pushes = @ + 1,
          !.opened = @ + (IF isNew THEN 1 ELSE 0),
          !.displaced = @ + Cardinality(DOMAIN r.pending) - Cardinality(DOMAIN room.pending),
          !.arrived[key] = (IF isNew THEN {} ELSE @) \cup bytes,
          !.out = out]

\* push.  An unfragmented payload (offset 0, no more to come) is handed back
\* at once and changes nothing, whatever is pending under its key.
PushFragment(key, offset, more, f, now) ==
    /\ past.pushes < MaxPushes
    /\ offset # 0 \/ more
    /\ \E r \in {EvictExpired(self, now)} :
       \E room \in MakeRoom(r, key) :
       \E res \in {Accept(room, key, Entry(room, key, now), offset, more, f)} :
          /\ self' = res.r
          /\ past' = Note(r, room, key, {<<f.tag, offset + i>> : i \in 0..(f.len - 1)}, res.out)

\* evict_expired, as callers run it on a timer.
Evict(now) ==
    /\ self' = EvictExpired(self, now)
    /\ past' = [past EXCEPT !.out = None]

Next ==
    \/ \E key \in FragmentKeys, offset \in Offsets, more \in BOOLEAN, len \in Lengths,
          tag \in Tags, now \in Times : PushFragment(key, offset, more, [len |-> len, tag |-> tag], now)
    \/ \E now \in Times : Evict(now)

-----------------------------------------------------------------------------
(***************************************************************************)
(* A datagram is handed on only whole: its bytes are at positions 0, 1, .. *)
(* total - 1 in order, all of them arrived since its entry was opened (not *)
(* under the same key before an overlap, a timeout or a displacement), and *)
(* they fit the byte cap.  (IpFragmentReassembler::push.)                  *)
(***************************************************************************)
DatagramIsWhole ==
    past.out # None =>
        LET out == past.out
        IN /\ Len(out.bytes) = out.total
           /\ \A i \in 1..Len(out.bytes) : out.bytes[i][2] = i - 1
           /\ ToSet(out.bytes) \subseteq past.arrived[out.key]
           /\ out.total <= MaxDatagramBytes

(***************************************************************************)
(* Every datagram opened is accounted for: it is pending, or one counter   *)
(* says how it ended, or it made room for another (which no counter says). *)
(* The table and what it buffers stay within the configured bounds.        *)
(***************************************************************************)
DatagramsAccounted ==
    /\ past.opened = self.reassembled + self.timed_out + self.overlaps + self.oversize_dropped
                     + past.displaced + Cardinality(DOMAIN self.pending)
    /\ Cardinality(DOMAIN self.pending) <= MaxDatagrams
    /\ \A k \in DOMAIN self.pending :
          LET e == self.pending[k]
          IN /\ Len(Joined(e.fragments)) <= e.buffered
             /\ e.buffered <= MaxDatagramBytes
=============================================================================
