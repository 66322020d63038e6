------------------------------ MODULE StreamTrack ------------------------------
(***************************************************************************)
(* src/src/reassembler.rs: Track, the bookkeeping the two reassemblers     *)
(* share (sequence numbers to stream offsets, ACK and FIN evidence, the    *)
(* out-of-window candidate), and the StreamChunks they fill.               *)
(*                                                                         *)
(* One direction of a connection is a stream of at most MaxLen bytes, each *)
(* known by its position, so output shows where it belongs.  Output is a   *)
(* sequence of cells: a byte, or Gap for a missing one.  A reassembler is  *)
(* a record q with the fields of a Track.                                  *)
(***************************************************************************)
EXTENDS Integers, Sequences, FiniteSets

CONSTANTS
  SeqMod,      \* size of the sequence number space (2^32)
  Isn,         \* sequence number of the first byte of the stream
  MaxLen,      \* bound on the length of the stream
  MaxSegment,  \* bound on the length of a segment
  MaxTime,     \* bound on timestamps
  MaxAhead,    \* rules.max_ahead
  AckGrace,    \* rules.ack_grace
  Deadline,    \* rules.deadline
  MaxBuffer,   \* max_buffer, or None
  Gap,
  None

ASSUME SpaceAssumption == SeqMod \in Nat /\ Isn \in 0..SeqMod - 1 /\ 2 * (MaxLen + 1) < SeqMod
ASSUME LengthAssumption == MaxLen \in Nat /\ MaxSegment \in Nat /\ MaxTime \in Nat
ASSUME RulesAssumption == {MaxAhead, AckGrace, Deadline} \subseteq Nat
ASSUME BufferAssumption == MaxBuffer \in (Nat \ {0}) \cup {None} /\ {Gap, None} \cap Nat = {}
ASSUME StopAssumption == None \notin {"Overflow", "Memcap"}

Times == 0..MaxTime

Least(a, b) == IF a < b THEN a ELSE b
Most(a, b) == IF a > b THEN a ELSE b
Elapsed(now, then) == Most(now - then, 0)

\* A time past every deadline of anything seen at a packet's time.
Later == MaxTime + 4 * Deadline + AckGrace + 1

\* The sequence number the sender gives to position p.
SeqOf(p) == (Isn + p) % SeqMod

------------------------------------------------------------------------------
(* Output                                                                  *)

Gaps(n) == [i \in 1..n |-> Gap]
Held(ready) == Cardinality({i \in DOMAIN ready : ready[i] # Gap})

\* StreamChunks::drop_front: the first n bytes become a gap.
DropFront(ready, n) ==
  [i \in DOMAIN ready |-> IF Held(SubSeq(ready, 1, i)) <= n THEN Gap ELSE ready[i]]

------------------------------------------------------------------------------
(* Position                                                                *)

Anchored(q, seq) ==
  IF q.anchored THEN q ELSE [q EXCEPT !.anchored = TRUE, !.next_seq = seq]

\* offset_of: the distance to `seq` as a signed number of the space's width.
OffsetOf(q, seq) ==
  LET d == (seq - q.next_seq) % SeqMod
  IN q.next_off + (IF 2 * d >= SeqMod THEN d - SeqMod ELSE d)

\* advance_to: a hole the stream has passed needs no clock.
AdvanceTo(q, off) ==
  IF off <= q.next_off THEN q
  ELSE [q EXCEPT !.next_off = off,
                 !.next_seq = (@ + off - q.next_off) % SeqMod,
                 !.evidence_since = IF q.evidence <= off THEN None ELSE @]

------------------------------------------------------------------------------
(* The out-of-window candidate                                             *)

Cand(off, pos, len, ts) == [off |-> off, pos |-> pos, len |-> len, ts |-> ts, missing |-> 0]
End(c) == c.off + c.len + c.missing

IsFar(q, off) == off - q.next_off > MaxAhead

\* far_ahead: a second far segment within max_ahead of the held one
\* corroborates it.
Corroborated(q, off) ==
  q.oow # None /\ Most(off - q.oow.off, q.oow.off - off) <= MaxAhead

\* extend_stray: the cut bytes are of the packet that left the stray.
Extends(q, off, ts) == q.oow # None /\ (q.oow # None => q.oow.ts = ts /\ End(q.oow) = off)

\* far_missing: the stray that far-ahead cut bytes leave.
Stray(q, off, pos, len, ts) ==
  IF Extends(q, off, ts) THEN [q.oow EXCEPT !.missing = @ + len]
  ELSE [Cand(off, pos, 0, ts) EXCEPT !.missing = len]

\* expire_stray.
ExpireStray(q, now) ==
  IF q.oow # None /\ Elapsed(now, q.oow.ts) > 4 * Deadline THEN [q EXCEPT !.oow = None] ELSE q

------------------------------------------------------------------------------
(* Evidence                                                                *)

\* How far `seq` proves the stream to extend, this side's FIN at most.
Proven(q, seq) ==
  LET off == OffsetOf(q, seq)
  IN IF q.fin_off = None THEN off ELSE Least(off, q.fin_off)

\* evidence: far-ahead proof corroborates a held stray,
Confirms(q, seq) ==
  /\ q.anchored /\ Proven(q, seq) - q.next_off > MaxAhead
  /\ q.oow # None /\ Proven(q, seq) >= q.oow.off

\* nearer proof is noted with its time.
Noted(q, seq, ts) ==
  IF q.anchored /\ Proven(q, seq) - q.next_off \in 1..MaxAhead
  THEN [q EXCEPT !.evidence = Most(@, Proven(q, seq)),
                 !.evidence_since = IF @ = None THEN ts ELSE @]
  ELSE q

\* fin: this side's FIN bounds the evidence.
FinNoted(q, seq) ==
  LET off == OffsetOf(q, seq)
  IN IF ~q.anchored \/ off < q.next_off THEN q
     ELSE [q EXCEPT !.fin_off = off, !.evidence = Least(@, off)]

\* evidence_due: the acknowledged hole, once the grace period has passed.
EvidenceDue(q, now) ==
  /\ q.evidence_since # None
  /\ q.evidence > q.next_off
  /\ Elapsed(now, q.evidence_since) >= AckGrace

==============================================================================
