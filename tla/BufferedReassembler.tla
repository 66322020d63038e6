-------------------------- MODULE BufferedReassembler --------------------------
(***************************************************************************)
(* src/src/reassembler.rs: BufferedReassembler, the driver's in-order      *)
(* reassembler of one TCP direction, over the Track of StreamTrack.  It    *)
(* holds at most one segment behind a hole.                                *)
(*                                                                         *)
(* Any part of the sender's stream may be captured, in any order, cut      *)
(* short or never; the peer acknowledges no more than was sent.  Counters  *)
(* that only feed statistics are left out.                                 *)
(***************************************************************************)
EXTENDS StreamTrack

CONSTANT Policies  \* the values overflow_policy may have

ASSUME PolicyAssumption == Policies \subseteq {"SlidingWindow", "DropFlow"}

VARIABLES
  r,       \* the reassembler
  total,   \* length of the sender's stream: its FIN is at this position
  anchor,  \* history: the position that stream offset 0 stands for, or None
  taken    \* history: the cells the consumer was given so far

vars == <<r, total, anchor, taken>>

Cells == 0..MaxLen \cup {Gap}

New(policy) ==
       [policy |-> policy, anchored |-> FALSE, next_seq |-> 0, next_off |-> 0,
        evidence |-> 0, evidence_since |-> None, fin_off |-> None,
        oow |-> None, reorder |-> None, ready |-> <<>>, stop |-> None]

Bytes(pos, len) == [i \in 1..len |-> pos + i - 1]

------------------------------------------------------------------------------
(* Output                                                                  *)

AppendWithCap_NoCap(q, cells) ==
  IF q.stop # None THEN q ELSE [q EXCEPT !.ready = @ \o cells]

\* append_with_cap: the overflow policy past max_buffer.
AppendWithCap(q, cells) ==
  LET over == Held(q.ready) + Len(cells) - MaxBuffer
      extra == Most(Len(cells) - MaxBuffer, 0)
  IN CASE q.stop # None \/ cells = <<>> -> q
       [] q.stop = None /\ cells # <<>> /\ (MaxBuffer = None \/ (MaxBuffer # None /\ over <= 0)) ->
            [q EXCEPT !.ready = @ \o cells]
       [] OTHER ->
            IF q.policy = "DropFlow"
            THEN [q EXCEPT !.stop = "Overflow", !.reorder = None, !.oow = None]
            ELSE [q EXCEPT !.ready = DropFront(@, over) \o Gaps(extra)
                                       \o SubSeq(cells, extra + 1, Len(cells))]

\* skip_to: give up on the hole in front of `to`.
SkipTo(q, to) ==
  IF to <= q.next_off THEN q
  ELSE AdvanceTo([q EXCEPT !.ready = @ \o Gaps(to - q.next_off)], to)

\* deliver_at: bytes at the stream position, without what was delivered.
DeliverAt(q, c) ==
  LET skip == Most(q.next_off - c.off, 0)
  IN IF c.off + c.len <= q.next_off THEN q
     ELSE AppendWithCap(AdvanceTo(q, c.off + c.len), Bytes(c.pos + skip, c.len - skip))

\* release_reorder: give up on the hole in front of the waiting segment.
ReleaseReorder(q) ==
  IF q.reorder = None THEN q
  ELSE DeliverAt(SkipTo([q EXCEPT !.reorder = None], q.reorder.off), q.reorder)

\* try_reorder: the stream reached the waiting segment.
TryReorder(q) ==
  IF q.reorder # None /\ q.reorder.off <= q.next_off
  THEN DeliverAt([q EXCEPT !.reorder = None], q.reorder)
  ELSE q

\* resync: re-anchor at a corroborated candidate.
Resync(q, c) ==
  LET at == DeliverAt(SkipTo(ReleaseReorder([q EXCEPT !.oow = None]), c.off), c)
  IN IF at.stop = None THEN SkipTo(at, End(c)) ELSE at

------------------------------------------------------------------------------
(* Evidence and timers                                                     *)

\* The stream provably extends to `seq`.
Evidence(q, seq, ts) == IF Confirms(q, seq) THEN Resync(q, q.oow) ELSE Noted(q, seq, ts)

CheckTimers_DeadlineOnly(q, now) ==
  IF q.stop = None /\ q.reorder # None
  THEN IF Elapsed(now, q.reorder.ts) > Deadline THEN ReleaseReorder(q) ELSE q
  ELSE q

\* check_timers: an acknowledged hole after the grace period, any hole after
\* the deadline, a lone stray after four deadlines.
CheckTimers(q, now) ==
  LET acked == CASE EvidenceDue(q, now) /\ q.reorder = None -> SkipTo(q, q.evidence)
                 [] EvidenceDue(q, now) /\ q.reorder # None
                      -> IF q.reorder.off <= q.evidence THEN ReleaseReorder(q) ELSE q
                 [] OTHER -> q
      late == acked.reorder # None /\ Elapsed(now, acked.reorder.ts) > Deadline
  IN IF q.stop # None THEN q
     ELSE ExpireStray(IF late THEN ReleaseReorder(acked) ELSE acked, now)

------------------------------------------------------------------------------
(* Segments                                                                *)

\* feed before it re-enters itself: a corroborated stray is resynced to, a
\* hole another segment already waits behind is given up.
Opened(q, off) ==
  CASE IsFar(q, off) /\ Corroborated(q, off) -> Resync(q, q.oow)
    [] off > q.next_off /\ ~IsFar(q, off) /\ q.reorder # None -> ReleaseReorder(q)
    [] OTHER -> q

\* Where a segment at `off` goes: held as a stray, dropped, held behind a
\* hole, or delivered with the segment that waits behind it.
Placed(q, c) ==
  CASE q.stop # None -> q
    [] q.stop = None /\ IsFar(q, c.off) -> [q EXCEPT !.oow = c]
    [] q.stop = None /\ ~IsFar(q, c.off) /\ c.off > q.next_off ->
         CheckTimers([q EXCEPT !.reorder = c], c.ts)
    [] OTHER ->
         IF c.off + c.len <= q.next_off THEN CheckTimers(q, c.ts)
         ELSE CheckTimers(TryReorder(DeliverAt(q, c)), c.ts)

\* segment.
Feed(q, pos, len, ts) ==
  LET at == Anchored(q, SeqOf(pos))
      off == OffsetOf(at, SeqOf(pos))
  IN IF len = 0 \/ q.stop # None THEN q
     ELSE Placed(Opened(at, off), Cand(off, pos, len, ts))

\* The cells segment_into lets through without buffering: the next in-order
\* bytes, when nothing else is ready or waiting.
Passes(q, pos, len) ==
  LET at == Anchored(q, SeqOf(pos))
      off == OffsetOf(at, SeqOf(pos))
      new == off + len - at.next_off
  IN IF /\ len > 0 /\ q.stop = None
        /\ off <= at.next_off /\ new > 0
        /\ q.ready = <<>> /\ q.reorder = None
        /\ MaxBuffer = None \/ (MaxBuffer # None /\ new <= MaxBuffer)
     THEN Bytes(pos + len - new, new) ELSE <<>>

\* The stream has reached cut bytes that end at `to`: they are skipped, the
\* waiting segment delivered where it falls inside them.
Crossed(q, to) ==
  LET step(p) == IF p.stop # None \/ p.next_off >= to THEN p
                 ELSE TryReorder(SkipTo(p, IF p.reorder = None THEN to
                                           ELSE Least(p.reorder.off, to)))
  IN step(step(q))

\* missing: the cut end of a segment.  Far ahead it extends the stray its own
\* packet left, corroborates another one, or becomes one.
Missing(q, pos, len, ts) ==
  LET at == Anchored(q, SeqOf(pos))
      off == OffsetOf(at, SeqOf(pos))
      near(p) == CASE p.stop # None \/ off + len <= p.next_off -> p
                   [] p.stop = None /\ off <= p.next_off /\ off + len > p.next_off ->
                        CheckTimers(Crossed(p, off + len), ts)
                   [] OTHER -> CheckTimers(Evidence(p, SeqOf(pos + len), ts), ts)
  IN CASE q.stop # None \/ len = 0 -> q
       [] q.stop = None /\ len > 0 /\ ~IsFar(at, off) -> near(at)
       [] OTHER -> IF ~Extends(at, off, ts) /\ Corroborated(at, off)
                   THEN near(Resync(at, at.oow))
                   ELSE CheckTimers([at EXCEPT !.oow = Stray(at, off, pos, len, ts)], ts)

------------------------------------------------------------------------------
(* The calls                                                               *)

\* The first call with a sequence number fixes offset 0.
Anchors(pos) == anchor' = IF r.anchored THEN anchor ELSE pos

\* A segment of the stream, `cut` bytes of its end not captured.
Segment(pos, len, cut, ts) ==
  /\ len + cut > 0
  /\ pos + len + cut <= total
  /\ r' = Missing(Feed(r, pos, len, ts), pos + len, cut, ts)
  /\ IF r'.anchored THEN Anchors(pos) ELSE UNCHANGED anchor
  /\ UNCHANGED <<total, taken>>

\* segment_into: the consumer takes in-order bytes straight from the packet.
SegmentInto(pos, len, ts) ==
  LET through == Passes(r, pos, len)
      at == Anchored(r, SeqOf(pos))
  IN /\ len > 0
     /\ pos + len <= total
     /\ taken' = taken \o through
     /\ r' = IF through # <<>> THEN AdvanceTo(at, at.next_off + Len(through))
             ELSE Feed(r, pos, len, ts)
     /\ IF r'.anchored THEN Anchors(pos) ELSE UNCHANGED anchor
     /\ UNCHANGED total

PeerAck_Whole(ack, ts) ==
  /\ r' = IF r.stop # None THEN r ELSE CheckTimers(Evidence(r, SeqOf(ack), ts), ts)
  /\ UNCHANGED <<total, anchor, taken>>

\* peer_ack: an ACK may cover the FIN, so its last number proves nothing.
PeerAck(ack, ts) ==
  /\ r' = IF r.stop # None THEN r ELSE CheckTimers(Evidence(r, SeqOf(ack - 1), ts), ts)
  /\ UNCHANGED <<total, anchor, taken>>

FinSeen(ts) ==
  /\ r' = IF r.stop # None THEN r ELSE Evidence(FinNoted(r, SeqOf(total)), SeqOf(total), ts)
  /\ UNCHANGED <<total, anchor, taken>>

AdvanceTime(now) ==
  /\ r' = CheckTimers(r, now)
  /\ UNCHANGED <<total, anchor, taken>>

DrainInto ==
  /\ taken' = taken \o r.ready
  /\ r' = [r EXCEPT !.ready = <<>>]
  /\ UNCHANGED <<total, anchor>>

\* flush_pending: the flow ended, no hole will fill.
FlushPending ==
  LET last == ReleaseReorder(r)
      ended == SkipTo(last, last.evidence)
  IN /\ r' = IF r.stop # None THEN r ELSE [ended EXCEPT !.oow = None]
     /\ UNCHANGED <<total, anchor, taken>>

\* release: the memcap reclaims the side.
Release ==
  /\ r' = [r EXCEPT !.ready = <<>>, !.reorder = None, !.oow = None,
                    !.stop = IF @ = None THEN "Memcap" ELSE @]
  /\ UNCHANGED <<total, anchor, taken>>

Init ==
  /\ total \in 0..MaxLen
  /\ taken = <<>>
  /\ \E policy \in Policies :
       \/ r = New(policy) /\ anchor = None
       \/ r = Anchored(New(policy), SeqOf(0)) /\ anchor = 0

Next ==
  \/ \E pos \in 0..MaxLen, len, cut \in 0..MaxSegment, ts \in Times : Segment(pos, len, cut, ts)
  \/ \E pos \in 0..MaxLen, len \in 0..MaxSegment, ts \in Times : SegmentInto(pos, len, ts)
  \/ \E ack \in 0..total + 1, ts \in Times : PeerAck(ack, ts)
  \/ \E ts \in Times : FinSeen(ts)
  \/ \E now \in Times \cup {Later} : AdvanceTime(now)
  \/ DrainInto
  \/ FlushPending
  \/ Release

Spec == Init /\ [][Next]_vars

------------------------------------------------------------------------------
(* Properties                                                              *)

\* Everything the consumer was or will be given.
Output == taken \o r.ready

\* Undrained bytes never exceed max_buffer.
WithinBuffer == MaxBuffer # None => Held(r.ready) <= MaxBuffer

Consumer == INSTANCE ByteStream WITH given <- taken, first <- anchor

\* The reassembler implements the byte stream promised to its consumer.
IsByteStream == Consumer!Spec

\* What is acknowledged or waits behind a hole.
Wedged == r.stop = None /\ (r.reorder # None \/ r.evidence > r.next_off)

\* Sweeps go on: each gives every reassembler the time.
FairSpec == Spec /\ WF_vars(AdvanceTime(Later))

\* "This never wedges" (src/src/reassembler.rs:885): again and again no hole
\* is left that data or an acknowledgement waits behind.
NeverWedges == []<>~Wedged

==============================================================================
