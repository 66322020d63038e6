--------------------------- MODULE SegmentReassembler ---------------------------
(***************************************************************************)
(* src/src/segment_reassembler.rs: SegmentBufferReassembler, the           *)
(* reassembler of the session engines.  It holds any amount of data behind *)
(* holes, within a budget, and resolves overlaps by a policy.              *)
(*                                                                         *)
(* As in BufferedReassembler any part of the sender's stream may be        *)
(* captured, in any order, cut short or never.  Copies of a byte may       *)
(* differ, so each is known by its position and by the segment, named by   *)
(* its start, that carried it.  Pieces are the maximal intervals of held.  *)
(***************************************************************************)
EXTENDS StreamTrack, FiniteSetsExt, Functions

CONSTANTS
  PieceOverhead,  \* PIECE_OVERHEAD
  RunOverhead,    \* RUN_OVERHEAD
  Configs,        \* the pairs <<overlap_policy, overflow_policy>> in use
  MaxOoo,         \* max_ooo_buffer
  MaxCut,         \* bound on the bytes cut from a segment
  MaxSpare        \* bound on the unused capacity of the buffers

ASSUME ConfigAssumption ==
  Configs \subseteq {"First", "Last", "LowerSeq", "HigherSeq"} \X {"SlidingWindow", "DropFlow"}
ASSUME BudgetAssumption == {PieceOverhead, RunOverhead, MaxOoo, MaxCut, MaxSpare} \subseteq Nat

VARIABLES
  r,       \* the reassembler
  total,   \* length of the sender's stream: its FIN is at this position
  anchor,  \* history: the position that stream offset 0 stands for, or None
  taken    \* history: the cells the consumer was given so far

vars == <<r, total, anchor, taken>>

Cells == 0..MaxLen \cup {Gap}

\* r.held: the bytes held, by offset; r.runs: provenance, as triples of start,
\* end and segment; r.best (history): the segment the policy prefers for each
\* held offset.  At most two arrivals are counted, nothing asks for more.
New(config) ==
  [overlap |-> config[1], overflow |-> config[2],
   anchored |-> FALSE, next_seq |-> 0, next_off |-> 0, progress |-> 0,
   evidence |-> 0, evidence_since |-> None, fin_off |-> None, oow |-> None,
   held |-> <<>>, runs |-> {}, arrivals |-> 0, best |-> <<>>,
   ready |-> <<>>, stop |-> None]

NoOoo(q) == [q EXCEPT !.held = <<>>, !.runs = {}, !.arrivals = 0, !.best = <<>>]

SeqPolicy(q) == q.overlap \in {"LowerSeq", "HigherSeq"}

\* For TLC: every policy of each kind, not every pair of them.
EachPolicy == {<<"First", "DropFlow">>, <<"Last", "SlidingWindow">>,
               <<"LowerSeq", "SlidingWindow">>, <<"HigherSeq", "DropFlow">>}

------------------------------------------------------------------------------
(* What is held behind holes, by offset, and its provenance, as triples    *)
(* <<start, end, segment>>                                                 *)

\* The maximal intervals of a set of offsets: where they start and end.
Starts(S) == {o \in S : o - 1 \notin S}
EndFrom(S, o) == Min({e \in o..MaxLen : e \notin S})
Intervals(S) == {<<o, EndFrom(S, o)>> : o \in Starts(S)}

CutRuns_Tail(runs, gone) ==
  {<<x[1], EndFrom((x[1]..x[2] - 1) \ gone, x[1]), x[3]>> : x \in {y \in runs : y[1] \notin gone}}

\* cut_runs: forget the provenance of the offsets `gone`, splitting the runs
\* that straddle them.
CutRuns(runs, gone) ==
  UNION {{<<g[1], g[2], x[3]>> : g \in Intervals((x[1]..x[2] - 1) \ gone)} : x \in runs}

\* set_runs for each of a set of disjoint ranges.
SetRuns(runs, ranges, seg) ==
  CutRuns(runs, UNION {g[1]..g[2] - 1 : g \in ranges}) \cup {<<g[1], g[2], seg>> : g \in ranges}

\* seg_of: the segment that supplied the byte at o.
SegOf(runs, o) == LET at == {x \in runs : x[1] <= o /\ o < x[2]}
                  IN IF at = {} THEN None ELSE (CHOOSE x \in at : TRUE)[3]

NewWins_Newest(overlap, seg, existing) ==
  CASE overlap = "Last" -> TRUE
    [] overlap = "LowerSeq" -> existing # None
    [] overlap = "HigherSeq" -> existing # None /\ seg > existing
    [] OTHER -> FALSE

NewWins(overlap, seg, existing) ==
  CASE overlap = "Last" -> TRUE
    [] overlap = "LowerSeq" -> existing # None /\ seg < existing
    [] overlap = "HigherSeq" -> existing # None /\ seg > existing
    [] OTHER -> FALSE

\* What the policy says, of a byte two segments carry.
Preferred(overlap, old, new) ==
  CASE overlap = "First" -> old
    [] overlap = "Last" -> new
    [] overlap = "LowerSeq" -> Least(old, new)
    [] OTHER -> Most(old, new)

\* charged: at least this much, for buffers without room to spare.
Charged(held, runs) ==
  Cardinality(DOMAIN held) + PieceOverhead * Cardinality(Starts(DOMAIN held))
    + RunOverhead * Cardinality(runs)

------------------------------------------------------------------------------
(* The stream position                                                     *)

\* Timestamps past MaxTime are all the same to a later sweep.
AnchoredAt(q, seq, ts) ==
  IF q.anchored THEN q ELSE [Anchored(q, seq) EXCEPT !.progress = ts]

Advance(q, off, ts) ==
  IF off <= q.next_off THEN q
  ELSE [AdvanceTo(q, off) EXCEPT !.progress = Most(@, Least(ts, MaxTime))]

\* append_ready and append_ready_owned.
AppendReady(q, cells) ==
  LET over == Held(q.ready) + Len(cells) - MaxBuffer
      extra == Most(Len(cells) - MaxBuffer, 0)
  IN CASE q.stop # None \/ cells = <<>> -> q
       [] q.stop = None /\ (MaxBuffer = None \/ (MaxBuffer # None /\ over <= 0)) ->
            [q EXCEPT !.ready = @ \o cells]
       [] OTHER ->
            IF q.overflow = "DropFlow" THEN [NoOoo(q) EXCEPT !.stop = "Overflow", !.oow = None]
            ELSE [q EXCEPT !.ready = DropFront(@, over) \o Gaps(extra)
                                       \o SubSeq(cells, extra + 1, Len(cells))]

\* skip_to: report a gap up to `to`.
SkipTo(q, to, ts) ==
  IF to <= q.next_off THEN q
  ELSE Advance([q EXCEPT !.ready = @ \o Gaps(to - q.next_off)], to, ts)

------------------------------------------------------------------------------
(* Out-of-order data                                                       *)

FirstStart(q) == Min(DOMAIN q.held)

\* Loop on a step that takes the first piece away, or changes nothing.
Repeat(step(_), q) ==
  LET done[n \in 0..MaxLen] == IF n = 0 THEN q ELSE step(done[n - 1])
  IN done[Cardinality(Starts(DOMAIN q.held))]

\* absorb: the bytes pos.. at start.., of segment seg, among those held.  The
\* code compares the start of what is left of the segment.
Absorb(q, start, pos, len, seg) ==
  LET new == start..start + len - 1
      fresh == new \ DOMAIN q.held
      won == {o \in new \cap DOMAIN q.held :
                NewWins(q.overlap, start, IF SeqPolicy(q) THEN SegOf(q.runs, o) ELSE None)}
      writes == {<<Most(x[1], start), Least(x[2], start + len)>> :
                   x \in {y \in q.runs : y[2] > start /\ Most(y[1], start) \in won}}
  IN [q EXCEPT !.arrivals = Least(@ + 1, 2),
               !.held = [o \in DOMAIN @ \cup new |->
                           IF o \in fresh \cup won
                           THEN [pos |-> pos + o - start, seg |-> seg] ELSE @[o]],
               !.runs = IF SeqPolicy(q) THEN SetRuns(@, writes \cup Intervals(fresh), start) ELSE @,
               !.best = [o \in DOMAIN @ \cup new |->
                           CASE o \notin DOMAIN @ -> seg
                             [] o \in DOMAIN @ /\ o \notin new -> @[o]
                             [] OTHER -> Preferred(q.overlap, @[o], seg)]]

\* deliver_first: the first piece, if the stream reached it.  Pieces do not
\* touch, so it never brings the stream to the next one.
DeliverFirst(q, ts) ==
  LET end == EndFrom(DOMAIN q.held, FirstStart(q))
      rest == {o \in DOMAIN q.held : o >= end}
      p == [q EXCEPT !.held = Restrict(@, rest), !.best = Restrict(@, rest), !.arrivals = 0,
                     !.runs = CutRuns(@, FirstStart(q)..end - 1)]
  IN IF q.held = <<>> THEN q
     ELSE IF FirstStart(q) > q.next_off THEN q
     ELSE AppendReady(Advance(IF rest = {} THEN NoOoo(p) ELSE p, end, ts),
                      [i \in 1..Most(end - q.next_off, 0) |-> q.held[q.next_off + i - 1].pos])

\* skip_to_first: give up on the hole in front of the first piece.
SkipToFirst(q, ts) == IF q.held = <<>> THEN q ELSE DeliverFirst(SkipTo(q, FirstStart(q), ts), ts)

\* flush_ooo: give up on every hole.
FlushOoo(q, ts) == LET step(p) == IF p.stop = None THEN SkipToFirst(p, ts) ELSE p
                   IN Repeat(step, q)

EnforceOooCap_PayloadOnly(q, spare, ts) ==
  LET bytes(p) == Cardinality(DOMAIN p.held)
      step(p) == IF bytes(p) + Least(spare, bytes(p)) > MaxOoo THEN SkipToFirst(p, ts) ELSE p
  IN Repeat(step, q)

\* enforce_ooo_cap: buffers grow by doubling, so up to as many bytes again as
\* are held may be `spare`.
EnforceOooCap(q, spare, ts) ==
  LET step(p) == IF Charged(p.held, p.runs) + Least(spare, Cardinality(DOMAIN p.held)) > MaxOoo
                 THEN SkipToFirst(p, ts) ELSE p
  IN Repeat(step, q)

------------------------------------------------------------------------------
(* Segments                                                                *)

CheckTimers_TwoOnly(q, now) ==
  IF q.stop = None /\ q.held # <<>> /\ q.arrivals >= 2 /\ Elapsed(now, q.progress) > Deadline
  THEN SkipToFirst(q, now) ELSE q

\* A hole that two arrivals, two pieces or an ACK corroborate is given up after
\* the deadline, any hole after four.
Late(q, now) ==
  LET stalled == Elapsed(now, q.progress)
  IN /\ q.held # <<>> /\ stalled > Deadline
     /\ \/ stalled > 4 * Deadline
        \/ q.arrivals >= 2
        \/ Cardinality(Starts(DOMAIN q.held)) >= 2
        \/ q.evidence > q.next_off /\ q.evidence >= FirstStart(q)

\* check_timers: acknowledged holes after the grace period, the first hole
\* when it is late, a lone stray after four deadlines.
CheckTimers(q, now) ==
  LET step(p) == IF p.stop = None /\ p.held # <<>> /\ (p.held # <<>> => FirstStart(p) <= q.evidence)
                 THEN SkipToFirst(p, now) ELSE p
      acked == CASE EvidenceDue(q, now) /\ q.held = <<>> -> SkipTo(q, q.evidence, now)
                 [] EvidenceDue(q, now) /\ q.held # <<>> -> Repeat(step, q)
                 [] OTHER -> q
      stalled(p) == IF Late(p, now) THEN SkipToFirst(p, now) ELSE p
  IN IF q.stop # None THEN q ELSE ExpireStray(stalled(acked), now)

\* feed of a segment within max_ahead: old, in order with nothing waiting, or
\* absorbed among what waits.
Near(q, c, spare) ==
  LET skip == Most(q.next_off - c.off, 0)
      opened == IF q.held = <<>> THEN [q EXCEPT !.progress = c.ts] ELSE q
      placed ==
        CASE c.off + c.len <= q.next_off -> q
          [] c.off + c.len > q.next_off /\ c.off <= q.next_off /\ q.held = <<>> ->
               AppendReady(Advance(q, c.off + c.len, c.ts),
                           [i \in 1..c.len - skip |-> c.pos + skip + i - 1])
          [] OTHER ->
               EnforceOooCap(
                 DeliverFirst(Absorb(opened, c.off + skip, c.pos + skip, c.len - skip, c.off), c.ts),
                 spare, c.ts)
  IN IF q.stop # None \/ c.len = 0 THEN q ELSE CheckTimers(placed, c.ts)

\* resync: re-anchor at a corroborated candidate; everything held goes first.
Resync(q, c, ts) ==
  LET at == SkipTo(FlushOoo([q EXCEPT !.oow = None], ts), c.off, ts)
      past(p) == IF p.stop = None THEN SkipTo(p, End(c), ts) ELSE p
  IN past(Near(at, [c EXCEPT !.ts = ts], 0))

Evidence(q, seq, ts) == IF Confirms(q, seq) THEN Resync(q, q.oow, ts) ELSE Noted(q, seq, ts)

\* feed.
Feed(q, pos, len, ts, spare) ==
  LET at == AnchoredAt(q, SeqOf(pos), ts)
      off == OffsetOf(at, SeqOf(pos))
      c == Cand(off, pos, len, ts)
  IN CASE q.stop # None \/ len = 0 -> q
       [] q.stop = None /\ len > 0 /\ IsFar(at, off) /\ ~Corroborated(at, off) ->
            [at EXCEPT !.oow = c]
       [] OTHER -> Near(IF IsFar(at, off) THEN Resync(at, at.oow, ts) ELSE at, c, spare)

\* The cells segment_into lets through: in order, nothing ready or waiting.
Passes(q, pos, len) ==
  LET at == Anchored(q, SeqOf(pos))
      off == OffsetOf(at, SeqOf(pos))
      new == off + len - at.next_off
  IN IF /\ len > 0 /\ q.stop = None
        /\ off <= at.next_off /\ new > 0
        /\ q.ready = <<>> /\ q.held = <<>>
        /\ MaxBuffer = None \/ (MaxBuffer # None /\ new <= MaxBuffer)
     THEN [i \in 1..new |-> pos + len - new + i - 1] ELSE <<>>

\* The stream has reached cut bytes that end at `to`: they are skipped, and
\* what is held inside them delivered.
Crossed(q, to, ts) ==
  LET step(p) == IF p.stop # None \/ p.next_off >= to THEN p
                 ELSE DeliverFirst(SkipTo(p, IF p.held = <<>> THEN to
                                               ELSE Least(FirstStart(p), to), ts), ts)
  IN step(Repeat(step, q))

\* missing: the cut end of a segment.
Missing(q, pos, len, ts) ==
  LET at == AnchoredAt(q, SeqOf(pos), ts)
      off == OffsetOf(at, SeqOf(pos))
      resynced == IF IsFar(at, off) THEN Resync(at, at.oow, ts) ELSE at
      near(p) == CASE p.stop # None \/ off + len <= p.next_off -> p
                   [] p.stop = None /\ off <= p.next_off /\ off + len > p.next_off ->
                        CheckTimers(Crossed(p, off + len, ts), ts)
                   [] OTHER -> CheckTimers(Evidence(p, SeqOf(pos + len), ts), ts)
  IN CASE q.stop # None \/ len = 0 -> q
       [] q.stop = None /\ len > 0 /\ IsFar(at, off)
            /\ (Extends(at, off, ts) \/ ~Corroborated(at, off)) ->
            CheckTimers([at EXCEPT !.oow = Stray(at, off, pos, len, ts)], ts)
       [] OTHER -> near(resynced)

------------------------------------------------------------------------------
(* The calls                                                               *)

\* The first call with a sequence number fixes offset 0.
Anchors(pos) == anchor' = IF r.anchored THEN anchor ELSE pos

\* A segment of the stream, `cut` bytes of its end not captured.
Segment(pos, len, cut, ts, spare) ==
  /\ len + cut > 0
  /\ pos + len + cut <= total
  /\ r' = Missing(Feed(r, pos, len, ts, spare), pos + len, cut, ts)
  /\ IF r'.anchored THEN Anchors(pos) ELSE UNCHANGED anchor
  /\ UNCHANGED <<total, taken>>

\* segment_into: the consumer takes in-order bytes straight from the packet.
SegmentInto(pos, len, ts) ==
  LET through == Passes(r, pos, len)
      at == AnchoredAt(r, SeqOf(pos), ts)
  IN /\ through # <<>>
     /\ pos + len <= total
     /\ taken' = taken \o through
     /\ r' = Advance(at, at.next_off + Len(through), ts)
     /\ Anchors(pos)
     /\ UNCHANGED total

\* peer_ack: an ACK may cover the FIN, so its last number proves nothing.
PeerAck(ack, ts) ==
  /\ r' = IF r.stop # None THEN r ELSE CheckTimers(Evidence(r, SeqOf(ack - 1), ts), ts)
  /\ UNCHANGED <<total, anchor, taken>>

FinSeen(ts) ==
  /\ r' = IF r.stop # None THEN r ELSE Evidence(FinNoted(r, SeqOf(total)), SeqOf(total), ts)
  /\ UNCHANGED <<total, anchor, taken>>

AdvanceTime(now) ==
  /\ r' = CheckTimers(r, now)
  /\ UNCHANGED <<total, anchor, taken>>

DrainInto ==
  /\ taken' = taken \o r.ready
  /\ r' = [r EXCEPT !.ready = <<>>]
  /\ UNCHANGED <<total, anchor>>

\* flush_pending: the flow ended, no hole will fill.
FlushPending ==
  LET flushed == FlushOoo(r, r.progress)
      ended == IF flushed.stop = None THEN SkipTo(flushed, flushed.evidence, r.progress)
               ELSE flushed
  IN /\ r' = [ended EXCEPT !.oow = None]
     /\ UNCHANGED <<total, anchor, taken>>

Release_AsGap ==
  /\ r' = [NoOoo(r) EXCEPT !.ready = Gaps(Len(@) + 1), !.oow = None,
                           !.stop = IF @ = None THEN "Memcap" ELSE @]
  /\ UNCHANGED <<total, anchor, taken>>

\* release: the memcap reclaims the side.
Release ==
  /\ r' = [NoOoo(r) EXCEPT !.ready = <<>>, !.oow = None,
                           !.stop = IF @ = None THEN "Memcap" ELSE @]
  /\ UNCHANGED <<total, anchor, taken>>

Init ==
  /\ total \in 0..MaxLen
  /\ taken = <<>>
  /\ \E config \in Configs :
       \/ r = New(config) /\ anchor = None
       \/ r = AnchoredAt(New(config), SeqOf(0), 0) /\ anchor = 0

Next ==
  \/ \E pos \in 0..MaxLen, len \in 0..MaxSegment, cut \in 0..MaxCut, ts \in Times,
        spare \in 0..MaxSpare : Segment(pos, len, cut, ts, spare)
  \/ \E pos \in 0..MaxLen, len \in 0..MaxSegment, ts \in Times : SegmentInto(pos, len, ts)
  \/ \E ack \in 0..total + 1, ts \in Times : PeerAck(ack, ts)
  \/ \E ts \in Times : FinSeen(ts)
  \/ \E now \in Times \cup {Later} : AdvanceTime(now)
  \/ DrainInto
  \/ FlushPending
  \/ Release

Spec == Init /\ [][Next]_vars

------------------------------------------------------------------------------
(* Properties                                                              *)

\* Everything the consumer was or will be given.
Output == taken \o r.ready

\* However segments overlapped, every held byte is the copy that
\* TcpOverlapPolicy prefers (src/src/event.rs:384), and stands at its place.
OverlapResolved ==
  \A o \in DOMAIN r.held : r.held[o].seg = r.best[o] /\ r.held[o].pos = anchor + o

\* Provenance runs are disjoint and cover exactly the held bytes: one left
\* behind is charged for ever and misjudges later overlaps.
ProvenanceIsExact ==
  SeqPolicy(r) => /\ UNION {x[1]..x[2] - 1 : x \in r.runs} = DOMAIN r.held
                  /\ \A x, y \in r.runs : x # y => x[2] <= y[1] \/ y[2] <= x[1]

\* What is held out of order, bookkeeping included, is within max_ooo_buffer
\* whenever a call has returned (src/docs/bounded-memory.md:138), and what
\* waits undrained within max_buffer.
WithinBudget == Charged(r.held, r.runs) <= MaxOoo /\ (MaxBuffer # None => Held(r.ready) <= MaxBuffer)

Consumer == INSTANCE ByteStream WITH given <- taken, first <- anchor

\* The reassembler implements the byte stream promised to its consumer.
IsByteStream == Consumer!Spec

\* What is acknowledged or waits behind a hole.
Wedged == r.stop = None /\ (r.held # <<>> \/ r.evidence > r.next_off)

\* "A hole is not waited for forever" (src/src/segment_reassembler.rs:10):
\* in whatever state something waits, the next late enough sweep moves the
\* stream on; it never moves back, and IsByteStream bounds it.
SweepMovesOn == Wedged => LET q == CheckTimers(r, Later)
                          IN q.stop # None \/ q.next_off > r.next_off

==============================================================================
