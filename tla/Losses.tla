------------------------------- MODULE Losses -------------------------------
(***************************************************************************)
(* src/src/flow_driver.rs: what the flow driver tells of the losses of one *)
(* flow, as anomalies while they happen and as counters in its statistics. *)
(*                                                                         *)
(* The reassemblers are external: a call may count a hole, a discarded     *)
(* segment, bytes over the cap or a stray, and a stray that is used after  *)
(* all is counted as a hole instead.  `dropped` stands for every counter   *)
(* that only grows and has an anomaly of its own.  The memcap pool is      *)
(* FlowDriver's, here any segment may find it full.  Anomalies are on.     *)
(***************************************************************************)
EXTENDS Naturals, FiniteSets, FiniteSetsExt

CONSTANTS None,
          MaxLosses               \* losses told in a behaviour

VARIABLES self, past

vars == <<self, past>>

Sides == {0, 1}
Kinds == {"gaps", "dropped", "oversize", "oow"}
Zero == [k \in Kinds |-> 0]

Empty == [is |-> "Empty"]
NewLive == [is |-> "Live", counters |-> Zero, stop |-> None]
Done(stats, stop) == [is |-> "Done", stats |-> stats, stop |-> stop, reported |-> stop = None]

-----------------------------------------------------------------------------
(* The reassembler of a side                                               *)

Counted(l, k) == [l EXCEPT !.counters[k] = @ + 1]

\* A stray corroborated: the stream resumes there, after a hole.
Resynced(l) == IF l.stop = None /\ l.counters.oow > 0 THEN {[Counted(l, "gaps") EXCEPT !.counters.oow = @ - 1]} ELSE {}

\* What peer_ack, advance_time and flush_pending may come to, and what a segment may.
Waited(l) == {l} \cup Resynced(l) \cup (IF l.stop = None THEN {Counted(l, "gaps")} ELSE {})
Fed(l) ==
    Waited(l) \cup (IF l.stop # None THEN {}
                    ELSE {Counted(l, "dropped"), Counted(l, "oow")}
                         \cup {[Counted(l, "oversize") EXCEPT !.stop = s] : s \in {None, "Overflow"}})

-----------------------------------------------------------------------------
(* Counters                                                                *)

Diff(before, now) == [k \in Kinds |-> IF now[k] > before[k] THEN now[k] - before[k] ELSE 0]

FoldSlot(slot) ==
    CASE slot.is = "Empty" -> Zero
      [] slot.is = "Live" -> slot.counters
      [] slot.is = "Done" -> IF slot.stats = None THEN Zero ELSE slot.stats

TombstoneForgetful(slot, stop) ==
    CASE slot.is = "Live" -> Done(IF slot.counters.gaps + slot.counters.oversize > 0 THEN slot.counters ELSE None,
                                  IF stop # None THEN stop ELSE slot.stop)
      [] slot.is = "Empty" -> Done(None, stop)
      [] slot.is = "Done" -> slot

Tombstone(slot, stop) ==
    CASE slot.is = "Live" -> Done(IF \E k \in Kinds : slot.counters[k] # 0 THEN slot.counters ELSE None,
                                  IF stop # None THEN stop ELSE slot.stop)
      [] slot.is = "Empty" -> Done(None, stop)
      [] slot.is = "Done" -> slot

-----------------------------------------------------------------------------
(* The calls                                                               *)

Init ==
    /\ self = [sides |-> [i \in Sides |-> Empty], ended |-> None]
    /\ past = [told |-> [i \in Sides |-> Zero], silent |-> [i \in Sides |-> Zero], stops |-> [i \in Sides |-> 0]]

Plus(told, i, diff) == [told EXCEPT ![i] = [k \in Kinds |-> @[k] + diff[k]]]
Losses == MapThenSumSet(LAMBDA x : past.told[x[1]][x[2]] + past.silent[x[1]][x[2]], Sides \X Kinds)
Growing(moves, l) == IF Losses < MaxLosses THEN moves ELSE {l}

\* feed_tcp after the peer's ACK was passed on: the segment itself, or nothing
\* if the side is done or the memcap refuses it.  `tripped` is the policy of a
\* full pool, None if there is room or the policy is Ignore.
FeedSegment(i, sides, told, tripped) ==
    LET live == IF sides[i].is = "Empty" THEN NewLive ELSE sides[i]
        stopped == tripped \in {"PassThrough", "DropFlow"}
        closed(after) == [j \in Sides |->
            IF stopped /\ (j = i \/ tripped = "DropFlow")
            THEN Tombstone(IF j = i THEN after ELSE sides[j], "Memcap")
            ELSE IF j = i THEN after ELSE sides[j]]
    IN IF sides[i].is = "Done" \/ tripped = "DropPacket"
       THEN /\ self' = [self EXCEPT !.sides = [sides EXCEPT ![i] = IF @.is = "Empty" THEN NewLive ELSE @]]
            /\ past' = [past EXCEPT !.told = told]
       ELSE \E after \in Growing(Fed(live), live) :
            /\ self' = [self EXCEPT !.sides = closed(after)]
            /\ past' = [past EXCEPT !.told = Plus(told, i, Diff(live.counters, after.counters))]

\* A FIN without data: fin_seen, after which nothing is compared.
FeedFin(i, sides, told) ==
    /\ \E after \in IF sides[i].is = "Live" THEN Growing({sides[i]} \cup Resynced(sides[i]), sides[i]) ELSE {sides[i]} :
        /\ self' = [self EXCEPT !.sides = [sides EXCEPT ![i] = after]]
        /\ past' = [past EXCEPT !.told = told,
                        !.silent = IF after.is = "Live" THEN Plus(@, i, Diff(sides[i].counters, after.counters)) ELSE @]

\* feed_tcp: a packet from side i.
FeedTcp(i, ack, data, tripped) ==
    LET peer == self.sides[1 - i] IN
    \E after \in IF ack /\ peer.is = "Live" THEN Growing(Waited(peer), peer) ELSE {peer} :
        LET sides == [self.sides EXCEPT ![1 - i] = after]
            told == IF after.is = "Live" THEN Plus(past.told, 1 - i, Diff(peer.counters, after.counters)) ELSE past.told
        IN IF data THEN FeedSegment(i, sides, told, tripped) ELSE FeedFin(i, sides, told)

Settled(l) == IF l.is = "Live" THEN Growing(Waited(l), l) ELSE {l}
ToldAfter(sides) == [i \in Sides |-> IF sides[i].is = "Live"
                                     THEN Plus(past.told, i, Diff(self.sides[i].counters, sides[i].counters))[i]
                                     ELSE past.told[i]]

\* advance_streams of a sweep that the flow survives.
AdvanceStreams ==
    \E x \in Settled(self.sides[0]), y \in Settled(self.sides[1]) :
        LET sides == [i \in Sides |-> IF i = 0 THEN x ELSE y] IN
        /\ self' = [self EXCEPT !.sides = sides]
        /\ past' = [past EXCEPT !.told = ToldAfter(sides)]

\* close_flow, before the flow's Ended is handed out.
CloseFlow ==
    \E x \in Settled(self.sides[0]), y \in Settled(self.sides[1]) :
        LET sides == [i \in Sides |-> IF i = 0 THEN x ELSE y] IN
        /\ self' = [sides |-> sides, ended |-> [i \in Sides |-> FoldSlot(sides[i])]]
        /\ past' = [past EXCEPT !.told = ToldAfter(sides)]

DiscardSide(i) ==
    /\ self' = [self EXCEPT !.sides[i] = [Tombstone(@, None) EXCEPT !.reported = TRUE]]
    /\ UNCHANGED past

\* drain_stream, of a side that is done.
DrainStream(i) ==
    /\ self.sides[i].is = "Done" /\ ~self.sides[i].reported
    /\ self' = [self EXCEPT !.sides[i].reported = TRUE]
    /\ past' = [past EXCEPT !.stops[i] = @ + 1]

Next ==
    /\ self.ended = None
    /\ \/ \E i \in Sides, ack, data \in BOOLEAN, tripped \in {None, "DropPacket", "PassThrough", "DropFlow"} :
            (data \/ tripped = None) /\ FeedTcp(i, ack, data, tripped)
       \/ AdvanceStreams
       \/ CloseFlow
       \/ \E i \in Sides : DiscardSide(i) \/ DrainStream(i)

-----------------------------------------------------------------------------
Stats(i) == IF self.ended = None THEN FoldSlot(self.sides[i]) ELSE self.ended[i]

\* The anomalies of a flow add up to the counters of its statistics, in
\* live_stats and in its Ended, through memcap stops, discards and the flush at
\* the end; but a stray told of may still be used, and the hole that a bare FIN
\* makes is not told.  A stop is handed to the consumer once.
LossesAddUp ==
    \A i \in Sides :
        /\ \A k \in Kinds \ {"oow"} : Stats(i)[k] = past.told[i][k] + past.silent[i][k]
        /\ Stats(i).oow <= past.told[i].oow
        /\ past.stops[i] <= 1
=============================================================================
