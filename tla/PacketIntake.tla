---------------------------- MODULE PacketIntake ----------------------------
(***************************************************************************)
(* How FlowDriver takes in a packet before and after it tracks it          *)
(* (flow_driver.rs, track_raw): deduplication, the monotonic clock, and    *)
(* the periodic ticks of live flows.  Tracking itself is FlowTracker's     *)
(* business; here a packet opens its flow, and a sweep or a close ends it. *)
(*                                                                         *)
(* self   the deduplicator, the clock (None when switched off), the latest *)
(*        time, the last tick scan, when each live flow last ticked        *)
(* past   the frames that went through and that were dropped; the last     *)
(*        time worked with, whether these times ever went back, and did so *)
(*        with the clock on; when each live flow opened; which ticked last *)
(***************************************************************************)
EXTENDS Naturals, Sequences

CONSTANTS Frames, HashOf, LenOf, FlowOf, DedupWindow, RingSize, Times, Interval, MaxFrames, None

VARIABLES self, past

-----------------------------------------------------------------------------
(* dedup.rs: the ring of recent frames.  A frame is a duplicate when the   *)
(* ring has its hash and length no more than the window before it, and     *)
(* goes into the ring either way.  HashOf is hash_frame, 64 bits of ahash: *)
(* two frames of one length are taken never to share a hash.               *)

\* Timestamp::saturating_sub: zero when the clock went back.
Since(now, then) == IF now > then THEN now - then ELSE 0

Entry(f, now) == [hash |-> HashOf[f], len |-> LenOf[f], ts |-> now]

\* Mutant: the length is not compared.
IsDupByHash(ring, e) ==
    \E i \in 1..Len(ring) : ring[i].hash = e.hash /\ Since(e.ts, ring[i].ts) <= DedupWindow

IsDup(ring, e) ==
    \E i \in 1..Len(ring) :
        /\ ring[i].hash = e.hash
        /\ ring[i].len = e.len
        /\ Since(e.ts, ring[i].ts) <= DedupWindow

PushEntry(ring, e) == Append(IF Len(ring) >= RingSize THEN Tail(ring) ELSE ring, e)

NewDedup == [ring |-> <<>>, seen |-> 0, dropped |-> 0]

\* keep: the deduplicator after the frame; it let the frame through when
\* `dropped` did not move.
Keep(d, e) ==
    [ring |-> PushEntry(d.ring, e), seen |-> d.seen + 1,
     dropped |-> d.dropped + (IF IsDup(d.ring, e) THEN 1 ELSE 0)]

-----------------------------------------------------------------------------
Flows == {FlowOf[f] : f \in Frames}

Init ==
    /\ \E clock \in {None, 0} :
          self = [dedup |-> NewDedup, monotonic_ts |-> clock, max_ts |-> 0, last_tick_scan |-> None,
                  last_tick_at |-> <<>>, paused |-> FALSE]
    /\ past = [kept |-> {}, dropped |-> {}, at |-> 0, back |-> FALSE, slipped |-> FALSE,
               opened |-> <<>>, ticks |-> <<>>, packet |-> FALSE]

-----------------------------------------------------------------------------
Latest(a, b) == IF a > b THEN a ELSE b

\* clamp_view, clamp_now: the time to work with.  The clock follows it.
Clamped(d, t) == IF d.monotonic_ts = None THEN t ELSE Latest(d.monotonic_ts, t)

Clocked(d, ts) == IF d.monotonic_ts = None THEN d ELSE [d EXCEPT !.monotonic_ts = ts]

\* Mutant: the scan waits a whole interval.
ScanDueByInterval(d, ts) ==
    /\ ~d.paused
    /\ d.last_tick_scan # None => Since(ts, d.last_tick_scan) >= Interval

\* The scan is due a quarter of an interval after the last one.
ScanDue(d, ts) ==
    /\ ~d.paused
    /\ d.last_tick_scan # None => 4 * Since(ts, d.last_tick_scan) >= Interval

TickDue(d, ts) ==
    {k \in DOMAIN d.last_tick_at :
        d.last_tick_at[k] # None => Since(ts, d.last_tick_at[k]) >= Interval}

MarkTicked(d, ks, ts) ==
    [d EXCEPT !.last_tick_at = [k \in DOMAIN @ |-> IF k \in ks THEN ts ELSE @[k]]]

\* emit_ticks, behind the gates of track_raw.
EmitTicks(d, ts) ==
    IF ~ScanDue(d, ts) THEN d
    ELSE MarkTicked([d EXCEPT !.last_tick_scan = ts], TickDue(d, ts), ts)

\* track_with, for the flow table: a new flow has not ticked.
Opened(d, k) ==
    [d EXCEPT !.last_tick_at = [j \in DOMAIN @ \cup {k} |-> IF j \in DOMAIN @ THEN @[j] ELSE None]]

Tracked(d, k, ts) == EmitTicks(Opened([Clocked(d, ts) EXCEPT !.max_ts = Latest(@, ts)], k), ts)

\* The history of a call that worked with time ts.
Worked(ts) ==
    [past EXCEPT !.at = ts, !.back = @ \/ ts < past.at,
                 !.slipped = @ \/ (self.monotonic_ts # None /\ ts < self.monotonic_ts)]

\* track_raw.  The deduplicator sees the packet's own time, the rest of the
\* driver the clamped one.
TrackRaw(f, t) ==
    /\ self.dedup.seen < MaxFrames
    /\ \E d \in {[self EXCEPT !.dedup = Keep(@, Entry(f, t))]} :
          \/ /\ d.dedup.dropped > self.dedup.dropped
             /\ self' = d
             /\ past' = [past EXCEPT !.dropped = @ \cup {f}, !.ticks = <<>>, !.packet = FALSE]
          \/ /\ d.dedup.dropped = self.dedup.dropped
             /\ \E ts \in {Clamped(d, t)} :
                  /\ self' = Tracked(d, FlowOf[f], ts)
                  /\ past' = [Worked(ts) EXCEPT
                        !.kept = @ \cup {f}, !.packet = TRUE,
                        !.opened = [k \in DOMAIN self'.last_tick_at |->
                                      IF k \in DOMAIN @ THEN @[k] ELSE ts],
                        !.ticks = [k \in {k \in DOMAIN self'.last_tick_at :
                                            self'.last_tick_at[k] # Opened(d, FlowOf[f]).last_tick_at[k]}
                                     |-> Opened(d, FlowOf[f]).last_tick_at[k]]]

\* sweep, force_close: some flows end at the clamped time; no ticks.
End(ks, t) ==
    LET ts == Clamped(self, t)
        left(f) == [k \in DOMAIN f \ ks |-> f[k]]
    IN /\ ks \subseteq DOMAIN self.last_tick_at
       /\ self' = [Clocked(self, ts) EXCEPT !.last_tick_at = left(@)]
       /\ past' = [Worked(ts) EXCEPT !.opened = left(@), !.ticks = <<>>, !.packet = FALSE]

\* set_monotonic_timestamps: switched on, the clock starts anew.
SetMonotonic(on) ==
    /\ self' = [self EXCEPT !.monotonic_ts = IF on THEN 0 ELSE None]
    /\ past' = [past EXCEPT !.ticks = <<>>, !.packet = FALSE]

\* pause_events, resume_events.
SetPaused(on) ==
    /\ self' = [self EXCEPT !.paused = on]
    /\ past' = [past EXCEPT !.ticks = <<>>, !.packet = FALSE]

Next ==
    \/ \E f \in Frames, t \in Times : TrackRaw(f, t)
    \/ \E ks \in SUBSET Flows, t \in Times : End(ks, t)
    \/ \E on \in BOOLEAN : SetMonotonic(on) \/ SetPaused(on)

-----------------------------------------------------------------------------
(***************************************************************************)
(* Deduplication loses no frame outright: whatever order the timestamps    *)
(* come in, and although a dropped copy renews the entry that drops the    *)
(* next one, a frame is dropped only after a copy of it went through.      *)
(***************************************************************************)
DropsOnlyCopies == past.dropped \subseteq past.kept

(***************************************************************************)
(* With the monotonic clock on, no packet and no sweep works with a time   *)
(* before the clock.  As long as the times worked with do not go back, a   *)
(* packet leaves no live flow more than one and a quarter intervals behind *)
(* its last tick (a quarter behind its start), and no tick comes sooner    *)
(* than an interval after the one before, pauses included.  (clamp_view,   *)
(* clamp_now, emit_ticks.)                                                 *)
(***************************************************************************)
TicksOnTime ==
    /\ ~past.slipped
    /\ \A k \in DOMAIN past.ticks : past.ticks[k] # None => past.at - past.ticks[k] >= Interval
    /\ (past.packet /\ ~past.back /\ ~self.paused) =>
          \A k \in DOMAIN self.last_tick_at :
              IF self.last_tick_at[k] = None
              THEN 4 * (past.at - past.opened[k]) < Interval
              ELSE 4 * (past.at - self.last_tick_at[k]) < 5 * Interval
=============================================================================
