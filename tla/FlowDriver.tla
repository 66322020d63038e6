------------------------------ MODULE FlowDriver ------------------------------
(***************************************************************************)
(* src/src/flow_driver.rs: the driver that owns a FlowTracker, keeps one   *)
(* reassembler per flow side, charges what they hold to a tracker-wide     *)
(* memcap pool, and releases them when flows end.                          *)
(*                                                                         *)
(* A driver call is a tracker call (an action of FlowTracker) together     *)
(* with what the driver does to its streams.  Of a reassembler - any       *)
(* implementation of the Reassembler trait - the driver sees the bytes it  *)
(* holds and whether it stopped, so a call to one chooses among the values *)
(* the trait's contract allows.                                            *)
(*                                                                         *)
(* The *_pending calls leave the streams of ended flows in place for       *)
(* `finalize`, which the driver requires before the next track or sweep    *)
(* (`pending` is empty then).                                              *)
(***************************************************************************)
EXTENDS FlowTracker

CONSTANTS
  Payloads,     \* captured payload lengths of segments
  Overhead,     \* bytes one held segment may be charged beyond its payload
  MaxBuf        \* bound on what one reassembler holds

ASSUME DriverAssumption == DriverOwned
ASSUME SegmentAssumption == Payloads \subseteq Nat /\ Overhead \in Nat /\ MaxBuf \in Nat

VARIABLES
  streams,    \* stream state per flow key
  pool,       \* global_memcap_bytes
  seen_gone,  \* ended and forgotten flows the driver knows of
  pending,    \* ended flows handed out and not finalized yet
  born        \* history: the number of the flow that last had each key

driver_vars == <<streams, pool, seen_gone, pending, born>>
all_vars == <<vars, driver_vars>>

Sizes == 0..MaxBuf

\* A StreamFlow is a SideSlot per side and, in the model, the number of its
\* flow.  Live has `held` and `accounted`, Done has `stop` and `told`.
Slot == [st : {"Empty", "Live", "Done"}, held : Sizes, accounted : Sizes,
         stop : {"Memcap", None}, told : BOOLEAN]

\* What of a segment the driver looks at: its captured length and its length
\* on the wire, longer when a snap length cut it.
Segment == {seg \in [payload : Payloads, wire : Payloads] : seg.wire >= seg.payload}

------------------------------------------------------------------------------
(* Slots and the pool                                                      *)

Empty == [st |-> "Empty", held |-> 0, accounted |-> 0, stop |-> None, told |-> FALSE]
Holding(held, accounted) ==
  [st |-> "Live", held |-> held, accounted |-> accounted, stop |-> None, told |-> FALSE]
Done(stop, told) ==
  [st |-> "Done", held |-> 0, accounted |-> 0, stop |-> stop, told |-> told]

NoSides == [s \in Sides |-> Empty]
Other(side) == CHOOSE s \in Sides : s # side
IsLive(slot) == slot.st = "Live"

\* a saturating_sub b.
Less(a, b) == IF a > b THEN a - b ELSE 0

\* One flow's slots and the pool, in the middle of a call.
At(sides, total) == [sides |-> sides, pool |-> total]

Resynced_NoRefund(r, side, held) ==
  At([r.sides EXCEPT ![side] = Holding(held, held)], r.pool + held)

\* resync: a side is charged what its reassembler holds now.
Resynced(r, side, held) ==
  At([r.sides EXCEPT ![side] = Holding(held, held)],
     Less(r.pool, r.sides[side].accounted) + held)

\* tombstone: drop a side's reassembler, refund it, keep its stop to report.
Tombstoned(r, side, stop) ==
  IF r.sides[side].st = "Done" THEN r
  ELSE At([r.sides EXCEPT ![side] = Done(stop, stop = None)],
          Less(r.pool, r.sides[side].accounted))

\* The bytes the sides of the flows `keys` are charged in `strs`, one by one.
Bytes(strs, keys) ==
  {b \in ((keys \cap DOMAIN strs) \X Sides) \X (1..MaxBuf) :
     b[2] <= strs[b[1][1]].sides[b[1][2]].accounted}

\* What the streams `strs` of the flows `keys` have charged to the pool.
Charges(strs, keys) == Cardinality(Bytes(strs, keys))

------------------------------------------------------------------------------
(* feed_tcp                                                                *)

\* Bytes of stream data; what an RST carries is none.
HasData(p, seg) == "RST" \notin p.tcp /\ seg.wire > 0

\* A reassembler call other than a segment never makes it hold more.
Eased(r, side) == {Resynced(r, side, n) : n \in 0..r.sides[side].held}

OverCap(total) == config.reassembly_memcap # None /\ total > config.reassembly_memcap

\* DropPacket refuses the segment before the reassembler sees it.
Refused(total, payload) ==
  config.reassembly_memcap_policy = "DropPacket" /\ OverCap(total + payload)

Capped_Unchecked(r, side) == r

\* The memcap's answer to a segment that was buffered.
Capped(r, side) ==
  CASE ~OverCap(r.pool) -> r
    [] config.reassembly_memcap_policy = "PassThrough" -> Tombstoned(r, side, "Memcap")
    [] config.reassembly_memcap_policy = "DropFlow" ->
         Tombstoned(Tombstoned(r, side, "Memcap"), Other(side), "Memcap")
    [] OTHER -> r

Fed_NotCharged(r, p, seg, side) ==
  IF r.sides[side].st = "Done" THEN {r}
  ELSE {At([r.sides EXCEPT ![side] = Holding(n, r.sides[side].accounted)], r.pool) :
          n \in {m \in Sizes : m <= r.sides[side].held + seg.payload + Overhead}}

\* A segment with data: its side's reassembler is created on demand,
\* re-synced, fed (and told of a FIN), re-synced again and capped.
Fed(r, p, seg, side) ==
  LET slot == r.sides[side]
      synced == Resynced(r, side, slot.held)
  IN CASE slot.st = "Done" -> {r}
       [] slot.st # "Done" /\ Refused(synced.pool, seg.payload) -> {synced}
       [] OTHER -> {Capped(Resynced(synced, side, n), side) :
                      n \in {m \in Sizes : m <= slot.held + seg.payload + Overhead}}

\* One packet against its flow's slots: the peer's ACK, then data or a FIN.
Received(r, p, seg, side) ==
  LET peer == Other(side)
      acked == IF "ACK" \in p.tcp /\ IsLive(r.sides[peer]) THEN Eased(r, peer) ELSE {r}
      rest(a) == CASE HasData(p, seg) -> Fed(a, p, seg, side)
                   [] ~HasData(p, seg) /\ "FIN" \in p.tcp /\ IsLive(a.sides[side])
                        -> Eased(a, side)
                   [] OTHER -> {a}
  IN UNION {rest(a) : a \in acked}

\* The number of the flow a packet belongs to.
Number(p) == IF IsNew(p) THEN stats.created + 1 ELSE born[p.key]

State(strs, total) == [streams |-> strs, pool |-> total]

Inherited_Kept(p) == State(streams, pool)

\* A new flow drops stream state an earlier flow with its key left behind.
Inherited(p) ==
  IF IsNew(p) THEN State(Without(streams, {p.key}), Less(pool, Charges(streams, {p.key})))
  ELSE State(streams, pool)

\* The streams and the pool after the packet callback of track_raw; `wants`
\* is the consumer's answer for a packet that would create stream state.
FedBy(p, seg, wants) ==
  LET from == Inherited(p)
      known == p.key \in DOMAIN from.streams
      sides == IF known THEN from.streams[p.key].sides ELSE NoSides
      number == IF known THEN from.streams[p.key].flow ELSE Number(p)
      put(s) == [k \in DOMAIN from.streams \cup {p.key} |->
                   IF k = p.key THEN [sides |-> s, flow |-> number] ELSE from.streams[k]]
  IN IF p.tcp = None \/ ~(known \/ (wants /\ ("SYN" \in p.tcp \/ HasData(p, seg))))
     THEN {from}
     ELSE {State(put(r.sides), r.pool) :
             r \in Received(At(sides, from.pool), p, seg, SideFor(Found(p), p.dir))}

------------------------------------------------------------------------------
(* Ends of flows                                                           *)

\* The flows whose Ended the tracker call of this step produced; a
\* driver-owned tracker builds every one.
EndedNow == {e.key : e \in {x \in out' : x.ev = "Ended"}}

\* `emits` for Ended: close_all finalizes a flow whose Ended is masked.
Masked == paused \/ "Ended" \in config.suppress_events

HandedOut == IF Masked THEN {} ELSE EndedNow

\* Streams whose reassemblers were told of time or of the end: what those of
\* the flows `keys` hold may have fallen.
Easings(strs, keys) ==
  {[k \in DOMAIN strs |->
      IF k \in keys
      THEN [strs[k] EXCEPT !.sides = [s \in Sides |-> [@[s] EXCEPT !.held = h[k][s]]]]
      ELSE strs[k]] :
     h \in {f \in [keys \cap DOMAIN strs -> [Sides -> Sizes]] :
              \A k \in keys \cap DOMAIN strs, s \in Sides : f[k][s] <= strs[k].sides[s].held}}

\* The streams of `keys` re-synced after a drain.
Synced(strs, keys) ==
  [k \in DOMAIN strs |->
     IF k \in keys
     THEN [strs[k] EXCEPT !.sides = [s \in Sides |-> [@[s] EXCEPT !.accounted = strs[k].sides[s].held]]]
     ELSE strs[k]]

\* finalize_flow and reconcile: the streams of `gone` go, their charge returns.
Release(from, gone, told) ==
  \E strs \in Easings(Without(from.streams, gone), told) :
    /\ streams' = strs
    /\ pool' = Less(from.pool, Charges(from.streams, gone))

\* Flows that ended or were forgotten.
Gone == stats.ended + forgotten

Stale_Never(strs, tbl) == {}

\* reconcile: when flows went without the driver's knowledge, streams of
\* flows the tracker does not have.
Stale(strs, tbl) == IF seen_gone = Gone THEN {} ELSE DOMAIN strs \ DOMAIN tbl

\* note_gone: the driver saw these flows end.
NoteGone == seen_gone' = seen_gone + Cardinality(EndedNow)

------------------------------------------------------------------------------
(* The calls                                                               *)

\* track_pending_with: no auto-sweep, the ended flows' streams stay.
TrackPending(p, seg, wants) ==
  /\ pending = {}
  /\ TrackThen(p, FALSE)
  /\ \E from \in FedBy(p, seg, wants) : Release(from, EndedNow \ HandedOut, HandedOut)
  /\ pending' = HandedOut
  /\ born' = [born EXCEPT ![p.key] = Number(p)]
  /\ NoteGone

\* track: finalizes, and sweeps when the packet clock says so.
TrackFinal(p, seg) ==
  LET sweeps == AutoSweepDue(p.ts)
  IN /\ pending = {}
     /\ TrackThen(p, sweeps)
     /\ \E from \in FedBy(p, seg, TRUE) :
          IF sweeps
          THEN Release(from, EndedNow \cup Stale(from.streams, flows'), DOMAIN flows')
          ELSE Release(from, EndedNow, {})
     /\ IF sweeps THEN seen_gone' = stats'.ended + forgotten ELSE NoteGone
     /\ pending' = {}
     /\ born' = [born EXCEPT ![p.key] = Number(p)]

\* A frame without a flow; the callback never runs.
TrackNothing ==
  /\ pending = {}
  /\ TrackUnmatched
  /\ UNCHANGED <<streams, pool, seen_gone, pending, born>>

\* advance_streams reconciles, then tells every live reassembler the time;
\* then the tracker sweeps and the ended flows are flushed.
SweepPending(now) ==
  LET stale == Stale(streams, flows)
  IN /\ pending = {}
     /\ Sweep(now)
     /\ Release(State(streams, pool), stale \cup (EndedNow \ HandedOut), Live)
     /\ seen_gone' = stats'.ended + forgotten
     /\ pending' = HandedOut
     /\ UNCHANGED born

\* sweep_pending_drain: each live reassembler of a tracked flow is drained
\* and re-synced before the tracker sweeps.
SweepDrain(now) ==
  LET stale == Stale(streams, flows)
      kept == Without(streams, stale)
  IN /\ pending = {}
     /\ Sweep(now)
     /\ \E strs \in Easings(kept, Live) :
          LET synced == Synced(strs, Live)
              total == Less(Less(pool, Charges(streams, stale)), Charges(kept, Live))
                       + Charges(synced, Live)
          IN Release(State(synced, total), EndedNow \ HandedOut, HandedOut)
     /\ seen_gone' = stats'.ended + forgotten
     /\ pending' = HandedOut
     /\ UNCHANGED born

SweepFinal(now) ==
  /\ pending = {}
  /\ Sweep(now)
  /\ Release(State(streams, pool), Stale(streams, flows) \cup EndedNow, Live)
  /\ seen_gone' = stats'.ended + forgotten
  /\ pending' = {}
  /\ UNCHANGED born

\* finish: every flow ends; streams are not reconciled.
FinishFinal ==
  /\ pending = {}
  /\ Finish
  /\ Release(State(streams, pool), EndedNow, {})
  /\ NoteGone
  /\ UNCHANGED <<pending, born>>

\* finalize, one ended flow at a time.
FinalizeFlow(k) ==
  /\ k \in pending
  /\ Release(State(streams, pool), {k}, {})
  /\ pending' = pending \ {k}
  /\ UNCHANGED <<vars, seen_gone, born>>

ForceClosePending(k) ==
  /\ ForceClose(k)
  /\ Release(State(streams, pool), EndedNow \ HandedOut, HandedOut)
  /\ pending' = pending \cup HandedOut
  /\ NoteGone
  /\ UNCHANGED born

ForceCloseFinal(k) ==
  /\ ForceClose(k)
  /\ Release(State(streams, pool), EndedNow, {})
  /\ NoteGone
  /\ UNCHANGED <<pending, born>>

\* drain_stream: output leaves a live side; a stop is told once.
DrainStream(k, side) ==
  /\ k \in DOMAIN streams
  /\ LET r == At(streams[k].sides, pool)
         slot == r.sides[side]
     IN \E next \in CASE IsLive(slot) -> Eased(r, side)
                      [] slot.st = "Done" ->
                           {At([r.sides EXCEPT ![side].told = TRUE], pool)}
                      [] OTHER -> {r} :
          /\ streams' = [streams EXCEPT ![k].sides = next.sides]
          /\ pool' = next.pool
  /\ UNCHANGED <<vars, seen_gone, pending, born>>

\* discard_side, for each side of `which` (discard_stream: both).  A stop the
\* reassembler had itself stays in the stats and is reported to nobody.
DiscardStream(k, which) ==
  /\ LET known == k \in DOMAIN streams
         sides == IF known THEN streams[k].sides ELSE NoSides
         left(s) == IF sides[s].st = "Done" THEN [sides[s] EXCEPT !.told = TRUE]
                    ELSE Done(None, TRUE)
         refund(s) == IF s \in which THEN sides[s].accounted ELSE 0
     IN /\ streams' = [j \in DOMAIN streams \cup {k} |->
                         IF j # k THEN streams[j]
                         ELSE [sides |-> [s \in Sides |-> IF s \in which THEN left(s) ELSE sides[s]],
                               flow |-> IF known THEN streams[k].flow
                                        ELSE IF k \in Live THEN born[k] ELSE 0]]
        /\ pool' = Less(pool, refund("Initiator") + refund("Responder"))
  /\ UNCHANGED <<vars, seen_gone, pending, born>>

\* A consumer takes bytes from a reassembler it borrowed: not re-synced.
TakeDirectly(k) ==
  /\ \E strs \in Easings(streams, {k}) : strs # streams /\ streams' = strs
  /\ UNCHANGED <<vars, pool, seen_gone, pending, born>>

\* Calls that change the tracker only: the driver's set_config and pause,
\* and the calls of a caller that has tracker_mut.
Behind == UNCHANGED driver_vars

DriverInit ==
  /\ Init
  /\ streams = [k \in {} |-> None]
  /\ pool = 0
  /\ seen_gone = 0
  /\ pending = {}
  /\ born = [k \in Keys |-> 0]

DriverNext ==
  \/ TrackNothing
  \/ \E p \in Sent, seg \in Segment :
       TrackFinal(p, seg) \/ \E wants \in BOOLEAN : TrackPending(p, seg, wants)
  \/ \E now \in Times : SweepPending(now) \/ SweepDrain(now) \/ SweepFinal(now)
  \/ FinishFinal
  \/ \E k \in Keys : FinalizeFlow(k) \/ ForceClosePending(k) \/ ForceCloseFinal(k)
  \/ \E k \in Keys, side \in Sides : DrainStream(k, side) \/ DiscardStream(k, {side})
  \/ \E k \in Keys : DiscardStream(k, Sides) \/ TakeDirectly(k)
  \/ (\E k \in Keys : Forget(k) \/ ForceClose(k)) /\ Behind
  \/ (\E now \in Times : Sweep(now)) /\ Behind
  \/ (\E c \in Configs : SetConfig(c)) /\ Behind
  \/ (\E b \in BOOLEAN : PauseEvents(b)) /\ Behind

DriverSpec == DriverInit /\ [][DriverNext]_all_vars

------------------------------------------------------------------------------
(* Properties                                                              *)

\* The memcap pool is exactly what the live sides were last charged: every
\* re-sync, refund, discard and release keeps the running total exact, so no
\* saturating_sub ever hides a lost or doubled charge.
PoolIsSum == pool = Charges(streams, DOMAIN streams)

\* What a reassembler holds is never more than its charge: between re-syncs
\* the pool may overstate the memory, never understate it.
NeverUndercharged ==
  \A k \in DOMAIN streams, s \in Sides :
    streams[k].sides[s].held <= streams[k].sides[s].accounted

\* A call never takes the pool past the memcap, except under Ignore; under
\* DropPacket a held segment may add its own overhead.
MemcapHolds ==
  [][LET cap == config.reassembly_memcap
         slack == IF config.reassembly_memcap_policy = "DropPacket" THEN Overhead ELSE 0
     IN cap # None /\ config.reassembly_memcap_policy # "Ignore"
          => pool' <= pool \/ pool' <= cap + slack]_all_vars

\* A flow never works on stream state of an earlier flow with the same key,
\* however the earlier one left: swept, evicted, forgotten behind the
\* driver's back, dropped by a resize.
NoInheritance == \A k \in Live \cap DOMAIN streams : streams[k].flow = born[k]

\* When every end was finalized, none went unseen and no resize dropped a
\* flow, no reassembler of a flow that is gone remains.
ReleasedWhenGone ==
  pending = {} /\ seen_gone = Gone /\ resized = 0 =>
    \A k \in DOMAIN streams \ Live, s \in Sides : ~IsLive(streams[k].sides[s])

\* "Every sweep now reconciles against the tracker and releases what belongs
\* to flows that are gone" (docs/migration-0.22-to-0.23.md:151): a sweep
\* leaves no reassembler of a flow the tracker does not have.
EverySweepReleases ==
  [][\A now \in Times : SweepFinal(now) =>
       \A k \in DOMAIN streams' \ DOMAIN flows', s \in Sides :
         ~IsLive(streams'[k].sides[s])]_all_vars

==============================================================================
