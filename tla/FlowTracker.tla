----------------------------- MODULE FlowTracker -----------------------------
(***************************************************************************)
(* The bidirectional flow table of src/src/tracker.rs with the TCP state   *)
(* machine of src/src/tcp_state.rs: LRU capacity, the hot-key fast path,   *)
(* idle sweeps (explicit and packet-clock driven), forced ends, the silent *)
(* removals (`forget`, a shrinking `set_config`) and the event gates.      *)
(*                                                                         *)
(* One action is one public call.  A packet is what the extractor makes of *)
(* a frame: a flow key, a direction, the TCP flags it carries (or none)    *)
(* and a timestamp; timestamps may go backwards.  `out` is the set of      *)
(* events the call returns.  Byte counts, inter-arrival statistics, the    *)
(* history string and capture legs do not influence the lifecycle and are  *)
(* left out.                                                               *)
(***************************************************************************)
EXTENDS Integers, FiniteSets

CONSTANTS
  Keys,           \* flow keys the extractor can produce
  L4,             \* L4[k]: transport of the flow, one of L4Protos
  FlagSets,       \* the TCP flag combinations packets carry
  MaxTime,        \* bound: packet and sweep times are 0..MaxTime
  TsMax,          \* Timestamp::MAX, used by finish()
  Configs,        \* configurations set_config may install
  IdleFns,        \* per-key idle-timeout overrides that may be installed
  DriverOwned,    \* TRUE when a FlowDriver owns the tracker
  None,           \* Option::None (a key, a time or a duration is missing)
  MaxCreated,     \* bound on stats.flows_created
  MaxUnmatched    \* bound on stats.packets_unmatched

L4Protos == {"tcp", "udp", "other"}
TcpFlags == {"SYN", "ACK", "FIN", "RST"}
Orientations == {"Forward", "Reverse"}
Sides == {"Initiator", "Responder"}
FlowStates == {"Active", "SynSent", "SynReceived", "Established", "FinWait",
               "ClosingTcp", "Closed", "Reset", "Aborted"}
Terminal == {"Closed", "Reset", "Aborted"}
EndReasons == {"Fin", "Rst", "IdleTimeout", "Evicted", "ForceClosed"}
EventKinds == {"Started", "Established", "StateChange", "Packet", "Ended"}
MemcapPolicies == {"Ignore", "DropFlow", "DropPacket", "PassThrough"}
Times == 0..MaxTime

Config == [max_flows : Nat,
           idle_timeout : [L4Protos -> Nat],
           auto_sweep_interval : Nat \cup {None},
           suppress_events : SUBSET EventKinds,
           infer_tcp_initiator : BOOLEAN,
           reassembly_memcap : Nat \cup {None},
           reassembly_memcap_policy : MemcapPolicies]

Entry == [st : FlowStates, init : Orientations, fin : SUBSET Sides,
          last_seen : Times]

Packet == [key : Keys, dir : Orientations, tcp : FlagSets \cup {None},
           ts : Times]

Event == [ev : EventKinds, key : Keys, reason : EndReasons \cup {None}]

ASSUME KeysAssumption == None \notin Keys /\ None \notin Nat
ASSUME L4Assumption == L4 \in [Keys -> L4Protos]
ASSUME FlagsAssumption == FlagSets \subseteq SUBSET TcpFlags /\ None \notin FlagSets
ASSUME TimeAssumption == MaxTime \in Nat /\ TsMax \in Nat /\ TsMax > MaxTime
ASSUME ConfigAssumption == Configs \subseteq Config /\ Configs # {}
ASSUME IdleFnAssumption == IdleFns \subseteq [Keys -> Nat \cup {None}]
ASSUME OwnerAssumption == DriverOwned \in BOOLEAN
ASSUME BoundAssumption == MaxCreated \in Nat /\ MaxUnmatched \in Nat

VARIABLES
  flows,      \* the table: a function from the live keys to their entries
  older,      \* the LRU list as an order: <<a, b>> when a was used before b
  hot,        \* the key of the last surviving packet, or None
  config,     \* FlowTrackerConfig
  idle_fn,    \* the idle-timeout override ([k |-> None] when none is set)
  last_sweep, \* last_sweep_ts
  paused,     \* events_paused
  stats,      \* FlowTrackerStats
  forgotten,  \* flows removed by forget
  out,        \* the events the last call returned
  resized,    \* history: flows a set_config resize dropped
  reported    \* history: Ended events returned to the caller so far

vars == <<flows, older, hot, config, idle_fn, last_sweep, paused, stats,
          forgotten, out, resized, reported>>

Live == DOMAIN flows

------------------------------------------------------------------------------
(* Helpers on the table and its order.                                     *)

\* The table and the order without the flows of `gone`.
Without(tbl, gone) == [k \in DOMAIN tbl \ gone |-> tbl[k]]
Unranked(order, gone) == {r \in order : r[1] \notin gone /\ r[2] \notin gone}

Used(order, k, live) == Unranked(order, {k}) \cup ((live \ {k}) \X {k})

\* `now` saturating_sub `then`.
Elapsed(now, then) == IF now > then THEN now - then ELSE 0

Cooled_Stale(gone) == hot

\* The hot key, cleared when its flow is among `gone`.
Cooled(gone) == IF hot \in gone THEN None ELSE hot

Capacity(c) == IF c.max_flows = 0 THEN 1 ELSE c.max_flows

------------------------------------------------------------------------------
(* tcp_state.rs                                                            *)

Transition_AnyFin(st, flags, side, other_fin) ==
  IF "RST" \in flags THEN "Reset"
  ELSE CASE st = "Active" /\ side = "Initiator" /\ "SYN" \in flags -> "SynSent"
         [] st = "SynSent" /\ side = "Responder" /\ {"SYN", "ACK"} \subseteq flags
              -> "SynReceived"
         [] st = "SynReceived" /\ side = "Initiator" /\ "ACK" \in flags -> "Established"
         [] st = "Established" /\ "FIN" \in flags -> "FinWait"
         [] st = "FinWait" /\ "FIN" \in flags -> "ClosingTcp"
         [] st = "ClosingTcp" /\ "ACK" \in flags -> "Closed"
         [] OTHER -> st

\* transition: the state after a segment with `flags` from `side`.
Transition(st, flags, side, other_fin) ==
  IF "RST" \in flags THEN "Reset"
  ELSE CASE st = "Active" /\ side = "Initiator" /\ "SYN" \in flags -> "SynSent"
         [] st = "SynSent" /\ side = "Responder" /\ {"SYN", "ACK"} \subseteq flags
              -> "SynReceived"
         [] st = "SynReceived" /\ side = "Initiator" /\ "ACK" \in flags -> "Established"
         [] st = "Established" /\ "FIN" \in flags -> "FinWait"
         [] st = "FinWait" /\ "FIN" \in flags /\ other_fin -> "ClosingTcp"
         [] st = "ClosingTcp" /\ "ACK" \in flags -> "Closed"
         [] OTHER -> st

------------------------------------------------------------------------------
(* track_with, in the order of its sections                                *)

Emits_MaskOnly(kind) == ~paused /\ kind \notin config.suppress_events

\* emits: a driver-owned tracker always builds Ended.
Emits(kind) ==
  \/ DriverOwned /\ kind = "Ended"
  \/ ~paused /\ kind \notin config.suppress_events

\* The events of `evs` that pass the gate.
Gated(evs) == {e \in evs : Emits(e.ev)}

Ended(keys, reason) == {[ev |-> "Ended", key |-> k, reason |-> reason] : k \in keys}
Notice(kind, k) == [ev |-> kind, key |-> k, reason |-> None]

\* is_new: the hot key is taken to be in the table without a lookup.
IsNew(p) == hot # p.key /\ p.key \notin Live

\* LruCache::push into a full table evicts the least recently used flow.
Evictions(p) ==
  IF IsNew(p) /\ Cardinality(Live) >= Capacity(config)
  THEN {{v} : v \in {k \in Live : \A j \in Live : <<j, k>> \notin older}}
  ELSE {{}}

\* The entry of a new flow; a SYN+ACK first packet comes from the responder.
NewEntry(p) ==
  LET flipped == /\ config.infer_tcp_initiator
                 /\ p.tcp # None
                 /\ {"SYN", "ACK"} \subseteq p.tcp
  IN [st |-> "Active",
      init |-> IF flipped THEN CHOOSE o \in Orientations : o # p.dir ELSE p.dir,
      fin |-> {},
      last_seen |-> p.ts]

Found(p) == IF IsNew(p) THEN NewEntry(p) ELSE flows[p.key]

SideFor(e, dir) == IF dir = e.init THEN "Initiator" ELSE "Responder"

\* Counters and TCP state after the packet.
Touched(p) ==
  LET e == Found(p)
      side == SideFor(e, p.dir)
      other_fin == (Sides \ {side}) \subseteq e.fin
  IN IF p.tcp = None
     THEN [e EXCEPT !.last_seen = p.ts]
     ELSE [e EXCEPT !.last_seen = p.ts,
                    !.fin = IF "FIN" \in p.tcp THEN @ \cup {side} ELSE @,
                    !.st = Transition(@, p.tcp, side, other_fin)]

\* Events of the packet itself, its own end excluded.
PacketEvents(p) ==
  LET from == Found(p).st
      to == Touched(p).st
      change == IF to = "Established" THEN "Established" ELSE "StateChange"
  IN (IF IsNew(p) THEN {Notice("Started", p.key)} ELSE {})
     \cup (IF from # to THEN {Notice(change, p.key)} ELSE {})
     \cup {Notice("Packet", p.key)}

\* Terminal-state cleanup: the flow leaves the table with its last packet.
Dies(p) == IF Touched(p).st \in Terminal THEN {p.key} ELSE {}
OwnEnd(p) == Ended(Dies(p), IF Touched(p).st = "Reset" THEN "Rst" ELSE "Fin")

\* The table after the packet, before any auto-sweep.
Table(p, evicted) ==
  [k \in ((Live \ evicted) \cup {p.key}) \ Dies(p) |->
     IF k = p.key THEN Touched(p) ELSE flows[k]]

------------------------------------------------------------------------------
(* sweep                                                                   *)

IdleTimeout(k) ==
  IF idle_fn[k] # None THEN idle_fn[k] ELSE config.idle_timeout[L4[k]]

Expired(tbl, now) ==
  {k \in DOMAIN tbl : Elapsed(now, tbl[k].last_seen) >= IdleTimeout(k)}

\* Expired flows that are reported and counted; a terminal one is only popped.
Swept(tbl, now) == {k \in Expired(tbl, now) : tbl[k].st \notin Terminal}

AutoSweepDue(ts) ==
  /\ config.auto_sweep_interval # None
  /\ \/ last_sweep = None
     \/ /\ last_sweep # None
        /\ Elapsed(ts, last_sweep) >= config.auto_sweep_interval

------------------------------------------------------------------------------
(* The calls                                                               *)

Report(evs) ==
  /\ out' = evs
  /\ reported' = reported + Cardinality({e \in evs : e.ev = "Ended"})

\* A frame the extractor cannot place, or one with a lying IP length.
TrackUnmatched ==
  /\ stats.unmatched < MaxUnmatched
  /\ stats' = [stats EXCEPT !.unmatched = @ + 1]
  /\ Report({})
  /\ UNCHANGED <<flows, older, hot, config, idle_fn, last_sweep, paused,
                 forgotten, resized>>

\* track_with, followed by a sweep at the packet's time when `sweeps`.
TrackThen(p, sweeps) ==
  \E evicted \in Evictions(p) :
    LET tbl == Table(p, evicted)
        expired == IF sweeps THEN Expired(tbl, p.ts) ELSE {}
        swept == IF sweeps THEN Swept(tbl, p.ts) ELSE {}
        warm == IF Dies(p) = {}
                THEN p.key
                ELSE Cooled(evicted \cup {p.key})
        order == Used(Unranked(older, evicted), p.key, Live \ evicted)
    IN /\ IsNew(p) => stats.created < MaxCreated
       /\ flows' = Without(tbl, expired)
       /\ older' = Unranked(order, Dies(p) \cup expired)
       /\ hot' = IF warm \in swept THEN None ELSE warm
       /\ last_sweep' = IF sweeps THEN p.ts ELSE last_sweep
       /\ stats' = [stats EXCEPT
                      !.created = @ + (IF IsNew(p) THEN 1 ELSE 0),
                      !.evicted = @ + Cardinality(evicted),
                      !.ended = @ + Cardinality(evicted) + Cardinality(Dies(p))
                                  + Cardinality(swept)]
       /\ Report(Gated(Ended(evicted, "Evicted") \cup PacketEvents(p) \cup OwnEnd(p)
                       \cup Ended(swept, "IdleTimeout")))
       /\ UNCHANGED <<config, idle_fn, paused, forgotten, resized>>

\* An owning driver runs the auto-sweep itself, after its own bookkeeping.
Track(p) == TrackThen(p, ~DriverOwned /\ AutoSweepDue(p.ts))

Sweep(now) ==
  LET expired == Expired(flows, now)
      swept == Swept(flows, now)
  IN /\ last_sweep' = now
     /\ flows' = Without(flows, expired)
     /\ older' = Unranked(older, expired)
     /\ hot' = Cooled(swept)
     /\ stats' = [stats EXCEPT !.ended = @ + Cardinality(swept)]
     /\ Report(Gated(Ended(swept, "IdleTimeout")))
     /\ UNCHANGED <<config, idle_fn, paused, forgotten, resized>>

Finish == Sweep(TsMax)

\* force_close returns its Ended whatever the gates say.
ForceClose(k) ==
  LET gone == {k} \cap Live
  IN /\ flows' = Without(flows, gone)
     /\ older' = Unranked(older, gone)
     /\ hot' = Cooled(gone)
     /\ stats' = [stats EXCEPT !.ended = @ + Cardinality(gone)]
     /\ Report(Ended(gone, "ForceClosed"))
     /\ UNCHANGED <<config, idle_fn, last_sweep, paused, forgotten, resized>>

Forget_Counts(k) ==
  LET gone == {k} \cap Live
  IN /\ flows' = Without(flows, gone)
     /\ older' = Unranked(older, gone)
     /\ hot' = Cooled(gone)
     /\ forgotten' = forgotten + Cardinality(gone)
     /\ stats' = [stats EXCEPT !.ended = @ + Cardinality(gone)]
     /\ Report({})
     /\ UNCHANGED <<config, idle_fn, last_sweep, paused, resized>>

Forget(k) ==
  LET gone == {k} \cap Live
  IN /\ flows' = Without(flows, gone)
     /\ older' = Unranked(older, gone)
     /\ hot' = Cooled(gone)
     /\ forgotten' = forgotten + Cardinality(gone)
     /\ Report({})
     /\ UNCHANGED <<config, idle_fn, last_sweep, paused, stats, resized>>

\* LruCache::resize pops least recently used flows until the rest fits:
\* `kept` is the most recently used part of the table.
Shrunk(c) ==
  {kept \in SUBSET Live :
     /\ \A a \in Live \ kept, b \in kept : <<a, b>> \in older
     /\ IF Cardinality(Live) <= Capacity(c) THEN kept = Live
        ELSE Cardinality(kept) = Capacity(c)}

SetConfig(c) ==
  \E kept \in Shrunk(c) :
    /\ flows' = Without(flows, Live \ kept)
    /\ older' = Unranked(older, Live \ kept)
    /\ hot' = None
    /\ config' = c
    /\ resized' = resized + Cardinality(Live \ kept)
    /\ Report({})
    /\ UNCHANGED <<idle_fn, last_sweep, paused, stats, forgotten>>

SetIdleTimeoutFn(f) ==
  /\ idle_fn' = f
  /\ Report({})
  /\ UNCHANGED <<flows, older, hot, config, last_sweep, paused, stats, forgotten, resized>>

ClearIdleTimeoutFn == SetIdleTimeoutFn([k \in Keys |-> None])

PauseEvents(b) ==
  /\ paused' = b
  /\ Report({})
  /\ UNCHANGED <<flows, older, hot, config, idle_fn, last_sweep, stats, forgotten, resized>>

------------------------------------------------------------------------------

Init ==
  /\ flows = [k \in {} |-> None]
  /\ older = {}
  /\ hot = None
  /\ config \in Configs
  /\ idle_fn = [k \in Keys |-> None]
  /\ last_sweep = None
  /\ paused = FALSE
  /\ stats = [created |-> 0, ended |-> 0, evicted |-> 0, unmatched |-> 0]
  /\ forgotten = 0
  /\ out = {}
  /\ resized = 0
  /\ reported = 0

\* A packet of a non-TCP flow has no TCP header.
Sent == {p \in Packet : L4[p.key] # "tcp" => p.tcp = None}

Next ==
  \/ TrackUnmatched
  \/ \E p \in Sent : Track(p)
  \/ \E now \in Times : Sweep(now)
  \/ Finish
  \/ \E k \in Keys : ForceClose(k)
  \/ \E k \in Keys : Forget(k)
  \/ \E c \in Configs : SetConfig(c)
  \/ \E f \in IdleFns : SetIdleTimeoutFn(f)
  \/ ClearIdleTimeoutFn
  \/ \E b \in BOOLEAN : PauseEvents(b)

Spec == Init /\ [][Next]_vars

------------------------------------------------------------------------------
(* Properties                                                              *)

\* Every variable stays in its type: the table is a function from keys to
\* entries with a packet time, the order relates live flows only.
TypeOK ==
  /\ \E S \in SUBSET Keys : flows \in [S -> Entry]
  /\ older \subseteq Live \X Live
  /\ hot \in Keys \cup {None}
  /\ config \in Configs
  /\ idle_fn \in [Keys -> Nat \cup {None}]
  /\ last_sweep \in Times \cup {None, TsMax}
  /\ paused \in BOOLEAN
  /\ stats \in [created : Nat, ended : Nat, evicted : Nat, unmatched : Nat]
  /\ forgotten \in Nat
  /\ out \subseteq Event
  /\ resized \in Nat
  /\ reported \in Nat

\* The hot key names a live flow, so the `expect` on the looked-up entry in
\* track_with cannot panic whatever ended, evicted or dropped flows before.
HotIsLive == hot = None \/ hot \in Live

\* No flow stays in the table in a terminal state: the `continue` of sweep,
\* which would drop a flow uncounted and unreported, is never taken.
NoTerminalFlow == \A k \in Live : flows[k].st \notin Terminal

\* The table never outgrows max_flows (at least one), across resizes too.
WithinCapacity == Cardinality(Live) <= Capacity(config)

\* Every flow ever created is live, counted as ended, forgotten, or was
\* dropped by a resize: no call loses a flow from the counters, none counts
\* one twice.
FlowsConserved ==
  stats.created = Cardinality(Live) + stats.ended + forgotten + resized

\* A FIN moves a flow to ClosingTcp only when both sides sent one: a
\* retransmitted FIN never closes a half-open flow.
ClosingNeedsBothFins ==
  \A k \in Live : flows[k].st = "ClosingTcp" => flows[k].fin = Sides

\* The LRU order ranks exactly the live flows, strictly and totally, so an
\* eviction always has one victim.
OrderRanksLive ==
  /\ \A a \in Live : <<a, a>> \notin older
  /\ \A a, b \in Live : a # b => (<<a, b>> \in older <=> <<b, a>> \notin older)
  /\ \A a, b, c \in Live : <<a, b>> \in older /\ <<b, c>> \in older => <<a, c>> \in older

\* The hot key, the LRU order and the size of the table agree with the flows
\* that are live, whatever evicts, sweeps, forgets or drops them.
TableConsistent == HotIsLive /\ OrderRanksLive /\ WithinCapacity

\* A driver that owns the tracker is handed exactly one Ended per ended flow,
\* even while events are masked or paused.
OwnerSeesEveryEnd == DriverOwned => reported = stats.ended

Rank == [s \in FlowStates |->
  CASE s = "Active" -> 0 [] s = "SynSent" -> 1 [] s = "SynReceived" -> 2
    [] s = "Established" -> 3 [] s = "FinWait" -> 4 [] s = "ClosingTcp" -> 5
    [] OTHER -> 6]

\* While a flow stays in the table its TCP state only moves forward (so
\* Established is reported at most once per flow), its initiator is fixed, and
\* it comes to ClosingTcp only when both sides have sent a FIN: a FIN that one
\* side sends again, or one from before the handshake, closes no half-open flow
\* (tcp_state::transition).
FlowOnlyAdvances ==
  [][\A k \in Live \cap DOMAIN flows' :
       /\ Rank[flows'[k].st] >= Rank[flows[k].st]
       /\ flows[k].fin \subseteq flows'[k].fin
       /\ flows'[k].init = flows[k].init
       /\ flows'[k].st = "ClosingTcp" => flows'[k].fin = Sides]_vars

==============================================================================
