------------------------------- MODULE Engine -------------------------------
(***************************************************************************)
(* The session engine and the drivers on top of it: the typed driver       *)
(* (src/src/session/engine.rs, src/src/driver/typed.rs, typed_slot.rs)     *)
(* feeds a list of parser slots; lifecycle events go to a buffer of the    *)
(* caller, messages to the slots' queues with marks that say where in the  *)
(* lifecycle stream they belong.  SessionDriver and DatagramDriver         *)
(* (src/src/session/driver.rs) have one parser, whose messages go to the   *)
(* caller's buffer among the session forms of the lifecycle events.        *)
(*                                                                         *)
(* The flow driver is taken by what FlowDriver shows of it: the events of  *)
(* a call, and streams whose pieces are let through, held behind a hole or *)
(* released.  A parser core is taken by what SessionCore shows of it: it   *)
(* picks up a flow, may speak or close whenever it runs, and stays closed. *)
(* The two sides of a flow are not told apart.                             *)
(***************************************************************************)
EXTENDS Integers, Sequences, FiniteSets, SequencesExt

CONSTANTS
  Keys,        \* flow keys
  L4,          \* L4[k] is "Tcp" or "Udp"
  Slots,       \* the slots in order, each "Session" or "Datagram"
  Capacities,  \* values of FlowTrackerConfig::max_flows
  Behaviours,  \* what the slots' parsers do in a call: a set of functions
  Starts,      \* events the caller's buffer may hold when a call begins
  Masks,       \* values of FlowTrackerConfig::suppress_events
  MaxProbe,    \* max_probe_packets of the datagram slots
  MaxCreated,  \* bound on the flows ever created
  MaxData,     \* bound on the pieces of data of a flow
  MaxEvents,   \* bound on the lifecycle events before a call
  MaxMessages, \* bound on the messages before a call
  None

ASSUME BoundsAssumption ==
  Capacities \cup {MaxProbe, MaxCreated, MaxData, MaxEvents, MaxMessages} \subseteq Nat

VARIABLES
  driver,        \* which driver it is: "typed", "session" or "datagram"
  max_flows,     \* the capacity of the flow table
  live,          \* the tracker's flows: key -> number of the flow
  stream,        \* stream state: key -> [data, held, done]
  core,          \* per slot: key -> [st, flow, fed, packets]
  paused,        \* events_paused
  mask,          \* suppress_events
  lifecycle_seq, \* Driver::lifecycle_seq
  seq,           \* Order::seq
  call,          \* what the last call put out, in order
  emitted,       \* history: lifecycle events put out by all calls
  created,       \* history: flows created
  ended          \* history: flows ended

vars == <<driver, max_flows, live, stream, core, paused, mask, lifecycle_seq, seq, call, emitted, created, ended>>

SlotIds == DOMAIN Slots

\* What a slot's parser may do whenever it runs in a call; a datagram slot
\* that still probes may also find no signature, or the wrong one.
Reactions(s) == {"Silent", "Speaks", "Finishes", "Fails"}
                  \cup (IF Slots[s] = "Datagram" THEN {"Undecided", "Mismatch"} ELSE {})

ASSUME BehavioursAssumption ==
  \A f \in Behaviours : DOMAIN f = SlotIds /\ \A s \in SlotIds : f[s] \in Reactions(s)

\* For TLC: one TCP flow, the others UDP, for two session slots and a datagram
\* slot, every reaction of each, the session slots alone and together.
OneTcp == LET t == CHOOSE k \in Keys : TRUE IN [k \in Keys |-> IF k = t THEN "Tcp" ELSE "Udp"]
ThreeSlots == <<"Session", "Session", "Datagram">>
EachReaction == {<<"Silent", "Speaks", "Speaks">>, <<"Speaks", "Silent", "Undecided">>,
                 <<"Finishes", "Speaks", "Mismatch">>, <<"Speaks", "Fails", "Finishes">>,
                 <<"Fails", "Finishes", "Fails">>, <<"Silent", "Silent", "Silent">>}
TwoMasks == {{}, {"ENDED", "PACKET"}}

With(f, k, v) == [j \in DOMAIN f \cup {k} |-> IF j = k THEN v ELSE f[j]]
Without(f, k) == [j \in DOMAIN f \ {k} |-> f[j]]

------------------------------------------------------------------------------
(* Output of a call: the record c is threaded through it                   *)

\* begin: `start` events are in the caller's buffer already.
Begin(start, does) ==
  [base |-> lifecycle_seq, start |-> start, len |-> start, seq |-> seq, put |-> <<>>,
   live |-> live, stream |-> stream, core |-> core, does |-> does,
   paused |-> paused, mask |-> mask]

\* from_flow_event: a Packet has no session form.
HasSessionForm(ev) == ev # "Packet"

\* parser_closed of the session drivers: a close at the end of the flow is left
\* to its Closed.
TellsClose(ev) == ev # "FlowEndClose"

Visible(ev, shown) == shown /\ (driver = "typed" \/ (HasSessionForm(ev) /\ TellsClose(ev)))

\* Push a lifecycle event, or only note it when the consumer is not shown it.
\* `n` is the data a closed parser has read, or a flow has had.
Push(c, ev, flow, slot, shown, n) ==
  [c EXCEPT !.len = IF Visible(ev, shown) THEN @ + 1 ELSE @,
            !.put = Append(@, [ev |-> ev, flow |-> flow, slot |-> slot, shown |-> Visible(ev, shown), n |-> n])]

Message_NoStart(c, s, flow) ==
  [c EXCEPT !.seq = @ + 1,
            !.put = Append(@, [ev |-> "Message", flow |-> flow, slot |-> s, shown |-> TRUE,
                               pos |-> c.base + c.len, seq |-> c.seq])]

\* SlotOut::message.
Message(c, s, flow) ==
  [c EXCEPT !.seq = @ + 1,
            !.put = Append(@, [ev |-> "Message", flow |-> flow, slot |-> s, shown |-> TRUE,
                               pos |-> c.base + (c.len - c.start), seq |-> c.seq])]

\* message of the session drivers: into the same buffer.
Application(c, s, flow) == Push(c, "Message", flow, s, TRUE, 0)

Says(c, s, flow) == IF driver = "typed" THEN Message(c, s, flow) ELSE Application(c, s, flow)

\* emits and emit_gate.
Emits(c, bit) == ~c.paused /\ bit \notin c.mask
Anomaly(c, flow, slot) ==
  IF Emits(c, "FLOW_ANOMALY") THEN Push(c, "FlowAnomaly", flow, slot, TRUE, 0) ELSE c

------------------------------------------------------------------------------
(* Slots                                                                   *)

\* SessionSlot and DatagramSlot: one passes streams on to its core and ignores
\* datagrams, the other the reverse; both pass on ticks, flow ends and retain.
TakesStreams(s) == Slots[s] = "Session"
TakesDatagrams(s) == Slots[s] = "Datagram"

Fresh(s, flow) == [st |-> IF TakesDatagrams(s) THEN "Probing" ELSE "Active",
                   flow |-> flow, fed |-> 0, packets |-> 0]
Entry(c, s, k) == IF k \in DOMAIN c.core[s] THEN c.core[s][k] ELSE None
Set(c, s, k, e) == [c EXCEPT !.core[s] = With(@, k, e)]

\* check_close and emit_close, after a parser ran.
Closing(c, s, k) ==
  LET e == c.core[s][k]
      closed == Set(c, s, k, [e EXCEPT !.st = "Closed"])
  IN CASE c.does[s] = "Finishes" -> Push(closed, "ParserClosed", e.flow, s, ~c.paused, 0)
       [] c.does[s] = "Fails" -> Push(Anomaly(closed, e.flow, s), "ParserClosed", e.flow, s, ~c.paused, 0)
       [] OTHER -> c

\* An active parser runs: what it says goes to its queue, then it may close.
Runs(c, s, k) ==
  LET flow == c.core[s][k].flow
      said == IF c.does[s] \in {"Speaks", "Finishes", "Fails"} THEN Says(c, s, flow) ELSE c
  IN Closing(said, s, k)

\* SessionSlot::on_stream: n pieces of a flow.
OnStream(c, s, k, flow, n) ==
  LET e == IF Entry(c, s, k) = None THEN Fresh(s, flow) ELSE Entry(c, s, k)
      fed == Set(c, s, k, [e EXCEPT !.fed = @ + n])
  IN CASE ~TakesStreams(s) \/ n = 0 -> c
       [] TakesStreams(s) /\ n > 0 /\ e.st = "Closed" -> c
       [] OTHER -> Runs(fed, s, k)

\* DatagramSlot::on_datagram: probe, then parse.
OnDatagram(c, s, k, flow) ==
  LET e == IF Entry(c, s, k) = None THEN Fresh(s, flow) ELSE Entry(c, s, k)
      probed == [e EXCEPT !.packets = @ + 1,
                          !.st = IF c.does[s] = "Mismatch" \/ e.packets + 1 >= MaxProbe
                                 THEN "Closed" ELSE "Probing"]
  IN CASE ~TakesDatagrams(s) -> c
       [] TakesDatagrams(s) /\ e.st = "Closed" -> c
       [] TakesDatagrams(s) /\ e.st = "Probing" /\ c.does[s] \in {"Undecided", "Mismatch"} ->
            Set(c, s, k, probed)
       [] OTHER -> Runs(Set(c, s, k, [e EXCEPT !.st = "Active", !.packets = 0]), s, k)

OnFlowEnd_NoFinals(c, s, k, flow, finals, shown) ==
  LET e == Entry(c, s, k)
      gone == [c EXCEPT !.core[s] = Without(@, k)]
  IN IF e = None THEN c
     ELSE IF e.st # "Active" THEN gone
     ELSE Push(gone, "FlowEndClose", e.flow, s, shown, e.fed)

\* on_flow_end: the final pieces, the parser's last words, its close.
OnFlowEnd(c, s, k, flow, finals, shown) ==
  LET fed == OnStream(c, s, k, flow, finals)
      e == Entry(fed, s, k)
      gone == [fed EXCEPT !.core[s] = Without(@, k)]
      words(d) == IF d.does[s] = "Speaks" /\ TakesStreams(s) THEN Says(d, s, e.flow) ELSE d
  IN IF e = None THEN fed
     ELSE IF e.st # "Active" THEN gone
     ELSE Push(words(gone), "FlowEndClose", e.flow, s, shown, e.fed)

\* on_tick of one flow's parser.
OnTick(c, s, k) ==
  IF Entry(c, s, k) = None THEN c
  ELSE IF c.core[s][k].st # "Active" THEN c ELSE Runs(c, s, k)

\* Slots: every call to the slots goes through them in order of registration.
AllSlots == [s \in SlotIds |-> s]

\* Dispatch for SessionCore and for DatagramCore: the one parser of the driver.
SessionOnly == SelectSeq(AllSlots, LAMBDA s : Slots[s] = "Session" /\ \A t \in 1..s - 1 : Slots[t] # "Session")
DatagramOnly == SelectSeq(AllSlots, LAMBDA s : Slots[s] = "Datagram" /\ \A t \in 1..s - 1 : Slots[t] # "Datagram")

InTurn == CASE driver = "typed" -> AllSlots
            [] driver = "session" -> SessionOnly
            [] driver = "datagram" -> DatagramOnly

\* wants_stream of the slots.
WantsStream == \E s \in Range(InTurn) : TakesStreams(s)

\* streams_done of every slot: no session parser can use the flow again.
StreamsDone(c, k) ==
  \A s \in Range(InTurn) : TakesStreams(s) => Entry(c, s, k) # None /\ c.core[s][k].st = "Closed"

------------------------------------------------------------------------------
(* The engine                                                              *)

Undelivered(c, k) == IF k \in DOMAIN c.stream THEN c.stream[k].held ELSE 0

Data(c, k) == IF k \in DOMAIN c.stream THEN c.stream[k].data ELSE 0

\* drain_stream: everything that waits is taken.
Drained(c, k) == IF k \in DOMAIN c.stream THEN [c EXCEPT !.stream[k].held = 0] ELSE c

Forward_EndedFirst(c, k, flow) ==
  LET shown == Emits(c, "ENDED")
      end(d, s) == OnFlowEnd(d, s, k, flow, Undelivered(c, k), shown)
      closed == FoldLeft(end, Push(c, "Ended", flow, None, shown, Data(c, k)), InTurn)
  IN [closed EXCEPT !.stream = Without(@, k)]

\* forward of an Ended: the flow is flushed, its last pieces handed out, its parsers
\* closed and its streams released before its Ended.
Forward(c, k, flow) ==
  LET shown == Emits(c, "ENDED")
      flushed == IF Undelivered(c, k) > 0 THEN Anomaly(c, flow, None) ELSE c
      end(d, s) == OnFlowEnd(d, s, k, flow, Undelivered(c, k), shown)
      closed == FoldLeft(end, Drained(flushed, k), InTurn)
  IN [Push(closed, "Ended", flow, None, shown, Data(c, k)) EXCEPT !.stream = Without(@, k)]

ForwardEach(c, ks) ==
  FoldLeft(LAMBDA d, k : Forward([d EXCEPT !.live = Without(@, k)], k, c.live[k]), c, ks)

\* dispatch_packet: what the packet lets through and what it frees goes to
\* the slots; a stream nobody reads is discarded.
DispatchPacket(c, k, flow, n) ==
  LET streamed(d, s) == OnStream(d, s, k, flow, n)
      parsed(d, s) == OnDatagram(d, s, k, flow)
      discard(d) == IF n > 0 /\ k \in DOMAIN d.stream /\ StreamsDone(d, k)
                    THEN [d EXCEPT !.stream[k].held = 0, !.stream[k].done = TRUE] ELSE d
  IN IF L4[k] = "Tcp" THEN discard(FoldLeft(streamed, c, InTurn))
     ELSE IF n > 0 THEN FoldLeft(parsed, c, InTurn) ELSE c

\* The ticks of a sweep or of the end of input, in any order of the flows.
Ticked(c, order) ==
  FoldLeft(LAMBDA d, s : FoldLeft(LAMBDA e, k : OnTick(e, s, k), d, order), c, InTurn)

\* sweep: ticks, then what holes past their deadline release on flows still
\* tracked, then the ends; state of flows the tracker dropped goes last.
SweepEngine(c, order, due, idle) ==
  LET release(d, k) ==
        IF k \notin due THEN d
        ELSE IF Undelivered(d, k) = 0 THEN d
        ELSE FoldLeft(LAMBDA e, s : OnStream(e, s, k, d.live[k], Undelivered(d, k)),
                      Drained(Anomaly(d, d.live[k], None), k), InTurn)
      released == FoldLeft(release, Ticked(c, order), order)
      swept == ForwardEach(released, SelectSeq(order, LAMBDA k : k \in idle))
  IN [swept EXCEPT !.core = [s \in SlotIds |-> [k \in DOMAIN @[s] \cap DOMAIN swept.live |-> @[s][k]]]]

\* end.
End(c) == lifecycle_seq' = IF driver = "typed" THEN lifecycle_seq + (c.len - c.start) ELSE lifecycle_seq

Return(out) == \E c \in {out} :
  /\ live' = c.live /\ stream' = c.stream /\ core' = c.core /\ seq' = c.seq
  /\ call' = c.put
  /\ emitted' = emitted + Len(SelectSeq(c.put, LAMBDA e : e.shown /\ ("pos" \notin DOMAIN e)))
  /\ ended' = ended \cup {c.put[i].flow : i \in {j \in DOMAIN c.put : c.put[j].ev = "Ended"}}
  /\ End(c)
  /\ UNCHANGED <<driver, paused, mask, max_flows>>

------------------------------------------------------------------------------
(* The calls of the driver                                                 *)

\* What the parsers may do in the next call, once the output of the last one
\* was taken and while a call is allowed by the bounds.
Calls == IF call = <<>> /\ emitted < MaxEvents /\ seq < MaxMessages THEN Behaviours ELSE {}

\* The packet's data: none, in order (and what that frees), behind a hole, or
\* nothing new on a side whose hole is given up.
Arrived(st, data) ==
  CASE st.done \/ data = "None" -> st
    [] ~st.done /\ data = "InOrder" -> [st EXCEPT !.data = @ + 1, !.held = 0]
    [] ~st.done /\ data = "Ahead" -> [st EXCEPT !.data = @ + 1, !.held = @ + 1]
    [] ~st.done /\ data = "Frees" -> [st EXCEPT !.held = 0]

\* track_raw: the packet's flow is created, and another evicted for it, its
\* streams fed, and the packet's own end decided.
TrackRaw(c, k, data, ends) ==
  LET new == k \notin DOMAIN c.live
      old == IF new \/ k \notin DOMAIN c.stream THEN [data |-> 0, held |-> 0, done |-> FALSE]
             ELSE c.stream[k]
      victims == IF new /\ Cardinality(DOMAIN c.live) >= max_flows
                 THEN {CHOOSE v \in DOMAIN c.live : TRUE} ELSE {}
      flow == IF new THEN created + 1 ELSE c.live[k]
      st == Arrived(old, data)
  IN [c |-> [c EXCEPT !.live = IF ends THEN [j \in (DOMAIN @ \ victims) \ {k} |-> @[j]]
                               ELSE With([j \in DOMAIN @ \ victims |-> @[j]], k, flow),
                      !.stream = IF L4[k] = "Tcp" /\ (data # "None" \/ k \in DOMAIN @)
                                 /\ WantsStream
                                 THEN With(@, k, st) ELSE @],
      flow |-> flow, new |-> new, victims |-> victims,
      freed |-> CASE old.done \/ data \in {"None", "Ahead"} -> 0
                  [] ~old.done /\ data = "Frees" -> old.held
                  [] ~old.done /\ data = "InOrder" -> old.held + 1]

\* Events up to the packet's own end; Started and Packet the tracker gates.
Opening(t, k, anomaly) ==
  LET ends(d, v) == Forward(d, v, live[v])
      evicted == FoldLeft(ends, t.c, SetToSeq(t.victims))
      started == IF t.new /\ Emits(evicted, "STARTED")
                 THEN Push(evicted, "Started", t.flow, None, TRUE, 0) ELSE evicted
      packet == IF Emits(started, "PACKET")
                THEN Push(started, "Packet", t.flow, None, TRUE, 0) ELSE started
  IN IF anomaly THEN Anomaly(packet, t.flow, None) ELSE packet

\* emit_ticks: the flows due, after the packet's events.
FlowTicks(c, due, order) ==
  FoldLeft(LAMBDA d, k : Push(d, "Tick", d.live[k], None, TRUE, 0), c,
           SelectSeq(order, LAMBDA k : k \in due \cap DOMAIN c.live /\ Emits(c, "TICK")))

\* track: the packet's data goes out right before its flow's own Ended, or
\* after the last event; then the auto-sweep, if one is due.
Track(k, start, does, data, anomaly, ends, ticks, order, sweep) ==
  \E t \in {TrackRaw(Begin(start, does), k, data, ends)} :
  LET ended_(c) == FlowTicks(Forward(DispatchPacket(c, k, t.flow, t.freed), k, t.flow),
                             ticks, order)
      stays(c) == DispatchPacket(FlowTicks(c, ticks, order), k, t.flow, t.freed)
      swept(c) == IF sweep THEN SweepEngine(c, order, DOMAIN c.live, DOMAIN c.live \ {k}) ELSE c
  IN /\ t.new => created < MaxCreated
     /\ Data(t.c, k) <= MaxData
     /\ L4[k] = "Udp" => data \in {"None", "InOrder"} /\ ~ends
     /\ Return(swept(IF ends THEN ended_(Opening(t, k, anomaly)) ELSE stays(Opening(t, k, anomaly))))
     /\ created' = IF t.new THEN t.flow ELSE created

Sweep(start, does, order, due, idle) ==
  /\ Return(SweepEngine(Begin(start, does), order, due, idle))
  /\ UNCHANGED created

\* finish: ticks, then every flow ends.
Finish(start, does, order) ==
  /\ Return(ForwardEach(Ticked(Begin(start, does), order),
                        SelectSeq(order, LAMBDA k : k \in DOMAIN live)))
  /\ UNCHANGED created

ForceClose(k, start, does) ==
  /\ k \in DOMAIN live
  /\ Return(ForwardEach(Begin(start, does), <<k>>))
  /\ UNCHANGED created

\* pause_events, resume_events.
PauseEvents(b) ==
  /\ call = <<>>
  /\ paused' = b
  /\ UNCHANGED <<call, live, stream, core, mask, lifecycle_seq, seq, emitted, created, ended, driver, max_flows>>

\* set_config with another mask (FlowDriver has the one that shrinks the table).
SetConfig(m) ==
  /\ call = <<>>
  /\ mask' = m
  /\ UNCHANGED <<call, live, stream, core, paused, lifecycle_seq, seq, emitted, created, ended, driver, max_flows>>

\* The consumer takes what the call put out.
Take ==
  /\ call # <<>>
  /\ call' = <<>>
  /\ UNCHANGED <<driver, max_flows, live, stream, core, paused, mask, lifecycle_seq, seq, emitted, created, ended>>

Init ==
  /\ driver \in {"typed", "session", "datagram"}
  /\ max_flows \in Capacities
  /\ live = <<>> /\ stream = <<>> /\ core = [s \in SlotIds |-> <<>>]
  /\ paused = FALSE /\ mask \in Masks
  /\ lifecycle_seq = 0 /\ seq = 0 /\ call = <<>>
  /\ emitted = 0 /\ created = 0 /\ ended = {}

\* What comes with a packet: nothing, anomalies and ticks, or an auto-sweep.
Extras == {[anomaly |-> FALSE, ticks |-> {}, sweep |-> FALSE],
           [anomaly |-> TRUE, ticks |-> Keys, sweep |-> FALSE],
           [anomaly |-> FALSE, ticks |-> {}, sweep |-> TRUE]}

Next ==
  \/ \E does \in Calls, k \in Keys : \E order \in SetToSeqs(DOMAIN live \cup {k}),
        data \in {"None", "InOrder", "Ahead", "Frees"}, ends \in BOOLEAN, x \in Extras, start \in Starts :
       Track(k, start, does, data, x.anomaly, ends, x.ticks, order, x.sweep)
  \/ \E does \in Calls, start \in Starts, order \in SetToSeqs(DOMAIN live), due, idle \in SUBSET DOMAIN live :
       Sweep(start, does, order, due, idle)
  \/ \E does \in Calls, start \in Starts, order \in SetToSeqs(DOMAIN live) : Finish(start, does, order)
  \/ \E does \in Calls, k \in Keys, start \in Starts : ForceClose(k, start, does)
  \/ Take
  \/ \E b \in BOOLEAN : PauseEvents(b)
  \/ \E m \in Masks : SetConfig(m)

Spec == Init /\ [][Next]_vars

------------------------------------------------------------------------------
(* Properties                                                              *)

Closes == {"ParserClosed", "FlowEndClose"}
Events(items) == SelectSeq(items, LAMBDA e : e.shown /\ e.ev # "Message")

\* A message's lifecycle_pos is the number of lifecycle events put out before
\* it by all calls, and its seq the number of messages, whatever the caller's
\* buffer held: merging by both gives the engine's order.
MarksAreTrue == driver = "typed" =>
  LET before == emitted - Len(Events(call))
  IN \A i \in DOMAIN call :
       call[i].ev = "Message" =>
         /\ call[i].pos = before + Len(Events(SubSeq(call, 1, i)))
         /\ call[i].seq = seq - Len(SelectSeq(SubSeq(call, i, Len(call)), LAMBDA e : e.ev = "Message"))

\* "A consumer sees a flow's final messages and parser closes before its end"
\* (src/src/session/engine.rs:17): nothing of a flow comes after its Ended, in
\* the same call or a later one; a closed parser says nothing more; and a
\* flow-end close is shown exactly when the Ended is (engine.rs:30), except that
\* the session drivers leave it to their Closed.
EndIsLast ==
  [][/\ \A i \in DOMAIN call' : call'[i].flow \notin ended
     /\ \A i, j \in DOMAIN call' :
          i < j /\ call'[i].flow = call'[j].flow =>
            /\ call'[i].ev # "Ended"
            /\ call'[i].ev \in Closes /\ call'[i].slot = call'[j].slot => call'[j].ev # "Message"
            /\ call'[i].ev = "FlowEndClose" /\ call'[j].ev = "Ended" =>
                 call'[i].shown = (call'[j].shown /\ driver = "typed")]_vars

\* A parser reads its own flow only and is passed over by no piece of it,
\* whether let through, freed, released by a sweep or flushed at the end: what
\* it has not read is held, and when the flow ends it has read everything.
NothingPassedOver ==
  /\ \A s \in SlotIds : \A k \in DOMAIN core[s] :
       /\ k \in DOMAIN live /\ core[s][k].flow = live[k]
       /\ Slots[s] = "Session" /\ core[s][k].st = "Active" =>
            core[s][k].fed + stream[k].held = stream[k].data
  /\ \A i, j \in DOMAIN call :
       /\ call[i].ev = "FlowEndClose" /\ call[j].ev = "Ended" /\ call[i].flow = call[j].flow
       /\ Slots[call[i].slot] = "Session"
       => call[i].n = call[j].n

==============================================================================
