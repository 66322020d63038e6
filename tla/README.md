# A TLA+ model of flowscope

flowscope is a passive flow and session tracker: it turns captured frames into
bidirectional flow events, reassembled TCP streams and typed protocol messages.  It
is a library without sockets and without a runtime: every part is a state machine
the caller drives, one packet or one sweep at a time, with packet time as its only
clock.  The one part with threads of its own making is the fan-out of messages.

This directory holds TLA+ models of its parts, the TLC configurations that check
them on small instances, and theorems TLAPS proves about them for every value of
the constants.  `PROJECT.json` maps every definition to the lines it models.  Paths
below are relative to the crate's source directory `src/src/`.

Contents: 1 inventory, 2 modules and the code, 3 runs and bounds, 4 fairness,
5 proofs, 6 where the code and its documents differ, 7 what is not modelled, 8 plan.

## 1. Inventory

### The path of a packet

    file -> frame -> extractor -> FlowTracker -> FlowDriver -> Engine -> cores -> slots
                     key, layers  flow table     one reassembler   parsers     queues,
                                  TCP states     per side, memcap  per flow    fan-out

| part | source | state | operations that change it | module |
|---|---|---|---|---|
| capture files | `pcap/` | position in the file, interfaces of the section, carried events | next of each iterator | CaptureFile |
| extractors, layers | `extract/`, `extractor.rs`, `layers/` | none | frame to key, orientation, payload, layers | Frames |
| intake | `dedup.rs`, the clamp and ticks of `flow_driver.rs` | ring of hashes, last time, last tick scan | keep, clamp, emit_ticks | PacketIntake |
| IP fragments | `ip_fragment.rs` | table of half-seen datagrams | push, evict_expired | IpFragment |
| flow tracker | `tracker.rs`, `tcp_state.rs` | LRU table of entries, hot key, last sweep, pause flag, counters | track, sweep, finish, force_close, forget, set_config, set_idle_timeout_fn, pause_events | FlowTracker |
| flow driver | `flow_driver.rs` | a slot per flow side, memcap pool, pending ends, count of removals seen | track, sweep, finish, force_close with their pending forms, finalize, drain, discard, use of the tracker behind its back | FlowDriver |
| loss accounting | `flow_driver.rs` | counters of a side as last told, counters of a tombstone | the comparison around every call into a reassembler | Losses |
| buffered reassembler | `reassembler.rs` | stream position, one waiting segment, one stray, ACK and FIN evidence, ready cells, stop | segment, segment_into, missing, peer_ack, fin_seen, advance_time, drain, flush, release | BufferedReassembler, StreamTrack |
| segment reassembler | `segment_reassembler.rs` | the same, with any pieces behind holes and their provenance | the same | SegmentReassembler, StreamTrack |
| session core | `session/core.rs` | per flow: probing, active or closed; the replay log; stopped sides | on_stream, on_flow_end, on_tick, retain | SessionCore |
| engine and the three drivers | `session/engine.rs`, `session/driver.rs`, `driver/typed.rs`, `driver/typed_slot.rs` | the driver and cores under it, order marks | track, sweep, finish, force_close, pause_events, set_config | Engine |
| broadcast slot | `driver/broadcast.rs` | registry of weak references, queue and waker per subscriber | push, subscribe, drop, drain, poll_recv | Broadcast |
| HTTP/1 | `http/` | framing state and buffer per direction, pending requests | feed, poll, gap, fin, reset, push, next event | HttpEngine, HttpTelemetry, HttpProxy |
| HTTP/2 | `http2/` | frame buffer, open field block, streams, two header tables | feed, gap, fin | Http2 |
| framed parsers | `dns/session.rs`, `kerberos/`, `smb/`, `modbus/`, `dnp3/`, `ldap/`, `rdp/`, `ssh/`, `tls/`, `session/mod.rs` | a buffer and a small phase | feed, gap | FramedParsers |
| TLS handshakes | `tls/handshake.rs` | the handshake being joined | process, fin, reset, gap | TlsHandshakes |
| QUIC initials | `quic/datagram.rs` | hellos half received | parse | QuicInitials |
| SMTP, FTP | `smtp/`, `ftp/` | two line buffers, one dialogue state | feed, gap | LineParsers |
| correlation stores | `correlate/` | maps with a time to live, windows, bits, bursts, sketches | insert, read, evict, merge | KeyIndexed, ExpiringMaps, TimeBuckets, TimeWindows, Signals, Sketches |
| DNS queries and names | `dns/correlator.rs`, `dns/exchange.rs`, `dns/name_map.rs`, `dns/resolution_cache.rs` | pending queries, claims per address | query, answer, record, sweep | DnsQueries, NameMap, ExpiringMaps |
| detectors | `detect/` | counts, baselines and cooldowns per source | observe, evict | Detectors |
| assets, analysis | `asset/`, `analysis/analyzer.rs` | inventories | absorb, observe, evict | Assets, ExpiringMaps |
| IPFIX messages | `ipfix/wire/` | the message being built, the open set | add_template, add_record, finalize | Ipfix |
| the rest | | none, or floating point | | left out, section 7 |

### How the parts interact

- The driver passes each packet to the tracker with a callback that feeds the
  packet's reassembler while the flow is certain to be in the table; the events come
  back afterwards.  An `Ended` among them releases the flow's reassemblers, at once
  or, in the pending forms, when the caller finalizes it.
- The driver owns the tracker's `Ended` events.  Masks and pauses filter only what
  the caller sees.
- A caller may also borrow the tracker.  The driver finds what was removed there by
  comparing counters, and reconciles at the next sweep.
- The engine drains a side after each packet, gives the data to every core, and for
  each ended flow flushes, gives the last bytes, closes parsers, then lets `Ended`
  through.
- Lifecycle events go to the caller's buffer and messages to per-slot queues; two
  marks on a message say where it belongs among the events.
- The queues are read on other threads.
- Parsers, stores, detectors and inventories share no state with each other: the
  caller moves messages and events between them.

### What is hard here

`PROJECT.json` lists the hazards with their lines.  In short: a cached hot key and a
silently dropped terminal flow in the tracker; a memcap total kept by increments over
many paths; state of a flow that outlives it and meets a new flow with the same key;
reordered, overlapping, cut, repeated and lost segments with three mechanisms that
give up holes; a replay log at its cap; the order of an end against the last bytes,
messages and closes; a wake-up lost between a pop and a registration; parsers whose
two directions change one state and whose input is cut anywhere; scans that resume
where the last one stopped; stores whose times go back and whose bounds drop what is
still needed; shards that are merged after each was squeezed by its own bound.

## 2. Modules and the code

### The pipeline

**FlowTracker.**  `flows` is the table, `older` the LRU list as an order of the live
keys, `hot` the cached key, the rest are the fields of `FlowTracker` of the same
name.  `out` is what the last call returned; `resized` and `reported` are history.
One action per public call.  `Track` is the whole of `track_with`: lookup by hot key
or table, insertion with eviction, the TCP transition, events, the terminal-state
cleanup, and the auto-sweep at its end.  `DriverOwned` is the field `driver_owned`:
under a driver `Ended` escapes the mask and the pause, and the driver sweeps.

**FlowDriver** extends FlowTracker: a driver call is a tracker action with what the
driver does to `streams` and `pool`.  A reassembler is any implementation of the
trait, so a call to one chooses what it holds afterwards among the sizes the contract
allows.  `pool` is `global_memcap_bytes`, `seen_gone` the field of that name, `pending`
the ends handed out and not finalized; `born` is history: which flow last had each
key.  `Behind` is a call on the borrowed tracker.

**StreamTrack** is `Track` and `StreamChunks`, shared by the two reassemblers.  A byte
is its position in the sender's stream, so an output that is moved, repeated or
invented shows; a missing byte is `Gap`.  Sequence numbers live modulo `SeqMod` and
offsets come from the signed distance, as in the code.

**BufferedReassembler** and **SegmentReassembler** have one action per method of the
`Reassembler` trait.  Inputs are any part of a stream, in any order, cut or never
captured; acknowledgements up to one past the last byte.  In SegmentReassembler a
copy of a byte is known by its segment too, since copies may differ and the overlap
policy chooses; `best` is history, the copy the policy prefers.

**ByteStream** is the promise of the trait: cells are given once, in order, each the
byte of its place or a gap, never past the sender's last byte.  Both reassemblers
implement it with `given <- taken, first <- anchor`.

**SessionCore** is the life of one flow's parser: picked up, probed against a
signature, pinned with a replay of what was seen, fed, stopped by sides, closed.  A
parser may close after any chunk and answer a gap in any way.  One key is used for
several flows in turn: `Begin` is the tracker's next flow on the key, after an end that
was reported or after one that was not (`Resize`, a `set_config` that drops the flow and
leaves its entry in the core until the `Retain` of the next sweep).  `joined` is history:
the flow took the key of such a dropped one.

**Engine** puts the pieces together under each of the three drivers (`driver`): the
typed one with a list of session and datagram slots, `SessionDriver` and
`DatagramDriver` with one parser whose messages go among the events.  A call record
`c` is extended by each step of a call, and `call` is what the call put out in order.
The flow driver and the session cores are taken by what their own modules show.
`Take` is the consumer taking a call's output.

**Broadcast** has one step per lock or queue operation: a push appends, takes the
waker and calls it in three steps per subscriber; `poll_recv` pops, registers and
pops again.  The executor is external: it polls a task whose waker was called.

### One machine at a time: stores, intake and parsers

These modules have two variables each: `self`, the state of the program, and `past`,
the history the properties compare it with.  They share no state in the code, so
`MCParts` instantiates each with its own bounds, a variable `part`
chosen in the initial state says which one a behaviour is about, and a property is a
conjunction of implications, one for each part it speaks of.

- **KeyIndexed**, over a cache of the `lru` crate (external), is the map most stores
  are built on.  **ExpiringMaps** has six stores made of it, chosen by `self.kind`;
  `past` is what a store without a bound on its keys would hold.
- **Sketches**: two shards of one kind of mergeable summary, over a constant hash
  function `Probe`; `past` is the bag of what each counted.
- **TimeBuckets**, **TimeWindows**: sliding windows in buckets, two shards that merge.
- **Signals**: `BitStore` and `BurstDetector`.
- **Detectors**: the registry's dispatch and seven kinds of detector; whether a
  floating-point score is over its threshold is an input.  `beacon.rs` and
  `rita_beacon.rs` differ in their score alone, so they are one kind.
- **PacketIntake**: `Dedup`, the monotonic clamp and the tick scan of `track_raw`.
- **IpFragment**: a byte is a tag and a position, so bytes of two datagrams that share
  a key are told apart.
- **DnsQueries**, **NameMap**, **Assets**: queries known by their number, claims by
  (name, provenance, client), asset updates by what each protocol says.  NameMap and
  Assets have a second, small instance each, for lists that overflow.
- **Losses**: the `Counters` of `flow_driver.rs` before and after each call, live,
  through tombstones, and in the final statistics.
- **HttpEngine** is the framing engine: bytes are tokens, a head is one token with the
  fields framing reads.  **HttpTelemetry** has `HttpParser` and `HttpExchangeParser` on
  it, **HttpProxy** `HttpProxyParser` and `HttpProxySession`.
- **Http2** has the decoder, encoder and dynamic table of header compression, the
  frames, field blocks, streams and settings, between two peers that encode with
  encoders of their own and learn of each other's settings late.
- **FramedParsers**: one direction of ten protocols, each given by where its frame
  ends, what it does with a bad one, its cap and its search after a gap.
- **LineParsers**: SMTP and FTP, both directions over one dialogue state.
- **TlsHandshakes**, **QuicInitials**: hellos joined with their answers, hellos split
  over datagrams.
- **Frames**: a frame is its layers with their places and lengths; a capture has a
  prefix of it.  `etherparse` is external.
- **CaptureFile**: a file is its records; the driver under an iterator is external, and
  so is whether the pcap-file library stays at a record it cannot read (`stays`).
- **Ipfix**: `MessageBuilder`, in items with the octets each takes.
- **Traffic** has what is sent in these checks.

Operators named `X_Something` or `XSomething`, marked as mutants, just before `X` are
plausible mistakes in the code modelled by `X`.  With `X` replaced by one of them the
property it is listed with in `PROJECT.json` fails; they are used nowhere else.

## 3. Runs and bounds

Passing runs, with what makes their bounds large enough.

| run | states | properties | shows |
|---|---|---|---|
| `tracker` | 133,000 | TableConsistent, FlowsConserved, FlowOnlyAdvances | the table, hot key, LRU order, TCP states and counters agree in every order of calls |
| `driver_memcap` | 52,000 | PoolIsSum, NeverUndercharged, MemcapHolds | the pool is exact, never understates memory and keeps the cap |
| `driver_lifecycle` | 74,000 | OwnerSeesEveryEnd, ReleasedWhenGone, NoInheritance | no stream outlives its flow once the driver caught up; a reused key starts fresh |
| `reassembler` | 25,000 | WithinBuffer, IsByteStream, NeverWedges | BufferedReassembler implements ByteStream and no hole blocks it for ever |
| `segments` | 107,000 | OverlapResolved, ProvenanceIsExact, WithinBudget, SweepMovesOn, IsByteStream | SegmentReassembler implements ByteStream, resolves overlaps by its policy within its budget |
| `session` | 864,000 | ReadsAllInPlace, ClosesCounted | a parser pinned late reads each side whole and in place; it is closed once |
| `pipeline` | 80,000 | MarksAreTrue, EndIsLast, NothingPassedOver | the order of events, messages, closes and ends under each driver; nobody is passed over |
| `broadcast` | 55,000 | NoLostWakeup, EveryMessageInOrder, EventuallyReceived | no lost wake-up, complete fan-out |
| `parts` | 604,000 | the fifteen below | stores answer with what was observed, parsers with what was sent |

The properties of `parts`:

| property | parts | says |
|---|---|---|
| LookupIsCurrent | six expiring maps | a store holds what was last written, and misses a key only after Capacity others were used |
| MergedAsOne | seven sketches | merged shards lose nothing one summary of the same traffic would have kept |
| WindowCountsWhatHappened | three windows; loss counters | a window answers with what was recorded in it, whatever the order of times; a flow's counters are the sum of the losses told |
| AlertIsEarned | seven detectors | an alert stands on what its subject did, and none repeats within the cooldown |
| SignalIsReal | bits, bursts | a bit reads as last set until its deadline; a burst stands on events no other used |
| DropsOnlyCopies, TicksOnTime | intake | a frame is dropped only after a copy went through; ticks come neither early nor late and the clock never slips |
| DatagramIsWhole | fragments | a datagram is handed on whole, from fragments of one opening, and each one opened is accounted for |
| QueryEndsOnce | DNS queries | a query ends once, and an answer is timed from its own query |
| NewNamesAreTold | name map | the feed tells of every binding the map holds, once |
| AssetIsItsUpdates | inventory | a record is what its updates say together |
| MessagesAsSent | HTTP/1, framed parsers, SMTP and FTP, QUIC, frames, files, IPFIX | what is reported is what was sent, whole and in order, however it was cut, interleaved and lost |
| ExchangesPair | HTTP/1, TLS | a request is joined with its own response, a hello with its own answer |
| ForwardsEveryByte | HTTP proxy | forwarding every event forwards each direction byte for byte |
| StreamsAsSent | HTTP/2 | field lists, bodies and ends as the peers sent them, across changes of the header table |

- `tracker`: two keys fill and overflow a table of two and of one (`max_flows` 0 counts
  as one), so there are evictions, resizes and a flow left alone.  Six flag sets are
  the segments of a handshake, a teardown and a reset.  Two flows may be created, so
  a key is reused.  Times 0 and 1 with timeouts of 1, 2 and an override of 0 give
  expired and unexpired flows.
- `driver_memcap`: one key suffices, since the pool is a sum; both its sides carry
  data.  A cap of 1 against payloads of 0 and 1, an overhead of 1 and buffers up to 2
  reach below, at and past the cap.
- `driver_lifecycle`: two keys in a table of one, so each new flow evicts; the keys are
  alike and symmetric.
- `reassembler`, `segments`: a stream of at most 4 bytes starting 2 before the
  sequence wrap, `MaxAhead` 2 so that near and far segments both occur, a buffer of 2
  that overflows.  Two times and `Later`, past every deadline, are all the timers tell
  apart.  `SeqMod` 16 keeps the stream within half the space, as 2^32 does for the
  windows the code accepts.  In `segments` the overheads are 1 against a budget of 6,
  so bookkeeping alone can exhaust it.
- `session`: caps of 2 against streams of 4 and 3 and chunks of 2, so the log is exactly
  full, overfull by one chunk, and has room again; two flows on the key, the second
  after an end, a sweep, or neither.
- `pipeline`: two session slots and a datagram slot; six combinations of parser
  reactions in which each reaction of each kind of slot occurs; two flows, tables of 1
  and 2, one event in the caller's buffer before each call.
- `broadcast`: two subscribers and three messages, one more than are needed for a
  waker registered in one push to be taken in the next.
- `parts`, stores: two or three keys against bounds of one or two, so every bound is
  reached and passed; times on both sides of each time to live and exactly at it, in
  any order; counters that saturate at 3 and batches of 2 that jump over it; three to
  five records, one more than fill a window, a baseline or a table.  Hosts and values
  are alike and symmetric; they are never ordered or counted on.  The detectors get up to
  `MaxFlows` 5 flows or `MaxQueries` 4 queries against tables of one: the table of
  cooldowns overflows under floods, those of walks, domains and generated names too;
  for tunnels and exfiltration two alerted sources would take more samples.  The
  instances `aliases` (an address with three names where two are kept) and `lists` (an
  asset with more names and addresses than fit) overflow the lists within an entry.
- `parts`, parsers: a few scripted dialogues per protocol, in which every action and
  every disjunct of the parser's steps occurs, in every interleaving the capture order
  allows and cut everywhere into pieces of up to `Chunk` octets, or of the lengths in
  `Cuts` and all there is.  Caps lie between the length of the usual message and that
  of the largest one sent, so they are reached and passed, and the parsers that clear
  their buffer in the middle of a frame do.  A frame is captured at every length.  Files
  with an unreadable record are read with a library that stays at it and with one that
  goes on; `MaxItems` 12 is more than any file gives otherwise.

Deadlock is checked except in `session`, `session_stops`, `broadcast`, `parts` and
`smtp_pipelining`, where the bounded number of flows, messages, records or scripted
bytes ends and there is nothing more to do.

Violation runs show a statement of the documents that the code does not keep
(section 6): `driver_resize`, `session_stops` and `smtp_pipelining`.

Named bounds (`MaxTime`, `MaxCreated`, `MaxUnmatched`, `MaxBuf`, `MaxLen`,
`MaxSegment`, `MaxCut`, `MaxSpare`, `MaxFlows`, `MaxChunk`, `MaxData`, `MaxEvents`,
`MaxMessages`, `MaxSent`, and in the parts `MaxHits`, `MaxAdds`, `MaxBatch`,
`MaxRecords`, `MaxFrames`, `MaxPushes`, `MaxQueries`, `MaxDrops`, `MaxUpdates`,
`MaxLosses`, `MaxArrivals`, `MaxAdded`, `MaxItems`, `Chunk`, `MaxFlight`) cap inputs or counters that are
unbounded in the code.  Counters of the code are 64 bits wide and are not modelled as
wrapping, except where the code saturates or cuts them (sketch cells, capture times,
IPFIX numbers).

## 4. Fairness

- `Broadcast!FairSpec`: a push that has begun runs to its end (it is a loop under a
  lock on the driver's thread) and a task that can take a step takes one (the executor
  polls tasks that were woken).  Nothing is assumed about new pushes, subscriptions or
  drops.
- `BufferedReassembler!FairSpec`: sweeps go on, and one comes after every deadline.
  The library has no timer: the sweep is documented as periodic (`driver/typed.rs:684`)
  and passes the time to every reassembler.  No packet is assumed ever to come.
- For SegmentReassembler the same is shown without fairness: in every state where
  something waits, one late enough sweep moves the stream (`SweepMovesOn`), and the
  stream is bounded.

All other properties are safety properties.  Those of the stores and parsers need no
fairness: each call of theirs runs to its end, and what must be reported is reported by
the call that completes it, which the invariants demand.

## 5. Proofs

`FlowTrackerProofs`, for every set of keys, every set of configurations, flags, times
and bounds:

| theorem | property |
|---|---|
| TypeCorrect | TypeOK |
| TableKept | TableConsistent: the hot key is live, the LRU order ranks the live flows, the table is within capacity |
| NothingTerminal | NoTerminalFlow |
| Conservation | FlowsConserved |
| ClosingHasBothFins | ClosingNeedsBothFins |
| EveryEndReported | OwnerSeesEveryEnd |
| FlowsAdvance | FlowOnlyAdvances, an action property: states, FINs and initiator go forward only, and a flow closes after both FINs |

They follow from one inductive invariant `Inv`.  None of the properties is inductive
alone.  That the hot key is live needs that every removal clears it, which is seen per
action.  Conservation counts the table with `Cardinality`, so `Inv` carries that the
table is finite (`IsTable`), and each action that removes flows needs that it removes
live ones.  That an eviction at capacity removes exactly one flow needs that the order
is strict, total and transitive on the live flows (`IsOrder`), so that there is a
unique oldest.  That no terminal flow stays is what makes the count of a sweep right,
since a sweep does not count those.  `EntryOK` adds the FINs of a closing flow, without
which a transition could not be shown to keep `ClosingNeedsBothFins`.  The proof has a
lemma per action; `Track` is split into the entry the packet touches, the table after
it, the order, and the counters, with and without the auto-sweep.  It rests on the named
assumptions of FlowTracker: None is neither a key nor a number, configurations and
overrides are well-formed, `TsMax` is past every packet time.

`BroadcastProofs`, for any number of subscribers and messages:

| theorem | property |
|---|---|
| TypeCorrect | Broadcast's TypeOK |
| WakeupsKept | NoLostWakeup |
| FanOutComplete | EveryMessageInOrder |

`WakeupsKept` needs `WakerKept`: from the moment a task has registered, its waker is
registered, or was called, or has been taken by a push that is about to call it.  That
is what the second pop of `poll_recv` relies on.  `FanOutComplete` needs that every
live subscriber is in the registry (`Registered`) and that a subscriber starts with an
empty queue (`FreshQueue`); two lemmas say what appending and popping do to a queue of
consecutive numbers.

`FlowDriverCharges` and `FlowDriverProofs`, for every set of keys, configurations,
payloads, buffer sizes and bounds, about the driver composed with its tracker:

| theorem | property |
|---|---|
| DriverInvariance | DriverInv, the inductive invariant |
| PoolExact | PoolIsSum |
| ChargeCoversHeld | NeverUndercharged |
| FreshStreams | NoInheritance |
| StreamsReleased | ReleasedWhenGone |
| DriverSeesEveryEnd | OwnerSeesEveryEnd |
| MemcapKept | MemcapHolds, an action property |

A driver step is a tracker step, so `DriverInv` begins with the tracker's `Inv`.
`Balanced` joins the two facts about memory, which need each other: a refund is exact only
if the charge covers what is held, and the charge does only if each call moves the pool
by as much as it moves the slot; a slot that is not live is charged nothing.
`ReleasedWhenGone` speaks of moments when everything was seen; in between, `Settled` says
whose streams may remain, and `seen_gone <= Gone` that the counters cannot agree by
accident.  FlowDriverCharges has a lemma for each helper of a call, on what it does to
the sum of the charges (which is split one key at a time); FlowDriverProofs has what each
tracker call tells the driver, and a lemma per action.

`BufferedReassemblerProofs`, over `StreamTrackProofs`, for every stream, segment, window,
buffer and sequence space with room for the stream:

| theorem | property |
|---|---|
| ReassemblerInvariance | ReassemblerInv, the inductive invariant |
| BufferBounded | WithinBuffer |
| ImplementsByteStream | IsByteStream: the safety part of the refinement of ByteStream |

The refinement needs to know where the reassembler is: its position, evidence and held
segments agree with the stream (`Fits`), and what was taken and what is ready end exactly
at the position, unless it stopped.  In the middle of a call the output runs behind the
position, so the steps of a call are shown to keep `Owing(.., k)`, a reassembler that owes
`k` cells, and a call ends with `k = 0`.  `OffsetIsPosition` says that the signed distance
of two sequence numbers is the distance of their places in the stream, from
`2 * (MaxLen + 1) < SeqMod`; it is what makes the wrap harmless.

`SessionCoreProofs`, for every set of signatures, every cap and chunking, any number of
flows on the key, ended or dropped without an event:

| theorem | property |
|---|---|
| SessionInvariance | SessionInv, the inductive invariant |
| ReadInPlace | ReadsAllInPlace |
| ClosesAllCounted | ClosesCounted |

That a parser pinned late reads in place needs that the replay log is worth it: while a
flow is probed (`ProbeOK`), the log with the gaps for what was lost continues each side
from its first byte to where it was handed out (`Follows`), and a side that lost
something has its first chunk in the log.  `Reading` is kept along any list of items fed
in turn; that is an induction along the fold of `FedAll`, for which `FoldTheorems` has
induction over a set of numbers.  `OneFlow` says that a flow that ended left no entry.

Only model-checked: SegmentReassembler with its refinement of ByteStream, Engine, the
stores and the parsers, and the liveness properties (liveness under fairness is out of
the prover's reach).  The modules of the HTTP, HTTP/2, framed and line parsers and others
with loops over a buffer use RECURSIVE operators and stay with TLC.

## 6. Where the code and its documents differ

Three runs end in a counterexample:

- `driver_resize`.  `reconcile` (`flow_driver.rs:1215`) compares counters to find
  removals it did not see.  `FlowTracker::set_config` drops flows by resizing the LRU
  cache and counts them nowhere, so a sweep after a shrinking `set_config` releases
  none of their reassemblers or memcap bytes.  The migration guide says every sweep
  does (`docs/migration-0.22-to-0.23.md:151`).
- `session_stops`.  While a flow is probed and a side's replay log is past its cap,
  `Probe::step` (`session/core.rs:401`) drops the whole chunk with the stop it carries.
  The driver reports a memcap stop once, so the parser pinned later is never told that
  its side was stopped.  `docs/concepts.md:496` says a parser's side stops then.
- `smtp_pipelining`.  `SmtpParser` keeps one pending command and takes it at every final
  reply.  When a client pipelines MAIL, RCPT and DATA, the reply to MAIL takes the
  pending DATA, so the 354 starts no mail and the body is read as commands.

Differences met while modelling, which no run is about.  The models do what the code
does; where a property would fail for one of these, its comment says what it excludes.

Pipeline:

- `FinWait` is documented as "One side has FIN'd; the other is still up"
  (`event.rs:936`).  A FIN sent before the handshake was seen to complete is remembered
  and does not move the state, so a flow can enter FinWait with both FINs sent.
- Under `DropPacket` a held segment is charged its bookkeeping after the check, so the
  pool can pass the cap by that much (`flow_driver.rs:1543`); `MemcapHolds` states the
  bound that holds.
- After a shrinking `set_config`, until the next sweep's `retain`, a flow that reuses
  the key of a dropped one is read by the dropped flow's parser as its continuation
  (`docs/migration-0.24-to-0.25.md:119` says parser state lives exactly as long as the
  flow).  SessionCore does this; `ReadsAllInPlace` excludes such a flow only from
  starting afresh.
- A tick scan is skipped until time passes the last scan by a quarter interval.  After
  one packet stamped far ahead no flow is ticked until time catches up
  (`flow_driver.rs:966`).
- A bare FIN calls `fin_seen` without comparing counters (`flow_driver.rs:1517`): a hole
  it gives up is counted and no anomaly tells of it.  A stray that was told of as out
  of window and is used later is taken back from the counter only.  A memcap stop of a
  side that had already overflowed replaces the reason in its statistics
  (`flow_driver.rs:327`).

Stores:

- `NeighborTable` and `FlowAnalyzer` document an idle time; entries age from their first
  insertion, since updates go through `get_mut`;
  `LookupIsCurrent` states the age the code goes by.  `FlowStateMap` brings an expired entry
  back to life when it is fed.  `FirstSeen` moves `last_seen` back with the clock.
- `TopK` is documented to decrement by one; it decrements by the count observed.  A
  `DdSketch` puts a value that does not fit into the lowest bin of the moment, also when
  the window grows down later (`correlate/ddsketch.rs:134`).
- A `BitStore` full of expired bits refuses a new key.  The DNS correlator makes room
  also when it replaces an id it already holds.
- `NameMap` makes no claims for the intermediate names of a CNAME chain.
- The cooldowns of the flood, tunnel and exfiltration detectors are in tables with a
  bound their documentation does not mention: a source displaced by others is alerted on
  again.  A beacon's goes with its samples.  The exfiltration detector's baselines are
  unbounded between evictions.  The registry hands `stats.last_seen` to detectors where the event has a time of its own.
- A fragment table at its bound drops the oldest datagram and counts it nowhere; an
  empty fragment at the offset of a stored one replaces it.

HTTP:

- A response that is whole before its request is dropped, and later exchanges are one
  off (`http/exchange.rs`, 3-4 and 73-75).  A 101 or the answer to CONNECT is not
  emitted, so its request ends without a response.  A reset leaves pending exchanges
  unreported.
- A FIN reports a partial message, and a trailing 1xx, as messages.  The request side
  gives up after `max_pipelined` unanswered requests under `Observe` as well.
- A chunk-size line of exactly the limit is refused only if cut between CR and LF
  (`http/engine.rs:712`, 717).  After a gap a partial line over 64 bytes is cleared, and
  what follows is taken to begin a line.
- `HttpProxyParser::fin` discards the last event of a body that ends with the
  connection, and a push on a closed direction counts bytes it drops as accepted.
- HTTP/2: SETTINGS resize the other direction's decoder when they are seen, before their
  receiver has read them.  Trailers after the other side's END_STREAM are a new head,
  and the final head after a 1xx, or of a promised stream, is reported as trailers.

Other parsers:

- SMTP: the end of an empty body is missed; a gap over DATA, AUTH, STARTTLS or a body's
  end loses the mode; a cancelled AUTH LOGIN takes the next command for a password.
- SSH: a packet with more padding than length never advances, a banner that is not
  UTF-8 sticks, and an overlong line dropped between CR and LF loses the banner.
- A malformed LDAP or Modbus frame sticks; LDAP reads on after it gave up.  The caps of
  SMB, Kerberos, DNP3 and Modbus clear in the middle of a frame.  `MAX_FRAME` of DNP3 and
  `MAX_NBSS_LEN` of SMB cannot be reached.
- TLS: the cap is checked before whole records are taken out, so whether a stream is
  refused depends on its cuts (`tls/parser.rs:58`); handshake messages split over records
  are not put together.  A TLS 1.2 certificate follows the ServerHello that already
  completed the report, so `certificate_chain` is never in its own
  (`tls/handshake.rs:352`).  A reset reports no truncated handshake, and fatal alerts are
  laid to a side by state and not by sender.  `HandshakesJoin` names the statements of
  `tls/handshake.rs` it does not make.
- QUIC: `pending_dropped` counts timeouts too; copies fill the cap on frames.

Frames, files and export:

- `Layers` reads MPLS labels at a fixed offset, so a VLAN tag in front counts as one
  (`layers/mod.rs:359`).  `AutoDetectEncap` tries the plain extractor first, which
  succeeds on every IP frame, so tunnels are never looked into for five-tuples
  (`extract/auto_detect.rs:1`).  `Layers` knows VXLAN and GTP-U by destination port, the
  extractors by either.  The key of a quoted SCTP packet is None while its flow has one
  with ports 0.
- Capture times are cut to 32 bits of seconds (`pcap/source.rs:236`).  Every iterator
  reads on after an unreadable record (`pcap/reader.rs:252`); if the library stays at it,
  the iterators of packets and events give the same error for ever, and those of pulses,
  which skip errors (`pcap/pulses.rs:219`), never return.
- An IPFIX address is written with its own length whatever the template declares
  (`ipfix/wire/builder.rs:287`).

## 7. What is not modelled

Within modelled parts:

- FlowTracker: byte, inter-arrival and active/idle statistics, the history string,
  capture legs; `sweep_with_parsers` and its datagram form, which drive a parser map of
  the caller.
- FlowDriver: its loss counters are in Losses, deduplication, ticks and the monotonic
  clock in PacketIntake; neither is composed with it.
- The reassemblers: statistics, watermark crossings, factories.
- SessionCore: messages and output gates (Engine has messages), DatagramCore (in
  Engine).
- Engine: the two sides of a flow are one; port selectors, side stops, `Established`
  and `StateChange` events are left out; a `set_config` that shrinks the table is left
  out, so `retain` finds nothing to drop; an auto-sweep ends every other live flow or
  none; a parser reacts in one way per call.
- Stores: floating-point estimates and scores, `FirstSeen::merge`; hash functions are
  constants.
- Parsers: the fields of a message that do not decide where it ends or what follows it;
  Huffman coding; the words of a line; decryption of QUIC.
- Frames: IPv6 extension headers, jumbograms, the tagged and flow-label keys.
- CaptureFile: opening a file, pacing of a replay.  Ipfix: which field of a record an
  element takes.

Parts left out:

- competing slot handles (`driver/slot.rs`): each call pops from a lock-free queue of a
  library, and what it promises is the promise of the library;
- datagram parsers and the fields of messages: pure functions of one packet or message,
  without a state a step could spoil;
- emitters and records (formatting), fingerprints and classification (tables, hashes and
  strings), indicators, signatures and risk scores (look-ups and sums);
- statistics, change points and file digests: floating point and bit arithmetic;
- types, accessors, builders, metric names.

Of these only the queue, the running statistics and digests, and the output buffers of
emitters keep anything between two calls.  What remains of the code is types, accessors,
formatting and pure parsing, of which a state machine would only be a copy.

The map covers about 14,000 of the 99,000 lines under `src/`, comments and tests
included, and about three tenths of the 39,000 lines of code.

## 8. Plan

The model is complete in the sense of section 7.  What remains are proofs, each after
TLC agrees with its inductive invariant:

1. SegmentReassembler: the budget and the provenance of held bytes, from an invariant on
   the pieces and runs that every pass of `absorb` keeps; then the refinement, along the
   lines of BufferedReassemblerProofs.
2. The stores without recursion: `LookupIsCurrent` from the order of use being total on
   the live keys, `QueryEndsOnce`, `DropsOnlyCopies`.

Modules with RECURSIVE operators (CaptureFile, FramedParsers, Frames, Http2, the HTTP
modules, Ipfix, LineParsers) stay with TLC.
