------------------------------ MODULE SessionCore ------------------------------
(***************************************************************************)
(* src/src/session/core.rs: SessionCore, the life of the stream parser of  *)
(* one flow.  The engine hands out each side's reassembled stream; the     *)
(* core probes it against a signature (when its selector has one), replays *)
(* what it saw to the parser it then pins, feeds the parser, stops sides   *)
(* and closes it.  Keys do not share state, so one is enough; it is used   *)
(* for MaxFlows flows in turn.  The tracker may forget a flow without an   *)
(* Ended event (a resize of its table): the core's entry then stays until  *)
(* the next sweep, or for the next flow on the key.                        *)
(*                                                                         *)
(* A stream is cells in order: the byte at position p is p, a missing one  *)
(* is Gap.  A parser is any implementation of the SessionParser trait: it  *)
(* may close after any chunk and give any answer to a gap.  A signature is *)
(* a function of the bytes it reads, so of their number on each side.      *)
(* Messages are left out.                                                  *)
(***************************************************************************)
EXTENDS Integers, Sequences, FiniteSets

CONSTANTS
  Signatures,  \* signatures of the selector: side and prefix length to a verdict, or None
  ProbeCap,    \* PROBE_BUFFER_CAP
  ReplayCap,   \* PROBE_REPLAY_BYTE_CAP
  MaxProbe,    \* max_probe_packets
  MaxLen,      \* bound on the length of each side's stream
  MaxChunk,    \* bound on the cells handed out at once
  MaxFlows,    \* bound on the flows that use the key
  None

Sides == {"Initiator", "Responder"}

ASSUME CapsAssumption == {ProbeCap, ReplayCap, MaxProbe} \subseteq Nat
ASSUME SignatureAssumption ==
  Signatures \subseteq
    [Sides -> [0..ProbeCap -> {"Match", "NoMatch", "NeedMoreData"}]] \cup {None}
ASSUME StreamAssumption == MaxLen \in [Sides -> Nat] /\ {MaxChunk, MaxFlows} \subseteq Nat
ASSUME NoneAssumption == None \notin {"Probing", "Active", "Closed", "Overflow", "Memcap"}

VARIABLES
  signature, \* the selector's signature, None when it has none
  flow,     \* the core's entry for the key: SessionFlow, or None
  probe,    \* its Probe while it is probing
  parser,   \* its Active: stop flags and, as history, what each side was fed
  stream,   \* each side: how much was handed out for the core's entry, how
            \* much of it before the flow began, and how its reassembly stopped
  tracked,  \* the flow in the tracker: "Tracked", "Ended" or "Dropped" silently
  joined,   \* as history: the flow began when "Dropped" was the key's last
  admits,   \* the selector admits the flow's ports
  flows,    \* flows begun on this key
  opened,   \* parsers created
  counted,  \* parser closes counted (flowscope_parser_closed_total)
  dropped   \* parsers dropped by retain

vars == <<signature, flow, probe, parser, stream, tracked, joined, admits, flows, opened,
          counted, dropped>>

\* For TLC: signatures by a side's verdict after 0, 1 and 2 bytes, an early and
\* a late match, a mismatch, one never decided.
Early == [n \in 0..2 |-> IF n = 0 THEN "NeedMoreData" ELSE "Match"]
Late == [n \in 0..2 |-> IF n < 2 THEN "NeedMoreData" ELSE "Match"]
Never == [n \in 0..2 |-> IF n = 0 THEN "NeedMoreData" ELSE "NoMatch"]
Unsure == [n \in 0..2 |-> "NeedMoreData"]
Matching == {[s \in Sides |-> Late],
             [s \in Sides |-> IF s = "Initiator" THEN Late ELSE Never],
             [s \in Sides |-> IF s = "Initiator" THEN Unsure ELSE Early],
             [s \in Sides |-> Never],
             [s \in Sides |-> Unsure]}
Selectors == Matching \cup {None}
\* A side on which a chunk can follow one that the replay log lost, and one
\* that is just longer than the log.
Lengths == [s \in Sides |-> IF s = "Initiator" THEN 4 ELSE 3]

Gap == -1

Least(a, b) == IF a < b THEN a ELSE b

Item(side, cells, stop) == [side |-> side, cells |-> cells, stop |-> stop]
NoProbe == [packets |-> 0, prefix |-> [s \in Sides |-> <<>>], sealed |-> [s \in Sides |-> FALSE],
            replay |-> <<>>, bytes |-> 0, kept |-> [s \in Sides |-> FALSE],
            lost |-> [s \in Sides |-> 0]]
NewParser == [open |-> TRUE, stopped |-> [s \in Sides |-> FALSE], fed |-> [s \in Sides |-> <<>>]]
NoStream == [s \in Sides |-> [from |-> 0, len |-> 0, stop |-> None]]

\* The bytes of a chunk, without its gaps.
Size(cells) == Cardinality({i \in DOMAIN cells : cells[i] # Gap})
Gaps(n) == [i \in 1..n |-> Gap]

------------------------------------------------------------------------------
(* Feeding a parser                                                        *)

\* The ends of the data and gap chunks that `cells` are walked in.
Ends(cells) ==
  {i \in 1..Len(cells) :
     i = Len(cells) \/ (i < Len(cells) /\ (cells[i] = Gap) # (cells[i + 1] = Gap))}

\* feed: how far the parser may read, and what may end it there.
Reads(item) ==
  LET all == Len(item.cells)
  IN [at : Ends(item.cells), end : {"Close"}]
     \cup [at : {i \in Ends(item.cells) : item.cells[i] = Gap}, end : {"StopSide"}]
     \cup {[at |-> all, end |-> IF item.stop = None THEN "Go" ELSE "StopSide"]}

\* Active::feed: a stopped side is not read; the parser closes with its second
\* stopped side.
Fed(p, item) ==
  IF ~p.open \/ p.stopped[item.side] THEN {p}
  ELSE {[p EXCEPT !.fed[item.side] = @ \o SubSeq(item.cells, 1, read.at),
                  !.stopped[item.side] = read.end = "StopSide",
                  !.open = /\ read.end # "Close"
                           /\ read.end = "StopSide" =>
                                \E s \in Sides \ {item.side} : ~p.stopped[s]]
        : read \in Reads(item)}

\* Every outcome of feeding `items` in turn.
FedAll(p, items) ==
  LET after[n \in 0..Len(items)] ==
        IF n = 0 THEN {p} ELSE UNION {Fed(q, items[n]) : q \in after[n - 1]}
  IN after[Len(items)]

------------------------------------------------------------------------------
(* Probing                                                                 *)

\* The bytes before the first gap.
Leading(cells) ==
  LET n == Cardinality({i \in 1..Len(cells) : \A j \in 1..i : cells[j] # Gap})
  IN SubSeq(cells, 1, n)

Kept_Refilled(pr, item) ==
  ~pr.kept[item.side] \/ pr.bytes + Size(item.cells) <= ReplayCap

\* Does the chunk go into the replay log?  A side's first one always does.
Kept(pr, item) ==
  \/ ~pr.kept[item.side]
  \/ pr.lost[item.side] = 0 /\ pr.bytes + Size(item.cells) <= ReplayCap

\* Probe::step, before the verdict.
Stepped(pr, item) ==
  LET s == item.side
      lead == Leading(item.cells)
      seen == pr.prefix[s] \o lead
      keep == Kept(pr, item)
  IN [pr EXCEPT
        !.prefix[s] = IF pr.sealed[s] THEN @ ELSE SubSeq(seen, 1, Least(ProbeCap, Len(seen))),
        !.sealed[s] = @ \/ Len(lead) < Len(item.cells) \/ item.stop # None,
        !.packets = @ + 1,
        !.kept[s] = @ \/ keep,
        !.bytes = IF keep THEN @ + Size(item.cells) ELSE @,
        !.replay = IF keep THEN Append(@, item) ELSE @,
        !.lost[s] = IF keep THEN @ ELSE @ + Len(item.cells)]

\* The verdict on what each side's prefix holds.
Verdict(pr) ==
  LET says(s) == signature[s][Len(pr.prefix[s])]
  IN CASE \E s \in Sides : says(s) = "Match" -> "Match"
       [] \A s \in Sides : says(s) = "NoMatch" -> "Reject"
       [] OTHER -> IF pr.packets >= MaxProbe THEN "Reject" ELSE "Undecided"

\* pin: the replay log, then a gap for what each side lost.
Replayed(pr) ==
  LET gap(s) == IF pr.lost[s] = 0 THEN <<>> ELSE <<Item(s, Gaps(pr.lost[s]), None)>>
  IN pr.replay \o gap("Initiator") \o gap("Responder")

------------------------------------------------------------------------------
(* on_stream                                                               *)

\* The core's state, without the streams.
Core == [flow |-> flow, probe |-> probe, parser |-> parser,
         opened |-> opened, counted |-> counted]

\* A parser after a feed: a closed one is counted and dropped.
Settled(c, p) ==
  IF p.open THEN [c EXCEPT !.flow = "Active", !.parser = p, !.probe = NoProbe]
  ELSE [c EXCEPT !.flow = "Closed", !.parser = NewParser, !.probe = NoProbe, !.counted = @ + 1]

\* A flow seen for the first time is picked up.
PickedUp(c) ==
  CASE c.flow # None -> c
    [] c.flow = None /\ signature # None -> [c EXCEPT !.flow = "Probing"]
    [] OTHER -> [c EXCEPT !.flow = "Active", !.opened = @ + 1]

Judged(c, pr) ==
  CASE Verdict(pr) = "Undecided" -> {[c EXCEPT !.probe = pr]}
    [] Verdict(pr) = "Reject" -> {[c EXCEPT !.flow = "Closed", !.probe = NoProbe]}
    [] Verdict(pr) = "Match" -> {Settled([c EXCEPT !.opened = @ + 1], p)
                               : p \in FedAll(NewParser, Replayed(pr))}

\* on_stream: every outcome of one side's new output.
OnStream(c, item) ==
  LET at == PickedUp(c)
      pr == Stepped(at.probe, item)
  IN CASE (item.cells = <<>> /\ item.stop = None) \/ (c.flow = None /\ ~admits) -> {c}
       [] OTHER ->
            CASE at.flow = "Closed" -> {at}
              [] at.flow = "Active" -> {Settled(at, p) : p \in Fed(at.parser, item)}
              [] at.flow = "Probing" -> Judged(at, pr)

Becomes(c) ==
  /\ flow' = c.flow /\ probe' = c.probe /\ parser' = c.parser
  /\ opened' = c.opened /\ counted' = c.counted

------------------------------------------------------------------------------
(* The engine's calls                                                      *)

\* What a drain of side s can give: the next cells and, from a reassembler
\* that overflowed, its stop every time; once the memcap released it, that stop
\* alone, once.
Drained(s) ==
  LET at == stream[s].len
      next == {cells \in UNION {[1..n -> {Gap} \cup at..at + MaxChunk - 1] : n \in 0..MaxChunk} :
                 /\ at + Len(cells) <= MaxLen[s]
                 /\ \A i \in DOMAIN cells : cells[i] \in {Gap, at + i - 1}}
  IN CASE stream[s].stop = None -> {Item(s, <<>>, "Memcap")}
                                     \cup {Item(s, cells, stop) : cells \in next, stop \in {"Overflow", None}}
       [] stream[s].stop = "Overflow" -> {Item(s, <<>>, "Overflow")}
       [] stream[s].stop = "Memcap" -> {}

Handed(str, item) ==
  [str EXCEPT ![item.side] = [from |-> @.from, len |-> @.len + Len(item.cells),
                              stop |-> IF @.stop = None THEN item.stop ELSE @.stop]]

\* A packet or a sweep gave new output of one side.
Deliver(s) ==
  /\ tracked = "Tracked"
  /\ \E item \in Drained(s) :
       /\ stream' = Handed(stream, item)
       /\ \E c \in OnStream(Core, item) : Becomes(c)
  /\ UNCHANGED <<signature, tracked, joined, admits, flows, dropped>>

\* The tracker has a flow on the key again, with streams of its own; the core
\* hears of it with its first output, which goes to the entry it has, if any
\* (whatever the ports).
Begin ==
  /\ tracked # "Tracked" /\ flows < MaxFlows
  /\ tracked' = "Tracked" /\ joined' = (tracked = "Dropped") /\ flows' = flows + 1
  /\ stream' = IF flow = None THEN NoStream
               ELSE [s \in Sides |-> [from |-> stream[s].len, len |-> stream[s].len, stop |-> None]]
  /\ admits' \in IF flow = None THEN BOOLEAN ELSE {TRUE}
  /\ UNCHANGED <<signature, flow, probe, parser, opened, counted, dropped>>

\* set_config shrank the table: the tracker forgets the flow without an event.
Resize ==
  /\ tracked = "Tracked" /\ tracked' = "Dropped"
  /\ UNCHANGED <<signature, flow, probe, parser, stream, joined, admits, flows, opened, counted,
                 dropped>>

\* The last bytes of a side: what a drain gives, or nothing.
Finals(s) == Drained(s) \cup {Item(s, <<>>, None)}

\* The core c without its entry for the key.
Without(c) == [c EXCEPT !.flow = None, !.probe = NoProbe, !.parser = NewParser]

\* Every outcome of the last bytes of both sides.
Finished ==
  UNION {UNION {OnStream(b, r) : r \in Finals("Responder")}
         : b \in UNION {OnStream(Core, i) : i \in Finals("Initiator")}}

\* The close of the parser that is left.
Closed_Uncounted(c) == Without(c)

Closed(c) == [Without(c) EXCEPT !.counted = IF c.flow = "Active" THEN @ + 1 ELSE @]

\* on_flow_end: the last bytes of each side, then the parser's close.
OnFlowEnd ==
  /\ tracked = "Tracked"
  /\ \E c \in {Closed(c) : c \in Finished} : Becomes(c)
  /\ stream' = NoStream /\ tracked' = "Ended"
  /\ UNCHANGED <<signature, joined, admits, flows, dropped>>

\* on_tick: a live parser may finish or fail, that of a dropped flow too.
OnTick ==
  /\ flow = "Active"
  /\ Becomes(Settled(Core, [parser EXCEPT !.open = FALSE]))
  /\ UNCHANGED <<signature, stream, tracked, joined, admits, flows, dropped>>

\* retain, at the end of a sweep: the entry goes if the tracker has no flow on
\* the key.  If a new flow has taken the key since, it stays.
Retain ==
  /\ tracked = "Dropped"
  /\ Becomes(Without(Core))
  /\ dropped' = IF flow = "Active" THEN dropped + 1 ELSE dropped
  /\ stream' = NoStream /\ tracked' = "Ended"
  /\ UNCHANGED <<signature, joined, admits, flows>>

Init ==
  /\ signature \in Signatures
  /\ flow = None /\ probe = NoProbe /\ parser = NewParser
  /\ stream = NoStream /\ tracked = "Tracked" /\ joined = FALSE /\ admits \in BOOLEAN /\ flows = 1
  /\ opened = 0 /\ counted = 0 /\ dropped = 0

Next == (\E s \in Sides : Deliver(s)) \/ Begin \/ Resize \/ OnFlowEnd \/ OnTick \/ Retain

Spec == Init /\ [][Next]_vars

------------------------------------------------------------------------------
(* Properties                                                              *)

\* A parser reads each side from the first byte handed out for its entry, in
\* order: no byte is repeated, moved or missing without a gap, also when the
\* flow was probed first and more was seen than the replay log holds; a side
\* that is still read has been given all the engine handed out; a signature
\* reads contiguous bytes only.  And what was handed out for the entry is the
\* stream of one flow, but for a case that is excluded here: on_flow_end
\* removes the entry of a flow that ends, while a flow the tracker dropped
\* silently keeps its entry until the retain of the next sweep, and a flow that
\* takes the key before that is read by the old parser as its continuation
\* (`joined`), though docs/migration-0.24-to-0.25.md:119 says that "parser
\* state lives exactly as long as the lifecycle flow".
ReadsAllInPlace ==
  /\ \A s \in Sides : \A i \in DOMAIN probe.prefix[s] : probe.prefix[s][i] = i - 1
  /\ \A s \in Sides : \A i \in DOMAIN parser.fed[s] : parser.fed[s][i] \in {Gap, i - 1}
  /\ flow = "Active" => \A s \in Sides : ~parser.stopped[s] => Len(parser.fed[s]) = stream[s].len
  /\ ~joined => \A s \in Sides : stream[s].from = 0

\* Every parser is closed and counted once, unless retain drops it; also the
\* parser of a silently dropped flow that the next flow on the key took over.
ClosesCounted == opened = counted + dropped + (IF flow = "Active" THEN 1 ELSE 0)

\* "A side of a parser is stopped ... when ... that side's reassembly stopped
\* (per-side DropFlow overflow, memcap)" (docs/concepts.md:496): a parser
\* whose side the memcap released has stopped reading it.
StopsAreTold ==
  flow = "Active" => \A s \in Sides : stream[s].stop = "Memcap" => parser.stopped[s]

==============================================================================
