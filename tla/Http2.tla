------------------------------- MODULE Http2 -------------------------------
(***************************************************************************)
(* Http2Session over Http2Parser (src/src/http2/session.rs, stream.rs and  *)
(* frame.rs): the two directions of a connection, cut anywhere, are framed *)
(* and their field blocks decoded.  The peers follow a script; each        *)
(* encodes with an HpackEncoder of its own, and learns of the other's      *)
(* SETTINGS some time after they were sent.  `self` is the parser, `past`  *)
(* the peers, what is on the wire and what was reported.                   *)
(*                                                                         *)
(* A frame is two header octets, the first of which carries it as a        *)
(* record, and its payload.                                                *)
(*                                                                         *)
(* HPACK first: the dynamic table and the decoder (hpack.rs) and the       *)
(* encoder (hpack_encode.rs).  A field is [name, value]; a block is a      *)
(* sequence of octets [is, low], where the first octet of an integer is    *)
(* named by its flag bits, the others by their continuation bit, and a     *)
(* string is one octet.                                                    *)
(***************************************************************************)
EXTENDS Naturals, Sequences, SequencesExt, FiniteSetsExt

CONSTANTS None, StaticTable, Weight, Sensitivity, Pseudo, Forbidden,
          DefaultTable, HardTable, MaxFields, MaxBlock

CONSTANTS Scripts, EncoderTable, RequirePreface, MaxFrame, MaxBuffered, MaxStreams, Chunk,
          Cuts,         \* how many octets are given at once, other than all there are
          MaxFlight     \* octets on the way with which a peer sends more

VARIABLES self, past

-----------------------------------------------------------------------------
(* HPACK                                                                   *)

EntrySize(f) == Weight[f.value]

RECURSIVE SizeOf(_)
SizeOf(entries) == IF entries = <<>> THEN 0 ELSE EntrySize(entries[1]) + SizeOf(Tail(entries))

-----------------------------------------------------------------------------
(* The dynamic table, the newest entry first                               *)

NewTable(max, hard) == [entries |-> <<>>, max |-> Min({max, hard}), hard |-> hard]

Evict(t) ==
    [t EXCEPT !.entries =
        SubSeq(@, 1, Max({n \in 0 .. Len(@) : SizeOf(SubSeq(t.entries, 1, n)) <= t.max}))]

SetMaxSize(t, n) == Evict([t EXCEPT !.max = Min({n, t.hard})])

Insert(t, f) ==
    IF EntrySize(f) > t.max THEN [t EXCEPT !.entries = <<>>]
    ELSE Evict([t EXCEPT !.entries = <<f>> \o @])

-----------------------------------------------------------------------------
(* Integers: `bits` of the first octet, then seven bits an octet, the      *)
(* least significant first                                                 *)

Octet(is, low) == [is |-> is, low |-> low]
Mask(bits) == 2^bits - 1

RECURSIVE Groups(_)
Groups(rest) ==
    IF rest < 128 THEN <<Octet("last", rest)>> ELSE <<Octet("more", rest % 128)>> \o Groups(rest \div 128)

EncodeInt(value, bits, flags) ==
    IF value < Mask(bits) THEN <<Octet(flags, value)>>
    ELSE <<Octet(flags, Mask(bits))>> \o Groups(value - Mask(bits))

PrefixOf == [Indexed |-> 7, Incremental |-> 6, Size |-> 5, Never |-> 4, Without |-> 4]

Failed(reason) == [err |-> reason, value |-> 0, rest |-> <<>>]

RECURSIVE MoreOctets(_, _, _, _)
MoreOctets(buf, i, shift, value) ==
    CASE i > Len(buf) -> Failed("HpackTruncated")
      [] shift >= 63 -> Failed("HpackIntegerOverflow")
      [] buf[i].is = "last" ->
           [err |-> None, value |-> value + buf[i].low * 2^shift, rest |-> SubSeq(buf, i + 1, Len(buf))]
      [] OTHER -> MoreOctets(buf, i + 1, shift + 7, value + buf[i].low * 2^shift)

DecodeInt(buf) ==
    LET mask == Mask(PrefixOf[buf[1].is])
    IN IF buf[1].low < mask THEN [err |-> None, value |-> buf[1].low, rest |-> Tail(buf)]
       ELSE MoreOctets(buf, 2, 0, mask)

DecodeString(buf) ==
    IF buf = <<>> THEN Failed("HpackTruncated") ELSE [err |-> None, value |-> buf[1].low, rest |-> Tail(buf)]

-----------------------------------------------------------------------------
(* Decoding                                                                *)

Resolve(t, idx) ==
    CASE idx \in DOMAIN StaticTable -> StaticTable[idx]
      [] idx - Len(StaticTable) \in DOMAIN t.entries -> t.entries[idx - Len(StaticTable)]
      [] OTHER -> None

\* A name from the table or as a string, then a value.
LiteralName(t, idx) ==
    CASE idx.err # None -> idx
      [] idx.err = None /\ idx.value = 0 -> DecodeString(idx.rest)
      [] OTHER -> IF Resolve(t, idx.value) = None THEN Failed("HpackInvalidIndex")
                  ELSE [idx EXCEPT !.value = Resolve(t, @).name]

LiteralValue(name, value) ==
    IF name.err # None THEN name
    ELSE [value EXCEPT !.value = [name |-> name.value, value |-> @]]

Literal(name) == LiteralValue(name, DecodeString(name.rest))

DecodeLiteral(t, buf) == Literal(LiteralName(t, DecodeInt(buf)))

\* What one representation does: the fields so far, the table, the octets left.
Indexed(done, n) ==
    CASE n.err # None -> [done EXCEPT !.err = n.err]
      [] n.err = None /\ Resolve(done.table, n.value) = None -> [done EXCEPT !.err = "HpackInvalidIndex"]
      [] OTHER -> [done EXCEPT !.fields = Append(@, Resolve(done.table, n.value)), !.rest = n.rest]

SizeUpdate(done, n) ==
    CASE n.err # None -> [done EXCEPT !.err = n.err]
      [] n.err = None /\ n.value > done.table.hard -> [done EXCEPT !.err = "HpackTableSizeExceeded"]
      [] OTHER -> [done EXCEPT !.table = SetMaxSize(@, n.value), !.rest = n.rest]

Literally(done, lit, incremental) ==
    IF lit.err # None THEN [done EXCEPT !.err = lit.err]
    ELSE [done EXCEPT !.table = IF incremental THEN Insert(@, lit.value) ELSE @,
                      !.fields = Append(@, lit.value), !.rest = lit.rest]

RECURSIVE DecodeFrom(_)
DecodeFrom(done) ==
    LET buf == done.rest
    IN CASE done.err # None \/ buf = <<>> -> done
         [] Len(done.fields) >= MaxFields -> [done EXCEPT !.err = "HeaderListTooLong"]
         [] OTHER ->
              DecodeFrom(CASE buf[1].is = "Indexed" -> Indexed(done, DecodeInt(buf))
                           [] buf[1].is = "Size" -> SizeUpdate(done, DecodeInt(buf))
                           [] OTHER -> Literally(done, DecodeLiteral(done.table, buf), buf[1].is = "Incremental"))

Decode(t, block) == DecodeFrom([table |-> t, fields |-> <<>>, rest |-> block, err |-> None])

-----------------------------------------------------------------------------
(* Encoding                                                                *)

NewEncoder(max) ==
    LET n == Min({max, DefaultTable})
    IN [table |-> NewTable(n, max), signalled |-> n, target |-> n, least |-> n]

SetPeerMaxTableSize(e, n) ==
    LET effective == Min({n, e.table.hard})
    IN [e EXCEPT !.least = Min({@, effective}), !.target = effective]

\* The first full match, static before dynamic; else the first of the name.
Find(t, f) ==
    LET all   == StaticTable \o t.entries
        full  == {i \in DOMAIN all : all[i] = f}
        named == {i \in DOMAIN all : all[i].name = f.name}
    IN CASE full # {} -> [full |-> TRUE, idx |-> Min(full)]
         [] named # {} -> [full |-> FALSE, idx |-> Min(named)]
         [] OTHER -> [full |-> FALSE, idx |-> 0]

ValidFields(fields) ==
    \A i \in DOMAIN fields :
        /\ fields[i].name \notin Forbidden
        /\ fields[i].name \in Pseudo => \A j \in 1 .. i - 1 : fields[j].name \in Pseudo

\* Mutant: only the size in force is signalled.
EmitLastSize(e) ==
    LET up == e.target # e.signalled
    IN [e |-> [e EXCEPT !.table = IF up THEN SetMaxSize(@, e.target) ELSE @,
                        !.signalled = e.target, !.least = e.target],
        out |-> IF up THEN EncodeInt(e.target, 5, "Size") ELSE <<>>]

\* At most two sizes are signalled, the least since the last block first.
EmitSizeUpdates(e) ==
    LET down == e.least < e.signalled
        low  == IF down THEN e.least ELSE e.signalled
        t    == IF down THEN SetMaxSize(e.table, low) ELSE e.table
        up   == e.target # low
    IN [e |-> [e EXCEPT !.table = IF up THEN SetMaxSize(t, e.target) ELSE t,
                        !.signalled = e.target, !.least = e.target],
        out |-> (IF down THEN EncodeInt(low, 5, "Size") ELSE <<>>)
                \o (IF up THEN EncodeInt(e.target, 5, "Size") ELSE <<>>)]

EncodeField(e, f) ==
    LET m    == Find(e.table, f)
        sens == Sensitivity[f.name]
        indexable == sens = "Indexable" /\ EntrySize(f) * 2 <= e.table.max
        form == CASE indexable -> "Incremental"
                  [] sens = "Sensitive" -> "Never"
                  [] OTHER -> "Without"
    IN IF m.full /\ (m.idx <= Len(StaticTable) \/ sens # "Sensitive")
       THEN [e |-> e, out |-> EncodeInt(m.idx, 7, "Indexed")]
       ELSE [e |-> IF indexable THEN [e EXCEPT !.table = Insert(@, f)] ELSE e,
             out |-> EncodeInt(m.idx, PrefixOf[form], form)
                     \o (IF m.idx = 0 THEN <<Octet("string", f.name)>> ELSE <<>>) \o <<Octet("string", f.value)>>]

Followed(done, next) == [e |-> next.e, out |-> done.out \o next.out]

RECURSIVE EncodeFields(_, _)
EncodeFields(done, fields) ==
    IF fields = <<>> THEN done ELSE EncodeFields(Followed(done, EncodeField(done.e, fields[1])), Tail(fields))

\* A list of fields that is refused leaves the encoder as it was.
Encode(e, fields) ==
    IF Len(fields) > MaxFields \/ ~ValidFields(fields) \/ SizeOf(fields) > MaxBlock
    THEN [e |-> e, out |-> None]
    ELSE EncodeFields(EmitSizeUpdates(e), fields)

-----------------------------------------------------------------------------
(* The connection                                                          *)

vars == <<self, past>>

Sides == {"Initiator", "Responder"}
Peer(d) == IF d = "Initiator" THEN "Responder" ELSE "Initiator"

HeaderLen == 2
Preface == <<Octet("PRI", 0), Octet("SM", 0)>>

-----------------------------------------------------------------------------
(* The parser                                                              *)

EffectiveMaxFrame == Min({MaxFrame, MaxBuffered - HeaderLen})

NewDir(preface) ==
    [buf |-> <<>>, hpack |-> NewTable(DefaultTable, HardTable), partial |-> None,
     max_frame |-> EffectiveMaxFrame, preface |-> preface, done |-> FALSE]

NewParser ==
    [dir |-> [d \in Sides |->
        NewDir(CASE d = "Responder" -> "Seen" [] RequirePreface -> "Required" [] OTHER -> "Optional")],
     streams |-> <<>>, events |-> <<>>, error |-> None]

Fail(p, e) ==
    [p EXCEPT !.error = e, !.streams = <<>>,
              !.dir = [d \in Sides |-> [@[d] EXCEPT !.done = TRUE, !.buf = <<>>]]]

Emit(p, kind, d, stream, of) == [p EXCEPT !.events = Append(@, [ev |-> kind, dir |-> d, stream |-> stream, of |-> of])]

Without_(streams, id) == [s \in DOMAIN streams \ {id} |-> streams[s]]

FinishStream(p, id, d) ==
    LET q == Emit(p, "End", d, id, None)
    IN IF d = "Responder" THEN [q EXCEPT !.streams = Without_(@, id)] ELSE q

\* The sides whose head was seen, by stream.
Described(p, d, id, decoded, end_stream) ==
    LET q       == [p EXCEPT !.dir[d].hpack = decoded.table]
        known   == id \in DOMAIN p.streams
        heads   == IF known THEN p.streams[id] ELSE {}
        told    == Emit([q EXCEPT !.streams = [s \in DOMAIN @ \cup {id} |->
                                                  IF s = id THEN heads \cup {d} ELSE @[s]]],
                        IF d \in heads THEN "Trailers" ELSE "Head", d, id, decoded.fields)
    IN CASE decoded.err # None -> Fail(q, decoded.err)
         [] ~known /\ Cardinality(DOMAIN p.streams) >= MaxStreams -> Fail(q, "TooManyStreams")
         [] end_stream -> FinishStream(told, id, d)
         [] OTHER -> told

CompleteBlock(p, d, id, block, end_stream) == Described(p, d, id, Decode(p.dir[d].hpack, block), end_stream)

BeginBlock(p, d, f) ==
    LET describes == IF f.promised = None THEN f.stream ELSE f.promised
        end       == f.promised = None /\ "END_STREAM" \in f.flags
    IN CASE Len(f.payload) > MaxBlock -> Fail(p, "HeaderListTooLong")
         [] "END_HEADERS" \in f.flags -> CompleteBlock(p, d, describes, f.payload, end)
         [] OTHER -> [p EXCEPT !.dir[d].partial =
                        [continues |-> f.stream, describes |-> describes, bytes |-> f.payload, end_stream |-> end]]

ContinueBlock(p, d, f) ==
    LET open == p.dir[d].partial
        all  == open.bytes \o f.payload
    IN CASE open = None -> Fail(p, "UnexpectedContinuation")
         [] Len(all) > MaxBlock -> Fail(p, "HeaderListTooLong")
         [] "END_HEADERS" \in f.flags ->
              CompleteBlock([p EXCEPT !.dir[d].partial = None], d, open.describes, all, open.end_stream)
         [] OTHER -> [p EXCEPT !.dir[d].partial.bytes = all]

Data(p, d, f) ==
    LET q == IF f.payload = <<>> THEN p ELSE Emit(p, "Body", d, f.stream, f.payload)
    IN IF "END_STREAM" \in f.flags THEN FinishStream(q, f.stream, d) ELSE q

\* The last value of a parameter counts.
Setting(payload, name) ==
    LET given == {i \in DOMAIN payload : payload[i].is = name}
    IN IF given = {} THEN None ELSE payload[Max(given)].low

\* Applied at once to what the other side sends.
ApplySettings(p, d, f) ==
    LET table  == Setting(f.payload, "table")
        frame  == Setting(f.payload, "frame")
        target == Peer(d)
        sized  == IF table = None THEN p
                  ELSE [p EXCEPT !.dir[target].hpack = SetMaxSize(@, Min({table, HardTable}))]
        framed == IF frame = None THEN sized
                  ELSE [sized EXCEPT !.dir[target].max_frame = Min({frame, EffectiveMaxFrame})]
    IN IF "ACK" \in f.flags \/ (table = None /\ frame = None) THEN p
       ELSE Emit(framed, "Settings", d, 0, <<table, frame>>)

HandleFrame(p, d, f) ==
    LET open == p.dir[d].partial
    IN CASE open # None /\ (f.kind # "CONTINUATION" \/ f.stream # open.continues) -> Fail(p, "InterleavedContinuation")
         [] f.kind \in {"HEADERS", "PUSH_PROMISE"} -> BeginBlock(p, d, f)
         [] f.kind = "CONTINUATION" -> ContinueBlock(p, d, f)
         [] f.kind = "DATA" -> Data(p, d, f)
         [] f.kind = "SETTINGS" -> ApplySettings(p, d, f)
         [] f.kind \in {"RST_STREAM", "GOAWAY"} /\ f.payload = <<>> -> Fail(p, "MalformedFrame")
         [] f.kind = "RST_STREAM" ->
              Emit([p EXCEPT !.streams = Without_(@, f.stream)], "StreamReset", d, f.stream, None)
         [] f.kind = "GOAWAY" -> Emit(p, "GoAway", d, 0, None)
         [] f.kind \in {"WINDOW_UPDATE", "PRIORITY", "PING"} -> p

\* A whole frame without its header, padding, priority and promised stream.
ParseFrame(raw) ==
    LET f        == raw[1].low
        body     == SubSeq(raw, HeaderLen + 1, Len(raw))
        padded   == "PADDED" \in f.flags /\ f.kind \in {"DATA", "HEADERS", "PUSH_PROMISE"}
        bad_pad  == padded /\ (body = <<>> \/ body[1].low + 1 > Len(body))
        unpadded == IF padded THEN SubSeq(body, 2, Len(body) - body[1].low) ELSE body
        priority == f.kind = "HEADERS" /\ "PRIORITY" \in f.flags
        promise  == f.kind = "PUSH_PROMISE"
        bad      == bad_pad \/ ((priority \/ promise) /\ unpadded = <<>>)
    IN IF bad THEN None
       ELSE [kind |-> f.kind, flags |-> f.flags, stream |-> f.stream,
             promised |-> IF promise THEN unpadded[1].low ELSE None,
             payload |-> IF priority \/ promise THEN Tail(unpadded) ELSE unpadded]

Handled(p, d, f) == IF f = None THEN Fail(p, "MalformedFrame") ELSE HandleFrame(p, d, f)

RECURSIVE Frames(_, _)
Frames(p, d) ==
    LET buf   == p.dir[d].buf
        total == HeaderLen + buf[1].low.length
        taken == [p EXCEPT !.dir[d].buf = SubSeq(@, total + 1, Len(@))]
    IN CASE p.error # None \/ Len(buf) < HeaderLen -> p
         [] buf[1].low.length > p.dir[d].max_frame -> Fail(p, "FrameTooLarge")
         [] Len(buf) < total -> p
         [] OTHER -> Frames(Handled(taken, d, ParseFrame(SubSeq(buf, 1, total))), d)

Drive(p, d) ==
    LET m     == p.dir[d]
        n     == Min({Len(m.buf), Len(Preface)})
        opens == SubSeq(m.buf, 1, n) = SubSeq(Preface, 1, n)
        seen  == [p EXCEPT !.dir[d].preface = "Seen"]
    IN CASE m.preface # "Seen" /\ opens /\ n < Len(Preface) -> p
         [] m.preface = "Required" /\ ~opens -> Fail(p, "BadPreface")
         [] OTHER -> Frames(CASE m.preface = "Seen" -> p
                              [] opens -> [seen EXCEPT !.dir[d].buf = SubSeq(@, n + 1, Len(@))]
                              [] OTHER -> seen, d)

\* The parser and how many octets it took.
Push(p, d, data) ==
    LET room == MaxBuffered - Len(p.dir[d].buf)
        take == Min({room, Len(data)})
    IN CASE p.error # None \/ p.dir[d].done -> [p |-> p, took |-> 0]
         [] room = 0 -> [p |-> Fail(p, "BufferOverflow"), took |-> 0]
         [] OTHER -> [p |-> Drive([p EXCEPT !.dir[d].buf = @ \o SubSeq(data, 1, take)], d), took |-> take]

RECURSIVE FeedRest(_, _, _)
FeedRest(step, d, data) ==
    LET rest == SubSeq(data, step.took + 1, Len(data))
    IN IF step.took \in {0, Len(data)} THEN step.p ELSE FeedRest(Push(step.p, d, rest), d, rest)

FeedAll(p, d, data) == FeedRest(Push(p, d, data), d, data)

FinDir(p, d) == [p EXCEPT !.dir[d] = [@ EXCEPT !.done = TRUE, !.buf = <<>>, !.partial = None]]

-----------------------------------------------------------------------------
(* The peers' frames                                                       *)

Frame(kind, flags, stream, payload) ==
    <<Octet("frame", [kind |-> kind, flags |-> flags, stream |-> stream, length |-> Len(payload)]),
      Octet("header", 0)>> \o payload

\* The block in pieces of at most Chunk octets, one when it is empty.
Pieces(block) ==
    [i \in 1 .. Max({1, (Len(block) + Chunk - 1) \div Chunk}) |->
        SubSeq(block, (i - 1) * Chunk + 1, Min({i * Chunk, Len(block)}))]

WriteHeaders(stream, block, end_stream) ==
    LET parts == Pieces(block)
        flags(i) == (IF i = Len(parts) THEN {"END_HEADERS"} ELSE {})
                    \cup (IF i = 1 /\ end_stream THEN {"END_STREAM"} ELSE {})
    IN FlattenSeq([i \in DOMAIN parts |->
          Frame(IF i = 1 THEN "HEADERS" ELSE "CONTINUATION", flags(i), stream, parts[i])])

\* An item of a script is a list of fields to be sent as a block, or frames
\* as they are.  A block goes out in one of three ways.
Written(item, block) ==
    CASE item.form = "headers" -> WriteHeaders(item.stream, block, item.end)
      [] item.form = "padded" ->
           Frame("HEADERS", {"END_HEADERS", "PADDED", "PRIORITY"} \cup (IF item.end THEN {"END_STREAM"} ELSE {}),
                 item.stream, <<Octet("pad", 1), Octet("priority", 0)>> \o block \o <<Octet("pad", 0)>>)
      [] item.form = "frames" ->
           FlattenSeq([i \in DOMAIN item.frames |->
               Frame(item.frames[i].kind, item.frames[i].flags, item.frames[i].stream, item.frames[i].payload)])
      [] item.form = "promise" ->
           Frame("PUSH_PROMISE", {}, 1, <<Octet("promise", item.stream)>>)
           \o Frame("CONTINUATION", {"END_HEADERS"}, 1, block)

\* What an observer should report of an item.
Reports(d, item) ==
    IF item.form = "frames" THEN item.events
    ELSE <<[ev |-> item.as, dir |-> d, stream |-> item.stream, of |-> item.fields]>>
         \o (IF item.end THEN <<[ev |-> "End", dir |-> d, stream |-> item.stream, of |-> None]>> ELSE <<>>)

-----------------------------------------------------------------------------
Init ==
    \E s \in DOMAIN Scripts :
        /\ self = NewParser
        /\ past = [script |-> s, encoder |-> [d \in Sides |-> NewEncoder(EncoderTable)],
                   read |-> [d \in Sides |-> 0], sent |-> [d \in Sides |-> <<>>],
                   wire |-> [d \in Sides |-> IF d = "Initiator" /\ Scripts[s].preface THEN Preface ELSE <<>>],
                   pos |-> [d \in Sides |-> 0], told |-> [d \in Sides |-> <<>>],
                   raced |-> FALSE, ended |-> FALSE, reset |-> FALSE]

Play == [s \in DOMAIN Scripts |-> [d \in Sides |-> Scripts[s][d]]]
Script(d) == Play[past.script][d]
Passed(d, upto) == {i \in DOMAIN past.sent[d] : past.sent[d][i].to <= upto}

\* A peer has read the other's first n items, which the observer saw before.
Knows(d, n) ==
    LET sizes == SelectSeq([i \in 1 .. n - past.read[d] |-> Script(Peer(d))[past.read[d] + i].table],
                           LAMBDA size : size # None)
    IN FoldLeft(SetPeerMaxTableSize, past.encoder[d], sizes)

Send(d, n) ==
    LET item  == Script(d)[Len(past.sent[d]) + 1]
        block == item.form # "frames"
        start == past.pos[d] + Len(past.wire[d])
    IN /\ ~past.ended
       /\ Len(past.sent[d]) < Len(Script(d))
       /\ Len(past.wire[d]) <= MaxFlight
       /\ n \in past.read[d] .. Cardinality(Passed(Peer(d), past.pos[Peer(d)]))
       /\ n >= item.after
       /\ \E known \in {Knows(d, n)} : \E coded \in {IF block THEN Encode(known, item.fields) ELSE [e |-> known, out |-> None]} :
            \E octets \in {IF block /\ coded.out = None THEN <<>> ELSE Written(item, coded.out)} :
              past' = [past EXCEPT !.encoder[d] = coded.e,
                                   !.read[d] = n,
                                   !.wire[d] = @ \o octets,
                                   !.sent[d] = Append(@, [from |-> start, to |-> start + Len(octets), read |-> n])]
       /\ UNCHANGED self

Lowers(size) == size # None /\ size < DefaultTable

\* A block passes the observer after SETTINGS that its sender had not read.
Races(d, upto) ==
    \E i \in Passed(d, upto) \ Passed(d, past.pos[d]) :
        /\ Script(d)[i].form # "frames"
        /\ \E k \in Passed(Peer(d), past.pos[Peer(d)]) :
              k > past.sent[d][i].read /\ Lowers(Script(Peer(d))[k].table)

Feed(d, n) ==
    /\ ~past.ended
    /\ n \in 1 .. Len(past.wire[d])
    /\ \E fed \in {FeedAll(self, d, SubSeq(past.wire[d], 1, n))} :
         /\ self' = [fed EXCEPT !.events = <<>>]
         /\ past' = [past EXCEPT !.wire[d] = SubSeq(@, n + 1, Len(@)),
                                 !.pos[d] = @ + n,
                                 !.told[d] = @ \o fed.events,
                                 !.raced = @ \/ Races(d, past.pos[d] + n)]

\* The flow ends when what was sent has passed.
Fin ==
    /\ ~past.ended
    /\ \A d \in Sides : past.wire[d] = <<>>
    /\ self' = FinDir(FinDir(self, "Initiator"), "Responder")
    /\ past' = [past EXCEPT !.ended = TRUE]

\* The session is rebuilt for a connection that may follow.
Rst ==
    /\ ~past.ended
    /\ \A d \in Sides : past.wire[d] = <<>>
    /\ self' = NewParser
    /\ past' = [past EXCEPT !.ended = TRUE, !.reset = TRUE]

Next ==
    \/ \E d \in Sides : \E n \in 0 .. Len(Script(Peer(d))) : Send(d, n)
    \/ \E d \in Sides : \E n \in Cuts \cup {Len(past.wire[d])} : Feed(d, n)
    \/ Fin
    \/ Rst

-----------------------------------------------------------------------------
Spoilt(d) == {i \in DOMAIN past.sent[d] : Script(d)[i].fails}
Begun(d, i) == past.sent[d][i].from < past.pos[d]

\* A list of fields that was refused was not sent.
Due(d) ==
    LET whole == Passed(d, past.pos[d]) \ Spoilt(d)
    IN FlattenSeq([i \in DOMAIN past.sent[d] |->
          IF i \in whole /\ past.sent[d][i].from < past.sent[d][i].to THEN Reports(d, Script(d)[i]) ELSE <<>>])

(***************************************************************************)
(* The observer reports what the peers sent: every field list decoded to   *)
(* the fields that were encoded, for the stream its block describes, heads *)
(* before trailers, bodies and ends in order, however frames are cut and   *)
(* directions interleave, across evictions and changes of the table size;  *)
(* it fails only on a frame that breaks the framing rules, and then        *)
(* reports nothing after it (Http2Parser).                                 *)
(*                                                                         *)
(* Three cases are left out.  Once a block passes after a lowering of the  *)
(* table size that its sender had not read (`raced`), nothing is said: the *)
(* parser applies the size when it sees it (stream.rs:621) and the tables  *)
(* part.  No script has trailers of the client after the server's          *)
(* END_STREAM, which forgets the stream and makes them a head              *)
(* (stream.rs:768).  None has the final head after a 1xx, or the response  *)
(* head of a promised stream after the promise, which mark_head            *)
(* (stream.rs:741) makes Trailers although no DATA came before it (:94).   *)
(***************************************************************************)
StreamsAsSent ==
    ~past.raced =>
        /\ \A d \in Sides : IF self.error = None /\ ~past.reset THEN past.told[d] = Due(d) ELSE IsPrefix(past.told[d], Due(d))
        /\ self.error # None => \E d \in Sides : \E i \in Spoilt(d) : Begun(d, i)
        /\ ~past.ended /\ (\E d \in Sides : Spoilt(d) \cap Passed(d, past.pos[d]) # {}) => self.error # None
=============================================================================
