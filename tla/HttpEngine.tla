----------------------------- MODULE HttpEngine -----------------------------
(***************************************************************************)
(* The HTTP/1.x framing engine (src/src/http/engine.rs): two directions,   *)
(* each with a buffer and a framing state, and the requests whose response *)
(* is still to come.  A byte stream is a sequence of tokens [is, of]: a    *)
(* "line" is a start line with the head's fields summed up in `of`, "cr"   *)
(* and "lf" are themselves, "size" is a chunk size, "field" a header or    *)
(* trailer line, "data" a body byte, "pri" and "sm" the two words of the   *)
(* HTTP/2 preface.  Lengths and limits count tokens.                       *)
(***************************************************************************)
EXTENDS Naturals, Sequences, SequencesExt, FiniteSetsExt

CONSTANTS None, MaxHead, MaxChunkLine, MaxTrailer, MaxPipelined, MaxPartialLine

Dirs == {"Request", "Response"}

At(state, left) == [at |-> state, left |-> left]
Head_ == At("Head", 0)

NewDir == [buf |-> <<>>, state |-> Head_, poison |-> None, close_after_message |-> FALSE, scanned |-> 0]
NewEngine(policy) ==
    [dir |-> [d \in Dirs |-> NewDir], pending |-> <<>>, pending_switch |-> None, policy |-> policy]

-----------------------------------------------------------------------------
(* Scanning, from where the last scan stopped                              *)

Is(buf, i, what) == i \in DOMAIN buf /\ buf[i].is = what
Back(scanned, n) == IF scanned > n THEN scanned - n ELSE 0
LeastOf(S) == IF S = {} THEN None ELSE Min(S)

\* Mutant: a blank line that the last scan saw the beginning of is missed.
ScanBlankLineOnward(buf, scanned) ==
    LeastOf({i \in scanned + 1 .. Len(buf) :
               /\ Is(buf, i, "lf")
               /\ \/ i > scanned + 1 /\ Is(buf, i - 1, "lf")
                  \/ i > scanned + 3 /\ Is(buf, i - 1, "cr") /\ Is(buf, i - 2, "lf") /\ Is(buf, i - 3, "cr")})

ScanBlankLine(buf, scanned) ==
    LeastOf({i \in Back(scanned, 3) + 1 .. Len(buf) :
               /\ Is(buf, i, "lf")
               /\ \/ Is(buf, i - 1, "lf")
                  \/ Is(buf, i - 1, "cr") /\ Is(buf, i - 2, "lf") /\ Is(buf, i - 3, "cr")})

FindCrlfFrom(buf, from) ==
    LeastOf({i \in from .. Len(buf) : Is(buf, i + 1, "cr") /\ Is(buf, i + 2, "lf")})

ScanCrlf(buf, scanned) == FindCrlfFrom(buf, Back(scanned, 1))

RECURSIVE SectionEnd(_, _)
SectionEnd(buf, pos) ==
    LET eol == FindCrlfFrom(buf, pos)
    IN CASE eol = None -> None
         [] eol = pos -> eol + 2
         [] OTHER -> SectionEnd(buf, eol + 2)

ScanTrailerEnd(buf) ==
    LET first == FindCrlfFrom(buf, 0) IN IF first = None THEN None ELSE SectionEnd(buf, first + 2)

H2Preface == <<"pri", "cr", "lf", "cr", "lf", "sm", "cr", "lf", "cr", "lf">>

PrefaceMatch(buf) ==
    CASE \E i \in 1 .. Min({Len(buf), Len(H2Preface)}) : buf[i].is # H2Preface[i] -> "No"
      [] Len(buf) >= Len(H2Preface) -> "Yes"
      [] OTHER -> "Partial"

LooksLikeHead(d, line) == line # <<>> /\ line[1].is = "line" /\ line[1].of.dir = d

-----------------------------------------------------------------------------
(* Framing rules: te and cl are the values of the head's Transfer-Encoding *)
(* and Content-Length headers, each a list (None: not a number)            *)

FramingHeaders(h, policy) ==
    LET observe  == policy = "Observe"
        codings  == FlattenSeq(h.te)
        n        == Len(codings)
        chunked  == IF observe THEN "chunked" \in ToSet(codings) ELSE n > 0 /\ codings[n] = "chunked"
        parts    == FlattenSeq(h.cl)
        lengths  == SelectSeq(parts, LAMBDA v : v # None)
        failing  ==
            CASE observe -> None
              [] Len(h.te) > 1 -> "DuplicateTransferEncoding"
              [] \E i \in 1..n : /\ codings[i] \notin {"chunked", "identity"}
                                 /\ \A j \in 1 .. i - 1 : codings[j] # "chunked" -> "UnknownTransferCoding"
              [] h.te # <<>> /\ (~chunked \/ \E i \in 1 .. n - 1 : codings[i] = "chunked") -> "NonFinalChunked"
              [] None \in ToSet(parts) -> "InvalidContentLength"
              [] lengths = <<>> /\ h.cl # <<>> /\ ~chunked -> "InvalidContentLength"
              [] \E i \in DOMAIN lengths : lengths[i] # lengths[1] -> "ConflictingContentLength"
              [] chunked /\ lengths # <<>> /\ policy = "Strict" -> "ContentLengthWithTransferEncoding"
              [] OTHER -> None
    IN [err |-> failing, chunked |-> chunked,
        length |-> IF chunked \/ lengths = <<>> THEN None ELSE lengths[1]]

Framed(f, otherwise) ==
    CASE f.chunked -> At("Size", 0)
      [] f.length = None -> otherwise
      [] OTHER -> At("Length", f.length)

RequestFraming(h, policy) ==
    LET f == FramingHeaders(h, policy) IN [err |-> f.err, body |-> Framed(f, At("Length", 0))]

ResponseFraming(h, is_head, policy) ==
    LET f == FramingHeaders(h, policy)
    IN IF is_head \/ h.status \in (100..199) \cup {204, 304}
       THEN [err |-> None, body |-> At("Length", 0)]
       ELSE [err |-> f.err, body |-> Framed(f, At("UntilClose", 0))]

SignalsClose(h) ==
    "close" \in h.connection \/ (h.version = 0 /\ "keep-alive" \notin h.connection)

-----------------------------------------------------------------------------
(* A step answers with the engine after it and the event it reports, if    *)
(* any; an event carries the bytes it stands for (raw) and what they       *)
(* decode to                                                               *)

Says(e, ev) == [e |-> e, ev |-> ev]
Event(kind, raw, decoded, head) == [kind |-> kind, raw |-> raw, decoded |-> decoded, head |-> head]

Enter(e, d, state) == [e EXCEPT !.dir[d].state = state]
Scanned(e, d, n) == [e EXCEPT !.dir[d].scanned = n]

TakeFrom(m, n) == [m EXCEPT !.buf = SubSeq(@, n + 1, Len(@)), !.scanned = Back(@, n)]
Take(e, d, n) == [e EXCEPT !.dir[d] = TakeFrom(@, n)]

Desync(e, d, reason) ==
    Says([e EXCEPT !.dir[d] = [@ EXCEPT !.state = At("Desynced", 0), !.poison = reason,
                                        !.buf = <<>>, !.scanned = 0]],
         Event("Err", <<>>, <<>>, None))

\* Mutant: what came with the switch is dropped.
SwitchEmptied(e) ==
    [e EXCEPT !.dir = [d \in Dirs |-> [@[d] EXCEPT !.state = At("Tunnel", 0), !.buf = <<>>]], !.pending = <<>>]

SwitchToTunnel(e) ==
    [e EXCEPT !.dir = [d \in Dirs |-> [@[d] EXCEPT !.state = At("Tunnel", 0)]], !.pending = <<>>]

CanConsume(e, d) == e.dir[d].state.at \notin {"Desynced", "Closed", "Tunnel"}

Push(e, d, bytes) == IF CanConsume(e, d) THEN [e EXCEPT !.dir[d].buf = @ \o bytes] ELSE e

Resync(e, d) ==
    IF e.dir[d].state.at \in {"Tunnel", "Closed"} THEN e
    ELSE [e EXCEPT !.dir[d] = [NewDir EXCEPT !.state = At("Resync", 0)]]

Reset(e, d) ==
    [e EXCEPT !.dir[d] = NewDir, !.pending = IF d = "Request" THEN <<>> ELSE @]

Fin(e, d) ==
    LET m == e.dir[d]
    IN CASE m.state.at = "UntilClose" ->
              Says(Enter(Take(e, d, Len(m.buf)), d, At("Closed", 0)), Event("Body", m.buf, m.buf, None))
         [] m.state.at \in {"Desynced", "Tunnel"} -> Says(e, None)
         [] OTHER -> Says(Enter(e, d, At("Closed", 0)), None)

IsTunnelled(e) == e.dir["Request"].state.at = "Tunnel"

-----------------------------------------------------------------------------
(* Heads                                                                   *)

RequestHead(e, h, raw) ==
    LET f == RequestFraming(h, e.policy)
    IN CASE e.policy # "Observe" /\ h.flaw = "DuplicateHost" -> Desync(e, "Request", "DuplicateHost")
         [] f.err # None -> Desync(e, "Request", f.err)
         [] Len(e.pending) >= MaxPipelined -> Desync(e, "Request", "PipelineOverflow")
         [] OTHER ->
              Says([e EXCEPT !.pending = Append(@, h.method),
                             !.dir["Request"].close_after_message = SignalsClose(h),
                             !.dir["Request"].state = f.body],
                   Event("Head", raw, <<>>, h))

FinishResponseHead(e, h, raw) ==
    LET ctx    == IF e.pending = <<>> THEN None ELSE e.pending[1]
        popped == [e EXCEPT !.pending = IF @ = <<>> THEN @ ELSE Tail(@)]
        f      == ResponseFraming(h, ctx = "HEAD", e.policy)
        switch(kind) == Says([popped EXCEPT !.pending_switch = kind,
                                            !.dir["Response"].state = At("Length", 0)],
                             Event("Head", raw, <<>>, h))
    IN CASE h.status = 101 -> switch("Upgrade")
         [] h.status \in 100..199 -> Says(Enter(e, "Response", Head_), Event("Head", raw, <<>>, h))
         [] ctx = None /\ e.policy # "Observe" -> Desync(popped, "Response", "UnexpectedResponse")
         [] ctx = "CONNECT" /\ h.status \in 200..299 -> switch("ConnectTunnel")
         [] f.err # None -> Desync(popped, "Response", f.err)
         [] OTHER ->
              Says([popped EXCEPT !.dir["Response"].close_after_message = SignalsClose(h),
                                  !.dir["Response"].state = f.body],
                   Event("Head", raw, <<>>, h))

\* httparse passes over empty lines before a start line.
StartLine(region) ==
    LET first == LeastOf({i \in DOMAIN region : region[i].is \notin {"cr", "lf"}})
    IN IF first = None THEN None ELSE region[first]

Parses(region, d) ==
    LET first == StartLine(region)
    IN first # None /\ first.is = "line" /\ first.of.dir = d /\ first.of.flaw # "Malformed"

PollHead(e, d) ==
    LET m    == e.dir[d]
        hlen == ScanBlankLine(m.buf, m.scanned)
        raw  == SubSeq(m.buf, 1, hlen)
        h    == StartLine(raw).of
    IN CASE d = "Request" /\ PrefaceMatch(m.buf) = "Yes" ->
              Says(SwitchToTunnel(e), Event("Switch", <<>>, <<>>, None))
         [] d = "Request" /\ PrefaceMatch(m.buf) = "Partial" -> Says(e, None)
         [] hlen = None ->
              IF Len(m.buf) > MaxHead THEN Desync(e, d, "HeadOverflow")
              ELSE Says(Scanned(e, d, Len(m.buf)), None)
         [] hlen > MaxHead -> Desync(e, d, "HeadOverflow")
         [] /\ e.policy # "Observe"
            /\ StartLine(raw) # None
            /\ StartLine(raw).is = "line"
            /\ h.flaw \in {"BareCr", "ObsFold"} -> Desync(e, d, h.flaw)
         [] ~Parses(raw, d) -> Desync(e, d, "MalformedHead")
         [] d = "Request" -> RequestHead(Take(Scanned(e, d, hlen), d, hlen), h, raw)
         [] OTHER -> FinishResponseHead(Take(Scanned(e, d, hlen), d, hlen), h, raw)

-----------------------------------------------------------------------------
(* Bodies                                                                  *)

Body(e, d, n, decodes, next) ==
    LET raw == SubSeq(e.dir[d].buf, 1, n)
    IN Says(Enter(Take(e, d, n), d, next), Event("Body", raw, IF decodes THEN raw ELSE <<>>, None))

PollTrailer(e, d) ==
    LET buf == e.dir[d].buf
        end == ScanTrailerEnd(buf)
        raw == SubSeq(buf, 1, end)
    IN CASE end = None ->
              IF Len(buf) > MaxTrailer THEN Desync(e, d, "TrailerOverflow")
              ELSE Says(Scanned(Enter(e, d, At("Trailer", 0)), d, Len(buf)), None)
         [] end > MaxTrailer -> Desync(e, d, "TrailerOverflow")
         [] OTHER ->
              Says(Enter(Take(Scanned(e, d, 0), d, end), d, At("Length", 0)),
                   Event("Trailers", raw, SelectSeq(raw, LAMBDA t : t.is = "field"), None))

PollSize(e, d) ==
    LET m   == e.dir[d]
        eol == ScanCrlf(m.buf, m.scanned)
    IN CASE eol = None ->
              IF Len(m.buf) > MaxChunkLine THEN Desync(e, d, "ChunkLineOverflow")
              ELSE Says(Scanned(e, d, Len(m.buf)), None)
         [] eol > MaxChunkLine -> Desync(e, d, "ChunkLineOverflow")
         [] eol = 0 \/ ~Is(m.buf, 1, "size") \/ m.buf[1].of = None -> Desync(e, d, "InvalidChunkSize")
         [] m.buf[1].of = 0 -> PollTrailer(Scanned(e, d, eol), d)
         [] OTHER -> Body(Scanned(e, d, eol), d, eol + 2, FALSE, At("Data", m.buf[1].of))

PollBody(e, d) ==
    LET m    == e.dir[d]
        s    == m.state
        have == Len(m.buf)
        n    == Min({s.left, have})
    IN CASE s = At("Length", 0) ->
              IF e.pending_switch # None
              THEN Says(SwitchToTunnel([e EXCEPT !.pending_switch = None]), Event("Switch", <<>>, <<>>, None))
              ELSE Says(Enter(e, d, IF m.close_after_message THEN At("Closed", 0) ELSE Head_),
                        Event("End", <<>>, <<>>, None))
         [] s.at = "Size" -> PollSize(e, d)
         [] s.at = "Trailer" -> PollTrailer(e, d)
         [] s.at = "DataCrlf" ->
              CASE have < 2 -> Says(e, None)
                [] ~(Is(m.buf, 1, "cr") /\ Is(m.buf, 2, "lf")) -> Desync(e, d, "MalformedChunkTerminator")
                [] OTHER -> Body(e, d, 2, FALSE, At("Size", 0))
         [] have = 0 -> Says(e, None)
         [] s.at = "Length" -> Body(e, d, n, TRUE, At("Length", s.left - n))
         [] s.at = "UntilClose" -> Body(e, d, have, TRUE, s)
         [] s.at = "Data" -> Body(e, d, n, TRUE, IF n = s.left THEN At("DataCrlf", 0) ELSE At("Data", s.left - n))

-----------------------------------------------------------------------------
(* Polling                                                                 *)

FindHead(e, d) ==
    LET buf   == e.dir[d].buf
        ends  == {i \in DOMAIN buf : buf[i].is = "lf"}
        found == LeastOf({i \in {0} \cup ends : LooksLikeHead(d, SubSeq(buf, i + 1, Len(buf)))})
        keep  == SubSeq(buf, Max({0} \cup ends) + 1, Len(buf))
    IN IF found # None
       THEN [e EXCEPT !.dir[d] = [@ EXCEPT !.buf = SubSeq(@, found + 1, Len(@)),
                                           !.scanned = 0, !.state = Head_]]
       ELSE [e EXCEPT !.dir[d].buf = IF Len(keep) > MaxPartialLine THEN <<>> ELSE keep]

Poll(e, d) ==
    LET f == IF e.dir[d].state.at = "Resync" THEN FindHead(e, d) ELSE e
    IN CASE f.dir[d].state.at \in {"Desynced", "Closed", "Tunnel", "Resync"} -> Says(f, None)
         [] f.dir[d].state.at = "Head" -> PollHead(f, d)
         [] OTHER -> PollBody(f, d)

TakeResidue(e, d) == IF IsTunnelled(e) THEN Take(e, d, Len(e.dir[d].buf)) ELSE e
=============================================================================
