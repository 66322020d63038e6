--------------------------- MODULE HttpTelemetry ---------------------------
(***************************************************************************)
(* HttpParser and HttpExchangeParser (src/src/http/session.rs and          *)
(* exchange.rs) on the two byte streams of one connection, each delivered  *)
(* in any cuts, with gaps, until the flow ends.  A response follows the    *)
(* head of its request.  `self` is the parser and `past` what was sent,    *)
(* received and reported.                                                  *)
(***************************************************************************)
EXTENDS HttpEngine

CONSTANTS Scenarios,    \* the connections, laid out as messages and as bytes
          Kinds, MaxBuffer, GapSizes

VARIABLES self, past

vars == <<self, past>>

Sent == Scenarios[past.scenario].sent
Wired == Scenarios[past.scenario].wire

-----------------------------------------------------------------------------
(* HttpParser                                                              *)

Partial(head) == [head |-> head, body |-> <<>>, trailers |-> 0, overflowed |-> FALSE]
Message(p) == [id |-> p.head.id, body |-> p.body, trailers |-> p.trailers]

NewParser == [engine |-> NewEngine("Observe"), partial |-> [d \in Dirs |-> None]]

Grown(p, decoded) ==
    CASE p = None -> None
      [] Len(p.body) + Len(decoded) > MaxBuffer -> [p EXCEPT !.overflowed = TRUE, !.body = <<>>]
      [] p.overflowed -> p
      [] OTHER -> [p EXCEPT !.body = @ \o decoded]

\* The parser and the messages it emits.
Emits(p, out) == [p |-> p, out |-> out]

Finish(p, d) ==
    Emits([p EXCEPT !.partial[d] = None], IF p.partial[d] = None THEN <<>> ELSE <<Message(p.partial[d])>>)

Absorb(p, d, ev) ==
    CASE ev.kind = "Head" -> Emits([p EXCEPT !.partial[d] = Partial(ev.head)], <<>>)
      [] ev.kind = "Body" -> Emits([p EXCEPT !.partial[d] = Grown(@, ev.decoded)], <<>>)
      [] ev.kind = "Trailers" ->
           Emits([p EXCEPT !.partial[d] =
                    IF @ = None THEN @ ELSE [@ EXCEPT !.trailers = @ + Len(ev.decoded)]], <<>>)
      [] ev.kind = "End" -> Finish(p, d)
      [] ev.kind = "Switch" -> Emits([p EXCEPT !.partial = [x \in Dirs |-> None]], <<>>)

\* What the engine answers to a poll: the draining goes on, or ends.
GoesOn(step) == [ends |-> FALSE, p |-> step.p, out |-> step.out]

Absorbed(p, d, polled) ==
    CASE polled.ev = None -> [ends |-> TRUE, p |-> p, out |-> <<>>]
      [] polled.ev # None /\ polled.ev.kind = "Err" -> [ends |-> TRUE, p |-> [p EXCEPT !.partial[d] = None], out |-> <<>>]
      [] OTHER -> GoesOn(Absorb(p, d, polled.ev))

Polled(p, d, polled) == Absorbed([p EXCEPT !.engine = polled.e], d, polled)

RECURSIVE DrainOn(_, _, _)
DrainOn(step, d, out) ==
    IF step.ends THEN Emits(step.p, out \o step.out)
    ELSE DrainOn(Polled(step.p, d, Poll(step.p.engine, d)), d, out \o step.out)

Drain(p, d) == DrainOn(GoesOn(Emits(p, <<>>)), d, <<>>)

FeedParser(p, d, bytes) == Drain([p EXCEPT !.engine = Push(@, d, bytes)], d)

FinishAtEof(p, d) ==
    LET fin == Fin(p.engine, d)
        q   == [p EXCEPT !.engine = fin.e]
    IN Finish(IF fin.ev = None THEN q ELSE Absorb(q, d, fin.ev).p, d)

OnGapParser(p, d) ==
    IF IsTunnelled(p.engine) THEN p
    ELSE [p EXCEPT !.engine = Resync(@, d), !.partial[d] = None]

RstParser(p, d) == [p EXCEPT !.engine = Reset(@, d), !.partial[d] = None]

-----------------------------------------------------------------------------
(* HttpExchangeParser: requests wait for their response in order           *)

NewExchanges(kind) == [kind |-> kind, inner |-> NewParser, pending |-> <<>>, reset |-> <<>>, stopped |-> FALSE]

Exchange(request, response, outcome) == [request |-> request, response |-> response, outcome |-> outcome]

\* Responses take the requests that wait, the first first; one too many is
\* dropped.
Matched(pending, responses) ==
    [i \in 1 .. Min({Len(pending), Len(responses)}) |-> Exchange(pending[i], responses[i].id, "Completed")]

Ids(messages) == [i \in DOMAIN messages |-> messages[i].id]

FeedInitiator(x, fed) ==
    [x |-> [x EXCEPT !.inner = fed.p, !.pending = @ \o Ids(fed.out)], messages |-> fed.out, exchanges |-> <<>>]

FeedResponder(x, fed) ==
    LET pairs == Matched(x.pending, fed.out)
    IN [x |-> [x EXCEPT !.inner = fed.p, !.pending = SubSeq(@, Len(pairs) + 1, Len(@))],
        messages |-> fed.out, exchanges |-> pairs]

FinInitiator(x) ==
    LET fin == FinishAtEof(x.inner, "Request")
    IN [x |-> [x EXCEPT !.inner = fin.p], messages |-> fin.out, exchanges |-> <<>>]

\* Mutant: a FIN reports only the exchanges that were reset.
FinResponderAlone(x) ==
    LET fin == FinishAtEof(x.inner, "Response")
    IN [x |-> [x EXCEPT !.inner = fin.p, !.pending = <<>>, !.reset = <<>>], messages |-> fin.out,
        exchanges |-> [i \in DOMAIN x.reset |-> Exchange(x.reset[i], None, "Reset")]]

FinResponder(x) ==
    LET fin   == FinishAtEof(x.inner, "Response")
        pairs == Matched(x.pending, fin.out)
        left  == SubSeq(x.pending, Len(pairs) + 1, Len(x.pending))
    IN [x |-> [x EXCEPT !.inner = fin.p, !.pending = <<>>, !.reset = <<>>], messages |-> fin.out,
        exchanges |-> pairs \o [i \in DOMAIN x.reset |-> Exchange(x.reset[i], None, "Reset")]
                            \o [i \in DOMAIN left |-> Exchange(left[i], None, "NoResponse")]]

ResetPending(x) == [x EXCEPT !.reset = @ \o x.pending, !.pending = <<>>]

Rst(x, d) ==
    IF x.kind = "exchange" THEN ResetPending(x) ELSE [x EXCEPT !.inner = RstParser(@, d)]

-----------------------------------------------------------------------------
Init ==
    \E k \in Kinds, s \in DOMAIN Scenarios :
        /\ self = NewExchanges(k)
        /\ past = [scenario |-> s, pos |-> [d \in Dirs |-> 0], gap |-> [d \in Dirs |-> None],
                   messages |-> [d \in Dirs |-> <<>>], exchanges |-> <<>>,
                   early |-> FALSE, desynced |-> {}, ended |-> None]

\* A peer answers a request only once it has its head.
Answerable(upto) ==
    \A i \in DOMAIN Sent["Response"] :
        LET r == Sent["Response"][i]
        IN r.from < upto => Sent["Request"][r.msg.answers].head <= past.pos["Request"]

\* A response is whole before its request is.
Early(upto) ==
    \E i \in DOMAIN Sent["Response"] :
        LET r == Sent["Response"][i]
        IN r.to <= upto /\ Sent["Request"][r.msg.answers].to > past.pos["Request"]

Told(d, step, upto) ==
    /\ self' = step.x
    /\ past' = [past EXCEPT !.pos[d] = upto, !.messages[d] = @ \o step.messages,
                            !.exchanges = @ \o step.exchanges,
                            !.early = @ \/ (d = "Response" /\ Early(upto)),
                            !.desynced = IF self'.inner.engine.dir[d].poison = None THEN @ ELSE @ \cup {d}]

Feed(d, n) ==
    LET upto  == past.pos[d] + n
        bytes == SubSeq(Wired[d], past.pos[d] + 1, upto)
    IN /\ past.ended = None
       /\ ~self.stopped
       /\ upto <= Len(Wired[d])
       /\ d = "Response" => Answerable(upto)
       /\ \E fed \in {FeedParser(self.inner, d, bytes)} :
            Told(d, IF d = "Request" THEN FeedInitiator(self, fed) ELSE FeedResponder(self, fed), upto)

\* n bytes of a direction were never captured.
OnGap(d, n) ==
    LET upto == past.pos[d] + n
    IN /\ past.ended = None
       /\ ~self.stopped
       /\ \A x \in Dirs : past.gap[x] = None
       /\ upto <= Len(Wired[d])
       /\ d = "Response" => Answerable(upto)
       /\ self' = IF self.kind = "exchange" THEN [self EXCEPT !.stopped = TRUE]
                  ELSE [self EXCEPT !.inner = OnGapParser(@, d)]
       /\ past' = [past EXCEPT !.pos[d] = upto, !.gap[d] = [from |-> past.pos[d], to |-> upto]]

\* The flow ends: each side by fin_* or rst_*, the initiator's first.
End(how) ==
    LET first  == IF how["Request"] = "fin" THEN FinInitiator(self)
                  ELSE [x |-> Rst(self, "Request"), messages |-> <<>>, exchanges |-> <<>>]
        second == IF how["Response"] = "fin" THEN FinResponder(first.x)
                  ELSE [x |-> Rst(first.x, "Response"), messages |-> <<>>, exchanges |-> <<>>]
    IN /\ past.ended = None
       /\ ~self.stopped
       /\ self' = second.x
       /\ past' = [past EXCEPT !.ended = how,
                               !.messages["Request"] = @ \o first.messages,
                               !.messages["Response"] = @ \o second.messages,
                               !.exchanges = @ \o second.exchanges]

Next ==
    \/ \E d \in Dirs : \E n \in 1 .. Len(Wired[d]) : Feed(d, n)
    \/ \E d \in Dirs, n \in GapSizes : OnGap(d, n)
    \/ \E how \in [Dirs -> {"fin", "rst"}] : End(how)

-----------------------------------------------------------------------------
(* What an observer who sees all that was sent would report                *)

Interim(r) == r.msg.head.dir = "Response" /\ r.msg.head.status \in 100..199
Switches(r) == r.msg.switch \/ r.msg.kind # "http"
Whole(r) == ~Interim(r) /\ ~Switches(r) /\ r.msg.coding # "close"

DataIn(bytes) == SelectSeq(bytes, LAMBDA t : t.is = "data")
Between(d, from, to) == SubSeq(Wired[d], from + 1, to)

Report(d, r, upto) ==
    LET body == DataIn(Between(d, r.head, upto))
    IN [id |-> r.msg.head.id, body |-> IF Len(body) > MaxBuffer THEN <<>> ELSE body,
        trailers |-> IF upto = r.to THEN r.msg.trailers ELSE 0]

\* Message k is one that begins after the gap, if there was one.
After(d, k) == past.gap[d] # None /\ Sent[d][k].from >= past.gap[d].to
BeginsLine(d, k) == Sent[d][k].from = past.gap[d].to \/ Wired[d][Sent[d][k].from].is = "lf"

\* Messages at which a direction may be picked up after a gap: not later
\* than at the first that begins a line.
PickUps(d) ==
    IF past.gap[d] = None THEN {1}
    ELSE {k \in 1 .. Len(Sent[d]) + 1 :
            /\ k \in DOMAIN Sent[d] => After(d, k)
            /\ \A j \in 1 .. k - 1 : After(d, j) => ~BeginsLine(d, j)}

Readable(d, k, pickup) == IF After(d, k) THEN k >= pickup
                          ELSE past.gap[d] = None \/ Sent[d][k].to <= past.gap[d].from

Reports(d, pickup) ==
    LET seen == {k \in DOMAIN Sent[d] :
                    Whole(Sent[d][k]) /\ Sent[d][k].to <= past.pos[d] /\ Readable(d, k, pickup)}
        in_order == SetToSortSeq(seen, <)
    IN [i \in DOMAIN in_order |-> Report(d, Sent[d][in_order[i]], Sent[d][in_order[i]].to)]

\* The message a FIN cuts short, or ends.
Unfinished(d, pickup) ==
    LET begun == {k \in DOMAIN Sent[d] :
                    /\ Sent[d][k].head <= past.pos[d]
                    /\ After(d, k) \/ past.gap[d] = None
                    /\ k >= pickup}
        r     == Sent[d][Max(begun)]
    IN IF begun = {} \/ Switches(r) \/ (Whole(r) /\ r.to <= past.pos[d]) THEN <<>>
       ELSE <<Report(d, r, Min({past.pos[d], r.to}))>>

\* No limit was met, and no answer had to be framed without its request.
Undisturbed(d) ==
    /\ d \notin past.desynced
    /\ d = "Response" =>
          \/ past.gap["Request"] = None /\ past.gap["Response"] = None
          \/ \A r \in ToSet(Sent["Request"]) : r.msg.head.method \notin {"HEAD", "CONNECT"}

(***************************************************************************)
(* The messages reported are those sent, whole and in order, however the   *)
(* streams are cut and interleaved: none is lost, repeated, merged with    *)
(* its neighbour or reported early; after a gap reporting goes on at the   *)
(* next message that begins a line; and a FIN reports the message it ends  *)
(* with what was received of it.  (HttpParser over Engine.)                *)
(***************************************************************************)
MessagesAsSent ==
    \A d \in Dirs : Undisturbed(d) =>
        \E k \in PickUps(d) :
            past.messages[d] = Reports(d, k) \o (IF past.ended # None /\ past.ended[d] = "fin"
                                                THEN Unfinished(d, k) ELSE <<>>)

(***************************************************************************)
(* Every exchange joins a request with its own response, in the order of   *)
(* the requests, each request and each response at most once; and when the *)
(* responder's side ends with a FIN every whole request has been reported. *)
(* Left out: that the response is the request's own once a response was    *)
(* whole before its request.  exchange.rs:130 drops that response and      *)
(* joins each later one with the request before its own, where             *)
(* exchange.rs:3-4 promises correlation.                                   *)
(***************************************************************************)
ExchangesPair ==
    (self.kind = "exchange" /\ \A d \in Dirs : Undisturbed(d) /\ past.gap[d] = None) =>
        LET requests == Ids(Reports("Request", 1))
            answers(id) == \E r \in ToSet(Sent["Response"]) :
                              r.msg.head.id = id[2] /\ Sent["Request"][r.msg.answers].msg.head.id = id[1]
        IN /\ IsPrefix([i \in DOMAIN past.exchanges |-> past.exchanges[i].request], requests)
           /\ \A x \in ToSet(past.exchanges) : x.outcome = "Completed" /\ ~past.early => answers(<<x.request, x.response>>)
           /\ \A i, j \in DOMAIN past.exchanges :
                  past.exchanges[i].outcome = "Completed" /\ past.exchanges[j].outcome = "Completed" /\ i # j =>
                      past.exchanges[i].response # past.exchanges[j].response
           /\ past.ended # None /\ past.ended["Response"] = "fin" => Len(past.exchanges) = Len(requests)
=============================================================================
