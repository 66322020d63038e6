----------------------------- MODULE HttpProxy -----------------------------
(***************************************************************************)
(* HttpProxyParser, driven by an inline proxy that forwards the bytes of   *)
(* each event, and HttpProxySession, which drives it from a flow's         *)
(* streams (src/src/http/proxy.rs).  `self` is the parser, `past` what was *)
(* offered, accepted and reported.                                         *)
(***************************************************************************)
EXTENDS HttpEngine

CONSTANTS Scenarios,    \* the connections, laid out as messages and as bytes
          Policies, Drivers,
          Cuts,         \* how many bytes are offered at once, other than all there are
          MaxBuffered   \* over each of the engine's limits, as in the configurations

VARIABLES self, past

vars == <<self, past>>

Sent == Scenarios[past.scenario].sent
Wired == Scenarios[past.scenario].wire

-----------------------------------------------------------------------------
IsPoisoned(e) == \E d \in Dirs : e.dir[d].state.at = "Desynced"

Taken(e, d, data) ==
    IF IsPoisoned(e) \/ IsTunnelled(e) THEN 0
    ELSE Min({Back(MaxBuffered, Len(e.dir[d].buf)), Len(data)})

PushProxy(e, d, data) == Push(e, d, SubSeq(data, 1, Taken(e, d, data)))

\* Requests first.  An error is not an event: the direction is left poisoned.
RECURSIVE EventIn(_, _)
EventIn(polled, dirs) ==
    CASE polled.ev # None /\ polled.ev.kind # "Err" -> [e |-> polled.e, d |-> dirs[1], ev |-> polled.ev]
      [] Len(dirs) = 1 -> [e |-> polled.e, d |-> None, ev |-> None]
      [] OTHER -> EventIn(Poll(polled.e, dirs[2]), Tail(dirs))

NextEvent(e) == EventIn(Says(e, None), <<None, "Request", "Response">>)

\* What the caller forwards of an event, and where messages begin and end.
Forwarded(seen, step) ==
    LET raw == seen.raw[step.d] \o step.ev.raw
    IN [seen EXCEPT !.raw[step.d] = raw,
                    !.marks[step.d] = IF step.ev.kind \in {"Head", "End"}
                                      THEN Append(@, <<step.ev.kind, Len(raw)>>) ELSE @]

RECURSIVE EventsFrom(_, _)
EventsFrom(step, seen) ==
    IF step.ev = None THEN [e |-> step.e, seen |-> seen]
    ELSE EventsFrom(NextEvent(step.e), Forwarded(seen, step))

EventsOf(e, seen) == EventsFrom(NextEvent(e), seen)

\* HttpProxySession::feed; what it cannot hand over it drops.
Handed(all, d, n, of) ==
    [e |-> all.e, more |-> n \notin {0, of},
     seen |-> [all.seen EXCEPT !.pos[d] = @ + n, !.dropped = IF n = 0 THEN @ \cup {d} ELSE @]]

RECURSIVE FeedAll(_, _, _)
FeedAll(fed, d, data) ==
    LET n == Taken(fed.e, d, data)
    IN IF ~fed.more THEN fed
       ELSE FeedAll(Handed(EventsOf(PushProxy(fed.e, d, data), fed.seen), d, n, Len(data)),
                    d, SubSeq(data, n + 1, Len(data)))

-----------------------------------------------------------------------------
Init ==
    \E policy \in Policies, by \in Drivers, s \in DOMAIN Scenarios :
        /\ self = NewEngine(policy)
        /\ past = [scenario |-> s, by |-> by, pos |-> [d \in Dirs |-> 0], raw |-> [d \in Dirs |-> <<>>],
                   residue |-> [d \in Dirs |-> <<>>], marks |-> [d \in Dirs |-> <<>>],
                   dropped |-> {}, fin |-> {}, reset |-> FALSE]

\* A peer answers a request only once it has its head.
Answerable(d, upto) ==
    d = "Response" =>
        \A i \in DOMAIN Sent[d] :
            Sent[d][i].from < upto => Sent["Request"][Sent[d][i].msg.answers].head <= past.pos["Request"]

Offered(d, n) == SubSeq(Wired[d], past.pos[d] + 1, past.pos[d] + n)

Offer(d, n) ==
    /\ d \notin past.fin \cup past.dropped
    /\ n > 0 /\ past.pos[d] + n <= Len(Wired[d])
    /\ Answerable(d, past.pos[d] + n)

PushSome(d, n) ==
    /\ past.by = "proxy"
    /\ Offer(d, n)
    /\ self' = PushProxy(self, d, Offered(d, n))
    /\ past' = [past EXCEPT !.pos[d] = @ + Taken(self, d, Offered(d, n))]

PollEvent ==
    /\ past.by = "proxy"
    /\ \E step \in {NextEvent(self)} :
         /\ self' = step.e
         /\ past' = IF step.ev = None THEN past ELSE Forwarded(past, step)

TakeTunnelResidue(d) ==
    /\ past.by = "proxy"
    /\ self' = TakeResidue(self, d)
    /\ past' = [past EXCEPT !.residue[d] = IF IsTunnelled(self) THEN @ \o self.dir[d].buf ELSE @]

\* The caller has polled until there was nothing more, as the session does:
\* what is still buffered at a FIN is never framed.  The event of Engine::fin,
\* if any, is not passed on.
FinSide(d) ==
    /\ past.by = "proxy"
    /\ NextEvent(self).ev = None
    /\ d \notin past.fin
    /\ self' = Fin(self, d).e
    /\ past' = [past EXCEPT !.fin = @ \cup {d}]

FeedSession(d, n) ==
    /\ past.by = "session"
    /\ Offer(d, n)
    /\ past.fin = {}
    /\ \E all \in {FeedAll([e |-> self, seen |-> past, more |-> TRUE], d, Offered(d, n))} :
         self' = all.e /\ past' = all.seen

FinSession(d) ==
    /\ past.by = "session"
    /\ d \notin past.fin
    /\ \E all \in {EventsOf(Fin(self, d).e, [past EXCEPT !.fin = @ \cup {d}])} : self' = all.e /\ past' = all.seen

\* The session starts afresh; the flow is over.
RstSession(d) ==
    /\ past.by = "session"
    /\ d \notin past.fin
    /\ self' = NewEngine(self.policy)
    /\ past' = [past EXCEPT !.fin = @ \cup {d}, !.reset = TRUE]

Next ==
    \/ \E d \in Dirs : \E n \in Cuts \cup {Len(Wired[d]) - past.pos[d]} : PushSome(d, n) \/ FeedSession(d, n)
    \/ PollEvent
    \/ \E d \in Dirs : TakeTunnelResidue(d) \/ FinSide(d) \/ FinSession(d) \/ RstSession(d)

-----------------------------------------------------------------------------
Boundaries(d) ==
    FlattenSeq([i \in DOMAIN Sent[d] |->
        CASE Sent[d][i].msg.kind # "http" -> <<>>
          [] d = "Response" /\ Sent[d][i].msg.head.status \in 100..199 \ {101} -> <<(<<"Head", Sent[d][i].head>>)>>
          [] OTHER -> <<(<<"Head", Sent[d][i].head>>), (<<"End", Sent[d][i].to>>)>>])

(***************************************************************************)
(* Forwarding the raw bytes of every event, and of the residue once        *)
(* tunnelled, forwards each direction byte for byte: nothing accepted is   *)
(* lost, doubled or reordered, whatever the cuts and the order of pushes   *)
(* and polls, until the direction is refused or closed; heads and ends     *)
(* fall where the peers put them; and a session turns bytes away only when *)
(* poisoned or tunnelled.  (HttpProxyParser's promise that the raw bytes   *)
(* reproduce the message.)                                                 *)
(***************************************************************************)
ForwardsEveryByte ==
    \A d \in Dirs :
        /\ ~past.reset /\ self.dir[d].state.at \notin {"Desynced", "Closed"} =>
              past.raw[d] \o past.residue[d] \o self.dir[d].buf = SubSeq(Wired[d], 1, past.pos[d])
        /\ IsPrefix(past.raw[d] \o past.residue[d], Wired[d])
        /\ IsPrefix(past.marks[d], Boundaries(d))
        /\ ~past.reset /\ d \in past.dropped => IsPoisoned(self) \/ IsTunnelled(self)
=============================================================================
