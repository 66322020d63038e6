----------------------------- MODULE DnsQueries -----------------------------
(***************************************************************************)
(* DNS over UDP: dns/correlator.rs (the table of queries waiting for their *)
(* answer), dns/datagram.rs and dns/exchange.rs (one exchange per answer   *)
(* and per query that timed out).  A query is known by its number in the   *)
(* order they were asked; `asked[n]` is what went over the wire.  Answers  *)
(* come late, twice or never, and ids are reused.                          *)
(*                                                                         *)
(* self   the correlator's pending map: transaction id |-> query number    *)
(* past   the queries asked; how each ended; the last exchange             *)
(***************************************************************************)
EXTENDS Naturals, Sequences, FiniteSets

CONSTANTS Ids, Times, QueryTimeout, MaxPending, MaxQueries, None

VARIABLES self, past

Elapsed(now, then) == IF now > then THEN now - then ELSE 0

Init ==
    /\ self = [pending |-> <<>>]
    /\ past = [asked |-> <<>>, ends |-> <<>>, out |-> {}]

-----------------------------------------------------------------------------
Without(pending, ids) == [i \in DOMAIN pending \ ids |-> pending[i]]

\* The oldest query makes room in a full map: any one of the oldest.
Room(pending) ==
    IF Cardinality(DOMAIN pending) < MaxPending THEN {pending}
    ELSE IF pending = <<>> THEN {pending}
    ELSE {Without(pending, {i}) :
            i \in {i \in DOMAIN pending : \A j \in DOMAIN pending :
                     past.asked[pending[i]].ts <= past.asked[pending[j]].ts}}

Inserted(pending, id, n) ==
    [i \in DOMAIN pending \cup {id} |-> IF i = id THEN n ELSE pending[i]]

\* The queries ns end as `how`; the queries of `before` that `after` lacks.
Ended(ends, ns, how) == [n \in DOMAIN ends |-> IF n \in ns THEN Append(ends[n], how) ELSE ends[n]]

Lost(before, after) == {before[i] : i \in DOMAIN before} \ {after[i] : i \in DOMAIN after}

\* DnsUdpParser::parse of a query: record_query.
Query(id, ts) ==
    /\ Len(past.asked) < MaxQueries
    /\ \E room \in Room(self.pending), n \in {Len(past.asked) + 1} :
          LET ends == Ended(past.ends, Lost(self.pending, room), "displaced")
          IN /\ self' = [pending |-> Inserted(room, id, n)]
             /\ past' = [asked |-> Append(past.asked, [id |-> id, ts |-> ts]),
                         ends  |-> Append(Ended(ends, Lost(room, self'.pending), "overwritten"), <<>>),
                         out   |-> {}]

\* Mutant: the query stays after its answer.
MatchAndKeep(id) == self.pending

\* match_response: the query goes.
MatchAndRemove(id) == Without(self.pending, {id})

\* DnsUdpParser::parse of the answer to query a, and the exchange it makes:
\* matched by transaction id alone, elapsed and query_ts from the match.
Response(a, ts) ==
    LET id    == past.asked[a].id
        match == IF id \in DOMAIN self.pending THEN self.pending[id] ELSE None
        took  == IF match = None THEN None ELSE Elapsed(ts, past.asked[match].ts)
    IN /\ self' = [pending |-> MatchAndRemove(id)]
       /\ past' = [past EXCEPT
             !.ends = Ended(@, {match}, "answered"),
             !.out  = {[answers |-> a, query |-> match, elapsed |-> took, response_ts |-> ts,
                        query_ts |-> IF took = None THEN ts ELSE ts - took]}]

\* on_tick: sweep.
Tick(now) ==
    LET late == {i \in DOMAIN self.pending :
                   Elapsed(now, past.asked[self.pending[i]].ts) >= QueryTimeout}
    IN /\ self' = [pending |-> Without(self.pending, late)]
       /\ past' = [past EXCEPT
             !.ends = Ended(@, {self.pending[i] : i \in late}, "no_response"),
             !.out  = {[answers |-> None, query |-> self.pending[i], elapsed |-> None,
                        response_ts |-> None, query_ts |-> past.asked[self.pending[i]].ts] : i \in late}]

Next ==
    \/ \E id \in Ids, ts \in Times : Query(id, ts)
    \/ \E a \in 1..Len(past.asked), ts \in Times : Response(a, ts)
    \/ \E now \in Times : Tick(now)

-----------------------------------------------------------------------------
Waiting(n) == \E i \in DOMAIN self.pending : self.pending[i] = n

\* The query an exchange was asked to be about lost its place to a later one.
Reused(n) == \E m \in (n + 1)..Len(past.asked) : past.asked[m].id = past.asked[n].id

(***************************************************************************)
(* A query ends once: answered, timed out, overwritten by a reuse of its   *)
(* id or displaced from a full table, and it waits exactly while it has    *)
(* not ended.  An answer is timed from the query it answers, unless the id *)
(* was reused since; a second answer is reported without a time.           *)
(* (Correlator, DnsUdpParser, DnsExchangeParser.)                          *)
(***************************************************************************)
QueryEndsOnce ==
    /\ \A n \in 1..Len(past.asked) :
          /\ Len(past.ends[n]) <= 1
          /\ Waiting(n) <=> past.ends[n] = <<>>
          /\ Waiting(n) => ~Reused(n)
    /\ \A x \in past.out :
          x.query # None =>
            /\ x.answers # None => (x.answers = x.query \/ Reused(x.answers))
            /\ x.query_ts <= past.asked[x.query].ts
            /\ x.elapsed # None => x.query_ts + x.elapsed = x.response_ts
    /\ Cardinality(DOMAIN self.pending) <= (IF MaxPending = 0 THEN 1 ELSE MaxPending)
=============================================================================
