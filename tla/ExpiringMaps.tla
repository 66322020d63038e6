---------------------------- MODULE ExpiringMaps ----------------------------
(***************************************************************************)
(* The stores that are one map with a time to live and a bound on keys:    *)
(*                                                                         *)
(*   "indexed"     correlate/indexed.rs         KeyIndexed itself          *)
(*   "flow_state"  correlate/flow_state_map.rs  FlowStateMap (unbounded)   *)
(*   "neighbor"    correlate/neighbor_table.rs  NeighborTable              *)
(*   "analyzer"    analysis/analyzer.rs         FlowAnalyzer's summaries   *)
(*   "resolution"  dns/resolution_cache.rs      DnsResolutionCache         *)
(*   "first_seen"  correlate/first_seen.rs      FirstSeen                  *)
(*                                                                         *)
(* self   the store: its kind and its map                                  *)
(* past   what a store without a bound on its keys would hold: for each    *)
(*        key the entry `plain[k]`, and the keys used since k was          *)
(***************************************************************************)
EXTENDS KeyIndexed

CONSTANTS Keys, Values, Times, Ttl, Capacity, MaxHits, None

VARIABLES self, past

Kinds == {"indexed", "flow_state", "neighbor", "analyzer", "resolution", "first_seen"}

CapacityOf(kind) == IF kind = "flow_state" THEN Cardinality(Keys) ELSE Capacity

Init ==
    /\ \E kind \in Kinds : self = [kind |-> kind, inner |-> EmptyLru]
    /\ past = [plain |-> [k \in Keys |-> None], since |-> [k \in Keys |-> {}]]

-----------------------------------------------------------------------------
\* What the ideal store holds under k, as a caller at `now` sees it.
Fresh(k, now) == past.plain[k] # None /\ Elapsed(now, past.plain[k].ts) <= Ttl

\* The ideal store after the key was written, used or forgotten.
Wrote(k, v, ts) ==
    [plain |-> [past.plain EXCEPT ![k] = [val |-> v, ts |-> ts]],
     since |-> [j \in Keys |-> IF j = k THEN {} ELSE past.since[j] \cup {k}]]

UsedOnly(k) ==
    IF k \in Live(self.inner)
    THEN [past EXCEPT !.since = [j \in Keys |-> IF j = k THEN {} ELSE @[j] \cup {k}]]
    ELSE past

Forgot(ks) == [past EXCEPT !.plain = [k \in Keys |-> IF k \in ks THEN None ELSE @[k]]]

\* The call rewrote the map; the ideal store went to `ideal`.
Became(inner, ideal) == self' = [self EXCEPT !.inner = inner] /\ past' = ideal

-----------------------------------------------------------------------------
\* KeyIndexed::insert.
IndexedInsert(k, v, now) ==
    /\ self.kind = "indexed"
    /\ Became(Insert(self.inner, k, v, now, Capacity), Wrote(k, v, now))

\* KeyIndexed::get; the resolution cache's lookup_name and was_resolved.
Get(k) ==
    /\ self.kind \in {"indexed", "resolution"}
    /\ Became(GetMut(self.inner, k), UsedOnly(k))

\* KeyIndexed::remove; FirstSeen::remove; FlowAnalyzer::forget and finalize;
\* FlowStateMap::feed of an Ended event.
Forget(k) ==
    /\ self.kind \in {"indexed", "first_seen", "analyzer", "flow_state"}
    /\ Became(RemoveKey(self.inner, k), Forgot({k}))

\* evict_expired, drain_expired and sweep of every kind.
Sweep(now) ==
    Became(EvictExpired(self.inner, now, Ttl),
           Forgot({k \in Keys : past.plain[k] # None /\ ~Fresh(k, now)}))

\* FlowStateMap::get_or_default, and a caller that counts its calls in the
\* state it is handed: create it, or remove and insert it again so that it
\* ages from now.
GetOrDefault(k, now) ==
    LET fresh == IF Holds(self.inner, k, now, Ttl) THEN self.inner.at[k].val ELSE 0
        hits  == IF fresh = MaxHits THEN fresh ELSE fresh + 1
        ideal == IF Fresh(k, now) THEN past.plain[k].val ELSE 0
    IN /\ self.kind = "flow_state"
       /\ Became(Insert(RemoveKey(self.inner, k), k, hits, now, CapacityOf("flow_state")),
                 Wrote(k, IF ideal = MaxHits THEN ideal ELSE ideal + 1, now))

\* FlowStateMap::feed of an event that carries the key: the state is renewed,
\* expired or not, and never created.
Feed(k, now) ==
    /\ self.kind = "flow_state"
    /\ k \in Live(self.inner)
    /\ Became(Insert(RemoveKey(self.inner, k), k, self.inner.at[k].val, now,
                     CapacityOf("flow_state")),
              Wrote(k, past.plain[k].val, now))

\* NeighborTable::observe: refresh or change the binding in place, or make a
\* new one.  The binding's own last_seen moves; the time it ages from does not.
Observe(k, addr, now) ==
    LET touched == GetMut(self.inner, k)
        bound   == self.inner.at[k].val
        binding(old) == IF old.addr = addr THEN [old EXCEPT !.last_seen = now]
                        ELSE [old EXCEPT !.addr = addr, !.prior = old.addr, !.last_seen = now]
        new     == [addr |-> addr, prior |-> None, last_seen |-> now]
    IN /\ self.kind = "neighbor"
       /\ IF Holds(self.inner, k, now, Ttl)
          THEN Became(WriteBack(touched, k, binding(bound)),
                      [UsedOnly(k) EXCEPT !.plain[k].val = binding(@)])
          ELSE Became(Insert(touched, k, new, now, Capacity), Wrote(k, new, now))

\* FlowAnalyzer::summary_mut and the observe_* that folds one fact into the
\* summary it returns.
ObserveL7(k, fact, now) ==
    LET touched == GetMut(self.inner, k)
    IN /\ self.kind = "analyzer"
       /\ IF Holds(self.inner, k, now, Ttl)
          THEN Became(WriteBack(touched, k, self.inner.at[k].val \cup {fact}),
                      [UsedOnly(k) EXCEPT !.plain[k].val = @ \cup {fact}])
          ELSE Became(Insert(touched, k, {fact}, now, Capacity), Wrote(k, {fact}, now))

\* DnsResolutionCache::observe_response: the name of the response's question
\* under every address it answers with.
ObserveResponse(k, name, now) ==
    /\ self.kind = "resolution"
    /\ Became(Insert(self.inner, k, name, now, Capacity), Wrote(k, name, now))

\* FirstSeen::observe: `ts` is last_seen, the value is first_seen; an expired
\* key is first seen again, in place.
ObserveSeen(k, now) ==
    LET touched == GetMut(self.inner, k)
        seen    == IF Holds(self.inner, k, now, Ttl) THEN self.inner.at[k].val ELSE now
        ideal   == IF Fresh(k, now) THEN past.plain[k].val ELSE now
    IN /\ self.kind = "first_seen"
       /\ IF k \in Live(self.inner)
          THEN Became(Poke(touched, k, [val |-> seen, ts |-> now]), Wrote(k, ideal, now))
          ELSE Became(Insert(self.inner, k, now, now, Capacity), Wrote(k, now, now))

Next ==
    \/ \E k \in Keys : Get(k) \/ Forget(k)
    \/ \E now \in Times : Sweep(now)
    \/ \E k \in Keys, now \in Times : GetOrDefault(k, now) \/ Feed(k, now) \/ ObserveSeen(k, now)
    \/ \E k \in Keys, v \in Values, now \in Times :
          \/ IndexedInsert(k, v, now)
          \/ Observe(k, v, now)
          \/ ObserveL7(k, v, now)
          \/ ObserveResponse(k, v, now)

-----------------------------------------------------------------------------
(***************************************************************************)
(* A store answers as one without a bound on its keys would: whatever it   *)
(* holds is what was last written under the key, with its time, and a key  *)
(* is missing only after Capacity other keys were used since it was.       *)
(* (KeyIndexed::get and get_mut promise the promotion that keeps a used    *)
(* key; peek and FlowStateMap's remove-and-insert must not lose it.)       *)
(* The time a key is kept runs as in the code: from its insertion, also    *)
(* for NeighborTable and FlowAnalyzer, whose updates go through get_mut.   *)
(* That these two keep a key until it was idle for the time to live        *)
(* (neighbor_table.rs:78-80 "unseen for longer than the TTL",              *)
(* analyzer.rs:48, 60 and 124 "idle") is not said, and does not hold.      *)
(***************************************************************************)
LookupIsCurrent ==
    /\ \A k \in Live(self.inner) : self.inner.at[k] = past.plain[k]
    /\ \A k \in Keys : (past.plain[k] # None /\ Cardinality(past.since[k]) < CapacityOf(self.kind))
                          => k \in Live(self.inner)
    /\ Cardinality(Live(self.inner)) <= CapacityOf(self.kind)
=============================================================================
