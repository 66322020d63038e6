------------------------------ MODULE Detectors -----------------------------
(***************************************************************************)
(* detect/registry.rs and the detectors of detect/patterns/: a registry    *)
(* hands flow events and DNS queries to a detector, which keeps state per  *)
(* source (or source and domain) and raises alerts.                        *)
(*                                                                         *)
(*   "flood"    conn_flood.rs   flow starts per source in a window         *)
(*   "tunnel"   dns_tunnel.rs   distinct names per source in a window      *)
(*   "exfil"    data_exfil.rs   a flow's bytes against the source's mean   *)
(*   "beacon"   beacon.rs, rita_beacon.rs   regular flows of a pair        *)
(*   "scan"     portscan.rs     sequential test on failed flows            *)
(*   "nod"      nod.rs          domains not seen before                    *)
(*   "dga"      registry.rs     generated names, once per source and name  *)
(*                                                                         *)
(* Floating-point scores are a Boolean input: whether the sample scores    *)
(* over the threshold.  The detectors do not interact, so the registry     *)
(* holds one.                                                              *)
(*                                                                         *)
(* self   the detector: its kind and the stores it is made of              *)
(* past   the bag of what was observed, <<subject, value, time>>; per      *)
(*        subject its last alert, its last sighting, the other subjects    *)
(*        alerted on since the one and sighted since the other, and its    *)
(*        failures since it was last judged; the subjects with a sample    *)
(*        that came late; the latest time; the alert of the last call      *)
(***************************************************************************)
EXTENDS TimeBuckets, KeyIndexed

CONSTANTS Hosts, Names, Times, Threshold, Cooldown, StaleTtl, SeenTtl, Warmup,
          MaxSources, MaxFlows, MaxQueries, None

VARIABLES self, past

Subjects == Hosts \cup Names

-----------------------------------------------------------------------------
\* DetectorRegistry::observe of Started: the first packet may be the
\* responder's, so its side says which way the initiator lies.
Initiator(sender, side) ==
    IF side = "Initiator" THEN sender ELSE CHOOSE h \in Hosts : h # sender

-----------------------------------------------------------------------------
\* The subjects that came since each one did, once `subject` came.
Since(came, subject) ==
    [s \in Subjects |-> IF s = subject THEN {} ELSE came[s] \cup {subject}]

\* What an alert records; `None` when the call raised none.
Seen(subject, value, now, alert) ==
    LET high == IF now > past.high THEN now ELSE past.high
    IN past' = [past EXCEPT
         !.seen = @ (+) SetToBag({<<subject, value, now>>}),
         !.high = high,
         !.last[subject] = IF alert THEN now ELSE @,
         !.sighted[subject] = now,
         !.others = IF alert THEN Since(@, subject) ELSE @,
         !.between = IF self.kind = "nod" THEN Since(@, subject) ELSE @,
         !.late = IF past.sighted[subject] # None /\ now < past.sighted[subject]
                  THEN @ \cup {subject} ELSE @,
         !.alert = IF alert THEN [subject |-> subject, at |-> now, prior |-> past.last[subject],
                                  before |-> past.sighted[subject],
                                  others |-> past.others[subject],
                                  between |-> past.between[subject]]
                   ELSE None]

\* The bounds on what is observed: flow events, and DNS queries.
MayRecord(bound) == BagCardinality(past.seen) < bound

\* The cooldown of the detectors that keep it in a KeyIndexed: the lookup
\* touches the entry, an alert renews it, or enters one and displaces the entry
\* touched least recently of MaxSources.
Cooling(m, subject, now) == Holds(m, subject, now, Cooldown)

\* Mutant: an alert does not renew a cooldown that lapsed.
GatedOnce(m, subject, over, now) ==
    IF ~over \/ subject \in Live(m) THEN GetMut(m, subject)
    ELSE Insert(m, subject, None, now, MaxSources)

Gated(m, subject, over, now) ==
    IF ~over THEN m
    ELSE IF Cooling(m, subject, now) THEN GetMut(m, subject)
    ELSE Insert(GetMut(m, subject), subject, None, now, MaxSources)

\* ConnectionFloodDetector::observe and DnsTunnelDetector::observe: count the
\* sample, then the window, then the cooldown.
ObserveWindow(kind, subject, value, now) ==
    \E bs \in Evicted(kind, self.window, now) :
        LET after == Appended(kind, bs, subject, One(kind, value), now)
            over  == Answer(kind, after, subject, now) >= Threshold
            alert == over /\ ~Cooling(self.last_emitted, subject, now)
        IN /\ self' = [self EXCEPT !.window = after,
                                   !.last_emitted = Gated(@, subject, over, now)]
           /\ Seen(subject, value, now, alert)

\* DataExfilDetector::observe: judge against the baseline, then fold the
\* sample into it and renew the source's count.
ObserveExfil(src, scores, now) ==
    LET n     == IF Holds(self.counts, src, now, StaleTtl) THEN self.counts.at[src].val ELSE 0
        over  == n >= Threshold /\ scores /\ src \in DOMAIN self.baseline
        alert == over /\ ~Cooling(self.last_emitted, src, now)
    IN /\ self' = [self EXCEPT
             !.last_emitted = Gated(@, src, over, now),
             !.baseline = [h \in DOMAIN @ \cup {src} |-> IF h = src THEN now ELSE @[h]],
             !.counts = Insert(GetMut(@, src), src, IF n < Threshold THEN n + 1 ELSE n, now,
                               MaxSources)]
       /\ Seen(src, 1, now, alert)

\* observe_gated, the same in RitaBeaconDetector and BeaconDetector: a key with
\* enough samples, over the threshold and out of its cooldown.
GatedScore(entry, scores, now) ==
    /\ entry.n >= Threshold /\ scores
    /\ entry.last_emitted # None => Elapsed(now, entry.last_emitted) >= Cooldown

\* BeaconDetector::observe and observe_gated: a ring of the last samples, and
\* a cooldown kept with them.
ObserveBeacon(src, scores, now) ==
    LET entry == IF src \in DOMAIN self.keys THEN self.keys[src]
                 ELSE [n |-> 0, back |-> now, last_emitted |-> None]
        grown == [entry EXCEPT !.n = IF @ < Threshold THEN @ + 1 ELSE @, !.back = now]
        alert == GatedScore(grown, scores, now)
        new   == [grown EXCEPT !.last_emitted = IF alert THEN now ELSE @]
    IN /\ self' = [self EXCEPT !.keys = [h \in DOMAIN @ \cup {src} |-> IF h = src THEN new ELSE @[h]]]
       /\ Seen(src, 1, now, alert)

\* Mutant: the walk goes on after a verdict.
WalkedOn(room, src, walk) == Put(room, src, walk, MaxSources)

\* A verdict forgets the source.
Judged(walk) == walk >= 2 * Threshold \/ walk <= 0
Walked(room, src, walk) ==
    IF Judged(walk) THEN Drop(room, {src}) ELSE Put(room, src, walk, MaxSources)

\* PortScanDetector::observe: a new source may displace the one touched
\* least recently; a failure steps up, a success down; a verdict forgets.
\* The walk is kept as ups and downs against the two thresholds.
ObserveScan(src, success, now) ==
    LET room  == IF src \notin Live(self.sources) /\ Cardinality(Live(self.sources)) >= MaxSources
                 THEN Drop(self.sources, LeastRecent(self.sources)) ELSE self.sources
        old   == IF src \in Live(room) THEN room.at[src] ELSE Threshold
        walk  == IF success THEN old - 1 ELSE old + 1
    IN /\ self' = [self EXCEPT !.sources = Walked(room, src, walk)]
       /\ LET alert == walk >= 2 * Threshold
              high  == IF now > past.high THEN now ELSE past.high
              failed == past.failed[src] + (IF success THEN 0 ELSE 1)
          IN past' = [past EXCEPT
               !.seen = @ (+) SetToBag({<<src, IF success THEN 1 ELSE 0, now>>}), !.high = high,
               !.failed = [h \in Hosts |->
                             IF h = src THEN (IF Judged(walk) THEN 0 ELSE failed)
                             ELSE IF h \in Live(self.sources) \ Live(room) THEN 0 ELSE @[h]],
               !.alert = IF alert THEN [subject |-> src, at |-> now, failures |-> failed] ELSE None]

\* NewlyObservedDomainDetector::observe over FirstSeen::observe.
ObserveNod(domain, now) ==
    LET started == IF self.started_at = None THEN now ELSE self.started_at
        is_new  == ~Holds(self.seen, domain, now, SeenTtl)
        touched == GetMut(self.seen, domain)
        entry   == [val |-> IF is_new THEN now ELSE touched.at[domain].val, ts |-> now]
    IN /\ self' = [self EXCEPT !.started_at = started,
                               !.seen = Put(touched, domain, entry, MaxSources)]
       /\ Seen(domain, domain, now, is_new /\ Elapsed(now, started) >= Warmup)

\* DgaDetector::on_dns_query: `contains` does not promote.
ObserveDga(sld, scores, now) ==
    LET alert == scores /\ sld \notin Live(self.seen)
    IN /\ self' = [self EXCEPT !.seen = IF alert THEN Put(@, sld, now, MaxSources) ELSE @]
       /\ Seen(sld, sld, now, alert)

-----------------------------------------------------------------------------
NewFlood == [kind |-> "flood", window |-> <<>>, last_emitted |-> EmptyLru]
NewTunnel == [kind |-> "tunnel", window |-> <<>>, last_emitted |-> EmptyLru]
NewExfil == [kind |-> "exfil", counts |-> EmptyLru, baseline |-> <<>>, last_emitted |-> EmptyLru]
NewBeacon == [kind |-> "beacon", keys |-> <<>>]
NewScan == [kind |-> "scan", sources |-> EmptyLru]
NewNod == [kind |-> "nod", seen |-> EmptyLru, started_at |-> None]
NewDga == [kind |-> "dga", seen |-> EmptyLru]

Init ==
    /\ self \in {NewFlood, NewTunnel, NewExfil, NewBeacon, NewScan, NewNod, NewDga}
    /\ past = [seen |-> EmptyBag, high |-> 0, last |-> [s \in Subjects |-> None],
               sighted |-> [s \in Subjects |-> None], failed |-> [h \in Hosts |-> 0],
               others |-> [s \in Subjects |-> {}], between |-> [s \in Subjects |-> {}],
               late |-> {}, alert |-> None]

\* The detectors that take a hook of the registry; the others leave it empty.
FloodOnFlowStart(src, now) == self.kind = "flood" /\ ObserveWindow("counter", src, 1, now)
ExfilOnFlowEnd(src, scores, now) == self.kind = "exfil" /\ ObserveExfil(src, scores, now)
TunnelOnDnsQuery(src, qname, now) == self.kind = "tunnel" /\ ObserveWindow("set", src, qname, now)
NodOnDnsQuery(qname, now) == self.kind = "nod" /\ ObserveNod(qname, now)

\* Registry::observe of Started.
OnFlowStart(sender, side, now) ==
    /\ MayRecord(MaxFlows)
    /\ FloodOnFlowStart(Initiator(sender, side), now)

\* Registry::observe of Ended.
OnFlowEnd(src, success, scores, now) ==
    /\ MayRecord(MaxFlows)
    /\ \/ ExfilOnFlowEnd(src, scores, now)
       \/ self.kind = "beacon" /\ ObserveBeacon(src, scores, now)
       \/ self.kind = "scan" /\ ObserveScan(src, success, now)

\* Registry::observe_dns.
OnDnsQuery(sender, qname, scores, now) ==
    /\ MayRecord(MaxQueries)
    /\ \/ TunnelOnDnsQuery(sender, qname, now)
       \/ NodOnDnsQuery(qname, now)
       \/ self.kind = "dga" /\ ObserveDga(qname, scores, now)

\* Registry::evict_expired; the scan and dga detectors have nothing to evict.
EvictAll(now) ==
    /\ \/ /\ self.kind \in {"flood", "tunnel"}
          /\ \E bs \in Evicted(IF self.kind = "flood" THEN "counter" ELSE "set", self.window, now) :
                self' = [self EXCEPT !.window = bs, !.last_emitted = EvictExpired(@, now, Cooldown)]
       \/ /\ self.kind = "exfil"
          /\ self' = [self EXCEPT
                !.baseline = [h \in {g \in DOMAIN @ : Elapsed(now, @[g]) <= StaleTtl} |-> @[h]],
                !.counts = EvictExpired(@, now, StaleTtl),
                !.last_emitted = EvictExpired(@, now, Cooldown)]
       \/ /\ self.kind = "beacon"
          /\ self' = [self EXCEPT !.keys =
                [h \in {g \in DOMAIN @ : Elapsed(now, @[g].back) <= StaleTtl} |-> @[h]]]
       \/ self.kind = "nod" /\ self' = [self EXCEPT !.seen = EvictExpired(@, now, SeenTtl)]
    /\ past' = [past EXCEPT !.high = IF now > @ THEN now ELSE @, !.alert = None]

Next ==
    \/ \E sender \in Hosts, side \in {"Initiator", "Responder"}, now \in Times :
          OnFlowStart(sender, side, now)
    \/ \E src \in Hosts, success, scores \in BOOLEAN, now \in Times :
          OnFlowEnd(src, success, scores, now)
    \/ \E sender \in Hosts, qname \in Names, scores \in BOOLEAN, now \in Times :
          OnDnsQuery(sender, qname, scores, now)
    \/ \E now \in Times : EvictAll(now)

-----------------------------------------------------------------------------
Observed(subject, times) ==
    {e \in BagToSet(past.seen) : e[1] = subject /\ e[3] \in times}
HowMany(es) == FoldSet(LAMBDA e, n : past.seen[e] + n, 0, es)
InWindow(now) == {t \in Times : StartOf(t) >= Cutoff(now)}

(***************************************************************************)
(* A source is not alerted on twice within a cooldown: between two alerts  *)
(* on one subject the traffic's clock went on by more than the cooldown,   *)
(* in whatever order the timestamps came and however evictions fell        *)
(* between them.  Excepted is a subject whose entry was displaced: another *)
(* one was alerted on since, with MaxSources others alerted on by then     *)
(* (the bounds of conn_flood.rs:69, data_exfil.rs:77 and dns_tunnel.rs:73, *)
(* which the documentation of the cooldowns does not mention).  A beacon   *)
(* keeps its cooldown with its samples: the clock went on by at least it,  *)
(* unless a sample came late, since the eviction that goes by the last     *)
(* sample then forgets the alert as well.  A generated name is reported    *)
(* again only after MaxSources others were reported since.  (last_emitted  *)
(* in the detectors, evict_stale of beacon.rs.)                            *)
(***************************************************************************)
CooldownHolds ==
    (past.alert # None /\ self.kind # "scan" /\ past.alert.prior # None) =>
        LET alerted == {s \in Subjects \ {past.alert.subject} : past.last[s] # None}
        IN CASE self.kind \in {"flood", "tunnel", "exfil"} ->
                  \/ past.high - past.alert.prior > Cooldown
                  \/ past.alert.others # {} /\ Cardinality(alerted) >= MaxSources
             [] self.kind = "beacon" ->
                  past.alert.subject \in past.late \/ past.high - past.alert.prior >= Cooldown
             [] self.kind = "dga" -> Cardinality(past.alert.others) >= MaxSources
             [] OTHER -> TRUE

(***************************************************************************)
(* An alert is earned by what the named source did: as many starts, or     *)
(* distinct names, in the window as the threshold asks; as many flows      *)
(* before an outlier or a beacon is judged; as many failures since the     *)
(* source was last judged or displaced; a domain whose last sighting is    *)
(* older than the memory's time to live, or that MaxSources other domains  *)
(* have displaced since (FirstSeen's "false new").  (observe of each       *)
(* detector.)                                                              *)
(***************************************************************************)
AlertIsEarned ==
    past.alert # None =>
        LET s   == past.alert.subject
            now == past.alert.at
        IN CASE self.kind = "flood" -> HowMany(Observed(s, InWindow(now))) >= Threshold
             [] self.kind = "tunnel" ->
                  Cardinality({e[2] : e \in Observed(s, InWindow(now))}) >= Threshold
             [] self.kind = "exfil" -> HowMany(Observed(s, Times)) > Threshold
             [] self.kind = "beacon" -> HowMany(Observed(s, Times)) >= Threshold
             [] self.kind = "scan" -> past.alert.failures >= Threshold
             [] self.kind = "nod" ->
                  past.alert.before # None =>
                      \/ past.high - past.alert.before > SeenTtl
                      \/ Cardinality(past.alert.between) >= MaxSources
             [] OTHER -> TRUE
=============================================================================
