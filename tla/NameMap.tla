------------------------------ MODULE NameMap -------------------------------
(***************************************************************************)
(* dns/name_map.rs: which names were seen for an address.  An LRU-bounded  *)
(* map from addresses to a short list of claims, each with its own time to *)
(* live, and a bounded feed of the claims that were new.  A claim is known *)
(* by (name, provenance, client): `id` here.                               *)
(*                                                                         *)
(* self   the map, the feed waiting to be drained, and the drop counter    *)
(* past   the bindings a consumer of the feed was told of, the time each   *)
(*        was last sighted, and whether a claim was announced wrongly      *)
(***************************************************************************)
EXTENDS KeyIndexed, Sequences, SequencesExt

CONSTANTS Addrs, ClaimIds, Ttls, Times, Default, Grace, MaxIps, MaxClaims, MaxFeed,
          MaxDrops, Responses, None

VARIABLES self, past

IsExpired(c, now) ==
    Elapsed(now, c.last_seen) > (IF c.ttl = None THEN Default ELSE c.ttl) + Grace

Retained(claims, now) == SelectSeq(claims, LAMBDA c : ~IsExpired(c, now))

Init ==
    /\ self = [inner |-> EmptyLru, pending |-> <<>>, pending_dropped |-> 0]
    /\ past = [told |-> {}, wrong |-> FALSE, sighted |-> <<>>]

-----------------------------------------------------------------------------
\* get_or_insert_mut: the entry, made most recent, and the least recent gone.
Opened(lru, ip) ==
    IF ip \in Live(lru) THEN Touch(lru, ip) ELSE Put(lru, ip, <<>>, MaxIps)

Find(claims, id) == {i \in DOMAIN claims : claims[i].id = id}

\* Mutant: a repeated claim keeps its first time.
RefreshedTtl(c, claim, now) == [c EXCEPT !.ttl = IF claim.ttl = None THEN @ ELSE claim.ttl]

Refreshed(c, claim, now) ==
    [c EXCEPT !.last_seen = now, !.ttl = IF claim.ttl = None THEN @ ELSE claim.ttl]

\* The first of the claims seen least recently.
OldestClaim(claims) ==
    CHOOSE i \in DOMAIN claims : \A j \in DOMAIN claims :
        \/ claims[i].last_seen < claims[j].last_seen
        \/ claims[i].last_seen = claims[j].last_seen /\ i <= j

Capped(claims) ==
    IF Len(claims) >= MaxClaims THEN RemoveAt(claims, OldestClaim(claims)) ELSE claims

PushPending(m, ip, claim) ==
    LET full == Len(m.pending) >= MaxFeed
    IN [m EXCEPT !.pending = Append(IF full THEN Tail(@) ELSE @, <<ip, claim.id>>),
                 !.pending_dropped = @ + (IF full THEN 1 ELSE 0)]

\* record, on the opened entry with its expired claims purged.
Record(m, ip, claim, now) ==
    LET lru    == Opened(m.inner, ip)
        claims == Retained(lru.at[ip], now)
        known  == Find(claims, claim.id)
    IN IF known # {}
       THEN [m EXCEPT !.inner = Poke(lru, ip, [i \in DOMAIN claims |->
                IF i \in known THEN Refreshed(claims[i], claim, now) ELSE claims[i]])]
       ELSE PushPending([m EXCEPT !.inner = Poke(lru, ip, Append(Capped(claims), claim))], ip, claim)

Claim(id, ttl, now) == [id |-> id, ttl |-> ttl, last_seen |-> now]

\* One answer of a response: an address takes the tightest TTL of the CNAMEs
\* before it; a PTR names the address of its owner; other records say nothing.
MinTtl(current, ttl) == IF current = None \/ ttl < current THEN ttl ELSE current

Answered(acc, a, now) ==
    CASE a.type = "CNAME" -> [acc EXCEPT !.min = MinTtl(@, a.ttl)]
      [] a.type = "A"     -> [acc EXCEPT !.m = Record(@, a.ip, Claim(a.id, MinTtl(acc.min, a.ttl), now), now)]
      [] a.type = "PTR"   -> [acc EXCEPT !.m = Record(@, a.ip, Claim(a.id, a.ttl, now), now)]

Observed(m, answers, now) ==
    FoldLeft(LAMBDA acc, a : Answered(acc, a, now), [m |-> m, min |-> None], answers).m

-----------------------------------------------------------------------------
\* The bindings in the map, and the ones of them alive at `now`.
Bound(m) == UNION {{<<ip, c.id>> : c \in ToSet(m.inner.at[ip])} : ip \in Live(m.inner)}

AliveAt(m, now) ==
    UNION {{<<ip, c.id>> : c \in ToSet(Retained(m.inner.at[ip], now))} : ip \in Live(m.inner)}

Seen(bindings, now) ==
    [b \in DOMAIN past.sighted \cup bindings |-> IF b \in bindings THEN now ELSE past.sighted[b]]

\* Names of ip that were alive and gave way while an older one stayed.
GaveWay(ip, now) ==
    {b \in AliveAt(self, now) \ Bound(self') :
        b[1] = ip /\ \E c \in Bound(self) \cap Bound(self') : c[1] = ip /\ past.sighted[c] < past.sighted[b]}

\* observe_claim (SNI, DHCP, mDNS: with or without a TTL).
ObserveClaim(ip, id, ttl, now) ==
    /\ self' = Record(self, ip, Claim(id, ttl, now), now)
    /\ LET news == self'.pending_dropped # self.pending_dropped \/ Len(self'.pending) > Len(self.pending)
       IN past' = [past EXCEPT !.sighted = Seen({<<ip, id>>}, now),
                               !.wrong = \/ @ \/ (news <=> <<ip, id>> \in AliveAt(self, now))
                                         \/ GaveWay(ip, now) # {}]

\* observe_response.
ObserveResponse(answers, now) ==
    /\ self' = Observed(self, answers, now)
    /\ past' = [past EXCEPT !.sighted =
                  Seen({<<a.ip, a.id>> : a \in {a \in ToSet(answers) : a.type # "CNAME"}}, now)]

\* names: promotes the address and purges it.
Names(ip, now) ==
    /\ ip \in Live(self.inner)
    /\ self' = [self EXCEPT !.inner = Touch(Poke(@, ip, Retained(@.at[ip], now)), ip)]
    /\ UNCHANGED past

\* drain_new, drain_new_into.
DrainNew ==
    /\ self.pending # <<>>
    /\ self' = [self EXCEPT !.pending = <<>>]
    /\ past' = [past EXCEPT !.told = @ \cup ToSet(self.pending)]

Sweep(now) ==
    LET kept  == [ip \in Live(self.inner) |-> Retained(self.inner.at[ip], now)]
        empty == {ip \in Live(self.inner) : kept[ip] = <<>>}
    IN /\ self' = [self EXCEPT !.inner = Drop([@ EXCEPT !.at = kept], empty)]
       /\ UNCHANGED past

Next ==
    /\ self.pending_dropped < MaxDrops
    /\ \/ \E ip \in Addrs, id \in ClaimIds, ttl \in Ttls \cup {None}, now \in Times :
             ObserveClaim(ip, id, ttl, now)
       \/ \E answers \in Responses, now \in Times : ObserveResponse(answers, now)
       \/ \E ip \in Addrs, now \in Times : Names(ip, now)
       \/ \E now \in Times : Sweep(now)
       \/ DrainNew

-----------------------------------------------------------------------------
(***************************************************************************)
(* A consumer that only drains the feed knows every binding the map holds, *)
(* until the feed overflows and says so; it is told of a binding again     *)
(* exactly when the binding had lapsed or been dropped, never for a        *)
(* refresh.  A claim dates from its last sighting, in whatever order the   *)
(* times come, and each list stays within its cap with one claim per       *)
(* (name, provenance, client), a full one giving up the name that was seen *)
(* least recently.  (NameMap::record, observe_response.)                   *)
(***************************************************************************)
NewNamesAreTold ==
    /\ ~past.wrong
    /\ self.pending_dropped = 0 => Bound(self) \subseteq past.told \cup ToSet(self.pending)
    /\ Len(self.pending) <= MaxFeed
    /\ \A ip \in Live(self.inner) :
          LET claims == self.inner.at[ip]
          IN /\ Len(claims) <= MaxClaims
             /\ \A i \in DOMAIN claims :
                   /\ claims[i].last_seen = past.sighted[<<ip, claims[i].id>>]
                   /\ Find(claims, claims[i].id) = {i}
=============================================================================
