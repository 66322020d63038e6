------------------------------- MODULE Assets -------------------------------
(***************************************************************************)
(* asset/: one record per MAC address, merged from what eleven protocols   *)
(* say about it (asset/core.rs), in an LRU-bounded inventory               *)
(* (asset/inventory.rs).  Lists are bounded, oldest out; single fields     *)
(* keep the last value given (`labels`: fqdn, vendor_banner, platform,     *)
(* x509_subject and the fingerprints).                                     *)
(*                                                                         *)
(* self   the inventory                                                    *)
(* past   the updates absorbed by each record since it was created, in     *)
(*        order                                                            *)
(***************************************************************************)
EXTENDS KeyIndexed, Sequences, SequencesExt

CONSTANTS Macs, Sources, Profiles, Times, Capacity, MaxIps, MaxHostnames, MaxUpdates, None

VARIABLES self, past

Init == self = EmptyLru /\ past = [m \in Macs |-> <<>>]

-----------------------------------------------------------------------------
PushBounded(v, item, cap) == Append(IF Len(v) >= cap THEN Tail(v) ELSE v, item)

\* Push what is not there yet, one by one.
Extend(v, items, cap) ==
    FoldLeft(LAMBDA w, x : IF x \in ToSet(w) THEN w ELSE PushBounded(w, x, cap), v, items)

\* Asset::new.  Time 0 is Timestamp::default(): no time given.
New(mac) ==
    [mac |-> mac, ips |-> <<>>, hostname |-> None, hostnames |-> <<>>, labels |-> <<>>,
     x509_sans |-> <<>>, capabilities |-> {}, seen_via |-> {}, first_seen |-> 0, last_seen |-> 0]

SetHostname(a, name) ==
    [a EXCEPT !.hostnames = Extend(@, <<name>>, MaxHostnames), !.hostname = name]

Named(mac, name) == IF name = None THEN New(mac) ELSE SetHostname(New(mac), name)

Told(a, source, caps, ips, labels) ==
    [a EXCEPT !.seen_via = {source}, !.capabilities = caps, !.labels = labels,
              !.ips = Extend(<<>>, ips, MaxIps)]

\* The labels a message may carry, all with value v, or None.
Says(labels, v) == [l \in labels |-> v]

\* What a message of each protocol says about its sender; p is the part of
\* the message that matters: name, ips, label, caps, services, query.
FromArp(mac, p) == Told(New(mac), "ARP", {"HOST"}, <<p.ip>>, <<>>)

FromNdp(mac, p) == Told(New(mac), "NDP", {"HOST"}, <<p.ip>>, <<>>)

FromDhcp(mac, p) ==
    Told(Named(mac, p.name), "DHCP", {"HOST"}, p.ips, Says({"fqdn", "vendor_banner", "dhcp"}, p.label))

\* lldp_caps_to_asset and cdp_caps_to_asset: the bits the inventory has a
\* name for, some under another name.
LldpCaps(caps) ==
    (caps \cap {"BRIDGE", "ROUTER", "WLAN_AP", "REPEATER", "DOCSIS_CABLE", "C_VLAN", "S_VLAN"})
        \cup {"PHONE" : c \in caps \cap {"TELEPHONE"}} \cup {"HOST" : c \in caps \cap {"STATION_ONLY"}}

CdpCaps(caps) ==
    caps \cap {"ROUTER", "BRIDGE", "SOURCE_BRIDGE", "SWITCH", "HOST", "IGMP", "REPEATER", "PHONE",
               "REMOTELY_MANAGED"}

FromLldp(mac, p) ==
    Told(Named(mac, p.name), "LLDP", LldpCaps(p.caps),
         p.ips, Says({"vendor_banner"}, p.label))

FromCdp(mac, p) ==
    Told(Named(mac, p.name), "CDP", CdpCaps(p.caps),
         p.ips, Says({"vendor_banner", "platform"}, p.label))

FromSsdp(mac, p) ==
    Told(New(mac), "SSDP", {"UPNP", "HOST"}, <<>>, Says({"vendor_banner"}, p.label))

\* A .local address names the sender; without one, and without a service,
\* the response says nothing.
FromMdns(mac, p) ==
    IF p.ips = <<>> /\ ~p.services THEN None
    ELSE Told(IF p.ips = <<>> THEN New(mac) ELSE Named(mac, p.name), "MDNS",
              IF p.services THEN {"UPNP", "HOST"} ELSE {"HOST"}, p.ips, <<>>)

\* The name in a query is somebody else's.
FromNetbiosNs(mac, p) ==
    LET own == IF p.query THEN None ELSE p.name
    IN IF own = None /\ p.ips = <<>> THEN None
       ELSE Told(Named(mac, own), "NBNS", {"HOST"}, p.ips, <<>>)

FromTlsHandshake(mac, p) ==
    [Told(New(mac), "TLS", {"HOST"}, <<>>, Says({"ja3", "ja4", "ja4x", "x509_subject"}, p.label))
        EXCEPT !.x509_sans = Extend(<<>>, p.sans, MaxHostnames)]

FromSshKexinit(mac, p) == Told(New(mac), "SSH", {"HOST"}, <<>>, Says({"hassh"}, p.label))

FromTcpFingerprint(mac, p) == Told(New(mac), "P0F", {"HOST"}, <<>>, Says({"p0f"}, p.label))

\* The updates the protocols in Sources give.
Updates(mac, p) ==
    {u \in {FromArp(mac, p), FromNdp(mac, p), FromDhcp(mac, p), FromLldp(mac, p), FromCdp(mac, p),
     FromSsdp(mac, p), FromMdns(mac, p), FromNetbiosNs(mac, p), FromTlsHandshake(mac, p),
     FromSshKexinit(mac, p), FromTcpFingerprint(mac, p)} \ {None} : u.seen_via \subseteq Sources}

-----------------------------------------------------------------------------
\* Mutant: a field the update leaves out is erased.
LatestGiven(old, new) ==
    [l \in DOMAIN old \cup DOMAIN new |-> IF l \in DOMAIN new THEN new[l] ELSE old[l]]

\* Later values win; None says nothing.  Also AssetFingerprints::merge_from.
Latest(old, new) ==
    [l \in DOMAIN old \cup DOMAIN new |->
        IF l \in DOMAIN new /\ (new[l] # None \/ l \notin DOMAIN old) THEN new[l] ELSE old[l]]

Merge(a, other) ==
    [mac          |-> a.mac,
     ips          |-> Extend(a.ips, other.ips, MaxIps),
     hostnames    |-> Extend(a.hostnames, other.hostnames, MaxHostnames),
     hostname     |-> IF other.hostname # None THEN other.hostname ELSE a.hostname,
     labels       |-> Latest(a.labels, other.labels),
     x509_sans    |-> Extend(a.x509_sans, other.x509_sans, MaxHostnames),
     capabilities |-> a.capabilities \cup other.capabilities,
     seen_via     |-> a.seen_via \cup other.seen_via,
     first_seen   |-> IF a.first_seen = 0 \/ (other.first_seen # 0 /\ other.first_seen < a.first_seen)
                      THEN other.first_seen ELSE a.first_seen,
     last_seen    |-> IF other.last_seen > a.last_seen THEN other.last_seen ELSE a.last_seen]

\* Inventory::absorb: merged in place and promoted, or put.
Absorbed(inv, u) ==
    IF u.mac \in Live(inv) THEN Poke(Touch(inv, u.mac), u.mac, Merge(inv.at[u.mac], u))
    ELSE Put(inv, u.mac, u, Capacity)

\* absorb_at stamps the update; absorb (ts = 0) leaves its times as they are.
Stamped(u, ts) ==
    [u EXCEPT !.last_seen = ts, !.first_seen = IF @ = 0 THEN ts ELSE @]

Absorb(u, ts) ==
    /\ FoldSet(LAMBDA m, n : Len(past[m]) + n, 0, Macs) < MaxUpdates
    /\ self' = Absorbed(self, Stamped(u, ts))
    /\ past' = [m \in Macs |-> IF m \notin Live(self') THEN <<>>
                               ELSE IF m = u.mac THEN Append(past[m], Stamped(u, ts)) ELSE past[m]]

Next == \E mac \in Macs, p \in Profiles, ts \in Times : \E u \in Updates(mac, p) : Absorb(u, ts)

-----------------------------------------------------------------------------
\* The last value the updates gave for a label.
LastSaid(us, l) ==
    LET said == {i \in DOMAIN us : l \in DOMAIN us[i].labels /\ us[i].labels[l] # None}
    IN IF said = {} THEN None ELSE us[Max(said)].labels[l]

LastName(us) ==
    LET said == {i \in DOMAIN us : us[i].hostname # None}
    IN IF said = {} THEN None ELSE us[Max(said)].hostname

\* A list of at most cap entries, without duplicates and all of them told: all
\* that was told as long as it fits, the latest of it when nothing was told
\* twice, and always what was told last.
ListsLatest(v, told, cap) ==
    /\ Len(v) <= cap /\ IsInjective(v) /\ ToSet(v) \subseteq ToSet(told)
    /\ Cardinality(ToSet(told)) <= cap => ToSet(v) = ToSet(told)
    /\ IsInjective(told) => v = SubSeq(told, Len(told) - Len(v) + 1, Len(told))
    /\ told # <<>> => Last(told) \in ToSet(v)

(***************************************************************************)
(* A record is what its updates say together, whichever protocols they     *)
(* came from and in whatever order of time: all sources and capabilities,  *)
(* the earliest and the latest time given, and of every label the last     *)
(* value.  Its lists are bounded and free of duplicates, lose nothing      *)
(* before the bound and then the oldest first, and the current hostname is *)
(* never pushed out of the list of hostnames.  Not claimed: an address the *)
(* last update repeats may be pushed out by the next one of that update,   *)
(* since a repeated entry keeps its place.  (Asset::merge, push_bounded,   *)
(* Inventory::absorb, absorb_at.)                                          *)
(***************************************************************************)
AssetIsItsUpdates ==
    /\ Cardinality(Live(self)) <= Capacity
    /\ \A m \in Live(self) :
          LET a     == self.at[m]
              us    == past[m]
              times == {us[i].first_seen : i \in DOMAIN us} \ {0}
          IN /\ a.mac = m
             /\ a.seen_via = UNION {us[i].seen_via : i \in DOMAIN us}
             /\ a.capabilities = UNION {us[i].capabilities : i \in DOMAIN us}
             /\ a.first_seen = (IF times = {} THEN 0 ELSE Min(times))
             /\ a.last_seen = Max({us[i].last_seen : i \in DOMAIN us})
             /\ \A l \in DOMAIN a.labels : a.labels[l] = LastSaid(us, l)
             /\ a.hostname = LastName(us)
             /\ a.hostname # None => a.hostname \in ToSet(a.hostnames)
             /\ ListsLatest(a.ips, FlattenSeq([i \in DOMAIN us |-> us[i].ips]), MaxIps)
             /\ ListsLatest(a.hostnames, FlattenSeq([i \in DOMAIN us |-> us[i].hostnames]), MaxHostnames)
             /\ ListsLatest(a.x509_sans, FlattenSeq([i \in DOMAIN us |-> us[i].x509_sans]), MaxHostnames)
=============================================================================
