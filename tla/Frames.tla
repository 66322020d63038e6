------------------------------- MODULE Frames -------------------------------
(***************************************************************************)
(* src/src/extract/ and src/src/layers/: what is read of a captured frame, *)
(* the key and the payload of its flow by the extractors, and its layers   *)
(* by Layers and LayerParser.                                              *)
(*                                                                         *)
(* A frame is the sequence of its layers, each with its place and length   *)
(* in octets and the fields that say what follows; a capture has the first *)
(* `cap` octets of it. Addresses and ports are numbers, and a field names  *)
(* what it stands for (type "Ip4" is EtherType 0x0800). What etherparse    *)
(* does with a frame is read off its use: an IP datagram without a length  *)
(* (jumbograms, BIG TCP) and extension headers are left out.               *)
(***************************************************************************)
EXTENDS Integers, Sequences, FiniteSets, SequencesExt, FiniteSetsExt

CONSTANTS None,
          Packets,                \* the frames, as they were sent
          VxlanPort, GtpuPort,
          LabelBound              \* labels that StripMpls reads before it gives up

VARIABLES self, past

vars == <<self, past>>

Min2(a, b) == IF a < b THEN a ELSE b
Max2(a, b) == IF a > b THEN a ELSE b

\* Where the i-th layer of a view starts in it.
At(f, i) == (IF i > Len(f) THEN f[Len(f)].at + f[Len(f)].len ELSE f[i].at) - f[1].at
Size(f) == At(f, Len(f) + 1)

\* The first layer from the i-th on that is none of the link layer.
Net(f, i) == Min({j \in i .. Len(f) : f[j].t \notin {"Eth", "Vlan"}} \cup {Len(f) + 1})

-----------------------------------------------------------------------------
(* parse_eth, on a view: layers of which the first cap octets were captured *)

\* UDP delimits its own payload; 0 leaves that to the IP header.
UdpLengthFits(l4, l4_wire_len) == l4.length = 0 \/ l4.length \in 8 .. l4_wire_len
PayloadCaptured(l4, room) == IF l4.t = "Udp" /\ l4.length # 0 THEN Min2(l4.length - 8, room) ELSE room
PayloadOnWire(l4, len, incomplete, l4_wire_len) ==
    Max2(len, CASE l4.t = "Tcp" -> l4_wire_len - l4.len
                [] ~incomplete -> len
                [] l4.length = 0 -> l4_wire_len - 8
                [] OTHER -> l4.length - 8)

\* The transport of the IP layer ip, `got` octets of which begin at l4_at.
ParseL4(ip, l4, l4_at, got, incomplete, l4_wire_len) ==
    LET len == PayloadCaptured(l4, got - l4.len)
        parsed == [ip |-> ip, l4_offset |-> l4_at, l4_payload |-> got, l4 |-> None, ports |-> None,
                   meta |-> [offset |-> l4_at, len |-> got, wire |-> l4_wire_len]]
    IN CASE ip.frag \/ l4.t \notin {"Tcp", "Udp"} -> parsed
         [] got < l4.len -> None
         [] l4.t = "Udp" /\ ~UdpLengthFits(l4, l4_wire_len) -> None
         [] OTHER -> [parsed EXCEPT
                !.l4 = l4.t, !.ports = <<l4.src_port, l4.dst_port>>,
                !.meta = [offset |-> l4_at + l4.len, len |-> len,
                          wire |-> PayloadOnWire(l4, len, incomplete, l4_wire_len)]]

ParseEth(v) ==
    LET f == v.layers
        i == Net(f, 1)
        ip == f[i]
        l4_at == At(f, i + 1)
        end == At(f, i) + ip.total
        got == Min2(end, v.cap) - l4_at
        incomplete == v.cap < end
    IN CASE i = 1 \/ i >= Len(f) \/ ip.t # "Ip" \/ v.cap < l4_at -> None
         [] f[i - 1].type # ip.version \/ ip.total < ip.len -> None
         [] OTHER -> ParseL4(ip, f[i + 1], l4_at, got, incomplete,
                             IF incomplete THEN Max2(ip.total - ip.len, got) ELSE got)

-----------------------------------------------------------------------------
(* The extractors                                                          *)

Before(x, y) == x.ip < y.ip \/ (x.ip = y.ip /\ x.port < y.port)

Keyed(proto, src, dst, swap, parsed) ==
    [key |-> [proto |-> proto, a |-> IF swap THEN dst ELSE src, b |-> IF swap THEN src ELSE dst],
     orientation |-> IF swap THEN "Reverse" ELSE "Forward",
     meta |-> IF parsed = None THEN None ELSE parsed.meta,
     ports |-> IF parsed = None THEN None ELSE parsed.ports,
     l3_len |-> IF parsed = None THEN None ELSE parsed.ip.total]

ExtractFiveTuple(p, bidirectional) ==
    LET src == [ip |-> p.ip.src, port |-> IF p.l4 = None THEN 0 ELSE p.ports[1]]
        dst == [ip |-> p.ip.dst, port |-> IF p.l4 = None THEN 0 ELSE p.ports[2]]
        proto == IF p.l4 = None /\ p.ip.proto \in {"Tcp", "Udp"} THEN "Other" ELSE p.ip.proto
    IN IF p = None THEN None ELSE Keyed(proto, src, dst, bidirectional /\ Before(dst, src), p)

ExtractIpPair(p) ==
    IF p = None THEN None ELSE Keyed(None, p.ip.src, p.ip.dst, p.ip.src > p.ip.dst, p)

ExtractMacPair(v) ==
    LET eth == v.layers[1] IN
    IF eth.t # "Eth" \/ v.cap < eth.len THEN None ELSE Keyed(None, eth.src, eth.dst, eth.src > eth.dst, None)

Extract(e, v) ==
    CASE e \in {"FiveTuple", "Directional"} -> ExtractFiveTuple(ParseEth(v), e = "FiveTuple")
      [] e = "IpPair" -> ExtractIpPair(ParseEth(v))
      [] e = "MacPair" -> ExtractMacPair(v)

-----------------------------------------------------------------------------
(* The decapsulating extractors: peel a view, extract, shift the offsets    *)

Rebased(x, delta) == IF x.meta = None THEN x ELSE [x EXCEPT !.meta.offset = @ + delta]

RebaseUnprefixed(x, at, prefix) == IF x = None THEN None ELSE Rebased(x, at)
Rebase(x, at, prefix) == IF x = None THEN None ELSE Rebased(x, at - prefix)

\* The view of what starts with the i-th layer and was captured up to `to`.
Inner(f, i, to) == [layers |-> SubSeq(f, i, Len(f)), cap |-> to - At(f, i)]

\* synthesize_eth_for_ip: what stands in for the link layer of a bare datagram.
Synthesized(v) ==
    IF v.cap = 0 \/ v.layers[1].t # "Ip" THEN None
    ELSE [layers |-> <<[t |-> "Eth", len |-> 14, src |-> 0, dst |-> 0, type |-> v.layers[1].version,
                         at |-> v.layers[1].at - 14]>> \o v.layers,
          cap |-> v.cap + 14]

ExtractBareIp(e, f, i, to) ==
    LET v == Synthesized(Inner(f, i, to)) IN
    IF v = None THEN None ELSE Rebase(Extract(e, v), At(f, i), 14)

StripMpls(e, v) ==
    LET f == v.layers
        bos == {i \in DOMAIN f : f[i].t = "Mpls" /\ f[i].bos}
        i == Min(bos) + 1
    IN IF v.cap < 14 \/ f[1].type # "Mpls" \/ bos = {} THEN None
       ELSE IF i - 2 > LabelBound + 1 \/ v.cap <= At(f, i) THEN None
       ELSE ExtractBareIp(e, f, i, v.cap)

\* A UDP payload to or from the tunnel's port.
Tunnelled(p, port) == p # None /\ p.l4 = "Udp" /\ (p.ports[1] = port \/ p.ports[2] = port)
PayloadEnd(p) == p.meta.offset + p.meta.len

InnerVxlan(e, v) ==
    LET f == v.layers
        p == ParseEth(v)
        i == Net(f, 1) + 3
    IN IF ~Tunnelled(p, VxlanPort) \/ p.meta.len < 8 THEN None
       ELSE Rebase(Extract(e, Inner(f, i, PayloadEnd(p))), At(f, i), 0)

InnerGtpU(e, v) ==
    LET f == v.layers
        p == ParseEth(v)
        i == Net(f, 1) + 3
    IN IF ~Tunnelled(p, GtpuPort) \/ p.meta.len < 8 \/ PayloadEnd(p) <= At(f, i) THEN None
       ELSE ExtractBareIp(e, f, i, PayloadEnd(p))

InnerGre(e, v) ==
    LET f == v.layers
        p == ParseEth(v)
        i == Net(f, 1) + 2
        gre == f[i - 1]
        to == p.l4_offset + p.l4_payload
    IN IF p = None THEN None
       ELSE IF p.ip.proto # "Gre" \/ p.l4_payload < gre.len \/ gre.v # 0 \/ to <= At(f, i) THEN None
       ELSE CASE gre.type = "Teb" -> Rebase(Extract(e, Inner(f, i, to)), At(f, i), 0)
              [] gre.type \in {"Ip4", "Ip6"} -> ExtractBareIp(e, f, i, to)
              [] OTHER -> None

Wrappers == {"Plain", "StripVlan", "StripMpls", "InnerVxlan", "InnerGtpU", "InnerGre"}

Through(wrapper, e, v) ==
    CASE wrapper = "StripMpls" -> StripMpls(e, v)
      [] wrapper = "InnerVxlan" -> InnerVxlan(e, v)
      [] wrapper = "InnerGtpU" -> InnerGtpU(e, v)
      [] wrapper = "InnerGre" -> InnerGre(e, v)
      [] wrapper \in {"Plain", "StripVlan"} -> Extract(e, v)

\* AutoDetectEncap with every variant: the first that gives something.
AutoDetect(e, v) ==
    LET order == <<"Plain", "StripVlan", "StripMpls", "InnerVxlan", "InnerGtpU", "InnerGre">>
    IN FoldLeft(LAMBDA found, w : IF found # None THEN found ELSE Through(w, e, v), None, order)

Oriented(key, orientation) == IF orientation = "Forward" THEN <<key.a, key.b>> ELSE <<key.b, key.a>>
Canonical(key) == IF Before(key.b, key.a) THEN [key EXCEPT !.a = key.b, !.b = key.a] ELSE key

\* Of the IP header and the eight octets after it that an ICMP error quotes,
\* with the ports that extract_ports reads there.
FromInnerLiteral(ip, l4) ==
    LET ported == ip.proto \in {"Tcp", "Udp"} IN
    IF ip.proto = "Sctp" THEN None
    ELSE [proto |-> ip.proto, a |-> [ip |-> ip.src, port |-> IF ported THEN l4.src_port ELSE 0],
                              b |-> [ip |-> ip.dst, port |-> IF ported THEN l4.dst_port ELSE 0]]
FromInnerCanonical(ip, l4) ==
    IF FromInnerLiteral(ip, l4) = None THEN None ELSE Canonical(FromInnerLiteral(ip, l4))

-----------------------------------------------------------------------------
(* Layers and LayerParser, over the strict parse of etherparse              *)

\* IP and transport layers have what they delimit, the others their header.
Span(kind, at, to) == [kind |-> kind, at |-> at, to |-> to]
Kind(l) == IF l.t = "Ip" THEN l.version ELSE l.t
Spans(f, i, j) == [k \in 1 .. (j - i) + 1 |-> Span(Kind(f[i + k - 1]), At(f, i + k - 1), At(f, i + k))]

\* Whether the i-th layer and what it leads to are whole and well-formed, up to
\* the transport layer.
Sliced(f, i, cap) ==
    LET n == Net(f, i)
        ip == f[n]
        l4 == f[n + 1]
    IN /\ n <= Len(f) /\ At(f, n) <= cap
       /\ ip.t = "Arp" => At(f, n + 1) <= cap
       /\ ip.t = "Ip" =>
            /\ n > i => f[n - 1].type = ip.version
            /\ ip.total >= ip.len /\ At(f, n) + ip.total <= cap
            /\ ~ip.frag /\ l4.t \in {"Tcp", "Udp", "Icmp"} => l4.len <= ip.total - ip.len
            /\ ~ip.frag /\ l4.t = "Udp" => UdpLengthFits(l4, ip.total - ip.len)

IpSpan(f, n) == Span(f[n].version, At(f, n), At(f, n) + f[n].total)
L4End(f, n) == IF f[n + 1].t = "Udp" /\ f[n + 1].length # 0 THEN At(f, n + 1) + f[n + 1].length
               ELSE At(f, n) + f[n].total
L4Spans(f, n) ==
    IF f[n].frag \/ f[n + 1].t \notin {"Tcp", "Udp", "Icmp"} THEN <<>>
    ELSE <<Span(f[n + 1].t, At(f, n + 1), L4End(f, n))>>

NoOctets == [at |-> 0, to |-> 0]
Walked(stack, payload, truncated) == [stack |-> stack, payload |-> payload, truncated |-> truncated]

\* The labels are read from behind the Ethernet header on, so that a VLAN tag
\* counts as one, the last if its third octet is odd (0x8100, not 0x8847).
EndsLabels(l) == (l.t = "Mpls" /\ l.bos) \/ (l.t = "Vlan" /\ l.type = "Vlan")
MplsLayers(link, f, i, cap) ==
    LET last == Min({j \in i + 1 .. Len(f) : EndsLabels(f[j])})
        whole == {j \in i + 1 .. last : At(f, j + 1) <= cap}
        n == i + Cardinality(whole) + 1
        labels == [k \in 1 .. Cardinality(whole) |-> Span("Mpls", At(f, i + k), At(f, i + k + 1))]
        rest == [at |-> At(f, n), to |-> cap]
    IN IF f[n].t = "Ip" /\ At(f, n + 1) <= cap
       THEN Walked(link \o labels \o <<Span(f[n].version, At(f, n), cap)>>, [at |-> At(f, n + 1), to |-> cap], FALSE)
       ELSE Walked(link \o labels, rest, FALSE)

\* What is found behind the transport or the IP header: the tunnel's own layer,
\* the layer its contents begin with and where they end; `broken` if they are
\* missing, `opaque` if they are of no known kind.
NoTunnel == [spans |-> <<>>, inner |-> 0, to |-> 0, broken |-> FALSE, opaque |-> FALSE]
Tunnel(f, n, payload) ==
    LET ip == f[n]
        l4 == f[n + 1]
        ip_end == At(f, n) + ip.total
        found(i, to, broken) == [NoTunnel EXCEPT !.spans = Spans(f, i - 1, i - 1), !.to = to,
                                     !.inner = IF broken THEN 0 ELSE i, !.broken = broken]
    IN CASE L4Spans(f, n) # <<>> /\ l4.t = "Udp" /\ l4.dst_port = VxlanPort /\ payload.to - payload.at >= 8 ->
                found(n + 3, payload.to, FALSE)
         [] L4Spans(f, n) # <<>> /\ l4.t = "Udp" /\ l4.dst_port = GtpuPort /\ payload.to - payload.at >= 8 ->
                found(n + 3, payload.to, payload.to <= At(f, n + 3))
         [] ip.proto = "Gre" /\ ip_end - At(f, n + 1) >= 4 ->
                [found(n + 2, ip_end, ip_end <= At(f, n + 2)) EXCEPT
                    !.opaque = ip_end > At(f, n + 2) /\ l4.type \notin {"Ip4", "Ip6", "Teb"}]
         [] ip.proto \in {"Ip4", "Ip6"} /\ ip_end > At(f, n + 1) -> [NoTunnel EXCEPT !.inner = n + 1, !.to = ip_end]
         [] OTHER -> NoTunnel

\* Layers::from_sliced on the i-th layer and what follows it, up to cap.
RECURSIVE LayersFrom(_, _, _)
LayersFrom(f, i, cap) ==
    LET n == Net(f, i)
        link == Spans(f, i, n - 1)
        l4 == L4Spans(f, n)
        payload == IF l4 = <<>> THEN NoOctets ELSE [at |-> At(f, n + 2), to |-> L4End(f, n)]
        t == Tunnel(f, n, payload)
        stack == link \o <<IpSpan(f, n)>> \o l4 \o t.spans
        inner == IF t.inner = 0 THEN None ELSE LayersFrom(f, t.inner, t.to)
        shown == IF inner = None THEN payload ELSE inner.payload
        below == IF inner = None THEN <<>> ELSE SelectSeq(inner.stack, LAMBDA s : s.kind # "Payload")
    IN CASE ~Sliced(f, i, cap) -> None
         [] f[n].t = "Arp" -> Walked(Spans(f, i, n), NoOctets, FALSE)
         [] f[n].t = "Mpls" -> MplsLayers(link, f, i, cap)
         [] f[n].t = "Ip" /\ t.opaque -> Walked(stack, [at |-> At(f, n + 2), to |-> t.to], FALSE)
         [] OTHER -> Walked(stack \o below \o (IF shown.to > shown.at THEN <<Span("Payload", shown.at, shown.to)>> ELSE <<>>),
                            shown, t.broken \/ (t.inner # 0 /\ (inner = None \/ inner.truncated)))

\* LayerParser::populate, with the kinds it was asked for, into a fresh stack.
SlotKinds == {"Eth", "Vlan", "Ip4", "Ip6", "Tcp", "Udp"}
Populate(f, cap, only) ==
    LET n == Net(f, 1)
        spans == Spans(f, 1, n - 1) \o (IF f[n].t = "Ip" THEN <<IpSpan(f, n)>> \o L4Spans(f, n) ELSE <<>>)
        slot(k) == SelectInSeq(spans, LAMBDA s : s.kind = k)
    IN IF ~Sliced(f, 1, cap) THEN None
       ELSE [k \in SlotKinds |-> IF k \in only /\ slot(k) # 0 THEN spans[slot(k)] ELSE None]

-----------------------------------------------------------------------------
(* A frame is captured and read                                             *)

Extractors == {"FiveTuple", "Directional", "IpPair", "MacPair"}
Cuts(f) == {At(f, i) + d : i \in 2 .. Len(f) + 1, d \in {0, 1}} \cap 0 .. Size(f)
View(n, cap) == [layers |-> Packets[n].layers, cap |-> cap]

Init == self = None /\ past = None

Track(n, cap, e, wrapper) ==
    /\ self' = IF wrapper = "AutoDetect" THEN AutoDetect(e, View(n, cap)) ELSE Through(wrapper, e, View(n, cap))
    /\ past' = [did |-> "track", n |-> n, cap |-> cap, e |-> e, wrapper |-> wrapper]

Walk(n, cap, only) ==
    /\ self' = [layers |-> LayersFrom(Packets[n].layers, 1, cap), slots |-> Populate(Packets[n].layers, cap, only)]
    /\ past' = [did |-> "walk", n |-> n, cap |-> cap, only |-> only]

Quote(n) ==
    LET f == Packets[n].layers
        i == Net(f, 1)
    IN /\ f[i].t = "Ip" /\ ~f[i].frag /\ Packets[n].sound
       /\ self' = FromInnerCanonical(f[i], f[i + 1])
       /\ past' = [did |-> "quote", n |-> n]

Next ==
    past = None /\ \E n \in DOMAIN Packets :
        \/ \E cap \in Cuts(Packets[n].layers), e \in Extractors, w \in Wrappers \cup {"AutoDetect"} : Track(n, cap, e, w)
        \/ \E cap \in Cuts(Packets[n].layers), only \in {SlotKinds, {"Ip4", "Tcp"}} : Walk(n, cap, only)
        \/ Quote(n)

-----------------------------------------------------------------------------
(* What should have been read                                              *)

\* The IP layer an extractor is after, and where its payload starts.
IpLayers(f) == {i \in DOMAIN f : f[i].t = "Ip"}
Sought(f, wrapper) ==
    IF wrapper \in {"Plain", "StripVlan", "AutoDetect"} THEN Min(IpLayers(f)) ELSE Max(IpLayers(f))
HasPorts(f, i) == ~f[i].frag /\ f[i + 1].t \in {"Tcp", "Udp"}
PayloadOf(f, i) == At(f, IF HasPorts(f, i) THEN i + 2 ELSE i + 1)
PayloadTo(f, i) == IF HasPorts(f, i) THEN L4End(f, i) ELSE At(f, i) + f[i].total

Source(f, i, e) == IF e = "IpPair" THEN f[i].src
                   ELSE [ip |-> f[i].src, port |-> IF HasPorts(f, i) THEN f[i + 1].src_port ELSE 0]
Target(f, i, e) == IF e = "IpPair" THEN f[i].dst
                   ELSE [ip |-> f[i].dst, port |-> IF HasPorts(f, i) THEN f[i + 1].dst_port ELSE 0]
Follows(x, y, e) == IF e = "IpPair" THEN x > y ELSE Before(y, x)

\* Every packet of a flow gets one key, whichever way it goes and however the
\* capture cut it: a key has the two ends in order, and the orientation tells
\* the sender.  The payload is where it lies in the frame as captured, tunnel
\* and all, with the length it had on the wire, and a packet is passed over
\* only if its ports were cut (parse_eth, FiveTuple, rebase and the tunnels).
\* AutoDetectEncap is held to the outermost IP layer, which is what it reads:
\* the plain extractor is tried first and takes every IP frame.  That it finds
\* the flow inside a tunnel (auto_detect.rs:4-5, docs/concepts.md:108) is not
\* said, and holds only where the outer frame is not IP.
KeyAsSent ==
    past # None /\ past.did = "track" /\ past.e # "MacPair" /\ IpLayers(Packets[past.n].layers) # {} =>
      LET f == Packets[past.n].layers
          i == Sought(f, past.wrapper)
      IN /\ self # None =>
              /\ Oriented(self.key, self.orientation) = <<Source(f, i, past.e), Target(f, i, past.e)>>
              /\ past.e # "Directional" => ~Follows(self.key.a, self.key.b, past.e)
              /\ self.meta.offset = PayloadOf(f, i)
              /\ self.meta.wire = PayloadTo(f, i) - PayloadOf(f, i)
              /\ self.meta.len = Min2(past.cap, PayloadTo(f, i)) - PayloadOf(f, i)
              /\ self.l3_len = f[i].total
         /\ Packets[past.n].sound /\ past.wrapper \in {"AutoDetect", Packets[past.n].tunnel} /\ past.cap >= PayloadOf(f, i) =>
              self # None

\* The key made of what an ICMP error quotes is the key of the flow it is about
\* (from_inner_canonical); the ports of SCTP are not quoted.
QuoteFindsFlow ==
    past # None /\ past.did = "quote" /\ self # None =>
        self = Extract("FiveTuple", View(past.n, Size(Packets[past.n].layers))).key

\* The layers reported are those sent, in order and in place, through tunnels
\* (Layers::from_sliced), and none is cut short if the frame is well-formed,
\* except that a VLAN tag before MPLS labels counts as a label.  A slot of the
\* fast parser holds what Layers has first of its kind (LayerParser::populate),
\* and both refuse the same frames.
LayersAsSent ==
    past # None /\ past.did = "walk" =>
      LET f == Packets[past.n].layers
          walked == self.layers
          tagged == \E i \in 2 .. Len(f) : f[i].t = "Mpls" /\ f[i - 1].t = "Vlan"
          first(k) == CHOOSE i \in DOMAIN walked.stack :
                          walked.stack[i].kind = k /\ \A j \in 1 .. i - 1 : walked.stack[j].kind # k
      IN /\ (walked = None) <=> (self.slots = None)
         /\ walked # None =>
              /\ ~tagged => \A i \in DOMAIN walked.stack :
                               \/ walked.stack[i].kind = "Payload" /\ walked.truncated
                               \/ walked.stack[i].kind \in {Kind(f[i]), "Payload"} /\ walked.stack[i].at = At(f, i)
              /\ \A k \in past.only : self.slots[k] # None => walked.stack[first(k)] = self.slots[k]
              /\ walked.truncated => ~Packets[past.n].sound
              /\ walked.payload.at <= walked.payload.to /\ walked.payload.to <= past.cap
=============================================================================
