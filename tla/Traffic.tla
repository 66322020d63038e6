------------------------------ MODULE Traffic ------------------------------
(***************************************************************************)
(* What the peers send in the checks of the protocol parsers: HTTP/1       *)
(* connections, HTTP/2 connections, streams of frames, mail and file       *)
(* transfer dialogues, TLS and QUIC hellos, captured frames, capture files *)
(* and IPFIX templates.                                                    *)
(***************************************************************************)
EXTENDS Naturals, Sequences, SequencesExt

CONSTANT None

-----------------------------------------------------------------------------
(* HTTP/1: a message has a head, a body in some coding, the number of      *)
(* trailers and, a response, the request it answers                        *)

HttpHead(dir, id) ==
    [dir |-> dir, id |-> id, method |-> None, status |-> 0, te |-> <<>>, cl |-> <<>>, flaw |-> None,
     version |-> 1, connection |-> {}]

HttpMessage(head) ==
    [head |-> head, kind |-> "http", coding |-> "none", chunks |-> <<>>, trailers |-> 0, answers |-> 0,
     switch |-> FALSE, before |-> <<>>, fields |-> 0, bare_lf |-> FALSE]

Request(id, method) == HttpMessage([HttpHead("Request", id) EXCEPT !.method = method])
Response(id, answers, status) ==
    [HttpMessage([HttpHead("Response", id) EXCEPT !.status = status]) EXCEPT !.answers = answers]

\* The body of a message: n bytes by Content-Length, chunks, or up to the FIN.
WithLength(m, n) == [m EXCEPT !.head.cl = <<(<<n>>)>>, !.coding = "length", !.chunks = <<n>>]
Chunked(m, chunks, trailers) ==
    [m EXCEPT !.head.te = <<(<<"chunked">>)>>, !.coding = "chunked", !.chunks = chunks, !.trailers = trailers]
UntilClose(m, n) == [m EXCEPT !.coding = "close", !.chunks = <<n>>]

WithField(m) == [m EXCEPT !.fields = 1]
Switching(m) == [m EXCEPT !.switch = TRUE]
Raw(dir, answers, n) ==
    [HttpMessage(HttpHead(dir, "-")) EXCEPT !.kind = "raw", !.answers = answers, !.chunks = <<n>>]
Preface == [Request("p", "PRI") EXCEPT !.kind = "preface"]
EmptyLine == <<[is |-> "cr", of |-> 0], [is |-> "lf", of |-> 0]>>

HttpConnection(requests, responses) == [Request |-> requests, Response |-> responses]

HttpConnections == <<
    HttpConnection(<<WithField(Request("a", "GET")), Request("b", "GET")>>,
                   <<WithLength(Response("x", 1, 200), 2), UntilClose(Response("y", 2, 200), 2)>>),
    HttpConnection(<<[WithField(WithLength(Request("a", "POST"), 3)) EXCEPT !.bare_lf = TRUE],
                     Request("b", "HEAD"), Request("c", "GET")>>,
                   <<Response("x", 1, 204), [Response("y", 2, 200) EXCEPT !.head.cl = <<(<<2>>)>>],
                     WithLength(Response("z", 3, 200), 1)>>),
    HttpConnection(<<Chunked(Request("a", "POST"), <<1, 2>>, 1), Request("b", "GET")>>,
                   <<Response("i", 1, 100), WithLength(Response("x", 1, 200), 1)>>),
    HttpConnection(<<Request("a", "GET"), Request("b", "CONNECT"), Raw("Request", 0, 1)>>,
                   <<Chunked(Response("x", 1, 200), <<2>>, 1), Switching(Response("y", 2, 200)),
                     Raw("Response", 2, 1)>>),
    HttpConnection(<<Preface, Raw("Request", 0, 1)>>, <<Raw("Response", 1, 2)>>),
    HttpConnection(<<Request("a", "GET"), Raw("Request", 0, 2)>>,
                   <<Switching(Response("x", 1, 101)), Raw("Response", 1, 1)>>),
    \* heads that the stricter policies refuse
    HttpConnection(<<[Chunked(Request("a", "POST"), <<1>>, 0) EXCEPT !.head.cl = <<(<<3>>)>>],
                     [Request("b", "GET") EXCEPT !.head.flaw = "BareCr", !.before = EmptyLine]>>,
                   <<[WithLength(Response("x", 1, 200), 1) EXCEPT !.head.version = 0]>>),
    HttpConnection(<<[WithLength(Request("a", "GET"), 1) EXCEPT !.head.cl = <<(<<1, 2>>)>>],
                     [Request("b", "GET") EXCEPT !.head.flaw = "Malformed"]>>,
                   <<[WithLength(Response("x", 1, 200), 1) EXCEPT !.head.connection = {"close"}]>>) >>

\* The connections as byte streams, in the tokens of module HttpEngine.
HttpToken(is, of) == [is |-> is, of |-> of]
HttpCr == HttpToken("cr", 0)
HttpLf == HttpToken("lf", 0)
HttpField == HttpToken("field", 0)
PrefaceWords == <<HttpToken("pri", 0), HttpCr, HttpLf, HttpCr, HttpLf, HttpToken("sm", 0), HttpCr, HttpLf, HttpCr, HttpLf>>

\* A message is an HTTP/1 one, the HTTP/2 preface, or bytes of another protocol.
HeadBytes(msg) ==
    LET eol == IF msg.bare_lf THEN <<HttpLf>> ELSE <<HttpCr, HttpLf>>
    IN CASE msg.kind = "raw" -> <<>>
         [] msg.kind = "preface" -> PrefaceWords
         [] OTHER -> msg.before \o <<HttpToken("line", msg.head)>> \o eol
                     \o FlattenSeq([i \in 1..msg.fields |-> <<HttpField>> \o eol]) \o eol

HttpData(n) == [i \in 1..n |-> HttpToken("data", i)]

ChunkedBytes(chunks, trailers) ==
    FlattenSeq([i \in DOMAIN chunks |-> <<HttpToken("size", chunks[i]), HttpCr, HttpLf>> \o HttpData(chunks[i]) \o <<HttpCr, HttpLf>>])
    \o <<HttpToken("size", 0), HttpCr, HttpLf>> \o FlattenSeq([i \in 1..trailers |-> <<HttpField, HttpCr, HttpLf>>]) \o <<HttpCr, HttpLf>>

BodyBytes(msg) ==
    IF msg.coding = "chunked" THEN ChunkedBytes(msg.chunks, msg.trailers)
    ELSE FlattenSeq([i \in DOMAIN msg.chunks |-> HttpData(msg.chunks[i])])

HttpBytes(msg) == HeadBytes(msg) \o BodyBytes(msg)
HttpWire(msgs) == FlattenSeq([i \in DOMAIN msgs |-> HttpBytes(msgs[i])])

\* Where each message of a direction starts, after the empty lines before it,
\* where its head ends and where it ends.
Layout(msgs) ==
    [i \in DOMAIN msgs |->
        LET start == Len(HttpWire(SubSeq(msgs, 1, i - 1)))
        IN [msg |-> msgs[i], from |-> start + Len(msgs[i].before), head |-> start + Len(HeadBytes(msgs[i])),
            to |-> start + Len(HttpBytes(msgs[i]))]]

\* A connection: what is sent in each direction, as messages and as bytes.
Scenario(connection) ==
    [sent |-> [d \in DOMAIN connection |-> Layout(connection[d])],
     wire |-> [d \in DOMAIN connection |-> HttpWire(connection[d])]]

HttpScenarios == [i \in DOMAIN HttpConnections |-> Scenario(HttpConnections[i])]

-----------------------------------------------------------------------------
(* HTTP/2: an item is a list of fields, to be encoded and sent in one of   *)
(* three forms, or frames as they are; `after` is how many items of the    *)
(* other side its sender had read, `fails` that a frame breaks the rules   *)

Field(name, value) == [name |-> name, value |-> value]

StaticFields == <<Field(":m", "get"), Field("n", "none")>>
FieldWeight == [v \in {"get", "none", "u", "v", "w", "s"} |-> IF v = "w" THEN 16 ELSE 10]
FieldSensitivity ==
    [n \in {":m", "n", "x", "y", "c", "conn"} |->
        CASE n = "c" -> "Sensitive" [] n = "y" -> "NotIndexed" [] OTHER -> "Indexable"]

Item ==
    [form |-> "frames", stream |-> 1, fields |-> <<>>, end |-> FALSE, as |-> "Head", after |-> 0,
     table |-> None, frames |-> <<>>, events |-> <<>>, fails |-> FALSE]

Block(form, stream, fields, after) ==
    [Item EXCEPT !.form = form, !.stream = stream, !.fields = fields, !.after = after]
Headers(stream, fields, after) == Block("headers", stream, fields, after)
Ending(item) == [item EXCEPT !.end = TRUE]
AsTrailers(item) == [item EXCEPT !.as = "Trailers"]

Bytes(n) == [i \in 1 .. n |-> [is |-> "byte", low |-> i]]
RawFrame(kind, flags, stream, payload) == [kind |-> kind, flags |-> flags, stream |-> stream, payload |-> payload]
H2Event(kind, dir, stream, of) == [ev |-> kind, dir |-> dir, stream |-> stream, of |-> of]

Body(dir, n, flags, after) ==
    [Item EXCEPT !.frames = <<RawFrame("DATA", flags, 1, Bytes(n))>>, !.after = after,
                 !.events = <<H2Event("Body", dir, 1, Bytes(n))>>
                            \o (IF flags = {} THEN <<>> ELSE <<H2Event("End", dir, 1, None)>>)]
TableSize(dir, n, after) ==
    [Item EXCEPT !.frames = <<RawFrame("SETTINGS", {}, 0, <<[is |-> "table", low |-> n]>>)>>, !.table = n,
                 !.after = after, !.events = <<H2Event("Settings", dir, 0, <<n, None>>)>>]
FrameSize(dir, n) ==
    [Item EXCEPT !.frames = <<RawFrame("SETTINGS", {}, 0, <<[is |-> "frame", low |-> 1], [is |-> "frame", low |-> n]>>)>>,
                 !.events = <<H2Event("Settings", dir, 0, <<None, n>>)>>]
Control(kind, stream, events) ==
    [Item EXCEPT !.frames = <<RawFrame(kind, {}, stream, Bytes(1))>>, !.events = events]
Breaking(frames, after) == [Item EXCEPT !.frames = frames, !.fails = TRUE, !.after = after]

H2Script(preface, initiator, responder) ==
    [preface |-> preface, Initiator |-> initiator, Responder |-> responder]

H2Scripts == <<
    \* the table fills, is made smaller and larger, and is referred to again
    H2Script(TRUE,
        <<Ending(Headers(1, <<Field(":m", "get"), Field("x", "u"), Field("x", "v")>>, 0)),
          Ending(Headers(3, <<Field("x", "v"), Field("x", "u")>>, 0)),
          Ending(Headers(5, <<Field("x", "w"), Field("x", "u")>>, 0))>>,
        <<TableSize("Responder", 10, 1), TableSize("Responder", 40, 1)>>),
    \* padding, priority, a promise, a body and trailers
    H2Script(TRUE,
        <<TableSize("Initiator", 33, 0), Block("padded", 1, <<Field("x", "u"), Field("c", "s")>>, 0),
          Body("Initiator", 2, {"END_STREAM"}, 0)>>,
        <<Headers(1, <<Field("x", "u"), Field("c", "s"), Field("y", "v")>>, 2),
          Block("promise", 2, <<Field("x", "u"), Field("c", "s")>>, 2),
          Body("Responder", 1, {}, 2), Ending(AsTrailers(Headers(1, <<Field("x", "w")>>, 2)))>>),
    \* a refused list, an empty one, a reset stream; frames that say nothing
    H2Script(FALSE,
        <<Headers(1, <<Field("n", "u"), Field("conn", "u")>>, 0), Headers(1, <<>>, 0),
          Ending(AsTrailers(Headers(1, <<Field("n", "u")>>, 0))),
          Control("RST_STREAM", 1, <<H2Event("StreamReset", "Initiator", 1, None)>>),
          Ending(Headers(3, <<Field("n", "u")>>, 0))>>,
        <<FrameSize("Responder", 4), Control("PING", 0, <<>>),
          Control("GOAWAY", 0, <<H2Event("GoAway", "Responder", 0, None)>>)>>),
    \* frames that break the rules
    H2Script(TRUE,
        <<Ending(Headers(1, <<Field("x", "u")>>, 0)),
          Breaking(<<RawFrame("HEADERS", {}, 3, <<>>), RawFrame("PING", {}, 0, Bytes(1))>>, 0),
          Ending(Headers(5, <<Field("x", "u")>>, 0))>>,
        <<Ending(Headers(1, <<Field("x", "u")>>, 1)),
          Breaking(<<RawFrame("CONTINUATION", {"END_HEADERS"}, 1, <<>>)>>, 0)>>),
    H2Script(TRUE,
        <<Ending(Headers(1, <<Field("x", "u")>>, 0)),
          Breaking(<<RawFrame("DATA", {"PADDED"}, 1, <<[is |-> "pad", low |-> 1]>>)>>, 0)>>,
        <<Breaking(<<RawFrame("DATA", {}, 1, Bytes(10))>>, 1)>>),
    H2Script(TRUE,
        <<Ending(Headers(1, <<Field("x", "u")>>, 0)), Ending(Headers(3, <<Field("x", "u")>>, 0)),
          Ending(Headers(5, <<>>, 0)), [Ending(Headers(7, <<>>, 0)) EXCEPT !.fails = TRUE]>>,
        <<Breaking(<<RawFrame("RST_STREAM", {}, 1, <<>>)>>, 0)>>) >>

-----------------------------------------------------------------------------
(* Streams of frames, one direction                                        *)

Framing(what, len, id) == [what |-> what, len |-> len, id |-> id]
Tells(id, len) == Framing("message", len, id)
Each(kinds, streams) == {[kind |-> k, frames |-> f] : k \in kinds, f \in streams}

FrameStreams == UNION {
    Each({"DnsTcp", "Kerberos", "Smb", "Modbus", "Dnp3", "Ldap", "Tls", "Accumulating"},
         {<<Tells("a", 1), Tells("b", 2), Tells("c", 1)>>}),
    Each({"DnsTcp", "Kerberos", "Smb", "Tls"}, {<<Tells("a", 1), Framing("other", 2, "b"), Tells("c", 1)>>}),
    Each({"Modbus", "Dnp3", "Ldap", "Tls", "Accumulating"},
         {<<Tells("a", 2), Framing("bad", 1, "b"), Tells("c", 1), Tells("d", 2)>>}),
    Each({"Kerberos", "Rdp"}, {<<Tells("a", 1), Framing("huge", 0, "b")>>, <<Framing("huge", 0, "b")>>}),
    Each({"Rdp"}, {<<Tells("a", 2), Tells("b", 1)>>, <<Framing("other", 1, "a"), Tells("b", 1)>>}),
    Each({"Tls"}, {<<Tells("a", 1), Framing("last", 1, "b"), Tells("c", 1)>>}),
    Each({"Ldap", "Tls", "Accumulating"}, {<<Tells("a", 1), Tells("b", 7)>>}),
    Each({"Kerberos", "Smb", "Modbus", "Dnp3"}, {<<Tells("a", 1), Tells("b", 5), Tells("c", 1)>>}),
    Each({"Accumulating"}, {<<Tells("a", 1), Framing("zero", 1, "b"), Tells("c", 1)>>}),
    Each({"Ssh"}, {<<Framing("line", 1, "l"), Framing("banner", 2, "a"), Tells("b", 1), Framing("other", 0, "c"),
                     Framing("last", 1, "d"), Tells("e", 1)>>,
                   <<Framing("line", 6, "l"), Framing("banner", 2, "a"), Framing("bad", 1, "c"), Tells("e", 1)>>,
                   <<Framing("garbled", 1, "l"), Framing("banner", 2, "a")>>,
                   <<Framing("banner", 2, "a"), Framing("huge", 0, "c")>>})}

-----------------------------------------------------------------------------
(* Dialogues of lines: `after` is how many items of the other side its     *)
(* sender had received                                                     *)

Line(after, what, id) == [what |-> what, id |-> id, after |-> after, text |-> <<"text", "text">>]
Empty(after) == [what |-> "empty", id |-> "", after |-> after, text |-> <<>>]
Token(after, user, id) == [what |-> "token", id |-> id, user |-> user, after |-> after, text |-> <<"text">>]
MailText(after, text) == [what |-> "body", id |-> "body", after |-> after, text |-> text]
Reply(after, code, id) ==
    [what |-> "reply", id |-> id, code |-> code, final |-> TRUE, accepts |-> "", after |-> after, text |-> <<"text">>]
Continued(after, code, id) == [Reply(after, code, id) EXCEPT !.final = FALSE]
Accepts(after, code, id, command) == [Reply(after, code, id) EXCEPT !.accepts = command]

Dialogue(kind, gaps, client, server) == [kind |-> kind, gaps |-> gaps, c |-> client, s |-> server]

Mail == Dialogue("Smtp", FALSE,
    <<Line(1, "EHLO", "c1"), Line(3, "MAIL", "c2"), Line(3, "RCPT", "c3"), Line(5, "DATA", "c4"),
      MailText(6, <<"text", "cr", "lf", "dot", "dot", "cr", "lf", "dot">>), Line(7, "QUIT", "c6")>>,
    <<Reply(0, 220, "s1"), Continued(1, 250, "s2"), Reply(1, 250, "s3"), Reply(2, 250, "s4"),
      Reply(3, 250, "s5"), Accepts(4, 354, "s6", "DATA"), Reply(5, 250, "s7")>>)

Submission == Dialogue("Smtp", FALSE,
    <<Line(1, "AUTH LOGIN", "c1"), [Line(2, "user", "u") EXCEPT !.text = <<"text">>], Token(3, "u", "p"), Empty(4),
      Line(4, "DATA", "c2"), Line(5, "AUTH PLAIN", "c3"), Token(6, "q", "q"), Line(7, "AUTH PLAIN ir", "c4"),
      Line(8, "STARTTLS", "c5"), Line(9, "STARTTLS", "c6"), Line(10, "tls", "c7")>>,
    <<Reply(0, 220, "s1"), Reply(1, 334, "s2"), Reply(2, 334, "s3"), Reply(3, 235, "s4"), Reply(5, 554, "s5"),
      Reply(6, 334, "s6"), Reply(7, 235, "s7"), Reply(8, 235, "s8"), Reply(9, 454, "s9"),
      Accepts(10, 220, "s10", "STARTTLS"), Line(11, "tls", "s11")>>)

FileTransfer == Dialogue("Ftp", FALSE,
    <<Line(1, "PASS", "c0"), Line(1, "USER", "c1"), Line(2, "USER", "c2"), Line(3, "PASS", "c3"), Line(4, "PASS", "c4"),
      Empty(5), Line(5, "RETR", "c5"), Line(5, "AUTH TLS", "c6"), Line(6, "AUTH TLS", "c7"), Line(7, "tls", "c8")>>,
    <<Reply(0, 220, "s1"), Reply(2, 331, "s2"), Reply(3, 331, "s3"), Continued(4, 230, "s4"), Reply(5, 503, "s5"),
      Reply(8, 504, "s6"), Accepts(9, 234, "s7", "AUTH TLS"), Line(10, "tls", "s8")>>)

\* Lines that change nothing, for the gaps.
Noops(kind) == Dialogue(kind, TRUE,
    <<Line(1, "NOOP", "c1"), Line(1, "NOOP", "c2"), Line(1, "NOOP", "c3")>>,
    <<Reply(0, 220, "s1"), Reply(1, 200, "s2"), Reply(2, 200, "s3")>>)

LineDialogues ==
    [mail |-> Mail, submission |-> Submission, ftp |-> FileTransfer, smtp_lines |-> Noops("Smtp"), ftp_lines |-> Noops("Ftp")]

-----------------------------------------------------------------------------
(* TLS: a record is sent after `after` records of the other side           *)

TlsRecord(type, id, after) ==
    [type |-> type, id |-> id, after |-> after, ech |-> FALSE, answers |-> None, fatal |-> FALSE]
ClientHello(id, ech, after) == [TlsRecord("ClientHello", id, after) EXCEPT !.ech = ech]
ServerHello(id, answers, after) == [TlsRecord("ServerHello", id, after) EXCEPT !.answers = answers]
FatalAlert(id, after) == [TlsRecord("Alert", id, after) EXCEPT !.fatal = TRUE]
ChangeCipherSpec(after) == TlsRecord("ChangeCipherSpec", "ccs", after)

TlsScript(initiator, responder) == [Initiator |-> initiator, Responder |-> responder]

TlsScripts == <<
    \* both sides send a certificate
    TlsScript(<<ClientHello("a", FALSE, 0), TlsRecord("Certificate", "c", 2), ChangeCipherSpec(2)>>,
              <<ServerHello("s", "a", 1), TlsRecord("Certificate", "d", 1), ChangeCipherSpec(3)>>),
    \* the client refuses the certificate, the server the hello
    TlsScript(<<ClientHello("a", TRUE, 0), FatalAlert("f", 2)>>,
              <<ServerHello("s", "a", 1), TlsRecord("Certificate", "d", 1)>>),
    TlsScript(<<ClientHello("a", TRUE, 0)>>, <<TlsRecord("Alert", "w", 1), FatalAlert("f", 1)>>),
    \* a hello that is retried, with and without the compatibility mode
    TlsScript(<<ClientHello("a", TRUE, 0), ClientHello("b", TRUE, 1)>>,
              <<ServerHello("s", "a", 1), ServerHello("t", "b", 2), ChangeCipherSpec(2)>>),
    TlsScript(<<ClientHello("a", FALSE, 0), ChangeCipherSpec(2), ClientHello("b", FALSE, 2)>>,
              <<ServerHello("s", "a", 1), ChangeCipherSpec(1), ServerHello("t", "b", 3)>>),
    \* the client gives up while the answer is on its way
    TlsScript(<<ClientHello("a", FALSE, 0), FatalAlert("f", 0)>>, <<ServerHello("s", "a", 1)>>) >>

-----------------------------------------------------------------------------
(* QUIC: the hellos of three connections, split in several ways            *)

CryptoFrame(offset, len) == [offset |-> offset, len |-> len]
Initial(dcid, frames) == [dcid |-> dcid, frames |-> frames]

HelloLengths == [c \in {"c", "d", "e"} |-> IF c = "c" THEN 4 ELSE 2]
QuicDatagrams ==
    {Initial("c", <<CryptoFrame(0, 2)>>), Initial("c", <<CryptoFrame(2, 2)>>), Initial("c", <<CryptoFrame(1, 2)>>),
     Initial("c", <<CryptoFrame(3, 1), CryptoFrame(0, 1)>>),
     Initial("d", <<CryptoFrame(0, 2)>>), Initial("d", <<CryptoFrame(1, 1)>>), Initial("e", <<CryptoFrame(1, 1)>>)}

-----------------------------------------------------------------------------
(* Captured frames: an IP datagram holds the layers `over` it              *)

Octets(layers) == FoldLeft(LAMBDA n, l : n + l.len, 0, layers)
Payload(n) == <<[t |-> "Payload", len |-> n]>>

IpHeader(version) == IF version = "Ip4" THEN 20 ELSE 40
Ip(version, src, dst, proto, over) ==
    <<[t |-> "Ip", len |-> IpHeader(version), version |-> version, src |-> src, dst |-> dst, proto |-> proto,
       total |-> IpHeader(version) + Octets(over), frag |-> FALSE]>> \o over
TcpSegment(src_port, dst_port, n) == <<[t |-> "Tcp", len |-> 20, src_port |-> src_port, dst_port |-> dst_port]>> \o Payload(n)
UdpDatagram(src_port, dst_port, over) ==
    <<[t |-> "Udp", len |-> 8, src_port |-> src_port, dst_port |-> dst_port, length |-> 8 + Octets(over)]>> \o over
Gre(type, v, len, over) == <<[t |-> "Gre", len |-> len, type |-> type, v |-> v]>> \o over
Header(t, len, over) == <<[t |-> t, len |-> len]>> \o over
Labels(n) == [i \in 1 .. n |-> [t |-> "Mpls", len |-> 4, bos |-> i = n]]

Ether(src, dst, type, over) == <<[t |-> "Eth", len |-> 14, src |-> src, dst |-> dst, type |-> type]>> \o over
Tag(type, over) == <<[t |-> "Vlan", len |-> 4, type |-> type]>> \o over

Plain(over) == Ether(1, 2, over[1].version, over)
Placed(layers) == [i \in DOMAIN layers |-> layers[i] @@ [at |-> Octets(SubSeq(layers, 1, i - 1))]]
Sound(tunnel, layers) == [layers |-> Placed(layers), sound |-> TRUE, tunnel |-> tunnel]
Unsound(layers) == [layers |-> Placed(layers), sound |-> FALSE, tunnel |-> "Plain"]

TcpPacket(src, dst) == Ip("Ip4", src, dst, "Tcp", TcpSegment(3, 5, 2))
UdpPacket(src, dst) == Ip("Ip6", src, dst, "Udp", UdpDatagram(5, 3, Payload(2)))
Carried(src_port, dst_port, over) == Plain(Ip("Ip4", 7, 6, "Udp", UdpDatagram(src_port, dst_port, over)))
GreCarried(type, v, len, over) == Plain(Ip("Ip4", 6, 7, "Gre", Gre(type, v, len, over)))

\* VXLAN on port 8, GTP-U on port 9.
CapturedFrames == <<
    Sound("Plain", Plain(TcpPacket(1, 2))), Sound("Plain", Ether(2, 1, "Ip6", UdpPacket(2, 1))),
    Sound("Plain", Plain(Ip("Ip4", 1, 1, "Tcp", TcpSegment(5, 3, 0)))), Sound("Plain", Plain(Ip("Ip4", 1, 1, "Udp", UdpDatagram(3, 3, Payload(1))))),
    Sound("Plain", Plain(TcpPacket(2, 1)) \o Header("Pad", 6, <<>>)),
    Sound("Plain", Plain(Ip("Ip4", 2, 1, "Icmp", Header("Icmp", 8, Payload(2))))),
    Sound("Plain", Plain(Ip("Ip4", 2, 1, "Sctp", Header("Sctp", 12, Payload(2))))),
    Sound("Plain", Plain([Ip("Ip4", 2, 1, "Tcp", Payload(9)) EXCEPT ![1].frag = TRUE])),
    Sound("Plain", Plain([Ip("Ip4", 2, 1, "Udp", UdpDatagram(3, 5, Payload(3))) EXCEPT ![2].length = 0])),
    Sound("Plain", Plain([Ip("Ip4", 2, 1, "Udp", UdpDatagram(3, 5, Payload(3))) EXCEPT ![2].length = 9])),
    Sound("StripVlan", Ether(1, 2, "Vlan", Tag("Ip4", TcpPacket(2, 1)))),
    Sound("StripVlan", Ether(1, 2, "Vlan", Tag("Vlan", Tag("Ip6", UdpPacket(1, 2))))),
    Sound("StripMpls", Ether(1, 2, "Mpls", Labels(1) \o TcpPacket(2, 1))),
    Sound("StripMpls", Ether(1, 2, "Mpls", Labels(2) \o UdpPacket(1, 2))),
    Unsound(Ether(1, 2, "Mpls", Labels(3) \o UdpPacket(1, 2))),
    Unsound(Ether(1, 2, "Vlan", Tag("Mpls", Labels(1) \o TcpPacket(1, 2)))),
    Unsound(Ether(1, 2, "Vlan", Tag("Vlan", Tag("Mpls", Labels(1) \o TcpPacket(1, 2))))),
    Sound("InnerVxlan", Carried(4, 8, Header("Vxlan", 8, Plain(TcpPacket(2, 1))))),
    Sound("InnerVxlan", Carried(8, 4, Header("Vxlan", 8, Ether(1, 2, "Vlan", Tag("Ip6", UdpPacket(2, 1)))))),
    Sound("InnerGtpU", Carried(4, 9, Header("GtpU", 8, TcpPacket(2, 1)))),
    Sound("InnerGtpU", Carried(9, 9, Header("GtpU", 12, UdpPacket(1, 2)))),
    Sound("InnerGre", GreCarried("Ip4", 0, 4, TcpPacket(2, 1))), Sound("InnerGre", GreCarried("Ip6", 0, 8, UdpPacket(2, 1))),
    Sound("InnerGre", GreCarried("Teb", 0, 4, Plain(TcpPacket(1, 2)))),
    Unsound(GreCarried("Ppp", 0, 4, Payload(5))), Unsound(GreCarried("Ip4", 1, 4, TcpPacket(2, 1))),
    Unsound(Carried(4, 9, Header("GtpU", 8, <<>>))), Unsound(GreCarried("Ip4", 0, 4, [TcpPacket(2, 1) EXCEPT ![1].total = 99])),
    Unsound(Plain(Ip("Ip4", 6, 7, "Ip4", TcpPacket(2, 1)))),
    Unsound(Ether(1, 2, "Ip6", TcpPacket(2, 1))), Unsound(Plain([TcpPacket(1, 2) EXCEPT ![1].total = 19])),
    Unsound(Plain([Ip("Ip4", 2, 1, "Udp", UdpDatagram(3, 5, Payload(3))) EXCEPT ![2].length = 12])),
    Unsound(Ether(1, 2, "Arp", Header("Arp", 28, <<>>))) >>
-----------------------------------------------------------------------------
(* Capture files                                                           *)

Event(e) == [event |-> e]
Told(n) == IF n = 0 THEN <<Event("Started")>> ELSE <<Event("Application"), Event("Anomaly")>>
Written(id, len) == [id |-> id, len |-> len, ip |-> IF len > 24 THEN 4 ELSE None, type |-> IF len > 24 THEN 4 ELSE 0]
Described(link, snaplen, units, offset) ==
    [is |-> "Interface", link |-> link, snaplen |-> snaplen, units |-> units, offset |-> offset]
Enhanced(n, raw, len, original, flagged) ==
    [is |-> "Enhanced", interface |-> n, raw |-> raw, data |-> Written(n, len), original |-> original,
     flagged |-> flagged, events |-> Told(n)]
Simple(len, original) == [is |-> "Simple", data |-> Written(7, len), original |-> original, events |-> Told(0)]

Section == [is |-> "Section"]
Blocks == {Section, [is |-> "Broken"], [is |-> "Other"],
           Described("Ethernet", 26, 4, 1), Described("Sll2", 0, 2, -2),
           Enhanced(0, 7, 30, 40, None), Enhanced(1, 9, 18, 0, "Inbound"), Simple(28, 27)}

PcapNgFiles ==
    {[format |-> "PcapNg", records |-> <<Section>> \o blocks] : blocks \in BoundedSeq(Blocks, 3)}
    \cup {[format |-> "PcapNg", records |-> <<Section, Described("Ethernet", 0, 2, 0), Described("Null", 0, 2, 0),
              Enhanced(1, 5, 26, 30, None), Section, Described("Raw", 0, 4, 0), Enhanced(0, 5, 26, 26, None),
              Enhanced(1, 5, 26, 26, None), Simple(28, 30)>>]}

PcapFiles ==
    {[format |-> "Pcap", link |-> link, resolution |-> resolution,
      records |-> <<[is |-> "Record", secs |-> 9, frac |-> frac, data |-> Written(0, len), original |-> 28, events |-> Told(1)],
                    [is |-> "Record", secs |-> 2, frac |-> 1, data |-> Written(1, 26), original |-> 26, events |-> Told(0)]>>] :
     link \in {"Ethernet", "Sll", "Sll2", "Raw", "Null", "Other"}, resolution \in {"Micro", "Nano"},
     frac \in {0, 3}, len \in {0, 4, 18, 26}}

CaptureFiles == PcapNgFiles \cup PcapFiles

-----------------------------------------------------------------------------
(* IPFIX templates, by id                                                  *)

Element(element, length, enterprise) == [element |-> element, length |-> length, enterprise |-> enterprise]
IpfixTemplates ==
    256 :> <<Element("Number", 1, None), Element("Address4", 4, None), Element("Other", 3, 9)>>
    @@ 257 :> <<Element("Number", 2, None), Element("Other", 65535, None)>>
=============================================================================
