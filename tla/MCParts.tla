------------------------------- MODULE MCParts ------------------------------
(***************************************************************************)
(* The stores and the packet intake, each on its own small instance, and   *)
(* the protocol parsers, each on the traffic of module Traffic: a          *)
(* behaviour picks one of them and stays with it.                          *)
(***************************************************************************)
EXTENDS Traffic, TLC

CONSTANTS Keys, Hosts, Values

\* A behaviour is about one part: its program state and its history.
VARIABLES part, self, past

Maps == INSTANCE ExpiringMaps WITH
    Times <- {0, 1}, Ttl <- 0, Capacity <- 2, MaxHits <- 2

Summaries == INSTANCE Sketches WITH
    Items <- 1..4, Places <- 0..2, Probe <- <<(<<0, 1>>), (<<1, 1>>), (<<0, 2>>), (<<1, 0>>)>>,
    CellMax <- 3, CountMax <- 3, K <- 2, MaxAdds <- 5, MaxBatch <- 2

Windows == INSTANCE TimeWindows WITH
    Keys <- Hosts, Values <- {1, 2}, Times <- {0, 1, 3, 6}, Window <- 3, Width <- 2, Capacity <- 1, MaxRecords <- 3

Alerts == INSTANCE Detectors WITH
    Names <- Values, Times <- {0, 2, 5}, Window <- 3, Width <- 2, Capacity <- 4, MaxFlows <- 5, MaxQueries <- 4, Threshold <- 2,
    Cooldown <- 2, StaleTtl <- 3, SeenTtl <- 2, Warmup <- 1, MaxSources <- 1

Bits == INSTANCE Signals WITH
    Keys <- Hosts, Names <- Values, Ttls <- {0, 1}, Times <- {0, 1, 2}, MaxKeys <- 1, Threshold <- 2, Window <- 1, MaxEvents <- 5

Intake == INSTANCE PacketIntake WITH
    Frames <- 1..2, HashOf <- <<1, 1>>, LenOf <- <<1, 2>>, FlowOf <- <<1, 2>>, DedupWindow <- 1,
    RingSize <- 1, Times <- {0, 1, 5}, Interval <- 4, MaxFrames <- 3

Fragments == INSTANCE IpFragment WITH
    FragmentKeys <- Hosts, Tags <- Values, Offsets <- 0..2, Lengths <- 0..2, Times <- {0, 2}, Timeout <- 1, MaxDatagrams <- 1,
    MaxDatagramBytes <- 2, MaxPushes <- 4

Queries == INSTANCE DnsQueries WITH
    Ids <- Keys, Times <- {0, 1}, QueryTimeout <- 1, MaxPending <- 2, MaxQueries <- 3

Hits == {<<[type |-> "CNAME", ttl |-> 0], [type |-> "A", ip |-> p, id |-> c, ttl |-> 1]>> :
            p \in Hosts, c \in Values}
        \cup {<<[type |-> "A", ip |-> p, id |-> c, ttl |-> 1],
                [type |-> "PTR", ip |-> q, id |-> d, ttl |-> 1]>> :
            p \in Hosts, q \in Hosts, c \in Values, d \in Values}

NamesOf == INSTANCE NameMap WITH
    Addrs <- Hosts, ClaimIds <- Values, Ttls <- {1}, Times <- {0, 2}, Default <- 0, Grace <- 0, MaxIps <- 1, MaxClaims <- 1,
    MaxFeed <- 2, MaxDrops <- 1, Responses <- Hits

\* One address with more names than are kept of it, seen at several times.
Aliases == INSTANCE NameMap WITH
    Addrs <- {"p"}, ClaimIds <- {"a", "b", "c"}, Ttls <- {1}, Times <- 0 .. 2, Default <- 3, Grace <- 0, MaxIps <- 1,
    MaxClaims <- 2, MaxFeed <- 2, MaxDrops <- 1, Responses <- {<<[type |-> "A", ip |-> "p", id |-> "a", ttl |-> 2]>>}

Profiles == {[name |-> "h1", ip |-> "i1", ips |-> <<"i1", "i2">>, label |-> "x", caps |-> {"ROUTER"},
              services |-> FALSE, query |-> TRUE, sans |-> <<"s">>],
             [name |-> "h2", ip |-> "i2", ips |-> <<>>, label |-> None, caps |-> {"TELEPHONE", "PHONE"},
              services |-> TRUE, query |-> FALSE, sans |-> <<>>]}

Inventory == INSTANCE Assets WITH
    Macs <- Hosts, Sources <- {"ARP", "NDP", "DHCP", "LLDP", "CDP", "SSDP", "MDNS", "NBNS", "TLS", "SSH", "P0F"},
    Times <- {0, 1, 2}, Capacity <- 1, MaxIps <- 2, MaxHostnames <- 2, MaxUpdates <- 2

\* One asset whose lists fill and overflow.
Renamed == {[name |-> r[1], ip |-> r[2][1], ips |-> r[2], label |-> r[1], caps |-> {}, services |-> FALSE,
             query |-> FALSE, sans |-> <<r[1]>>] :
              r \in {<<"h1", <<"i1">>>>, <<"h2", <<"i2", "i1">>>>, <<"h3", <<"i3">>>>}}

Lists == INSTANCE Assets WITH
    Macs <- {"m"}, Sources <- {"DHCP", "TLS"}, Profiles <- Renamed, Times <- {1}, Capacity <- 1,
    MaxIps <- 2, MaxHostnames <- 2, MaxUpdates <- 4

Tally == INSTANCE Losses WITH MaxLosses <- 3

StoresInit ==
    \/ part = "maps" /\ Maps!Init
    \/ part = "sketches" /\ Summaries!Init
    \/ part = "windows" /\ Windows!Init
    \/ part = "detectors" /\ Alerts!Init
    \/ part = "signals" /\ Bits!Init
    \/ part = "intake" /\ Intake!Init
    \/ part = "fragments" /\ Fragments!Init
    \/ part = "queries" /\ Queries!Init
    \/ part = "names" /\ NamesOf!Init
    \/ part = "aliases" /\ Aliases!Init
    \/ part = "assets" /\ Inventory!Init
    \/ part = "lists" /\ Lists!Init
    \/ part = "losses" /\ Tally!Init

StoresNext ==
    \/ part = "maps" /\ Maps!Next
    \/ part = "sketches" /\ Summaries!Next
    \/ part = "windows" /\ Windows!Next
    \/ part = "detectors" /\ Alerts!Next
    \/ part = "signals" /\ Bits!Next
    \/ part = "intake" /\ Intake!Next
    \/ part = "fragments" /\ Fragments!Next
    \/ part = "queries" /\ Queries!Next
    \/ part = "names" /\ NamesOf!Next
    \/ part = "aliases" /\ Aliases!Next
    \/ part = "assets" /\ Inventory!Next
    \/ part = "lists" /\ Lists!Next
    \/ part = "losses" /\ Tally!Next

-----------------------------------------------------------------------------
Telemetry == INSTANCE HttpTelemetry WITH
    MaxHead <- 9, MaxChunkLine <- 2, MaxTrailer <- 8, MaxPipelined <- 2, MaxPartialLine <- 2,
    Scenarios <- HttpScenarios, Kinds <- {"message", "exchange"}, MaxBuffer <- 2, GapSizes <- {4}

Proxy == INSTANCE HttpProxy WITH
    MaxHead <- 9, MaxChunkLine <- 2, MaxTrailer <- 8, MaxPipelined <- 2, MaxPartialLine <- 2,
    Scenarios <- HttpScenarios, Policies <- {"Strict", "Observe"}, Drivers <- {"proxy", "session"},
    Cuts <- {2}, MaxBuffered <- 11

H2 == INSTANCE Http2 WITH
    StaticTable <- StaticFields, Weight <- FieldWeight, Sensitivity <- FieldSensitivity,
    Pseudo <- {":m"}, Forbidden <- {"conn"}, DefaultTable <- 40, HardTable <- 50, MaxFields <- 3,
    MaxBlock <- 60, Scripts <- H2Scripts, EncoderTable <- 40, RequirePreface <- FALSE, MaxFrame <- 10,
    MaxBuffered <- 11, MaxStreams <- 3, Cuts <- {1, 2, 3, 5}, MaxFlight <- 5, Chunk <- 2

Framed == INSTANCE FramedParsers WITH
    Streams <- FrameStreams, HeaderLen <- 3, MaxBuffer <- 9, MaxBanner <- 5, Chunk <- 6

Lines == INSTANCE LineParsers WITH
    Dialogues <- LineDialogues, MaxLine <- 20, Chunk <- 5

Handshakes == INSTANCE TlsHandshakes WITH Scripts <- TlsScripts

Initials == INSTANCE QuicInitials WITH
    HelloLen <- HelloLengths, Datagrams <- QuicDatagrams, Times <- {0, 2}, MaxPendingConnections <- 2,
    PendingTtl <- 1, MaxCryptoBytes <- 5, MaxCryptoFrames <- 3, MaxArrivals <- 4

Captured == INSTANCE Frames WITH Packets <- CapturedFrames, VxlanPort <- 8, GtpuPort <- 9, LabelBound <- 1

Saved == INSTANCE CaptureFile WITH
    Files <- CaptureFiles, MicrosPerSec <- 2, NanosPerSec <- 4, SecondsSpan <- 8, MaxItems <- 12,
    Rest <- <<Event("Closed"), Event("Anomaly"), Event("Tick")>>

Exported == INSTANCE Ipfix WITH
    Registry <- IpfixTemplates, Records <- {[number |-> 5, v4 |-> 1], [number |-> 2, v4 |-> None]},
    MessageSpan <- 80, Base <- 4, MaxAdded <- 3

ParsersInit ==
    \/ part = "http" /\ Telemetry!Init
    \/ part = "proxy" /\ Proxy!Init
    \/ part = "http2" /\ H2!Init
    \/ part = "frames" /\ Framed!Init
    \/ part = "lines" /\ Lines!Init
    \/ part = "handshakes" /\ Handshakes!Init
    \/ part = "quic" /\ Initials!Init
    \/ part = "captured" /\ Captured!Init
    \/ part = "file" /\ Saved!Init
    \/ part = "ipfix" /\ Exported!Init

ParsersNext ==
    \/ part = "http" /\ Telemetry!Next
    \/ part = "proxy" /\ Proxy!Next
    \/ part = "http2" /\ H2!Next
    \/ part = "frames" /\ Framed!Next
    \/ part = "lines" /\ Lines!Next
    \/ part = "handshakes" /\ Handshakes!Next
    \/ part = "quic" /\ Initials!Next
    \/ part = "captured" /\ Captured!Next
    \/ part = "file" /\ Saved!Next
    \/ part = "ipfix" /\ Exported!Next

Init == StoresInit \/ ParsersInit

Next == UNCHANGED part /\ (StoresNext \/ ParsersNext)

Spec == Init /\ [][Next]_<<part, self, past>>

Symmetry == Permutations(Hosts) \cup Permutations(Values)

-----------------------------------------------------------------------------
\* A map with a time to live and a bound on keys answers as one without the
\* bound would, until Capacity other keys were used (KeyIndexed and the five
\* stores built on it).  Times to live run from insertion, not from the last
\* use as NeighborTable and FlowAnalyzer document.
LookupIsCurrent == part = "maps" => Maps!LookupIsCurrent

\* Merging two shards of a summary loses nothing a single one would have kept
\* (Mergeable::merge of the filters, sketches, TopK and Histogram).
MergedAsOne == part = "sketches" => Summaries!MergedAsOne

\* A sliding window answers with what was recorded in it, whatever order the
\* timestamps came in (TimeBucketedCounter, TimeBucketedSet, RollingRate), and
\* the counters of a flow are the sum of the losses it told of (Counters::diff,
\* fold_slot, tombstone).
WindowCountsWhatHappened ==
    /\ part = "windows" => Windows!WindowCountsWhatHappened
    /\ part = "losses" => Tally!LossesAddUp

\* An alert stands on what its subject did, and no detector alerts on one
\* subject twice within its cooldown (observe and last_emitted of each).
AlertIsEarned == part = "detectors" => Alerts!AlertIsEarned /\ Alerts!CooldownHolds

\* A bit reads as it was last set, until its deadline; a burst stands on events
\* no earlier burst used (BitStore, BurstDetector).
SignalIsReal == part = "signals" => Bits!SignalIsReal

\* A frame is dropped only after a copy of it went through (Dedup::keep).
DropsOnlyCopies == part = "intake" => Intake!DropsOnlyCopies

\* The monotonic clock never slips, and ticks come neither early nor late
\* (clamp_view, clamp_now, emit_ticks).
TicksOnTime == part = "intake" => Intake!TicksOnTime

\* A datagram is handed on only whole, from fragments of one opening, and every
\* one opened is pending, counted or displaced, within the bounds
\* (IpFragmentReassembler::push and its counters).
DatagramIsWhole == part = "fragments" => Fragments!DatagramIsWhole /\ Fragments!DatagramsAccounted

\* A DNS query ends once, and an answer is timed from its own query unless the
\* id was reused (Correlator).
QueryEndsOnce == part = "queries" => Queries!QueryEndsOnce

\* Draining the feed tells of every name the map holds, once per binding
\* (NameMap::record).
NewNamesAreTold ==
    /\ part = "names" => NamesOf!NewNamesAreTold
    /\ part = "aliases" => Aliases!NewNamesAreTold

\* A record is what its updates say together, its bounded lists included
\* (Asset::merge, push_bounded, Inventory::absorb).
AssetIsItsUpdates ==
    /\ part = "assets" => Inventory!AssetIsItsUpdates
    /\ part = "lists" => Lists!AssetIsItsUpdates

\* A parser reports the messages that were sent, whole and in order, however
\* the streams are cut and interleaved and after a gap (HttpParser; the framed
\* parsers from DNS over TCP to SSH; SmtpParser and FtpParser; QuicUdpParser);
\* so are a frame's flow and layers, a file's packets and an IPFIX message's
\* sets (the extractors and Layers; CaptureReader; MessageBuilder).  What each
\* leaves out is said where it is defined: SSH lines cut at their cap, frames
\* whose beginning a cap dropped, dialogues the line parsers do not follow,
\* tunnels under AutoDetectEncap, addresses of another length in a template.
MessagesAsSent ==
    /\ part = "http" => Telemetry!MessagesAsSent
    /\ part = "frames" => Framed!FramesAsSent
    /\ part = "lines" => Lines!DialogueAsHeld
    /\ part = "quic" => Initials!HelloInTime
    /\ part = "captured" => Captured!KeyAsSent /\ Captured!QuoteFindsFlow /\ Captured!LayersAsSent
    /\ part = "file" => Saved!FileAsWritten
    /\ part = "ipfix" => Exported!MessageAsAdded

\* An exchange joins a request with its own response, a handshake a hello with
\* its own answer, and a FIN leaves neither unreported (HttpExchangeParser,
\* TlsHandshakeParser).  Left out are the pairing after a response that was
\* whole before its request, and what handshake.rs documents of alerts,
\* certificates and the number of reports.
ExchangesPair ==
    /\ part = "http" => Telemetry!ExchangesPair
    /\ part = "handshakes" => Handshakes!HandshakesJoin

\* Forwarding the raw bytes of every event forwards each direction byte for
\* byte (HttpProxyParser, HttpProxySession).
ForwardsEveryByte == part = "proxy" => Proxy!ForwardsEveryByte

\* Field lists, bodies and ends are reported as the peers sent them, across
\* evictions and changes of the HPACK table (Http2Parser, HpackEncoder).  Left
\* out are blocks that pass a lowering of the table size, trailers after the
\* other side's end, and heads after a 1xx or of promised streams.
StreamsAsSent == part = "http2" => H2!StreamsAsSent

-----------------------------------------------------------------------------
(* A mail whose commands the client sends without waiting for the replies, *)
(* as a server that announces PIPELINING invites it to                     *)

Pipelined == Dialogue("Smtp", FALSE,
    <<Line(1, "MAIL", "c1"), Line(1, "RCPT", "c2"), Line(1, "DATA", "c3"),
      MailText(4, <<"text", "cr", "lf", "dot">>), Line(5, "QUIT", "c5")>>,
    <<Reply(0, 220, "s1"), Reply(1, 250, "s2"), Reply(2, 250, "s3"), Accepts(3, 354, "s4", "DATA"), Reply(4, 250, "s5")>>)

PipelinedMail == INSTANCE LineParsers WITH Dialogues <- [pipelined |-> Pipelined], MaxLine <- 20, Chunk <- 5

PipelinedSpec ==
    /\ part = "smtp" /\ PipelinedMail!Init
    /\ [][UNCHANGED part /\ PipelinedMail!Next]_<<part, self, past>>

\* A mail begins at the 354 that accepts its DATA (SmtpParser).
DataBeginsAt354 == PipelinedMail!DataBeginsAt354
=============================================================================
