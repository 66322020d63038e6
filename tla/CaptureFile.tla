---------------------------- MODULE CaptureFile ----------------------------
(***************************************************************************)
(* src/src/pcap: a capture file read record by record (CaptureReader), its *)
(* frames brought to Ethernet (ViewIter), tracked (EventIter, SessionIter, *)
(* DatagramIter, which loop in the same way) and reduced to pulses.        *)
(*                                                                         *)
(* A file is a sequence of records as the pcap-file library hands them     *)
(* out.  A malformed one is an error, and the library (external) may stay  *)
(* at it or go on after it: `stays` is which.                              *)
(* The driver is external: what it says of a frame is part of the record,  *)
(* and at the end of the file it says Rest.  Replay at a chosen speed      *)
(* sleeps and is left out.                                                 *)
(***************************************************************************)
EXTENDS Integers, Sequences, SequencesExt

CONSTANTS None,
          Files,                  \* files: their format, link type and resolution (pcap), records
          MicrosPerSec, NanosPerSec,
          SecondsSpan,            \* seconds that a Timestamp tells apart, 2^32
          Rest,                   \* what the driver says at the end
          MaxItems                \* bound on the items pulled

VARIABLES self, past

vars == <<self, past>>

Error == [error |-> TRUE]
Again == [again |-> TRUE]       \* the loop goes on
Spins == [spins |-> TRUE]       \* the loop goes on for ever and next does not return
Min2(a, b) == IF a < b THEN a ELSE b
Max2(a, b) == IF a > b THEN a ELSE b

-----------------------------------------------------------------------------
(* Link layers                                                             *)

HeaderLen == [Sll |-> 16, Sll2 |-> 20, Null |-> 4, Raw |-> 0]

\* A frame of the payload, or None if the link layer has no Ethernet form.
ToEthernet(link, data) ==
    CASE link = "Ethernet" -> data
      [] link \in {"Sll", "Sll2"} ->
            IF data.len < HeaderLen[link] THEN None ELSE [data EXCEPT !.len = @ - HeaderLen[link] + 14]
      [] link \in {"Raw", "Null"} ->
            IF data.len <= HeaderLen[link] \/ data.ip = None THEN None
            ELSE [data EXCEPT !.len = @ - HeaderLen[link] + 14]
      [] OTHER -> None

CookedDirection(link, data) ==
    IF \/ link = "Sll" /\ data.len >= 2
       \/ link = "Sll2" /\ data.len >= 11
    THEN IF data.type = 4 THEN "Outbound" ELSE IF data.type \in 0..3 THEN "Inbound" ELSE None
    ELSE None

-----------------------------------------------------------------------------
(* CaptureReader                                                           *)

DefaultInterface == [is |-> "Interface", link |-> "Ethernet", snaplen |-> 0, units |-> MicrosPerSec, offset |-> 0]

InterfaceTimestamp(interface, raw) ==
    LET units == Max2(interface.units, 1) IN
    [secs |-> Max2(raw \div units + interface.offset, 0), nanos |-> ((raw % units) * NanosPerSec) \div units]

InterfaceAt(at, id) == IF id < Len(at.interfaces) THEN at.interfaces[id + 1] ELSE DefaultInterface

PcapPacket(file, r) ==
    LET nanos == IF file.resolution = "Micro" THEN r.frac * (NanosPerSec \div MicrosPerSec) ELSE r.frac IN
    IF nanos >= NanosPerSec THEN Error
    ELSE [time |-> [secs |-> r.secs, nanos |-> nanos], data |-> r.data, original |-> Max2(r.original, r.data.len),
          link |-> file.link, direction |-> CookedDirection(file.link, r.data), events |-> r.events]

EnhancedPacket(interface, r) ==
    [time |-> InterfaceTimestamp(interface, r.raw), data |-> r.data, original |-> Max2(r.original, r.data.len),
     link |-> interface.link, events |-> r.events,
     direction |-> IF r.flagged # None THEN r.flagged ELSE CookedDirection(interface.link, r.data)]

SimplePacket(interface, r) ==
    LET body == Min2(r.data.len, IF interface.snaplen = 0 THEN r.original ELSE Min2(r.original, interface.snaplen))
        data == [r.data EXCEPT !.len = body]
    IN [time |-> [secs |-> 0, nanos |-> 0], data |-> data, original |-> r.original, link |-> interface.link,
        direction |-> CookedDirection(interface.link, data), events |-> r.events]

\* One turn of the loop of next_packet: the reader after it, and what it
\* returns or Again.
Read(at, item) == [at |-> at, item |-> item]

ReadBlockKeeping(file, at, on, r) ==
    CASE r.is = "Broken" -> Read(IF at.stays THEN at ELSE on, Error)
      [] r.is = "Record" -> Read(on, PcapPacket(file, r))
      [] r.is = "Enhanced" -> Read(on, EnhancedPacket(InterfaceAt(at, r.interface), r))
      [] r.is = "Simple" -> Read(on, SimplePacket(InterfaceAt(at, 0), r))
      [] r.is = "Interface" -> Read([on EXCEPT !.interfaces = Append(@, r)], Again)
      [] r.is \in {"Section", "Other"} -> Read(on, Again)

ReadBlock(file, at, on, r) ==
    CASE r.is = "Broken" -> Read(IF at.stays THEN at ELSE on, Error)
      [] r.is = "Record" -> Read(on, PcapPacket(file, r))
      [] r.is = "Enhanced" -> Read(on, EnhancedPacket(InterfaceAt(at, r.interface), r))
      [] r.is = "Simple" -> Read(on, SimplePacket(InterfaceAt(at, 0), r))
      [] r.is = "Section" -> Read([on EXCEPT !.interfaces = <<>>], Again)
      [] r.is = "Interface" -> Read([on EXCEPT !.interfaces = Append(@, r)], Again)
      [] r.is = "Other" -> Read(on, Again)

NextPacket(file, at) ==
    IF at.pos = Len(file.records) THEN Read(at, None)
    ELSE ReadBlock(file, at, [at EXCEPT !.pos = @ + 1], file.records[at.pos + 1])

-----------------------------------------------------------------------------
(* ViewIter and the iterators over it: one turn of each loop               *)

Packet(item) == item # None /\ item # Error /\ item # Again

NextView(n, frame) ==
    IF ~Packet(n.item) THEN n
    ELSE IF frame = None THEN Read([n.at EXCEPT !.unsupported = @ + 1], Again)
    ELSE Read(n.at, [frame |-> frame, cut |-> Max2(n.item.original - n.item.data.len, 0), events |-> n.item.events,
                     time |-> [n.item.time EXCEPT !.secs = @ % SecondsSpan]])

NextEvent(at, n) ==
    CASE at.pending # <<>> -> Read([at EXCEPT !.pending = Tail(@)], Head(at.pending))
      [] at.pending = <<>> /\ n.item = None /\ ~at.finished -> Read([n.at EXCEPT !.finished = TRUE, !.pending = Rest], Again)
      [] at.pending = <<>> /\ Packet(n.item) -> Read([n.at EXCEPT !.pending = n.item.events], Again)
      [] OTHER -> n

NextSession(at, n) == NextEvent(at, n)
NextDatagram(at, n) == NextEvent(at, n)

\* session_pulses and datagram_pulses: no errors and no anomalies.
PulseFromEvent(e) == e # Error /\ e # [event |-> "Anomaly"]

NextPulse(n) == IF n.item # None /\ ~PulseFromEvent(n.item) THEN [n EXCEPT !.item = Again] ELSE n

Turn(by, file, at) ==
    LET packet == NextPacket(file, at)
        view == NextView(packet, IF Packet(packet.item) THEN ToEthernet(packet.item.link, packet.item.data) ELSE None)
    IN CASE by = "packets" -> packet
         [] by = "views" -> view
         [] by = "events" -> NextEvent(at, view)
         [] by = "sessions" -> NextSession(at, view)
         [] by = "datagrams" -> NextDatagram(at, view)
         [] by = "pulses" -> NextPulse(NextSession(at, view))

\* A turn that changes nothing is taken again and again.
RECURSIVE Pulled(_, _, _)
Pulled(by, file, n) ==
    LET on == Turn(by, file, n.at)
    IN CASE n.item # Again -> n
         [] n.item = Again /\ on = n -> Read(n.at, Spins)
         [] OTHER -> Pulled(by, file, on)

-----------------------------------------------------------------------------
Drivers == {"events", "sessions", "datagrams"}
Iterators == {"packets", "views", "pulses"} \cup Drivers

\* The first malformed record, if there is one.
Malformed(file) == SelectInSeq(file.records, LAMBDA r : r.is = "Broken")

Init ==
    \E file \in Files, by \in Iterators : \E stays \in IF Malformed(file) > 0 THEN BOOLEAN ELSE {FALSE} :
        /\ self = [pos |-> 0, interfaces |-> <<>>, unsupported |-> 0, pending |-> <<>>, finished |-> FALSE, stays |-> stays]
        /\ past = [file |-> file, by |-> by, items |-> <<>>, nones |-> 0]

\* One call of next, also after the iterator has ended.
Pull ==
    \E n \in {Pulled(past.by, past.file, Read(self, Again))} :
        /\ self' = n.at
        /\ past' = IF n.item = None THEN [past EXCEPT !.nones = @ + 1] ELSE [past EXCEPT !.items = Append(@, n.item)]

Next ==
    /\ past.nones < 2 /\ Len(past.items) < MaxItems
    /\ past.items # <<>> => Last(past.items) # Spins
    /\ Pull

-----------------------------------------------------------------------------
(* What the file says                                                      *)

\* The interface of a packet: the id-th that its own section describes before it.
Described(file, i, id) ==
    LET section == SelectLastInSubSeq(file.records, 1, i, LAMBDA r : r.is = "Section")
        those == SelectSeq(SubSeq(file.records, section, i), LAMBDA r : r.is = "Interface")
    IN IF id < Len(those) THEN those[id + 1] ELSE DefaultInterface

PacketSaid(file, i) ==
    LET r == file.records[i] IN
    CASE r.is = "Record" -> PcapPacket(file, r)
      [] r.is = "Enhanced" -> EnhancedPacket(Described(file, i, r.interface), r)
      [] r.is = "Simple" -> SimplePacket(Described(file, i, 0), r)
      [] r.is = "Broken" -> Error
      [] OTHER -> None

Supported(p) == Packet(p) /\ ToEthernet(p.link, p.data) # None

WireLen(p) == IF p.link = "Ethernet" THEN p.original ELSE p.original + 14 - HeaderLen[p.link]

ViewSaid(p) ==
    [frame |-> ToEthernet(p.link, p.data), cut |-> WireLen(p) - ToEthernet(p.link, p.data).len,
     events |-> p.events, time |-> [p.time EXCEPT !.secs = @ % SecondsSpan]]

Says(p, by) ==
    CASE p = None -> <<>>
      [] p = Error -> IF by = "pulses" THEN <<>> ELSE <<Error>>
      [] by = "packets" -> <<p>>
      [] ~Supported(p) -> <<>>
      [] by = "views" -> <<ViewSaid(p)>>
      [] by \in Drivers -> p.events
      [] by = "pulses" -> SelectSeq(p.events, PulseFromEvent)

SaidUpTo(file, by, last) == FlattenSeq([i \in 1 .. last |-> Says(PacketSaid(file, i), by)])

Said(file, by) ==
    SaidUpTo(file, by, Len(file.records))
    \o (IF by \in Drivers THEN Rest ELSE IF by = "pulses" THEN SelectSeq(Rest, PulseFromEvent) ELSE <<>>)

\* What is told if the library stays at the first malformed record.
SaidStuck(file, by) ==
    SaidUpTo(file, by, Malformed(file) - 1) \o (IF by = "pulses" THEN <<Spins>> ELSE [i \in 1 .. MaxItems |-> Error])

\* A file is told packet by packet, each with its own section's interface, and
\* what the driver says of its packets and then of its end is told once and in
\* order, also past unsupported records, which are counted, and past malformed
\* ones, which are errors, if the library goes on after them; a frame and its
\* cut add up to the packet as it was on the wire (CaptureReader::next_packet,
\* ViewIter, EventIter, SessionIter, DatagramIter).  If the library stays at a
\* malformed record (reader.rs:252-261, 289-298 hand its error on and do not
\* end), what precedes the record is told in the same way and nothing after it
\* is: the error comes back at every call, and the pulses, which skip errors
\* (pulses.rs:219), do not return.
FileAsWritten ==
    LET stuck == self.stays /\ Malformed(past.file) > 0
        said  == IF stuck THEN SaidStuck(past.file, past.by) ELSE Said(past.file, past.by)
    IN
    /\ IsPrefix(past.items, said)
    /\ past.nones > 0 =>
        /\ past.items = said
        /\ past.by # "packets" =>
            self.unsupported = Len(SelectSeq([i \in DOMAIN past.file.records |-> PacketSaid(past.file, i)],
                                             LAMBDA p : Packet(p) /\ ~Supported(p)))
=============================================================================
