---------------------------- MODULE QuicInitials ----------------------------
(***************************************************************************)
(* src/src/quic/datagram.rs: QuicUdpParser puts a ClientHello together     *)
(* that a client splits over several Initial packets.                      *)
(*                                                                         *)
(* A hello is known by its connection id, which is also the tag of its     *)
(* octets, and has HelloLen octets.  A datagram holds CRYPTO frames of one *)
(* hello, each an offset and a length; datagrams are lost, repeated and    *)
(* come in any order.  One that is no Initial, or does not decrypt, is     *)
(* passed over.                                                            *)
(***************************************************************************)
EXTENDS Naturals, Sequences, FiniteSets, SequencesExt, FiniteSetsExt

CONSTANTS None,
          HelloLen,       \* the length of the hello of each connection
          Datagrams,      \* what may arrive: [dcid, frames]
          Times, MaxPendingConnections, PendingTtl, MaxCryptoBytes, MaxCryptoFrames,
          MaxArrivals     \* bound on the datagrams of a behaviour

VARIABLES self, past

vars == <<self, past>>

Connections == DOMAIN HelloLen

Init ==
    /\ self = [pending |-> <<>>, pending_dropped |-> 0]
    /\ past = [arrived |-> 0, frames |-> 0, released |-> 0, told |-> None,
               since |-> [c \in Connections |-> None]]

-----------------------------------------------------------------------------
(* reassemble_crypto_stream: the octets that are contiguous from the first *)

Octets(f) == f.offset .. f.offset + f.len - 1
Covered(frames) == UNION {Octets(frames[i]) : i \in DOMAIN frames}
Prefix(frames) == Min({n \in 0 .. Max(Covered(frames) \cup {0}) + 1 : n \notin Covered(frames)})

Entry(pending, dcid) == SelectInSeq(pending, LAMBDA p : p.dcid = dcid)

\* The frames that fit under both caps; a frame is refused, never cut.
KeptInPart(p, frames) ==
    FoldLeft(LAMBDA k, f :
                 LET room == MaxCryptoBytes - k.bytes
                 IN IF Len(k.frames) >= MaxCryptoFrames \/ room = 0 THEN [k EXCEPT !.refused = @ + 1]
                    ELSE [k EXCEPT !.bytes = @ + Min({f.len, room}), !.frames = Append(@, f)],
             [frames |-> p.frames, bytes |-> p.bytes, refused |-> 0], frames)

Kept(p, frames) ==
    FoldLeft(LAMBDA k, f :
                 IF Len(k.frames) >= MaxCryptoFrames \/ k.bytes + f.len > MaxCryptoBytes
                 THEN [k EXCEPT !.refused = @ + 1]
                 ELSE [k EXCEPT !.bytes = @ + f.len, !.frames = Append(@, f)],
             [frames |-> p.frames, bytes |-> p.bytes, refused |-> 0], frames)

\* The first of the entries that have gone longest without progress.
Stalest(pending) ==
    Min({i \in DOMAIN pending : \A j \in DOMAIN pending : pending[i].last_seen <= pending[j].last_seen})

MakeRoom(s) ==
    IF Len(s.pending) < MaxPendingConnections \/ s.pending = <<>> THEN s
    ELSE LET i == Stalest(s.pending)
         IN [pending |-> RemoveAt(s.pending, i), pending_dropped |-> s.pending_dropped + Len(s.pending[i].frames)]

UpdatedOnArrival(p, kept, ts) ==
    LET n == Prefix(kept.frames)
    IN [p EXCEPT !.frames = kept.frames, !.bytes = kept.bytes, !.prefix_len = n, !.last_seen = ts]

\* Only a longer prefix renews the time.
Updated(p, kept, ts) ==
    LET n == Prefix(kept.frames)
        same == [p EXCEPT !.frames = kept.frames, !.bytes = kept.bytes]
    IN IF n > p.prefix_len THEN [same EXCEPT !.prefix_len = n, !.last_seen = ts] ELSE same

Accumulate(s, dcid, frames, ts) ==
    LET i == Entry(s.pending, dcid)
        kept == Kept(s.pending[i], frames)
        room == MakeRoom(s)
        new == Kept([frames |-> <<>>, bytes |-> 0], frames)
    IN IF i # 0
       THEN [pending |-> [s.pending EXCEPT ![i] = Updated(@, kept, ts)],
             pending_dropped |-> s.pending_dropped + kept.refused]
       ELSE [pending |-> Append(room.pending, [dcid |-> dcid, frames |-> new.frames, bytes |-> new.bytes,
                                               prefix_len |-> Prefix(new.frames), last_seen |-> ts]),
             pending_dropped |-> room.pending_dropped + new.refused]

Forget(s, dcid) == [s EXCEPT !.pending = SelectSeq(@, LAMBDA p : p.dcid # dcid)]

-----------------------------------------------------------------------------
(* What came of a connection since its entry was opened: the octets, the   *)
(* number of frames and the time of the last that made the prefix longer   *)

Noted(dcid, frames, ts) ==
    LET old == IF past.since[dcid] = None THEN [octets |-> {}, count |-> 0, at |-> ts] ELSE past.since[dcid]
        octets == old.octets \cup Covered(frames)
        grew == \E n \in octets \ old.octets : 0 .. n \subseteq octets
    IN [octets |-> octets, count |-> old.count + Len(frames), at |-> IF grew THEN ts ELSE old.at]

StillHeld(since, pending) == [c \in Connections |-> IF Entry(pending, c) = 0 THEN None ELSE since[c]]

\* parse of an Initial.
Parse(d, ts) ==
    LET noted == Noted(d.dcid, d.frames, ts)
        s == Accumulate(self, d.dcid, d.frames, ts)
        held == s.pending[Entry(s.pending, d.dcid)].frames
        complete == Prefix(held) >= HelloLen[d.dcid]
        after == IF complete THEN Forget(s, d.dcid) ELSE s
        displaced == {p \in Range(self.pending) : Entry(s.pending, p.dcid) = 0}
    IN /\ past.arrived < MaxArrivals
       /\ self' = after
       /\ past' = [arrived |-> past.arrived + 1, frames |-> past.frames + Len(d.frames),
                   released |-> past.released + (IF complete THEN Len(held) ELSE 0),
                   told |-> [complete |-> complete, due |-> 0 .. HelloLen[d.dcid] - 1 \subseteq noted.octets,
                             all |-> Len(held) = noted.count,
                             fair |-> \A p \in displaced, q \in Range(self.pending) : p.last_seen <= q.last_seen],
                   since |-> StillHeld([past.since EXCEPT ![d.dcid] = noted], after.pending)]

\* on_tick: evict_stale.
OnTick(now) ==
    LET alive(p) == now <= p.last_seen + PendingTtl
        gone == {i \in DOMAIN self.pending : ~alive(self.pending[i])}
        kept == SelectSeq(self.pending, alive)
    IN /\ gone # {}
       /\ self' = [pending |-> kept,
                   pending_dropped |-> self.pending_dropped
                       + MapThenSumSet(LAMBDA i : Len(self.pending[i].frames), gone)]
       /\ past' = [past EXCEPT !.told = None, !.since = StillHeld(@, kept)]

Next ==
    \/ \E d \in Datagrams, ts \in Times : Parse(d, ts)
    \/ \E now \in Times : OnTick(now)

-----------------------------------------------------------------------------
\* A hello is told of as soon as all of it was kept, and not before, whatever
\* the order, the losses and the copies of its datagrams (accumulate, forget).
\* Only frames that make the prefix longer keep an entry from going stale
\* (issue 184), and a full table displaces the one longest without.  Every frame
\* is held, was part of a finished hello or is counted as dropped, and the table
\* keeps to its three caps.
HelloInTime ==
    /\ past.told # None =>
         /\ past.told.complete => past.told.due
         /\ past.told.all /\ past.told.due => past.told.complete
         /\ past.told.fair
    /\ \A i \in DOMAIN self.pending :
         LET p == self.pending[i] IN
           /\ Len(p.frames) = past.since[p.dcid].count => p.last_seen = past.since[p.dcid].at
           /\ p.bytes = FoldLeft(LAMBDA n, f : n + f.len, 0, p.frames)
           /\ p.bytes <= MaxCryptoBytes /\ Len(p.frames) <= MaxCryptoFrames
    /\ Len(self.pending) <= MaxPendingConnections
    /\ past.frames = past.released + self.pending_dropped
                       + FoldLeft(LAMBDA n, p : n + Len(p.frames), 0, self.pending)
=============================================================================
