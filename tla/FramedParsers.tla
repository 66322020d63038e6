--------------------------- MODULE FramedParsers ---------------------------
(***************************************************************************)
(* The parsers of protocols that send one frame after another, on one      *)
(* direction of a flow, cut anywhere: DNS over TCP, Kerberos, SMB, Modbus, *)
(* DNP3, LDAP, RDP, TLS and SSH, and the AccumulatingSessionParser of      *)
(* session/mod.rs for a user's own.  `self` is the parser, `past` what was *)
(* sent, received and reported.                                            *)
(*                                                                         *)
(* A frame is a header of HeaderLen octets, the first of which carries it  *)
(* as a record, and a body.  What it is to its parser: a "message" it      *)
(* reports, an "other" it passes over, one that is "bad", one with an      *)
(* impossible length ("huge"), the "last" in the clear, or one that the    *)
(* user's closure consumes nothing of ("zero").  An SSH banner, and a line *)
(* before it, is text, CR and LF.                                          *)
(***************************************************************************)
EXTENDS Naturals, Sequences, SequencesExt, FiniteSetsExt

CONSTANTS None,
          Streams,      \* what is sent: [kind, frames]
          HeaderLen, MaxBuffer, MaxBanner,
          Chunk         \* the most octets given at once

VARIABLES self, past

vars == <<self, past>>

Octet(is, of) == [is |-> is, of |-> of]

FrameOctets(f) ==
    LET start(is, n) == [i \in 1 .. n |-> IF i = 1 THEN Octet(is, f) ELSE Octet("byte", f)]
    IN IF f.what \in {"line", "banner", "garbled"} THEN start("text", f.len) \o <<Octet("cr", f), Octet("lf", f)>>
       ELSE start("head", HeaderLen + f.len)

Wire(frames) == FlattenSeq([i \in DOMAIN frames |-> FrameOctets(frames[i])])

-----------------------------------------------------------------------------
(* The frame at the front of a buffer                                      *)

Headed(buf) == Len(buf) >= HeaderLen
Frontmost(buf) == buf[1].of
Total(buf) == HeaderLen + Frontmost(buf).len
Ready(buf) == Headed(buf) /\ Len(buf) >= Total(buf)
From(buf, n) == SubSeq(buf, n + 1, Len(buf))
Report(f) == IF f.what = "message" THEN <<f.id>> ELSE <<>>

\* A parser and what it has reported.
Left(s, buf, out) == [s |-> [s EXCEPT !.buf = buf], out |-> out]
Stopped(s, stage, out) == [s |-> [s EXCEPT !.buf = <<>>, !.stage = stage], out |-> out]

RECURSIVE DrainDns(_, _)
DrainDns(s, out) ==
    IF ~Ready(s.buf) THEN [s |-> s, out |-> out]
    ELSE DrainDns([s EXCEPT !.buf = From(@, Total(@))], out \o Report(Frontmost(s.buf)))

RECURSIVE DrainKerberos(_, _)
DrainKerberos(s, out) ==
    CASE Headed(s.buf) /\ Frontmost(s.buf).what = "huge" -> Left(s, <<>>, out)
      [] ~Ready(s.buf) -> [s |-> s, out |-> out]
      [] OTHER -> DrainKerberos([s EXCEPT !.buf = From(@, Total(@))], out \o Report(Frontmost(s.buf)))

RECURSIVE DrainSmb(_, _)
DrainSmb(s, out) ==
    IF ~Ready(s.buf) THEN [s |-> s, out |-> out]
    ELSE DrainSmb([s EXCEPT !.buf = From(@, Total(@))], out \o Report(Frontmost(s.buf)))

\* A frame that does not parse stays where it is.
RECURSIVE DrainModbus(_, _)
DrainModbus(s, out) ==
    IF ~Ready(s.buf) \/ Frontmost(s.buf).what = "bad" THEN [s |-> s, out |-> out]
    ELSE DrainModbus([s EXCEPT !.buf = From(@, Total(@))], Append(out, Frontmost(s.buf).id))

RECURSIVE DrainLdap(_, _)
DrainLdap(s, out) ==
    IF ~Ready(s.buf) \/ Frontmost(s.buf).what = "bad" THEN [s |-> s, out |-> out]
    ELSE DrainLdap([s EXCEPT !.buf = From(@, Total(@))], Append(out, Frontmost(s.buf).id))

FindMagic(buf) ==
    LET at == {i \in 1 .. Len(buf) - 1 : buf[i].is = "head"} IN IF at = {} THEN None ELSE Min(at) - 1

RECURSIVE DrainDnp3(_, _)
DrainDnp3(s, out) ==
    LET at  == FindMagic(s.buf)
        buf == From(s.buf, at)
    IN CASE at = None -> IF Len(s.buf) > MaxBuffer THEN Left(s, <<>>, out) ELSE [s |-> s, out |-> out]
         [] at # None /\ ~Headed(buf) -> Left(s, buf, out)
         [] at # None /\ Headed(buf) /\ Frontmost(buf).what = "bad" -> DrainDnp3([s EXCEPT !.buf = From(buf, 2)], out)
         [] at # None /\ Headed(buf) /\ Frontmost(buf).what # "bad" ->
              IF ~Ready(buf) THEN Left(s, buf, out)
              ELSE DrainDnp3([s EXCEPT !.buf = From(buf, Total(buf))], Append(out, Frontmost(buf).id))

\* One frame a side; what follows is TLS.
TryDrainRdp(s) ==
    CASE Headed(s.buf) /\ Frontmost(s.buf).what = "huge" -> Stopped(s, "done", <<>>)
      [] ~Ready(s.buf) -> [s |-> s, out |-> <<>>]
      [] OTHER -> [s |-> [s EXCEPT !.stage = "done"], out |-> Report(Frontmost(s.buf))]

\* parser::step, until it wants more.
RECURSIVE DrainTls(_, _)
DrainTls(s, out) ==
    CASE Len(s.buf) > MaxBuffer -> Stopped(s, "Desynced", out)
      [] s.stage # "reading" \/ ~Ready(s.buf) -> [s |-> s, out |-> out]
      [] Frontmost(s.buf).what = "bad" -> Stopped(s, "Desynced", out)
      [] OTHER -> DrainTls([s EXCEPT !.buf = From(@, Total(@)),
                                     !.stage = IF Frontmost(s.buf).what = "last" THEN "Encrypted" ELSE @],
                           out \o Report(Frontmost(s.buf)))

FindCrlf(buf) ==
    LET at == {i \in DOMAIN buf : buf[i].is = "cr" /\ i < Len(buf) /\ buf[i + 1].is = "lf"}
    IN IF at = {} THEN None ELSE Min(at) - 1

\* A line that is not UTF-8 is neither read nor passed over.
RECURSIVE ExtractBanner(_)
ExtractBanner(buf) ==
    LET eol == FindCrlf(buf)
    IN CASE eol = None -> [buf |-> IF Len(buf) > MaxBanner THEN <<>> ELSE buf, banner |-> None]
         [] eol # None /\ (eol > MaxBanner \/ buf[1].is # "text" \/ buf[1].of.what = "line") ->
              ExtractBanner(From(buf, eol + 2))
         [] OTHER -> IF buf[1].of.what = "garbled" THEN [buf |-> buf, banner |-> None]
                     ELSE [buf |-> From(buf, eol + 2), banner |-> buf[1].of.id]

\* The packets up to NEWKEYS, which is reported as Encrypted.
RECURSIVE SshPackets(_, _)
SshPackets(s, out) ==
    CASE Headed(s.buf) /\ Frontmost(s.buf).what = "huge" -> Left(s, <<>>, out)
      [] ~Ready(s.buf) \/ Frontmost(s.buf).what = "bad" -> [s |-> s, out |-> out]
      [] Frontmost(s.buf).what = "last" -> Stopped(s, "Encrypted", Append(out, Frontmost(s.buf).id))
      [] OTHER -> SshPackets([s EXCEPT !.buf = From(@, Total(@))], out \o Report(Frontmost(s.buf)))

DrainSsh(s) ==
    LET first == ExtractBanner(s.buf)
    IN CASE s.stage = "Encrypted" -> Left(s, <<>>, <<>>)
         [] s.banner_seen -> SshPackets(s, <<>>)
         [] first.banner = None -> Left(s, first.buf, <<>>)
         [] OTHER -> SshPackets([s EXCEPT !.buf = first.buf, !.banner_seen = TRUE], <<first.banner>>)

\* BufferedFrameDrain: what is over the cap is cut off and the drain poisoned.
Extend(s, bytes) ==
    CASE s.stage = "poisoned" -> s
      [] Len(s.buf) + Len(bytes) > MaxBuffer ->
           [s EXCEPT !.buf = SubSeq(@ \o bytes, 1, MaxBuffer), !.stage = "poisoned"]
      [] OTHER -> [s EXCEPT !.buf = @ \o bytes]

RECURSIVE DrainWith(_, _)
DrainWith(s, out) ==
    CASE s.stage = "poisoned" \/ ~Ready(s.buf) \/ Frontmost(s.buf).what = "bad" -> [s |-> s, out |-> out]
      [] Ready(s.buf) /\ Frontmost(s.buf).what = "zero" ->
           [s |-> [s EXCEPT !.stage = "poisoned"], out |-> Append(out, Frontmost(s.buf).id)]
      [] OTHER -> DrainWith([s EXCEPT !.buf = From(@, Total(@))], Append(out, Frontmost(s.buf).id))

-----------------------------------------------------------------------------
(* feed_initiator and feed_responder, which are alike                      *)

Pushed(s, bytes) == [s EXCEPT !.buf = @ \o bytes]

\* What is held is dropped when the cap would be passed.
PushedOver(s, bytes) == [s EXCEPT !.buf = IF Len(@) + Len(bytes) > MaxBuffer THEN bytes ELSE @ \o bytes]

\* The first header of a message, with the octet after it that tells it from
\* what it is not; `keep` is one octet short of that.
FindFrame(buf) ==
    LET at == {i \in DOMAIN buf : buf[i].is = "head" /\ buf[i].of.what = "message" /\ i + HeaderLen <= Len(buf)}
    IN IF at = {} THEN None ELSE Min(at) - 1

\* Mutant: too little is kept to find a header that was cut.
ResyncShort(s) ==
    LET at == FindFrame(s.buf)
    IN CASE ~s.resync -> s
         [] s.resync /\ at = None -> [s EXCEPT !.buf = From(@, Max({0, Len(@) - HeaderLen + 1}))]
         [] OTHER -> [s EXCEPT !.buf = From(@, at), !.resync = FALSE]

ResyncFrames(s) ==
    LET at == FindFrame(s.buf)
    IN CASE ~s.resync -> s
         [] s.resync /\ at = None -> [s EXCEPT !.buf = From(@, Max({0, Len(@) - HeaderLen}))]
         [] OTHER -> [s EXCEPT !.buf = From(@, at), !.resync = FALSE]

FeedDns(s, bytes) == DrainDns(Pushed(s, bytes), <<>>)
FeedKerberos(s, bytes) == DrainKerberos(PushedOver(s, bytes), <<>>)

FeedSmb(s, bytes) ==
    LET r == ResyncFrames(PushedOver(s, bytes)) IN IF r.resync THEN [s |-> r, out |-> <<>>] ELSE DrainSmb(r, <<>>)

FeedModbus(s, bytes) ==
    LET r == ResyncFrames(PushedOver(s, bytes)) IN IF r.resync THEN [s |-> r, out |-> <<>>] ELSE DrainModbus(r, <<>>)

FeedDnp3(s, bytes) == DrainDnp3(PushedOver(s, bytes), <<>>)

FeedLdap(s, bytes) ==
    IF Len(s.buf) + Len(bytes) > MaxBuffer THEN [s |-> [s EXCEPT !.stage = "poisoned"], out |-> <<>>]
    ELSE DrainLdap(Pushed(s, bytes), <<>>)

FeedRdp(s, bytes) ==
    IF s.stage = "done" THEN [s |-> s, out |-> <<>>] ELSE TryDrainRdp(Pushed(s, bytes))

FeedTls(s, bytes) ==
    IF s.stage # "reading" THEN [s |-> s, out |-> <<>>] ELSE DrainTls(Pushed(s, bytes), <<>>)

FeedSsh(s, bytes) == DrainSsh(Pushed(s, bytes))

FeedAccumulating(s, bytes) == DrainWith(Extend(s, bytes), <<>>)

FeedOf(s, bytes) ==
    CASE s.kind = "DnsTcp" -> FeedDns(s, bytes)
      [] s.kind = "Kerberos" -> FeedKerberos(s, bytes)
      [] s.kind = "Smb" -> FeedSmb(s, bytes)
      [] s.kind = "Modbus" -> FeedModbus(s, bytes)
      [] s.kind = "Dnp3" -> FeedDnp3(s, bytes)
      [] s.kind = "Ldap" -> FeedLdap(s, bytes)
      [] s.kind = "Rdp" -> FeedRdp(s, bytes)
      [] s.kind = "Tls" -> FeedTls(s, bytes)
      [] s.kind = "Ssh" -> FeedSsh(s, bytes)
      [] s.kind = "Accumulating" -> FeedAccumulating(s, bytes)

\* The parsers that go on after a gap; the default is to stop the side.
Resumes == {"Smb", "Modbus", "Dnp3"}

OnGap(s) ==
    IF s.kind \in Resumes THEN [s EXCEPT !.buf = <<>>, !.resync = s.kind # "Dnp3"]
    ELSE [s EXCEPT !.stage = "stopped"]

RstSide(s) == IF s.kind \in {"DnsTcp", "Tls"} THEN [s EXCEPT !.buf = <<>>, !.stage = "reading"] ELSE s

-----------------------------------------------------------------------------
(* Frames sent, cut anywhere                                               *)

NewParser(kind) == [kind |-> kind, buf |-> <<>>, stage |-> "reading", resync |-> FALSE, banner_seen |-> FALSE]

Init ==
    \E st \in Streams :
        /\ self = NewParser(st.kind)
        /\ past = [frames |-> st.frames, at |-> 0, from |-> 0, before |-> <<>>, out |-> <<>>, over |-> 0, lost |-> FALSE, ended |-> FALSE]

EndOf(frames, i) == Len(Wire(SubSeq(frames, 1, i)))

\* The frames after which the rest is not read.
Stops(kind, f) ==
    \/ f.what \in {"bad", "garbled"} /\ kind # "Dnp3"
    \/ f.what \in {"huge", "last", "zero"}
    \/ kind = "Rdp"

\* The frames that are whole between `from` and `at` and before which the
\* reading has not stopped.  On after a gap it starts at a message.
Whole(kind, frames, from, at) ==
    {i \in DOMAIN frames :
        /\ EndOf(frames, i - 1) >= from /\ EndOf(frames, i) <= at
        /\ \A j \in 1 .. i - 1 :
               \/ ~Stops(kind, frames[j])
               \/ EndOf(frames, j - 1) < from
               \/ from > 0 /\ \A k \in 1 .. j : EndOf(frames, k - 1) >= from => frames[k].what # "message"}

Due(kind, frames, from, at) ==
    LET whole == Whole(kind, frames, from, at)
        told  == {"message", "banner", "zero"} \cup (IF kind = "Ssh" THEN {"last"} ELSE {})
        test(i) == i \in whole /\ frames[i].what \in told
        order == SelectSeq([i \in DOMAIN frames |-> i], test)
    IN [n \in DOMAIN order |-> frames[order[n]].id]

\* Octets held before the next are given: those of the frame being read.
Held == past.at - Max({0} \cup {EndOf(past.frames, i) :
                                i \in {j \in Whole(self.kind, past.frames, past.from, past.at) :
                                          ~Stops(self.kind, past.frames[j])}})

Clears == {"Kerberos", "Smb", "Modbus", "Dnp3"}

\* A parser that looks for the start of a frame, here or anywhere.
Searches == self.kind = "Dnp3" \/ self.resync

\* A buffer that is emptied over its cap goes on in the middle of a frame.  A
\* parser that searches passes over the rest of it, as after a gap; another
\* takes payload for a header, what it reads depends on the payload, and the
\* history ends there.
Feed(n) ==
    LET wire  == Wire(past.frames)
        bytes == SubSeq(wire, past.at + 1, past.at + n)
        over  == Len(self.buf) + n > MaxBuffer
        cleared == over /\ self.kind \in Clears
        astray  == cleared /\ ~Searches
    IN /\ ~past.ended /\ past.over = 0 /\ self.stage \notin {"stopped", "poisoned"}
       /\ past.at + n <= Len(wire)
       /\ \E r \in {IF astray THEN [s |-> PushedOver(self, bytes), out |-> <<>>] ELSE FeedOf(self, bytes)} :
            LET stopped == \/ over /\ r.s.stage \in {"poisoned", "Desynced"} /\ self.stage = "reading"
                           \/ astray
                resumes == cleared /\ ~astray
            IN /\ self' = r.s
               /\ past' = [past EXCEPT !.at = IF stopped THEN @ ELSE @ + n,
                                       !.out = @ \o r.out,
                                       !.before = IF resumes THEN past.out ELSE @,
                                       !.from = IF resumes THEN past.at ELSE @,
                                       !.lost = @ \/ (bytes[n].is = "cr" /\ r.s.buf = <<>>),
                                       !.over = IF stopped THEN n ELSE 0]

Gap(n) ==
    /\ ~past.ended /\ past.over = 0 /\ past.from = 0 /\ self.stage \notin {"stopped", "poisoned"}
    /\ past.at + n <= Len(Wire(past.frames))
    /\ self' = OnGap(self)
    /\ past' = [past EXCEPT !.before = past.out, !.at = @ + n,
                            !.from = IF self.kind \in Resumes THEN past.at + n ELSE @,
                            !.ended = self.kind \notin Resumes]

Rst ==
    /\ ~past.ended
    /\ self' = RstSide(self)
    /\ past' = [past EXCEPT !.ended = TRUE]

Next ==
    \/ \E n \in 1 .. Chunk : Feed(n)
    \/ \E n \in 1 .. Chunk : Gap(n)
    \/ Rst

Spec == Init /\ [][Next]_vars

\* However the octets were cut, the messages reported are those of the frames
\* that arrived whole, in order, up to the one after which the protocol is
\* encrypted or the parser gives up; after a gap, the frames of SMB, Modbus
\* and DNP3 that follow it.  A parser gives up or drops what it holds for its
\* cap only when the frame it holds and the chunk together pass it, and DNP3
\* then reports the frames that begin in the chunk or later.  Two things are
\* left out.  Nothing is said of what Kerberos, SMB and Modbus report once
\* their cap made them drop a frame's beginning: they read its rest as a frame
\* (kerberos/session.rs:57, smb/session.rs:84, modbus/session.rs:55).  Nothing is said
\* once SSH has dropped a line over MaxBanner of which the CR had arrived and
\* the LF had not: the LF is read as part of the next line, and a banner there
\* is lost.
FramesAsSent ==
    /\ ~past.ended /\ ~past.lost => past.out = past.before \o Due(self.kind, past.frames, past.from, past.at)
    /\ past.over > 0 => Held + past.over > MaxBuffer
=============================================================================
