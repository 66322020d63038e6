---------------------------- MODULE LineParsers ----------------------------
(***************************************************************************)
(* The SMTP and FTP control-channel parsers: lines of the client and of    *)
(* the server, cut anywhere, over one state that both directions change    *)
(* (smtp/session.rs, ftp/session.rs).  `self` is the parser, `past` the    *)
(* dialogue, how much of it has been seen and what was reported.           *)
(*                                                                         *)
(* An item is a line, a mail body up to its final dot, or TLS; its first   *)
(* octet carries it as a record.  `after` is how many items of the other   *)
(* side its sender had received: the order a capture sees them in.         *)
(***************************************************************************)
EXTENDS Naturals, Sequences, SequencesExt, FiniteSetsExt

CONSTANTS None,
          Dialogues,    \* by name, [kind, c, s, gaps]: what the client and the server send
          MaxLine,
          Chunk         \* the most octets given at once

VARIABLES self, past

vars == <<self, past>>

Sides == {"c", "s"}
Peer(d) == IF d = "c" THEN "s" ELSE "c"

Octet(is, of) == [is |-> is, of |-> of]
From(buf, n) == SubSeq(buf, n + 1, Len(buf))

\* A body's octets are told apart because its end is looked for among them.
ItemOctets(x) ==
    [i \in 1 .. Len(x.text) |-> Octet(x.text[i], IF i = 1 THEN x ELSE None)]
        \o <<Octet("cr", None), Octet("lf", None)>>

Wire(items) == FlattenSeq([i \in DOMAIN items |-> ItemOctets(items[i])])
Wires == [t \in DOMAIN Dialogues |-> [d \in Sides |-> Wire(Dialogues[t][d])]]

\* Where each item ends.
Ends == [t \in DOMAIN Dialogues |->
            [d \in Sides |-> [i \in DOMAIN Dialogues[t][d] |-> Len(Wire(SubSeq(Dialogues[t][d], 1, i)))]]]

-----------------------------------------------------------------------------
(* Lines                                                                   *)

\* Where the octets `needle` first are in buf.
Find(buf, needle) ==
    LET at == {i \in 1 .. Len(buf) - Len(needle) + 1 : \A k \in DOMAIN needle : buf[i + k - 1].is = needle[k]}
    IN IF at = {} THEN None ELSE Min(at) - 1

RECURSIVE ExtractLine(_)
ExtractLine(buf) ==
    LET eol == Find(buf, <<"cr", "lf">>)
    IN CASE eol = None -> [buf |-> IF Len(buf) > MaxLine THEN <<>> ELSE buf, line |-> None]
         [] eol # None /\ eol > MaxLine -> ExtractLine(From(buf, eol + 2))
         [] OTHER -> [buf |-> From(buf, eol + 2), line |-> SubSeq(buf, 1, eol)]

\* A line that is not the start of an item is some command nobody knows.
Unknown == [what |-> "Other", id |-> "unknown"]

SplitCommand(line) ==
    CASE line = <<>> -> None
      [] line # <<>> /\ line[1].of = None -> Unknown
      [] OTHER -> line[1].of

SplitReply(line) ==
    IF line = <<>> \/ line[1].of = None \/ line[1].of.what # "reply" THEN None ELSE line[1].of

SkipPartialLine(pending, bytes) ==
    LET at == Find(bytes, <<"lf">>)
    IN CASE ~pending -> [pending |-> FALSE, bytes |-> bytes]
         [] pending /\ at = None -> [pending |-> TRUE, bytes |-> <<>>]
         [] OTHER -> [pending |-> FALSE, bytes |-> From(bytes, at + 1)]

-----------------------------------------------------------------------------
(* SmtpParser                                                              *)

FindDataEnd(buf) == Find(buf, <<"cr", "lf", "dot", "cr", "lf">>)

\* Mutant: one octet of the terminator is not kept.
SmtpBodyShort(s) ==
    LET end == FindDataEnd(s.buf.c)
        consume == Len(s.buf.c) - Min({3, Len(s.buf.c)})
    IN IF end = None THEN [s |-> [s EXCEPT !.data_bytes = @ + consume, !.buf.c = From(@, consume)], out |-> <<>>]
       ELSE [s   |-> [s EXCEPT !.data_bytes = 0, !.in_data = FALSE, !.buf.c = From(@, end + 5)],
             out |-> <<<<"DataEnd", s.data_bytes + end>>>>]

\* DATA mode: all but the last four octets are counted and dropped.
SmtpBody(s) ==
    LET end == FindDataEnd(s.buf.c)
        consume == Len(s.buf.c) - Min({4, Len(s.buf.c)})
    IN IF end = None THEN [s |-> [s EXCEPT !.data_bytes = @ + consume, !.buf.c = From(@, consume)], out |-> <<>>]
       ELSE [s   |-> [s EXCEPT !.data_bytes = 0, !.in_data = FALSE, !.buf.c = From(@, end + 5)],
             out |-> <<<<"DataEnd", s.data_bytes + end>>>>]

\* The second token of AUTH LOGIN, or the only one of AUTH PLAIN.
SmtpToken(s, x) ==
    CASE s.auth_login_state = "user" -> [s |-> [s EXCEPT !.auth_login_state = x.id], out |-> <<>>]
      [] s.auth_login_state \notin {None, "user"} ->
           [s |-> [s EXCEPT !.auth_login_state = None], out |-> <<<<"Credentials", s.auth_login_state, x.id>>>>]
      [] OTHER -> [s   |-> [s EXCEPT !.auth_plain_inline = FALSE],
                   out |-> IF x.what = "token" THEN <<<<"Credentials", x.id, x.id>>>> ELSE <<>>]

SmtpCommand(s, x) ==
    [s   |-> IF x.what \in {"STARTTLS", "DATA", "AUTH PLAIN", "AUTH LOGIN"} THEN [s EXCEPT !.pending_cmd = x.what]
             ELSE s,
     out |-> (CASE x.what \in {"EHLO", "MAIL", "RCPT"} -> <<<<x.what, x.id>>>>
                [] x.what = "AUTH PLAIN ir" -> <<<<"Credentials", x.id, x.id>>>>
                [] OTHER -> <<>>) \o <<<<"Command", x.id>>>>]

RECURSIVE SmtpInitiator(_, _)
SmtpInitiator(s, out) ==
    LET next == ExtractLine(s.buf.c)
        read == [s EXCEPT !.buf.c = next.buf]
        x    == SplitCommand(next.line)
        on(r) == SmtpInitiator(r.s, out \o r.out)
    IN CASE s.in_data -> LET r == SmtpBody(s) IN IF r.s.in_data THEN [s |-> r.s, out |-> out] ELSE on(r)
         [] ~s.in_data /\ next.line = None -> [s |-> read, out |-> out]
         [] ~s.in_data /\ next.line # None /\ (s.auth_login_state # None \/ s.auth_plain_inline) ->
              on(SmtpToken(read, IF x = None THEN Unknown ELSE x))
         [] OTHER -> IF x = None THEN SmtpInitiator(read, out) ELSE on(SmtpCommand(read, x))

\* What the reply does to the command that waits for one; any reply takes it.
RECURSIVE SmtpResponder(_, _)
SmtpResponder(s, out) ==
    LET next  == ExtractLine(s.buf.s)
        r     == SplitReply(next.line)
        first == ~s.banner_seen /\ r.code = 220
        read  == [s EXCEPT !.buf.s = next.buf]
        taken == [read EXCEPT !.pending_cmd = None, !.banner_seen = @ \/ first]
        told  == out \o (IF first THEN <<<<"Banner", r.id>>>> ELSE <<>>)
        reply == <<<<"Reply", r.id>>>>
        is(cmd, code) == s.pending_cmd = cmd /\ r.code = code
    IN CASE next.line = None -> [s |-> read, out |-> out]
         [] next.line # None /\ (r = None \/ ~r.final) -> SmtpResponder(read, out)
         [] OTHER ->
              CASE is("STARTTLS", 220) -> [s   |-> [taken EXCEPT !.encrypted = TRUE, !.buf = [d \in Sides |-> <<>>]],
                                           out |-> told \o reply \o <<<<"TlsUpgrade">>>>]
                [] is("DATA", 354) -> SmtpResponder([taken EXCEPT !.in_data = TRUE, !.data_bytes = 0],
                                                    told \o <<<<"DataBegin">>>> \o reply)
                [] is("AUTH PLAIN", 334) -> SmtpResponder([taken EXCEPT !.auth_plain_inline = TRUE], told \o reply)
                [] is("AUTH LOGIN", 334) -> SmtpResponder([taken EXCEPT !.auth_login_state = "user"], told \o reply)
                [] OTHER -> SmtpResponder(taken, told \o reply)

-----------------------------------------------------------------------------
(* FtpParser                                                               *)

Transfers == {"RETR"}

RECURSIVE FtpInitiator(_, _)
FtpInitiator(s, out) ==
    LET next == ExtractLine(s.buf.c)
        read == [s EXCEPT !.buf.c = next.buf]
        x    == SplitCommand(next.line)
        pair == x.what = "PASS" /\ s.pending_user # None
    IN CASE next.line = None -> [s |-> read, out |-> out]
         [] next.line # None /\ x = None -> FtpInitiator(read, out)
         [] OTHER -> FtpInitiator([read EXCEPT !.pending_user = IF x.what = "USER" THEN x.id ELSE IF pair THEN None ELSE @,
                                               !.auth_tls_requested = @ \/ x.what = "AUTH TLS"],
                                  out \o (IF pair THEN <<<<"Credentials", s.pending_user, x.id>>>> ELSE <<>>)
                                      \o (IF x.what \in Transfers THEN <<<<"Transfer", x.id>>>> ELSE <<>>)
                                      \o <<<<"Command", x.id>>>>)

RECURSIVE FtpResponder(_, _)
FtpResponder(s, out) ==
    LET next  == ExtractLine(s.buf.s)
        r     == SplitReply(next.line)
        first == ~s.banner_seen /\ r.code = 220
        read  == [s EXCEPT !.buf.s = next.buf]
        told  == out \o (IF first THEN <<<<"Banner", r.id>>>> ELSE <<>>)
        seen  == [read EXCEPT !.banner_seen = @ \/ first]
    IN CASE next.line = None -> [s |-> read, out |-> out]
         [] next.line # None /\ (r = None \/ ~r.final) -> FtpResponder(read, out)
         [] OTHER -> IF s.auth_tls_requested /\ r.code = 234
                     THEN [s   |-> [seen EXCEPT !.auth_tls_requested = FALSE, !.encrypted = TRUE, !.buf = [d \in Sides |-> <<>>]],
                           out |-> told \o <<<<"TlsUpgrade">>, <<"Reply", r.id>>>>]
                     ELSE FtpResponder(seen, Append(told, <<"Reply", r.id>>))

-----------------------------------------------------------------------------
(* The dialogue, seen in the order it took place                           *)

Drain(s, d) ==
    CASE s.kind = "Smtp" /\ d = "c" -> SmtpInitiator(s, <<>>)
      [] s.kind = "Smtp" /\ d = "s" -> SmtpResponder(s, <<>>)
      [] s.kind = "Ftp" /\ d = "c" -> FtpInitiator(s, <<>>)
      [] s.kind = "Ftp" /\ d = "s" -> FtpResponder(s, <<>>)

FeedSide(s, d, bytes) ==
    LET skip == SkipPartialLine(s.resync[d], bytes)
    IN IF s.encrypted THEN [s |-> s, out |-> <<>>]
       ELSE Drain([s EXCEPT !.resync[d] = skip.pending, !.buf[d] = @ \o skip.bytes], d)

OnGap(s, d) == [s EXCEPT !.buf[d] = <<>>, !.resync[d] = TRUE]

NewParser(kind) ==
    [kind |-> kind, buf |-> [d \in Sides |-> <<>>], resync |-> [d \in Sides |-> FALSE],
     banner_seen |-> FALSE, encrypted |-> FALSE, pending_cmd |-> None, auth_login_state |-> None,
     auth_plain_inline |-> FALSE, in_data |-> FALSE, data_bytes |-> 0,
     pending_user |-> None, auth_tls_requested |-> FALSE]

Init ==
    \E t \in DOMAIN Dialogues :
        /\ self = NewParser(Dialogues[t].kind)
        /\ past = [talk |-> t, at |-> [d \in Sides |-> 0], out |-> [d \in Sides |-> <<>>],
                   from |-> [d \in Sides |-> 0], before |-> [d \in Sides |-> 0]]

Talk == Dialogues[past.talk]
End(d, i) == Ends[past.talk][d][i]

\* The items of side d that have been seen whole.
Seen(d) == {i \in DOMAIN Talk[d] : End(d, i) <= past.at[d]}

\* How far side d's octets can have been seen.
Limit(d) ==
    LET seen == Cardinality(Seen(Peer(d)))
    IN Max({0} \cup {End(d, i) : i \in {j \in DOMAIN Talk[d] : \A k \in 1 .. j : Talk[d][k].after <= seen}})

Feed(d, n) ==
    /\ past.at[d] + n <= Limit(d)
    /\ \E r \in {FeedSide(self, d, SubSeq(Wires[past.talk][d], past.at[d] + 1, past.at[d] + n))} :
         /\ self' = r.s
         /\ past' = [past EXCEPT !.at[d] = @ + n, !.out[d] = @ \o r.out]

\* Octets the capture missed; in a dialogue of lines only.
Gap(d, n) ==
    /\ Talk.gaps /\ \A e \in Sides : past.from[e] = 0
    /\ past.at[d] + n <= Limit(d)
    /\ self' = OnGap(self, d)
    /\ past' = [past EXCEPT !.at[d] = @ + n, !.from[d] = @ + past.at[d] + n, !.before[d] = past.at[d]]

Next == \E d \in Sides, n \in 1 .. Chunk : Feed(d, n) \/ Gap(d, n)

Spec == Init /\ [][Next]_vars

-----------------------------------------------------------------------------
(* What the dialogue says                                                  *)

\* The user named last before item i and not yet paired with a password.
UserOf(items, i) ==
    LET named == {j \in 1 .. i - 1 : items[j].what = "USER"}
        last  == Max(named)
    IN IF named = {} \/ \E k \in last + 1 .. i - 1 : items[k].what = "PASS" THEN None ELSE items[last].id

Says(items, i) ==
    LET x == items[i]
        command == <<<<"Command", x.id>>>>
    IN CASE x.what \in {"EHLO", "MAIL", "RCPT"} -> <<<<x.what, x.id>>>> \o command
         [] x.what = "AUTH PLAIN ir" -> <<<<"Credentials", x.id, x.id>>>> \o command
         [] x.what = "RETR" -> <<<<"Transfer", x.id>>>> \o command
         [] x.what = "PASS" -> (IF UserOf(items, i) = None THEN <<>>
                                ELSE <<<<"Credentials", UserOf(items, i), x.id>>>>) \o command
         [] x.what = "token" -> <<<<"Credentials", x.user, x.id>>>>
         [] x.what = "body" -> <<<<"DataEnd", Len(x.text) - 3>>>>
         [] x.what \in {"empty", "user", "tls", "bad token"} -> <<>>
         [] x.what = "reply" ->
              LET banner == x.code = 220 /\ \A j \in 1 .. i - 1 : items[j].code # 220
                  told   == (IF banner THEN <<<<"Banner", x.id>>>> ELSE <<>>)
                  reply  == <<<<"Reply", x.id>>>>
              IN CASE ~x.final -> <<>>
                   [] x.accepts = "STARTTLS" -> told \o reply \o <<<<"TlsUpgrade">>>>
                   [] x.accepts = "AUTH TLS" -> told \o <<<<"TlsUpgrade">>>> \o reply
                   [] x.accepts = "DATA" -> told \o <<<<"DataBegin">>>> \o reply
                   [] OTHER -> told \o reply
         [] OTHER -> command

\* The items of side d that were seen whole: up to a gap, and from the line
\* after the one the gap ended in.
Read(d) ==
    LET items == Talk[d]
        skipped == {i \in DOMAIN items : End(d, i) > past.from[d]}
        resumes == IF skipped = {} THEN Len(items) + 1 ELSE Min(skipped) + 1
        gapped  == past.from[d] > 0
    IN {i \in Seen(d) : ~gapped \/ End(d, i) <= past.before[d] \/ i >= resumes}

Dialogue(d) ==
    LET items == Talk[d]
        test(i) == i \in Read(d)
        order == SelectSeq([i \in DOMAIN items |-> i], test)
    IN FlattenSeq([n \in DOMAIN order |-> Says(items, order[n])])

\* However the two directions were cut and interleaved, what is reported of
\* each is what its side said, item by item: a command once, with the address,
\* the file or the credentials it completes (a user with the password given
\* for it); a mail body as its length and never as commands; a reply, with the
\* upgrade or the start of the mail when that is what it accepts; nothing of
\* the TLS after an upgrade.
\* The dialogues leave out what the parsers do not follow: commands sent ahead
\* of the replies to those before (the run smtp_pipelining); a gap over
\* anything but lines that change no state (DATA, AUTH, STARTTLS, a body's
\* end), since OnGap keeps the mode of the lines that were missed; a body with
\* no text, whose end is looked for with the CR and LF of a line before it
\* (smtp/session.rs, find_data_end); and an AUTH LOGIN that is cancelled or
\* refused half way, whose state takes the next command for a token.
DialogueAsHeld == \A d \in Sides : past.out[d] = Dialogue(d)

\* When the reply that accepts DATA has been seen, the mail has begun: the
\* body is held back from then on (pending_cmd of SmtpParser).
DataBeginsAt354 ==
    \A i \in Seen("s") : Talk["s"][i].accepts = "DATA" => <<"DataBegin">> \in ToSet(past.out["s"])
=============================================================================
