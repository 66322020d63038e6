--------------------------- MODULE TlsHandshakes ---------------------------
(***************************************************************************)
(* src/src/tls/handshake.rs: TlsHandshakeParser joins the messages of a    *)
(* TLS connection into one report per handshake, on top of TlsParser       *)
(* (src/src/tls/session.rs), of which the records are taken whole: module  *)
(* FramedParsers has how they are cut out of the stream.                   *)
(*                                                                         *)
(* A record holds one message, known by its number in the script; a hello  *)
(* of the server says which hello of the client it `answers`.  A field of  *)
(* a report that is copied from a hello is the number of that hello.  A    *)
(* record is sent once its sender has read `after` records of the other    *)
(* side, and the capture has both sides in that order, unless a gap stops  *)
(* a side.                                                                 *)
(***************************************************************************)
EXTENDS Naturals, Sequences, FiniteSets, FiniteSetsExt, SequencesExt

CONSTANTS None, Scripts

VARIABLES self, past

vars == <<self, past>>

Sides == {"Initiator", "Responder"}
Other(side) == CHOOSE s \in Sides : s # side
Sent(side) == Scripts[past.script][side]

\* TlsHandshake::default; `client` stands for the SNI, the ALPN list and the
\* other fields taken from the client's hello, `server` for the server's.
NoHandshake ==
    [client |-> None, ja4 |-> None, server |-> None, ja4s |-> None, ech |-> "NotOffered",
     certificate_chain |-> None, outcome |-> "Truncated", by |-> None]

NewParser ==
    [state |-> "AwaitingClientHello", accumulator |-> NoHandshake,
     dir |-> [s \in Sides |-> "Reading"], out |-> <<>>]

-----------------------------------------------------------------------------
(* TlsParser                                                               *)

\* step and dispatch, for the record r of one side: its messages, and whether
\* the side reads on.
Messages(side, r) ==
    CASE r.type = "ClientHello" /\ side = "Initiator" -> <<[r EXCEPT !.type = "Ja4"], r>>
      [] r.type = "ServerHello" /\ side = "Responder" -> <<[r EXCEPT !.type = "Ja4s"], r>>
      [] r.type \in {"Alert", "Certificate"} -> <<r>>
      [] OTHER -> <<>>
StateAfter(r) == IF r.type = "ChangeCipherSpec" THEN "Encrypted" ELSE "Reading"

-----------------------------------------------------------------------------
(* TlsHandshakeParser                                                      *)

\* Report what was accumulated, and start afresh.
Reported(p, outcome, by, state) ==
    [p EXCEPT !.out = Append(@, [p.accumulator EXCEPT !.outcome = outcome, !.by = by]),
              !.accumulator = NoHandshake, !.state = state]

Ech(p, r) == IF r.ech THEN "Unknown" ELSE p.accumulator.ech

OnClientHello(p, r) ==
    [p EXCEPT !.accumulator.client = r.id, !.accumulator.ech = Ech(p, r), !.state = "AwaitingServerHello"]

OnServerHelloOnly(p, r) ==
    LET ech == IF p.accumulator.ech = "Unknown" THEN "Accepted" ELSE p.accumulator.ech
    IN Reported([p EXCEPT !.accumulator.server = r.id, !.accumulator.ech = ech], "Completed", None, p.state)

\* The plaintext never has the server's retry configurations, so an offer that
\* is answered counts as accepted.
OnServerHello(p, r) ==
    LET ech == IF p.accumulator.ech = "Unknown" THEN "Accepted" ELSE p.accumulator.ech
    IN Reported([p EXCEPT !.accumulator.server = r.id, !.accumulator.ech = ech], "Completed", None, "Completed")

\* A fatal alert is laid to the side whose turn it was.
OnAlert(p, r) ==
    IF ~r.fatal THEN p
    ELSE Reported(p, IF p.state = "AwaitingServerHello" THEN "AlertedByServer" ELSE "AlertedByClient",
                  r.id, "AwaitingClientHello")

Process(p, m) ==
    CASE m.type = "ClientHello" -> OnClientHello(p, m)
      [] m.type = "ServerHello" -> OnServerHello(p, m)
      [] m.type = "Alert" -> OnAlert(p, m)
      [] m.type = "Ja4" -> [p EXCEPT !.accumulator.ja4 = m.id]
      [] m.type = "Ja4s" -> [p EXCEPT !.accumulator.ja4s = m.id]
      [] m.type = "Certificate" -> [p EXCEPT !.accumulator.certificate_chain = m.id]

\* feed_initiator, feed_responder.
Fed(p, side, r) ==
    IF p.dir[side] # "Reading" THEN p
    ELSE FoldLeft(Process, [p EXCEPT !.dir[side] = StateAfter(r)], Messages(side, r))

\* fin_initiator; fin_responder has nothing to report.
FinInitiator(p) ==
    IF p.state = "AwaitingServerHello" THEN Reported(p, "Truncated", None, "AwaitingClientHello") ELSE p

-----------------------------------------------------------------------------
(* A connection                                                            *)

Init ==
    /\ self = NewParser
    /\ past \in [script : DOMAIN Scripts, read : {[s \in Sides |-> 0]}, stopped : {{}}, ended : {None}]

Open == past.ended = None

Deliver(side) ==
    /\ Open /\ past.read[side] < Len(Sent(side))
    /\ LET r == Sent(side)[past.read[side] + 1]
       IN /\ past.read[Other(side)] >= r.after
          /\ self' = IF side \in past.stopped THEN self ELSE Fed(self, side, r)
    /\ past' = [past EXCEPT !.read[side] = @ + 1]

\* The default on_gap stops the side.
Gap(side) ==
    /\ Open /\ side \notin past.stopped
    /\ past' = [past EXCEPT !.stopped = @ \cup {side}]
    /\ UNCHANGED self

\* The end of the flow: fin_initiator unless the side was stopped or reset.
End(fin) ==
    /\ Open
    /\ self' = IF fin /\ "Initiator" \notin past.stopped THEN FinInitiator(self) ELSE self
    /\ past' = [past EXCEPT !.ended = IF fin THEN "Fin" ELSE "Rst"]

Next ==
    \/ \E side \in Sides : Deliver(side) \/ Gap(side)
    \/ \E fin \in BOOLEAN : End(fin)

-----------------------------------------------------------------------------
(* What the reports should be                                              *)

Record(side, id) == CHOOSE r \in Range(Sent(side)) : r.id = id

\* The hellos of the client that were in the clear.
Hellos ==
    {i \in 1 .. past.read["Initiator"] :
        /\ Sent("Initiator")[i].type = "ClientHello"
        /\ \A j \in 1 .. i : Sent("Initiator")[j].type # "ChangeCipherSpec"}

\* A report joins a hello of the client with the hello that answers it, and
\* nothing of another; it says Completed exactly when the server answered, ECH
\* exactly when its own hello offered it, and is laid to an alert only if that
\* alert was fatal (TlsHandshakeParser::process).  No report is empty or made
\* twice; once a connection is closed in order, a client's last hello is in one
\* unless the side was lost (fin_initiator).
\* It does not say what handshake.rs documents and the code does not do: that
\* a flow has one report (:1-2; a retried hello and an alert after the
\* ServerHello make a second), that no fatal alert follows a Completed (:29-30),
\* that the side named by AlertedByServer or AlertedByClient sent the alert
\* (:32-35; it is the side whose turn it was), and that the certificates are in
\* the report of their own handshake (:88-94; they arrive after it was made and
\* are kept for the next).
HandshakesJoin ==
    /\ \A i \in DOMAIN self.out :
         LET h == self.out[i]
         IN /\ h.client # None \/ h.server # None \/ h.by # None
            /\ h.ja4 = h.client /\ h.ja4s = h.server
            /\ h.outcome = "Completed" <=> h.server # None
            /\ h.client # None /\ h.server # None => Record("Responder", h.server).answers = h.client
            /\ h.ech # "NotOffered" <=> h.client # None /\ Record("Initiator", h.client).ech
            /\ h.by # None => \E s \in Sides : \E r \in Range(Sent(s)) : r.id = h.by /\ r.fatal
    /\ \A i, j \in DOMAIN self.out :
         i # j => /\ self.out[i].client = None \/ self.out[i].client # self.out[j].client
                  /\ self.out[i].server = None \/ self.out[i].server # self.out[j].server
                  /\ self.out[i].certificate_chain = None
                       \/ self.out[i].certificate_chain # self.out[j].certificate_chain
    /\ past.ended = "Fin" /\ past.stopped = {} /\ Hellos # {} =>
         \E i \in DOMAIN self.out : self.out[i].client = Sent("Initiator")[Max(Hellos)].id
=============================================================================
