-------------------------- MODULE SessionCoreProofs --------------------------
(***************************************************************************)
(* What SessionCore promises, for every signature, cap, chunk and number   *)
(* of flows: a parser reads each side in place and misses nothing that is  *)
(* still read, also through a probe and its replay, and every parser's     *)
(* close is counted once.                                                  *)
(***************************************************************************)
EXTENDS SessionCore, FoldTheorems, FiniteSetTheorems

\* Cells that stand where they say, from position `from` on.
Aligned(cells, from) == \A i \in DOMAIN cells : cells[i] \in {Gap, from + i - 1}

Items == [side : Sides, cells : Seq(Int), stop : {None, "Overflow", "Memcap"}]

Parsers == [open : BOOLEAN, stopped : [Sides -> BOOLEAN], fed : [Sides -> Seq(Int)]]

Probes == [packets : Nat, prefix : [Sides -> Seq(Int)], sealed : [Sides -> BOOLEAN],
           replay : Seq(Items), bytes : Nat, kept : [Sides -> BOOLEAN], lost : [Sides -> Nat]]

Streams == [Sides -> [from : Nat, len : Nat, stop : {None, "Overflow", "Memcap"}]]

\* What a parser was fed stands in place, and it has read each side that is
\* not stopped up to `len`.
InPlace(p) == \A s \in Sides : Aligned(p.fed[s], 0)
Current(p, len) == \A s \in Sides : ~p.stopped[s] => Len(p.fed[s]) = len[s]
Reading(p, len) == p \in Parsers /\ InPlace(p) /\ (p.open => Current(p, len))

\* Where each side is after an item.
Moved(len, item) == [len EXCEPT ![item.side] = @ + Len(item.cells)]

\* Items that continue each other: where each side is after the first n.
Follows(items, len) ==
  /\ len \in [0..Len(items) -> [Sides -> Nat]]
  /\ len[0] = [s \in Sides |-> 0]
  /\ \A n \in 1..Len(items) : /\ Aligned(items[n].cells, len[n - 1][items[n].side])
                              /\ len[n] = Moved(len[n - 1], items[n])

\* A probe's prefixes are the first bytes of each side, and its replay log
\* with the gaps for what was lost is each side as far as it was handed out.
ProbeOK(pr, str) ==
  /\ pr \in Probes
  /\ \A s \in Sides : \A i \in DOMAIN pr.prefix[s] : pr.prefix[s][i] = i - 1
  /\ \A s \in Sides : ~pr.sealed[s] => Len(pr.prefix[s]) = Least(ProbeCap, str[s].len)
  /\ \A s \in Sides : pr.lost[s] > 0 => pr.kept[s]
  /\ \E len : /\ Follows(pr.replay, len)
              /\ \A s \in Sides : len[Len(pr.replay)][s] + pr.lost[s] = str[s].len

ParserOK(p, str) == p.open /\ Reading(p, [s \in Sides |-> str[s].len])

Cores == [flow : {None, "Probing", "Active", "Closed"}, probe : Probes, parser : Parsers,
          opened : Nat, counted : Nat]

\* The core c when the streams were handed out as far as `str`, with `gone`
\* parsers dropped.
CoreOK(c, str, gone) ==
  /\ c \in Cores
  /\ c.opened = c.counted + gone + (IF c.flow = "Active" THEN 1 ELSE 0)
  /\ IF c.flow = "Active" THEN ParserOK(c.parser, str) ELSE c.parser = NewParser
  /\ IF c.flow = "Probing" THEN ProbeOK(c.probe, str) ELSE c.probe = NoProbe
  /\ c.flow = None /\ admits => \A s \in Sides : str[s].len = 0

\* A flow whose end was reported or swept left no entry, and a flow begun on
\* no entry reads from its first byte.
OneFlow ==
  /\ tracked \in {"Tracked", "Ended", "Dropped"}
  /\ tracked = "Ended" => flow = None
  /\ ~joined => \A s \in Sides : stream[s].from = 0

SessionInv ==
  /\ stream \in Streams
  /\ dropped \in Nat
  /\ CoreOK(Core, stream, dropped)
  /\ OneFlow

------------------------------------------------------------------------------
(* Feeding a parser.                                                       *)

\* Cells that follow on those before stand in place with them.
LEMMA AlignedConcat ==
  ASSUME NEW u \in Seq(Int), NEW v \in Seq(Int), NEW n \in Nat, n = Len(u),
         Aligned(u, 0), Aligned(v, n)
  PROVE  Aligned(u \o v, 0) /\ u \o v \in Seq(Int) /\ Len(u \o v) = n + Len(v)
<1>1. /\ u \o v \in Seq(Int) /\ Len(u \o v) = Len(u) + Len(v)
      /\ \A i \in 1..(Len(u) + Len(v)) :
           (u \o v)[i] = IF i <= Len(u) THEN u[i] ELSE v[i - Len(u)]
  BY JoinIs
<1>2. Len(u) \in Nat /\ Len(v) \in Nat /\ DOMAIN u = 1..Len(u) /\ DOMAIN v = 1..Len(v)
  BY SeqIs
<1>3. DOMAIN (u \o v) = 1..Len(u \o v)
  BY <1>1, SeqIs
<1> DEFINE w == u \o v
<1> HIDE DEF w
<1>4. ASSUME NEW i \in 1..(Len(u) + Len(v)) PROVE w[i] \in {Gap, 0 + i - 1}
  <2>1. CASE i <= Len(u)
    <3>1. i \in 1..Len(u)
      BY <1>2, <2>1
    <3> QED BY <1>1, <1>2, <2>1, <3>1 DEF Aligned, w
  <2>2. CASE ~(i <= Len(u))
    <3> DEFINE j == i - Len(u)
    <3>1. j \in 1..Len(v) /\ n + j - 1 = 0 + i - 1
      BY <1>2, <2>2
    <3>2. w[i] = v[j]
      BY <1>1, <2>2 DEF w
    <3> HIDE DEF j
    <3>3. v[j] \in {Gap, n + j - 1}
      BY <1>2, <3>1 DEF Aligned
    <3> QED BY <3>1, <3>2, <3>3
  <2> QED BY <2>1, <2>2
<1> QED
  BY <1>1, <1>3, <1>4 DEF Aligned, w

\* The front of cells in place.
LEMMA AlignedFront ==
  ASSUME NEW v \in Seq(Int), NEW n, Aligned(v, n), NEW m \in 0..Len(v)
  PROVE  /\ SubSeq(v, 1, m) \in Seq(Int) /\ Len(SubSeq(v, 1, m)) = m
         /\ \A i \in 1..m : SubSeq(v, 1, m)[i] = v[i]
         /\ Aligned(SubSeq(v, 1, m), n)
<1>1. Len(v) \in Nat /\ DOMAIN v = 1..Len(v)
  BY SeqIs
<1>2. 1 \in Int /\ m \in Int /\ m \in Nat /\ \A i \in 1..m : i \in DOMAIN v /\ v[i] \in Int
  BY <1>1, ElementIn
<1>3. /\ SubSeq(v, 1, m) \in Seq(Int)
      /\ Len(SubSeq(v, 1, m)) = IF 1 <= m THEN m - 1 + 1 ELSE 0
      /\ \A i \in 1..(m - 1 + 1) : SubSeq(v, 1, m)[i] = v[1 + i - 1]
  BY <1>2, PartIs
<1>4. Len(SubSeq(v, 1, m)) = m /\ \A i \in 1..m : SubSeq(v, 1, m)[i] = v[i]
  BY <1>2, <1>3
<1>5. DOMAIN SubSeq(v, 1, m) = 1..m
  BY <1>3, <1>4, SeqIs
<1> QED
  BY <1>2, <1>3, <1>4, <1>5 DEF Aligned

LEMMA MovedTo ==
  ASSUME NEW len \in [Sides -> Nat], NEW item \in Items
  PROVE  /\ Moved(len, item) \in [Sides -> Nat]
         /\ Moved(len, item)[item.side] = len[item.side] + Len(item.cells)
         /\ \A s \in Sides : s # item.side => Moved(len, item)[s] = len[s]
<1>1. item.side \in Sides /\ Len(item.cells) \in Nat
  BY SeqIs DEF Items
<1> QED
  BY <1>1 DEF Moved

\* Active::feed: one item, where the side is.
LEMMA FedReading ==
  ASSUME NEW len \in [Sides -> Nat], NEW p, Reading(p, len), NEW item \in Items,
         Aligned(item.cells, len[item.side]), NEW q \in Fed(p, item)
  PROVE  Reading(q, Moved(len, item))
<1> DEFINE sd == item.side
           all == Len(item.cells)
           to == Moved(len, item)
<1>1. /\ sd \in Sides /\ item.cells \in Seq(Int) /\ all \in Nat
      /\ to \in [Sides -> Nat] /\ to[sd] = len[sd] + all /\ len[sd] \in Nat
      /\ \A s \in Sides : s # sd => to[s] = len[s]
  BY MovedTo, SeqIs DEF Items
<1>2. p \in Parsers /\ InPlace(p) /\ (p.open => Current(p, len))
  BY DEF Reading
<1> HIDE DEF to
<1>3. CASE ~p.open \/ p.stopped[sd]
  <2>1. q = p
    BY <1>3 DEF Fed
  <2>2. p.open => Current(p, to)
    BY <1>1, <1>2, <1>3 DEF Current
  <2> QED BY <1>2, <2>1, <2>2 DEF Reading, to
<1>4. CASE p.open /\ ~p.stopped[sd]
  <2>1. PICK read \in Reads(item) :
          q = [p EXCEPT !.fed[item.side] = @ \o SubSeq(item.cells, 1, read.at),
                        !.stopped[item.side] = read.end = "StopSide",
                        !.open = /\ read.end # "Close"
                                 /\ read.end = "StopSide" =>
                                      \E s \in Sides \ {item.side} : ~p.stopped[s]]
    BY <1>4 DEF Fed
  <2>2. /\ read.at \in 0..all /\ read.end \in {"Close", "StopSide", "Go"}
        /\ read.end = "Go" => read.at = all
    BY <1>1 DEF Reads, Ends
  <2> DEFINE more == SubSeq(item.cells, 1, read.at)
             fed == [p.fed EXCEPT ![sd] = @ \o more]
             stopped == [p.stopped EXCEPT ![sd] = (read.end = "StopSide")]
  <2>3. p.fed \in [Sides -> Seq(Int)] /\ p.stopped \in [Sides -> BOOLEAN] /\ p.fed[sd] \in Seq(Int)
    BY <1>1, <1>2 DEF Parsers
  <2>4. Len(p.fed[sd]) = len[sd] /\ Aligned(p.fed[sd], 0)
    BY <1>1, <1>2, <1>4 DEF Current, InPlace
  <2>5. more \in Seq(Int) /\ Len(more) = read.at /\ Aligned(more, len[sd])
    BY <1>1, <2>2, AlignedFront
  <2> HIDE DEF more
  <2>6. /\ p.fed[sd] \o more \in Seq(Int) /\ Aligned(p.fed[sd] \o more, 0)
        /\ Len(p.fed[sd] \o more) = len[sd] + read.at
    <3> DEFINE u == p.fed[sd]  n == len[sd]
    <3>1. u \in Seq(Int) /\ n \in Nat /\ n = Len(u) /\ Aligned(u, 0) /\ Aligned(more, n)
      BY <1>1, <2>3, <2>4, <2>5
    <3> HIDE DEF u, n
    <3>2. Aligned(u \o more, 0) /\ u \o more \in Seq(Int) /\ Len(u \o more) = n + Len(more)
      BY <2>5, <3>1, AlignedConcat
    <3> QED BY <2>5, <3>2 DEF u, n
  <2>7. /\ fed \in [Sides -> Seq(Int)] /\ fed[sd] = p.fed[sd] \o more
        /\ \A s \in Sides : s # sd => fed[s] = p.fed[s]
    BY <1>1, <2>3, <2>6
  <2>8. /\ stopped \in [Sides -> BOOLEAN] /\ (stopped[sd] <=> read.end = "StopSide")
        /\ \A s \in Sides : s # sd => stopped[s] = p.stopped[s]
    BY <1>1, <2>3
  <2>9. /\ q.fed = fed /\ q.stopped = stopped /\ q.open \in BOOLEAN /\ q \in Parsers
        /\ q.open => read.end # "Close"
    <3> HIDE DEF fed, stopped
    <3>1. q = [p EXCEPT !.fed = fed, !.stopped = stopped,
                        !.open = /\ read.end # "Close"
                                 /\ read.end = "StopSide" =>
                                      \E s \in Sides \ {item.side} : ~p.stopped[s]]
      BY <2>1 DEF fed, stopped, more
    <3> QED BY <1>2, <2>7, <2>8, <3>1 DEF Parsers
  <2> HIDE DEF fed, stopped
  <2>10. InPlace(q)
    BY <1>2, <2>6, <2>7, <2>9 DEF InPlace
  <2>11. ASSUME q.open, NEW s \in Sides, ~q.stopped[s] PROVE Len(q.fed[s]) = to[s]
    <3>1. CASE s = sd
      BY <1>1, <2>2, <2>6, <2>7, <2>8, <2>9, <2>11, <3>1
    <3>2. CASE s # sd
      BY <1>1, <1>2, <1>4, <2>7, <2>8, <2>9, <2>11, <3>2 DEF Current
    <3> QED BY <3>1, <3>2
  <2> QED BY <2>9, <2>10, <2>11 DEF Reading, Current, to
<1> QED
  BY <1>2, <1>3, <1>4 DEF Parsers

LEMMA FedTypes ==
  ASSUME NEW p \in Parsers, NEW item \in Items, NEW q \in Fed(p, item)
  PROVE  q \in Parsers
<1> DEFINE sd == item.side
<1>1. sd \in Sides /\ item.cells \in Seq(Int) /\ Len(item.cells) \in Nat
  BY SeqIs DEF Items
<1>2. CASE ~p.open \/ p.stopped[sd]
  BY <1>2 DEF Fed
<1>3. CASE p.open /\ ~p.stopped[sd]
  <2>1. PICK read \in Reads(item) :
          q = [p EXCEPT !.fed[item.side] = @ \o SubSeq(item.cells, 1, read.at),
                        !.stopped[item.side] = read.end = "StopSide",
                        !.open = /\ read.end # "Close"
                                 /\ read.end = "StopSide" =>
                                      \E s \in Sides \ {item.side} : ~p.stopped[s]]
    BY <1>3 DEF Fed
  <2>2. read.at \in 0..Len(item.cells)
    BY <1>1 DEF Reads, Ends
  <2> DEFINE more == SubSeq(item.cells, 1, read.at)
             fed == [p.fed EXCEPT ![sd] = @ \o more]
             stopped == [p.stopped EXCEPT ![sd] = (read.end = "StopSide")]
  <2>3. p.fed \in [Sides -> Seq(Int)] /\ p.stopped \in [Sides -> BOOLEAN] /\ p.fed[sd] \in Seq(Int)
    BY <1>1 DEF Parsers
  <2>4. more \in Seq(Int)
    <3>1. 1 \in Int /\ read.at \in Int /\ \A i \in 1..read.at : item.cells[i] \in Int
      BY <1>1, <2>2, ElementIn
    <3> QED BY <3>1, PartIs
  <2> HIDE DEF more
  <2>5. p.fed[sd] \o more \in Seq(Int)
    BY <2>3, <2>4, JoinIs
  <2>6. fed \in [Sides -> Seq(Int)] /\ stopped \in [Sides -> BOOLEAN]
    BY <1>1, <2>3, <2>5
  <2> HIDE DEF fed, stopped
  <2>7. q = [p EXCEPT !.fed = fed, !.stopped = stopped,
                      !.open = /\ read.end # "Close"
                               /\ read.end = "StopSide" =>
                                    \E s \in Sides \ {item.side} : ~p.stopped[s]]
    BY <2>1 DEF fed, stopped, more
  <2> QED BY <2>6, <2>7 DEF Parsers
<1> QED
  BY <1>2, <1>3 DEF Parsers

LEMMA NewReading == NewParser \in Parsers /\ Reading(NewParser, [s \in Sides |-> 0])
<1>1. <<>> \in Seq(Int) /\ Len(<<>>) = 0
  OBVIOUS
<1>2. NewParser \in Parsers
  BY <1>1 DEF NewParser, Parsers
<1>3. InPlace(NewParser) /\ Current(NewParser, [s \in Sides |-> 0])
  BY <1>1 DEF NewParser, InPlace, Current, Aligned
<1> QED
  BY <1>2, <1>3 DEF Reading

\* pin: a parser fed a log from its start has read each side as far as the
\* log goes.
LEMMA FedAllReading ==
  ASSUME NEW items \in Seq(Items), NEW len, Follows(items, len), NEW q \in FedAll(NewParser, items)
  PROVE  Reading(q, len[Len(items)])
<1> DEFINE N == Len(items)
           V == SUBSET Parsers
           b == {NewParser}
           next(v, n) == UNION {Fed(p, items[n]) : p \in v}
           h == [n \in 1..N |-> [v \in V |-> next(v, n) \cap Parsers]]
           after == CHOOSE f : f = [n \in 0..N |-> IF n = 0 THEN b ELSE next(f[n - 1], n)]
<1>1. N \in Nat /\ \A n \in 1..N : items[n] \in Items
  BY SeqIs, ElementIn
<1>2. FedAll(NewParser, items) = after[N]
  BY DEF FedAll
<1>3. b \in V
  BY NewReading
<1>4. \A n \in 1..N, v \in V : next(v, n) \in V /\ h[n][v] = next(v, n)
  <2> SUFFICES ASSUME NEW n \in 1..N, NEW v \in V
               PROVE  next(v, n) \subseteq Parsers /\ h[n][v] = next(v, n)
    OBVIOUS
  <2>1. \A p \in v : Fed(p, items[n]) \subseteq Parsers
    BY <1>1, FedTypes
  <2>2. next(v, n) \subseteq Parsers
    BY <2>1
  <2> QED BY <2>2
<1>5. h \in [1..N -> [V -> V]]
  <2>1. \A n \in 1..N, v \in V : next(v, n) \cap Parsers \in V
    OBVIOUS
  <2> QED BY <2>1
<1>6. PICK g : IsFold(g, N, V, b, h)
  <2> HIDE DEF h, b, V, N
  <2> QED BY <1>1, <1>3, <1>5, FoldExists
<1>7. \A n \in 1..N : n - 1 \in 0..N /\ g[n] = next(g[n - 1], n)
  <2> HIDE DEF V, next, h
  <2> QED BY <1>4, <1>6 DEF IsFold
<1> HIDE DEF next
<1>8. g = [n \in 0..N |-> IF n = 0 THEN b ELSE next(g[n - 1], n)]
  <2>1. \A n \in 0..N : g[n] = IF n = 0 THEN b ELSE next(g[n - 1], n)
    BY <1>6, <1>7 DEF IsFold
  <2> HIDE DEF V, b
  <2> QED BY <1>6, <2>1 DEF IsFold
<1>9. after = [n \in 0..N |-> IF n = 0 THEN b ELSE next(after[n - 1], n)]
  BY <1>8
<1> HIDE DEF after
<1>10. after[0] = b /\ \A n \in 1..N : after[n] = next(after[n - 1], n)
  <2> DEFINE val == [n \in 0..N |-> IF n = 0 THEN b ELSE next(after[n - 1], n)]
  <2>1. 0 \in 0..N /\ \A n \in 1..N : n \in 0..N /\ n # 0
    BY <1>1
  <2> HIDE DEF b, N
  <2>2. val[0] = b /\ \A n \in 1..N : val[n] = next(after[n - 1], n)
    BY <2>1
  <2> HIDE DEF val
  <2> QED BY <1>9, <2>2 DEF val
<1> DEFINE good == {n \in 0..N : \A p \in after[n] : Reading(p, len[n])}
<1>11. 0 \in good
  BY <1>1, <1>10, NewReading DEF Follows
<1>12. ASSUME NEW m \in 1..N, m - 1 \in good PROVE m \in good
  <2>1. m \in 0..N /\ m - 1 \in 0..N
    OBVIOUS
  <2>2. ASSUME NEW p \in after[m] PROVE Reading(p, len[m])
    <3>1. PICK o \in after[m - 1] : p \in Fed(o, items[m])
      BY <1>10, <2>2 DEF next
    <3>2. Reading(o, len[m - 1])
      BY <1>12, <3>1
    <3>3. /\ len[m - 1] \in [Sides -> Nat] /\ len[m] = Moved(len[m - 1], items[m])
          /\ Aligned(items[m].cells, len[m - 1][items[m].side])
      BY <2>1 DEF Follows
    <3> QED BY <1>1, <3>1, <3>2, <3>3, FedReading
  <2> QED BY <2>1, <2>2
<1>13. N \in good
  <2> HIDE DEF good
  <2> QED BY <1>1, <1>11, <1>12, Upwards
<1> QED
  BY <1>2, <1>13

------------------------------------------------------------------------------
(* Probing.                                                                *)

\* A log that goes on with an item.
LEMMA FollowsAppend ==
  ASSUME NEW items \in Seq(Items), NEW len, Follows(items, len), NEW item \in Items,
         Aligned(item.cells, len[Len(items)][item.side])
  PROVE  \E to : Follows(Append(items, item), to)
                 /\ to[Len(items) + 1] = Moved(len[Len(items)], item)
<1> DEFINE N == Len(items)
           all == Append(items, item)
           last == Moved(len[N], item)
           to == [n \in 0..(N + 1) |-> IF n = N + 1 THEN last ELSE len[n]]
<1>1. N \in Nat
  BY SeqIs
<1>2. all \in Seq(Items) /\ Len(all) = N + 1 /\ all[N + 1] = item
      /\ \A n \in 1..N : all[n] = items[n]
  BY <1>1, AppendedIs
<1>3. /\ len \in [0..N -> [Sides -> Nat]] /\ len[0] = [s \in Sides |-> 0]
      /\ \A n \in 1..N : /\ Aligned(items[n].cells, len[n - 1][items[n].side])
                         /\ len[n] = Moved(len[n - 1], items[n])
  BY DEF Follows
<1> HIDE DEF N
<1>4. len[N] \in [Sides -> Nat] /\ last \in [Sides -> Nat]
  <2>1. N \in 0..N
    BY <1>1
  <2>2. len[N] \in [Sides -> Nat]
    BY <1>3, <2>1
  <2> QED BY <2>2, MovedTo
<1> HIDE DEF last, all
<1>5. \A n \in 0..(N + 1) : n # N + 1 => n \in 0..N
  BY <1>1
<1>6. to \in [0..(N + 1) -> [Sides -> Nat]]
  BY <1>3, <1>4, <1>5
<1>7. /\ \A n \in 0..N : to[n] = len[n]
      /\ to[N + 1] = last
  BY <1>1
<1> HIDE DEF to
<1>8. to[0] = [s \in Sides |-> 0]
  BY <1>1, <1>3, <1>7
<1>9. ASSUME NEW n \in 1..(N + 1)
      PROVE  /\ Aligned(all[n].cells, to[n - 1][all[n].side])
             /\ to[n] = Moved(to[n - 1], all[n])
  <2>1. n - 1 \in 0..N /\ to[n - 1] = len[n - 1]
    BY <1>1, <1>7
  <2>2. CASE n = N + 1
    <3>1. n - 1 = N /\ all[n] = item /\ to[n] = last
      BY <1>1, <1>2, <1>7, <2>2
    <3>2. to[n - 1] = len[N]
      BY <2>1, <3>1
    <3> QED BY <3>1, <3>2 DEF last, N
  <2>3. CASE n # N + 1
    <3>1. n \in 1..N /\ n \in 0..N
      BY <1>1, <2>3
    <3>2. all[n] = items[n] /\ to[n] = len[n]
      BY <1>2, <1>7, <3>1
    <3> QED BY <1>3, <2>1, <3>1, <3>2
  <2> QED BY <2>2, <2>3
<1>10. Follows(all, to)
  BY <1>2, <1>6, <1>8, <1>9 DEF Follows
<1> QED
  BY <1>7, <1>10 DEF all, N, last

\* A log that goes on with the gap for what a side lost.
LEMMA FollowsGap ==
  ASSUME NEW items \in Seq(Items), NEW len, Follows(items, len), NEW s \in Sides, NEW n \in Nat
  PROVE  LET all == items \o (IF n = 0 THEN <<>> ELSE <<Item(s, Gaps(n), None)>>)
         IN /\ all \in Seq(Items)
            /\ \E to : /\ Follows(all, to)
                       /\ to[Len(all)][s] = len[Len(items)][s] + n
                       /\ \A t \in Sides : t # s => to[Len(all)][t] = len[Len(items)][t]
<1> DEFINE end == len[Len(items)]
<1>1. end \in [Sides -> Nat] /\ end[s] \in Nat /\ Len(items) \in Nat
  BY SeqIs DEF Follows
<1>2. CASE n = 0
  <2>1. items \o <<>> = items
    BY JoinEmpty
  <2>2. end[s] = end[s] + 0
    BY <1>1
  <2> HIDE DEF end
  <2>3. Follows(items, len) /\ len[Len(items)][s] = len[Len(items)][s] + n
    BY <1>2, <2>2 DEF end
  <2> QED BY <1>2, <2>1, <2>3
<1>3. CASE n # 0
  <2> DEFINE item == Item(s, Gaps(n), None)
             all == Append(items, item)
  <2>1. Gaps(n) \in Seq(Int) /\ Len(Gaps(n)) = n
    <3>1. Gaps(n) \in [1..n -> Int]
      BY DEF Gaps, Gap
    <3> QED BY <3>1
  <2>2. item \in Items /\ item.side = s /\ item.cells = Gaps(n)
    BY <2>1 DEF Item, Items
  <2>3. Aligned(item.cells, end[item.side])
    BY <2>2 DEF Aligned, Gaps
  <2>4. items \o <<item>> = all
    BY <2>2, AppendedIs
  <2> HIDE DEF item
  <2>5. PICK to : Follows(all, to) /\ to[Len(items) + 1] = Moved(end, item)
    BY <2>2, <2>3, FollowsAppend
  <2>6. all \in Seq(Items) /\ Len(all) = Len(items) + 1
    BY <2>2, AppendedIs
  <2> HIDE DEF end, all
  <2>7. /\ Moved(end, item)[s] = end[s] + n
        /\ \A t \in Sides : t # s => Moved(end, item)[t] = end[t]
    BY <1>1, <2>1, <2>2, MovedTo
  <2>8. to[Len(all)] = Moved(end, item)
    BY <2>5, <2>6
  <2>9. /\ to[Len(all)][s] = end[s] + n
        /\ \A t \in Sides : t # s => to[Len(all)][t] = end[t]
    BY <2>7, <2>8
  <2>10. items \o (IF n = 0 THEN <<>> ELSE <<Item(s, Gaps(n), None)>>) = all
    BY <1>3, <2>4 DEF item
  <2> QED BY <2>5, <2>6, <2>9, <2>10 DEF end
<1> QED
  BY <1>2, <1>3

\* pin: the replay log and its gaps are each side from its start, as far as it
\* was handed out.
LEMMA ReplayComplete ==
  ASSUME NEW str \in Streams, NEW pr, ProbeOK(pr, str), NEW p \in FedAll(NewParser, Replayed(pr))
  PROVE  Reading(p, [s \in Sides |-> str[s].len])
<1> DEFINE gap(s) == IF pr.lost[s] = 0 THEN <<>> ELSE <<Item(s, Gaps(pr.lost[s]), None)>>
           one == pr.replay \o gap("Initiator")
           two == one \o gap("Responder")
           N == Len(two)
<1>1. pr.replay \in Seq(Items) /\ \A s \in Sides : pr.lost[s] \in Nat /\ str[s].len \in Nat
  BY DEF ProbeOK, Probes, Streams
<1>2. PICK len : /\ Follows(pr.replay, len)
                 /\ \A s \in Sides : len[Len(pr.replay)][s] + pr.lost[s] = str[s].len
  BY DEF ProbeOK
<1>3. "Initiator" \in Sides /\ "Responder" \in Sides /\ "Initiator" # "Responder"
  BY DEF Sides
<1>4. /\ one \in Seq(Items)
      /\ \E to : /\ Follows(one, to)
                 /\ to[Len(one)]["Initiator"] = len[Len(pr.replay)]["Initiator"] + pr.lost["Initiator"]
                 /\ \A t \in Sides : t # "Initiator" => to[Len(one)][t] = len[Len(pr.replay)][t]
  <2> DEFINE items == pr.replay
             n == pr.lost["Initiator"]
  <2>1. items \in Seq(Items) /\ n \in Nat /\ Follows(items, len)
    BY <1>1, <1>2, <1>3
  <2>2. one = items \o (IF n = 0 THEN <<>> ELSE <<Item("Initiator", Gaps(n), None)>>)
    OBVIOUS
  <2> HIDE DEF items, n, one
  <2>3. /\ one \in Seq(Items)
        /\ \E to : /\ Follows(one, to)
                   /\ to[Len(one)]["Initiator"] = len[Len(items)]["Initiator"] + n
                   /\ \A t \in Sides : t # "Initiator" => to[Len(one)][t] = len[Len(items)][t]
    BY <1>3, <2>1, <2>2, FollowsGap
  <2> QED BY <2>3 DEF items, n
<1>5. PICK mid : /\ Follows(one, mid)
                 /\ mid[Len(one)]["Initiator"] = len[Len(pr.replay)]["Initiator"] + pr.lost["Initiator"]
                 /\ mid[Len(one)]["Responder"] = len[Len(pr.replay)]["Responder"]
  BY <1>3, <1>4
<1> HIDE DEF one
<1>6. /\ two \in Seq(Items)
      /\ \E to : /\ Follows(two, to)
                 /\ to[N]["Responder"] = mid[Len(one)]["Responder"] + pr.lost["Responder"]
                 /\ \A t \in Sides : t # "Responder" => to[N][t] = mid[Len(one)][t]
  <2> DEFINE n == pr.lost["Responder"]
  <2>1. one \in Seq(Items) /\ n \in Nat /\ Follows(one, mid)
    BY <1>1, <1>3, <1>4, <1>5
  <2>2. two = one \o (IF n = 0 THEN <<>> ELSE <<Item("Responder", Gaps(n), None)>>)
    OBVIOUS
  <2> HIDE DEF n, two
  <2>3. /\ two \in Seq(Items)
        /\ \E to : /\ Follows(two, to)
                   /\ to[Len(two)]["Responder"] = mid[Len(one)]["Responder"] + n
                   /\ \A t \in Sides : t # "Responder" => to[Len(two)][t] = mid[Len(one)][t]
    BY <1>3, <2>1, <2>2, FollowsGap
  <2> QED BY <2>3 DEF n
<1>7. PICK to : /\ Follows(two, to)
                /\ to[N]["Responder"] = mid[Len(one)]["Responder"] + pr.lost["Responder"]
                /\ to[N]["Initiator"] = mid[Len(one)]["Initiator"]
  BY <1>3, <1>6
<1>8. Replayed(pr) = two
  BY DEF Replayed, one
<1> HIDE DEF two
<1>9. to[N]["Initiator"] = str["Initiator"].len /\ to[N]["Responder"] = str["Responder"].len
  BY <1>2, <1>3, <1>5, <1>7
<1>10. to[N] \in [Sides -> Nat]
  BY <1>6, <1>7, SeqIs DEF Follows
<1>11. to[N] = [s \in Sides |-> str[s].len]
  <2>1. \A s \in Sides : to[N][s] = str[s].len
    BY <1>9 DEF Sides
  <2> HIDE DEF N
  <2> QED BY <1>10, <2>1
<1>12. Reading(p, to[N])
  BY <1>6, <1>7, <1>8, FedAllReading
<1> QED
  BY <1>11, <1>12

\* The numbers up to n.
LEMMA UpTo ==
  ASSUME NEW n \in Nat
  PROVE  IsFiniteSet(1..n) /\ Cardinality(1..n) = n
  BY FS_Interval

\* The leading bytes of a chunk: its front, without a gap.
LEMMA LeadingFront ==
  ASSUME NEW cells \in Seq(Int), NEW from \in Nat, Aligned(cells, from)
  PROVE  /\ Leading(cells) \in Seq(Int) /\ Len(Leading(cells)) \in 0..Len(cells)
         /\ \A i \in 1..Len(Leading(cells)) : Leading(cells)[i] = from + i - 1
<1> DEFINE L == Len(cells)
           S == {i \in 1..L : \A j \in 1..i : cells[j] # Gap}
           n == Cardinality(S)
<1>1. L \in Nat /\ DOMAIN cells = 1..L
  BY SeqIs
<1> HIDE DEF L
<1>2. IsFiniteSet(1..L) /\ Cardinality(1..L) = L
  BY <1>1, UpTo
<1>3. IsFiniteSet(S) /\ n \in Nat /\ n <= L
  <2>1. S \subseteq 1..L
    OBVIOUS
  <2> HIDE DEF S
  <2> QED BY <1>2, <2>1, FS_Subset, FS_CardinalityType
<1>4. ASSUME NEW i \in 1..n PROVE cells[i] # Gap
  <2> SUFFICES ASSUME cells[i] = Gap PROVE FALSE
    OBVIOUS
  <2>1. i \in Nat /\ i - 1 \in Nat /\ i <= n
    BY <1>3
  <2>2. S \subseteq 1..(i - 1)
    <3> SUFFICES ASSUME NEW k \in S, ~(k <= i - 1) PROVE FALSE
      OBVIOUS
    <3>1. k \in 1..L /\ \A j \in 1..k : cells[j] # Gap
      OBVIOUS
    <3>2. i \in 1..k
      BY <1>1, <2>1, <3>1
    <3> QED BY <3>1, <3>2
  <2>3. IsFiniteSet(1..(i - 1)) /\ Cardinality(1..(i - 1)) = i - 1
    <3> DEFINE k == i - 1
    <3>1. k \in Nat
      BY <2>1
    <3> HIDE DEF k
    <3>2. IsFiniteSet(1..k) /\ Cardinality(1..k) = k
      BY <3>1, UpTo
    <3> QED BY <3>2 DEF k
  <2> HIDE DEF S
  <2>4. n <= i - 1
    BY <2>2, <2>3, FS_Subset
  <2> HIDE DEF n
  <2> QED BY <1>3, <2>1, <2>4
<1>5. Leading(cells) = SubSeq(cells, 1, n)
  BY DEF Leading, L
<1> HIDE DEF n, S
<1>6. n \in 0..Len(cells)
  BY <1>1, <1>3 DEF L
<1>7. /\ SubSeq(cells, 1, n) \in Seq(Int) /\ Len(SubSeq(cells, 1, n)) = n
      /\ \A i \in 1..n : SubSeq(cells, 1, n)[i] = cells[i]
  BY <1>6, AlignedFront
<1>8. \A i \in 1..n : cells[i] = from + i - 1
  <2> TAKE i \in 1..n
  <2>1. i \in DOMAIN cells
    BY <1>1, <1>3
  <2> QED BY <1>4, <2>1 DEF Aligned
<1> QED
  BY <1>5, <1>6, <1>7, <1>8

\* What a probe keeps of the leading bytes: the side's first ProbeCap.
LEMMA PrefixGrows ==
  ASSUME NEW pre \in Seq(Int), \A i \in DOMAIN pre : pre[i] = i - 1,
         NEW from \in Nat, Len(pre) = Least(ProbeCap, from),
         NEW lead \in Seq(Int), \A i \in 1..Len(lead) : lead[i] = from + i - 1
  PROVE  LET seen == pre \o lead
             new == SubSeq(seen, 1, Least(ProbeCap, Len(seen)))
         IN /\ new \in Seq(Int) /\ \A i \in DOMAIN new : new[i] = i - 1
            /\ Len(new) = Least(ProbeCap, from + Len(lead))
<1> DEFINE seen == pre \o lead
           m == Least(ProbeCap, Len(seen))
           new == SubSeq(seen, 1, m)
           a == Len(pre)
           b == Len(lead)
<1>1. a \in Nat /\ b \in Nat /\ DOMAIN pre = 1..a
  BY SeqIs
<1>2. /\ seen \in Seq(Int) /\ Len(seen) = a + b
      /\ \A i \in 1..(a + b) : seen[i] = IF i <= a THEN pre[i] ELSE lead[i - a]
  BY JoinIs
<1>3. ProbeCap \in Nat
  BY CapsAssumption
<1>4. a = Least(ProbeCap, from) /\ m = Least(ProbeCap, a + b)
  BY <1>2
<1> HIDE DEF seen, m, a, b
<1>5. m \in Nat /\ m <= a + b /\ m = Least(ProbeCap, from + b)
  BY <1>1, <1>3, <1>4 DEF Least
<1>6. ASSUME NEW i \in 1..m PROVE seen[i] = i - 1 /\ i \in 1..(a + b)
  <2>1. i \in 1..(a + b) /\ i \in Nat
    BY <1>1, <1>5
  <2>2. CASE i <= a
    <3>1. i \in 1..a
      BY <1>1, <2>1, <2>2
    <3> QED BY <1>1, <1>2, <2>1, <2>2, <3>1
  <2>3. CASE ~(i <= a)
    <3>1. a = from
      BY <1>1, <1>3, <1>4, <1>5, <2>1, <2>3 DEF Least
    <3>2. i - a \in 1..b /\ from + (i - a) - 1 = i - 1
      BY <1>1, <2>1, <2>3, <3>1
    <3> DEFINE k == i - a
    <3>3. seen[i] = lead[k]
      BY <1>2, <2>1, <2>3
    <3> HIDE DEF k
    <3>4. k \in 1..Len(lead) /\ from + k - 1 = i - 1
      BY <3>2 DEF k, b
    <3> QED BY <2>1, <3>3, <3>4
  <2> QED BY <2>2, <2>3
<1>7. 1 \in Int /\ m \in Int /\ \A i \in 1..m : seen[i] \in Int
  BY <1>5, <1>6
<1>8. /\ new \in Seq(Int)
      /\ Len(new) = IF 1 <= m THEN m - 1 + 1 ELSE 0
      /\ \A i \in 1..(m - 1 + 1) : new[i] = seen[1 + i - 1]
  BY <1>2, <1>7, PartIs
<1>9. Len(new) = m /\ \A i \in 1..m : new[i] = seen[i]
  BY <1>5, <1>8
<1>10. DOMAIN new = 1..m
  BY <1>8, <1>9, SeqIs
<1> HIDE DEF new
<1>11. \A i \in DOMAIN new : new[i] = i - 1
  BY <1>6, <1>9, <1>10
<1> QED
  BY <1>5, <1>8, <1>9, <1>11 DEF new, seen, m, b

\* The stream after an item, side by side.
LEMMA HandedStream ==
  ASSUME NEW str \in Streams, NEW item \in Items
  PROVE  /\ Handed(str, item) \in Streams
         /\ Handed(str, item)[item.side].len = str[item.side].len + Len(item.cells)
         /\ \A s \in Sides : s # item.side => Handed(str, item)[s] = str[s]
         /\ \A s \in Sides : Handed(str, item)[s].from = str[s].from
<1>1. item.side \in Sides /\ Len(item.cells) \in Nat /\ item.stop \in {None, "Overflow", "Memcap"}
  BY SeqIs DEF Items
<1>2. /\ str[item.side].from \in Nat /\ str[item.side].len \in Nat
      /\ str[item.side].stop \in {None, "Overflow", "Memcap"}
  BY <1>1 DEF Streams
<1> DEFINE new == [from |-> str[item.side].from,
                   len |-> str[item.side].len + Len(item.cells),
                   stop |-> IF str[item.side].stop = None THEN item.stop ELSE str[item.side].stop]
<1>3. new \in [from : Nat, len : Nat, stop : {None, "Overflow", "Memcap"}]
      /\ new.len = str[item.side].len + Len(item.cells) /\ new.from = str[item.side].from
  BY <1>1, <1>2
<1>4. Handed(str, item) = [str EXCEPT ![item.side] = new]
  BY DEF Handed
<1> HIDE DEF new
<1> QED
  BY <1>1, <1>3, <1>4 DEF Streams

\* The bytes of a chunk are counted.
LEMMA SizeNat ==
  ASSUME NEW cells \in Seq(Int)
  PROVE  Size(cells) \in Nat
<1> DEFINE S == {i \in DOMAIN cells : cells[i] # Gap}
<1>1. Len(cells) \in Nat /\ DOMAIN cells = 1..Len(cells)
  BY SeqIs
<1>2. IsFiniteSet(1..Len(cells))
  BY <1>1, FS_Interval
<1>3. S \subseteq 1..Len(cells)
  BY <1>1
<1> HIDE DEF S
<1>4. Cardinality(S) \in Nat
  BY <1>2, <1>3, FS_Subset, FS_CardinalityType
<1> QED
  BY <1>4 DEF Size, S

\* Probe::step keeps the probe's prefixes and its log true.
LEMMA SteppedOK ==
  ASSUME NEW str \in Streams, NEW pr, ProbeOK(pr, str), NEW item \in Items,
         Aligned(item.cells, str[item.side].len)
  PROVE  ProbeOK(Stepped(pr, item), Handed(str, item))
<1> DEFINE s == item.side
           from == str[s].len
           lead == Leading(item.cells)
           seen == pr.prefix[s] \o lead
           keep == Kept(pr, item)
           P == IF pr.sealed[s] THEN pr.prefix[s] ELSE SubSeq(seen, 1, Least(ProbeCap, Len(seen)))
           B == pr.sealed[s] \/ Len(lead) < Len(item.cells) \/ item.stop # None
           K == pr.kept[s] \/ keep
           Y == IF keep THEN pr.bytes + Size(item.cells) ELSE pr.bytes
           R == IF keep THEN Append(pr.replay, item) ELSE pr.replay
           T == IF keep THEN pr.lost[s] ELSE pr.lost[s] + Len(item.cells)
           new == Stepped(pr, item)
           to == Handed(str, item)
<1>1. /\ s \in Sides /\ item.cells \in Seq(Int) /\ Len(item.cells) \in Nat
      /\ Size(item.cells) \in Nat
  BY SeqIs, SizeNat DEF Items
<1>2. from \in Nat
  BY <1>1 DEF Streams
<1>3. /\ pr \in Probes /\ pr.packets \in Nat /\ pr.prefix \in [Sides -> Seq(Int)]
      /\ pr.sealed \in [Sides -> BOOLEAN] /\ pr.replay \in Seq(Items) /\ pr.bytes \in Nat
      /\ pr.kept \in [Sides -> BOOLEAN] /\ pr.lost \in [Sides -> Nat]
  BY DEF ProbeOK, Probes
<1>4. /\ to \in Streams /\ to[s].len = from + Len(item.cells)
      /\ \A t \in Sides : t # s => to[t] = str[t]
  BY HandedStream
<1>5. new = [pr EXCEPT !.prefix[s] = P, !.sealed[s] = B, !.packets = @ + 1, !.kept[s] = K,
                       !.bytes = Y, !.replay = R, !.lost[s] = T]
  BY DEF Stepped
<1>6. lead \in Seq(Int) /\ Len(lead) \in 0..Len(item.cells)
      /\ \A i \in 1..Len(lead) : lead[i] = from + i - 1
  BY <1>1, <1>2, LeadingFront
<1> HIDE DEF from, lead, keep, new, to
<1>7. P \in Seq(Int) /\ (\A i \in DOMAIN P : P[i] = i - 1)
      /\ (~B => Len(P) = Least(ProbeCap, from + Len(item.cells)))
  <2> DEFINE pre == pr.prefix[s]
  <2>1. pre \in Seq(Int) /\ (\A i \in DOMAIN pre : pre[i] = i - 1)
        /\ (~pr.sealed[s] => Len(pre) = Least(ProbeCap, from))
    BY <1>1, <1>3 DEF ProbeOK, from
  <2>2. CASE pr.sealed[s]
    BY <2>1, <2>2
  <2>3. CASE ~pr.sealed[s]
    <3> HIDE DEF pre
    <3> DEFINE all == pre \o lead
               N == SubSeq(all, 1, Least(ProbeCap, Len(all)))
    <3>1. /\ N \in Seq(Int) /\ (\A i \in DOMAIN N : N[i] = i - 1)
          /\ Len(N) = Least(ProbeCap, from + Len(lead))
      BY <1>2, <1>6, <2>1, <2>3, PrefixGrows
    <3>2. P = N
      BY <2>3 DEF pre
    <3>3. ~B => Len(lead) = Len(item.cells)
      BY <1>1, <1>6
    <3> HIDE DEF N, P, B
    <3> QED BY <3>1, <3>2, <3>3
  <2> QED BY <2>2, <2>3
<1>8. B \in BOOLEAN /\ K \in BOOLEAN /\ keep \in BOOLEAN
  BY <1>1, <1>3 DEF Kept, keep
<1>9. Y \in Nat /\ R \in Seq(Items) /\ T \in Nat
  <2>1. Y \in Nat /\ T \in Nat
    BY <1>1, <1>3
  <2>2. pr.replay \in Seq(Items) /\ Append(pr.replay, item) \in Seq(Items)
    BY <1>3
  <2> QED BY <2>1, <2>2
<1> HIDE DEF P, B, K, Y, R, T, s
<1>10. /\ new.prefix = [pr.prefix EXCEPT ![s] = P] /\ new.sealed = [pr.sealed EXCEPT ![s] = B]
       /\ new.packets = pr.packets + 1 /\ new.kept = [pr.kept EXCEPT ![s] = K]
       /\ new.bytes = Y /\ new.replay = R /\ new.lost = [pr.lost EXCEPT ![s] = T]
  BY <1>3, <1>5 DEF Probes
<1>11. new \in Probes
  <2>1. new = [packets |-> pr.packets + 1, prefix |-> [pr.prefix EXCEPT ![s] = P],
               sealed |-> [pr.sealed EXCEPT ![s] = B], replay |-> R, bytes |-> Y,
               kept |-> [pr.kept EXCEPT ![s] = K], lost |-> [pr.lost EXCEPT ![s] = T]]
    BY <1>3, <1>5 DEF Probes
  <2>2. /\ pr.packets + 1 \in Nat /\ [pr.prefix EXCEPT ![s] = P] \in [Sides -> Seq(Int)]
        /\ [pr.sealed EXCEPT ![s] = B] \in [Sides -> BOOLEAN]
        /\ [pr.kept EXCEPT ![s] = K] \in [Sides -> BOOLEAN]
        /\ [pr.lost EXCEPT ![s] = T] \in [Sides -> Nat]
    BY <1>1, <1>3, <1>7, <1>8, <1>9
  <2> QED BY <1>9, <2>1, <2>2 DEF Probes
<1>12. /\ new.prefix[s] = P /\ new.sealed[s] = B /\ new.kept[s] = K /\ new.lost[s] = T
       /\ \A t \in Sides : t # s => /\ new.prefix[t] = pr.prefix[t] /\ new.sealed[t] = pr.sealed[t]
                                    /\ new.kept[t] = pr.kept[t] /\ new.lost[t] = pr.lost[t]
  BY <1>1, <1>3, <1>10
<1>13. \A t \in Sides : \A i \in DOMAIN new.prefix[t] : new.prefix[t][i] = i - 1
  <2> TAKE t \in Sides
  <2>1. CASE t = s
    BY <1>7, <1>12, <2>1
  <2>2. CASE t # s
    <3>1. new.prefix[t] = pr.prefix[t]
      BY <1>12, <2>2
    <3> QED BY <3>1 DEF ProbeOK
  <2> QED BY <2>1, <2>2
<1>14. \A t \in Sides : ~new.sealed[t] => Len(new.prefix[t]) = Least(ProbeCap, to[t].len)
  <2> TAKE t \in Sides
  <2>1. CASE t = s
    BY <1>4, <1>7, <1>12, <2>1
  <2>2. CASE t # s
    <3>1. new.prefix[t] = pr.prefix[t] /\ new.sealed[t] = pr.sealed[t] /\ to[t] = str[t]
      BY <1>4, <1>12, <2>2
    <3> QED BY <3>1 DEF ProbeOK
  <2> QED BY <2>1, <2>2
<1>15. pr.lost[s] \in Nat /\ (keep => pr.lost[s] = 0) /\ (~keep => pr.kept[s])
  <2>1. pr.lost[s] \in Nat /\ (pr.lost[s] > 0 => pr.kept[s])
    BY <1>1, <1>3 DEF ProbeOK
  <2>2. (keep => ~pr.kept[s] \/ pr.lost[s] = 0) /\ (~keep => pr.kept[s])
    BY DEF keep, Kept, s
  <2> QED BY <2>1, <2>2
<1>16. \A t \in Sides : new.lost[t] > 0 => new.kept[t]
  <2> TAKE t \in Sides
  <2>1. CASE t = s
    <3>1. K \/ (keep /\ T = 0)
      BY <1>15 DEF K, T, s
    <3>2. T > 0 => K
      BY <3>1
    <3> QED BY <1>12, <2>1, <3>2
  <2>2. CASE t # s
    <3>1. new.lost[t] = pr.lost[t] /\ new.kept[t] = pr.kept[t]
      BY <1>12, <2>2
    <3> QED BY <3>1 DEF ProbeOK
  <2> QED BY <2>1, <2>2
<1>17. \E len : /\ Follows(R, len)
                /\ \A t \in Sides : len[Len(R)][t] + new.lost[t] = to[t].len
  <2>1. PICK len : /\ Follows(pr.replay, len)
                   /\ \A t \in Sides : len[Len(pr.replay)][t] + pr.lost[t] = str[t].len
    BY DEF ProbeOK
  <2> DEFINE end == len[Len(pr.replay)]
  <2>2. end \in [Sides -> Nat] /\ Len(pr.replay) \in Nat
    BY <1>3, <2>1, SeqIs DEF Follows
  <2>3. end[s] \in Nat /\ end[s] + pr.lost[s] = from /\ \A t \in Sides : end[t] \in Nat
    BY <1>1, <2>1, <2>2 DEF from
  <2>4. CASE keep
    <3>1. R = Append(pr.replay, item) /\ T = 0 /\ Len(R) = Len(pr.replay) + 1
      BY <1>3, <1>15, <2>4, AppendedIs DEF R, T, s
    <3>2. end[s] = from
      BY <1>2, <1>15, <2>3, <2>4
    <3>3. Aligned(item.cells, len[Len(pr.replay)][item.side])
      BY <3>2 DEF s, from
    <3>4. PICK after : /\ Follows(Append(pr.replay, item), after)
                       /\ after[Len(pr.replay) + 1] = Moved(end, item)
      BY <1>3, <2>1, <3>3, FollowsAppend
    <3>5. /\ Moved(end, item)[s] = end[s] + Len(item.cells)
          /\ \A t \in Sides : t # s => Moved(end, item)[t] = end[t]
      BY <2>2, MovedTo DEF s
    <3> HIDE DEF end
    <3>6. after[Len(R)] = Moved(end, item) /\ Follows(R, after)
      BY <3>1, <3>4
    <3>7. ASSUME NEW t \in Sides PROVE after[Len(R)][t] + new.lost[t] = to[t].len
      <4>1. CASE t = s
        <5>1. after[Len(R)][t] = from + Len(item.cells) /\ new.lost[t] = 0
          BY <1>12, <3>1, <3>2, <3>5, <3>6, <4>1
        <5>2. from + Len(item.cells) + 0 = from + Len(item.cells)
          BY <1>1, <1>2
        <5> QED BY <1>4, <4>1, <5>1, <5>2
      <4>2. CASE t # s
        BY <1>4, <1>12, <2>1, <3>5, <3>6, <4>2 DEF end
      <4> QED BY <4>1, <4>2
    <3> QED BY <3>6, <3>7
  <2>5. CASE ~keep
    <3>1. R = pr.replay /\ T = pr.lost[s] + Len(item.cells)
      BY <2>5 DEF R, T, s
    <3>2. ASSUME NEW t \in Sides PROVE end[t] + new.lost[t] = to[t].len
      <4> HIDE DEF end
      <4>1. CASE t = s
        <5>1. end[s] + (pr.lost[s] + Len(item.cells)) = from + Len(item.cells)
          BY <1>1, <1>15, <2>3
        <5> QED BY <1>4, <1>12, <3>1, <4>1, <5>1
      <4>2. CASE t # s
        BY <1>4, <1>12, <2>1, <4>2 DEF end
      <4> QED BY <4>1, <4>2
    <3> QED BY <2>1, <3>1, <3>2
  <2> QED BY <2>4, <2>5
<1>18. \E len : /\ Follows(new.replay, len)
                /\ \A t \in Sides : len[Len(new.replay)][t] + new.lost[t] = to[t].len
  BY <1>10, <1>17
<1>19. ProbeOK(new, to)
  BY <1>11, <1>13, <1>14, <1>16, <1>18 DEF ProbeOK
<1> QED
  BY <1>19 DEF new, to

------------------------------------------------------------------------------
(* on_stream.                                                              *)

\* A new parser and a new probe.
LEMMA FreshStates ==
  NewParser \in Parsers /\ NoProbe \in Probes
<1>1. <<>> \in Seq(Int) /\ <<>> \in Seq(Items)
  OBVIOUS
<1> QED
  BY <1>1 DEF NewParser, Parsers, NoProbe, Probes

LEMMA FreshProbe ==
  ASSUME NEW str \in Streams, \A s \in Sides : str[s].len = 0
  PROVE  ProbeOK(NoProbe, str)
<1> DEFINE len == [n \in 0..0 |-> [s \in Sides |-> 0]]
<1>1. NoProbe \in Probes
  BY FreshStates
<1>2. NoProbe.replay = <<>> /\ Len(<<>>) = 0
  BY DEF NoProbe
<1>3. /\ \A s \in Sides : NoProbe.prefix[s] = <<>> /\ NoProbe.lost[s] = 0
      /\ DOMAIN <<>> = {}
  BY DEF NoProbe
<1>4. len \in [0..0 -> [Sides -> Nat]] /\ len[0] = [s \in Sides |-> 0]
  OBVIOUS
<1> HIDE DEF len
<1>5. Follows(<<>>, len)
  BY <1>2, <1>4 DEF Follows
<1>6. \A s \in Sides : len[0][s] + NoProbe.lost[s] = str[s].len
  BY <1>3, <1>4
<1>7. ProbeCap \in Nat
  BY CapsAssumption
<1>8. \A s \in Sides : Len(NoProbe.prefix[s]) = Least(ProbeCap, str[s].len)
  <2> TAKE s \in Sides
  <2>1. Len(NoProbe.prefix[s]) = 0
    BY <1>2, <1>3
  <2> QED BY <1>7, <2>1 DEF Least
<1>9. \E l : /\ Follows(NoProbe.replay, l)
             /\ \A s \in Sides : l[Len(NoProbe.replay)][s] + NoProbe.lost[s] = str[s].len
  BY <1>2, <1>5, <1>6
<1>10. /\ \A s \in Sides : \A i \in DOMAIN NoProbe.prefix[s] : NoProbe.prefix[s][i] = i - 1
       /\ \A s \in Sides : NoProbe.lost[s] > 0 => NoProbe.kept[s]
  BY <1>3
<1> QED
  BY <1>1, <1>8, <1>9, <1>10 DEF ProbeOK

LEMMA FreshParser ==
  ASSUME NEW str \in Streams, \A s \in Sides : str[s].len = 0
  PROVE  ParserOK(NewParser, str)
<1>1. Reading(NewParser, [s \in Sides |-> 0])
  BY NewReading
<1>2. [s \in Sides |-> str[s].len] = [s \in Sides |-> 0]
  OBVIOUS
<1> QED
  BY <1>1, <1>2 DEF ParserOK, NewParser

\* Only how far each side was handed out matters to the core.
LEMMA SameLengths ==
  ASSUME NEW str \in Streams, NEW to \in Streams, NEW gone, NEW c, CoreOK(c, str, gone),
         \A s \in Sides : to[s].len = str[s].len
  PROVE  CoreOK(c, to, gone)
<1>1. [s \in Sides |-> to[s].len] = [s \in Sides |-> str[s].len]
  OBVIOUS
<1>2. ParserOK(c.parser, str) => ParserOK(c.parser, to)
  BY <1>1 DEF ParserOK
<1>3. ProbeOK(c.probe, str) => ProbeOK(c.probe, to)
  BY DEF ProbeOK
<1> QED
  BY <1>2, <1>3 DEF CoreOK

LEMMA PickedUpOK ==
  ASSUME NEW str \in Streams, NEW gone \in Nat, NEW c, CoreOK(c, str, gone),
         c.flow # None \/ admits
  PROVE  CoreOK(PickedUp(c), str, gone) /\ PickedUp(c).flow # None
<1>1. /\ c \in Cores /\ c.flow \in {None, "Probing", "Active", "Closed"}
      /\ c.opened \in Nat /\ c.counted \in Nat
  BY DEF CoreOK, Cores
<1>2. CASE c.flow # None
  BY <1>2 DEF PickedUp
<1>3. CASE c.flow = None /\ signature # None
  <2> DEFINE d == [c EXCEPT !.flow = "Probing"]
  <2>1. PickedUp(c) = d
    BY <1>3 DEF PickedUp
  <2>2. /\ d \in Cores /\ d.flow = "Probing" /\ d.probe = c.probe /\ d.parser = c.parser
        /\ d.opened = c.opened /\ d.counted = c.counted
    BY <1>1 DEF Cores
  <2> HIDE DEF d
  <2>3. c.probe = NoProbe /\ c.parser = NewParser /\ \A s \in Sides : str[s].len = 0
    BY <1>3, NoneAssumption DEF CoreOK
  <2>4. ProbeOK(d.probe, str)
    BY <2>2, <2>3, FreshProbe
  <2>5. d.opened = d.counted + gone + (IF d.flow = "Active" THEN 1 ELSE 0)
    BY <1>3, <2>2, NoneAssumption DEF CoreOK
  <2>6. CoreOK(d, str, gone)
    BY <2>2, <2>3, <2>4, <2>5, NoneAssumption DEF CoreOK
  <2> QED BY <2>1, <2>2, <2>6, NoneAssumption
<1>4. CASE c.flow = None /\ signature = None
  <2> DEFINE d == [c EXCEPT !.flow = "Active", !.opened = @ + 1]
  <2>1. PickedUp(c) = d
    BY <1>4 DEF PickedUp
  <2>2. /\ d \in Cores /\ d.flow = "Active" /\ d.probe = c.probe /\ d.parser = c.parser
        /\ d.opened = c.opened + 1 /\ d.counted = c.counted
    <3> DEFINE e == [c EXCEPT !.flow = "Active"]
    <3>1. /\ e \in Cores /\ e.flow = "Active" /\ e.probe = c.probe /\ e.parser = c.parser
          /\ e.opened = c.opened /\ e.counted = c.counted
      BY <1>1 DEF Cores
    <3>2. d = [e EXCEPT !.opened = @ + 1]
      OBVIOUS
    <3> HIDE DEF d, e
    <3> QED BY <1>1, <3>1, <3>2 DEF Cores
  <2> HIDE DEF d
  <2>3. c.probe = NoProbe /\ c.parser = NewParser /\ \A s \in Sides : str[s].len = 0
    BY <1>4, NoneAssumption DEF CoreOK
  <2>4. ParserOK(d.parser, str)
    BY <2>2, <2>3, FreshParser
  <2>5. c.opened = c.counted + gone
    BY <1>1, <1>4, NoneAssumption DEF CoreOK
  <2>6. d.opened = d.counted + gone + 1
    BY <1>1, <2>2, <2>5
  <2>7. CoreOK(d, str, gone)
    BY <2>2, <2>3, <2>4, <2>6, NoneAssumption DEF CoreOK
  <2> QED BY <2>1, <2>2, <2>7, NoneAssumption
<1> QED
  BY <1>2, <1>3, <1>4

\* After a feed: the parser goes on, or is closed and counted.
LEMMA SettledOK ==
  ASSUME NEW str \in Streams, NEW gone \in Nat, NEW c \in Cores,
         c.opened = c.counted + gone + 1,
         NEW p, Reading(p, [s \in Sides |-> str[s].len])
  PROVE  CoreOK(Settled(c, p), str, gone)
<1>1. c.opened \in Nat /\ c.counted \in Nat
  BY DEF Cores
<1>2. p \in Parsers /\ p.open \in BOOLEAN /\ NewParser \in Parsers /\ NoProbe \in Probes
  BY FreshStates DEF Reading, Parsers
<1>3. CASE p.open
  <2> DEFINE d == [c EXCEPT !.flow = "Active", !.parser = p, !.probe = NoProbe]
  <2>1. Settled(c, p) = d
    BY <1>3 DEF Settled
  <2>2. /\ d \in Cores /\ d.flow = "Active" /\ d.parser = p /\ d.probe = NoProbe
        /\ d.opened = c.opened /\ d.counted = c.counted
    BY <1>2 DEF Cores
  <2> HIDE DEF d
  <2>3. ParserOK(d.parser, str)
    BY <1>3, <2>2 DEF ParserOK
  <2> QED BY <2>1, <2>2, <2>3, NoneAssumption DEF CoreOK
<1>4. CASE ~p.open
  <2> DEFINE d == [c EXCEPT !.flow = "Closed", !.parser = NewParser, !.probe = NoProbe,
                            !.counted = @ + 1]
  <2>1. Settled(c, p) = d
    BY <1>4 DEF Settled
  <2>2. /\ d \in Cores /\ d.flow = "Closed" /\ d.parser = NewParser /\ d.probe = NoProbe
        /\ d.opened = c.opened /\ d.counted = c.counted + 1
    <3> DEFINE e == [c EXCEPT !.flow = "Closed", !.parser = NewParser, !.probe = NoProbe]
    <3>1. /\ e \in Cores /\ e.flow = "Closed" /\ e.probe = NoProbe /\ e.parser = NewParser
          /\ e.opened = c.opened /\ e.counted = c.counted
      BY <1>2 DEF Cores
    <3>2. d = [e EXCEPT !.counted = @ + 1]
      OBVIOUS
    <3> HIDE DEF d, e
    <3> QED BY <1>1, <3>1, <3>2 DEF Cores
  <2> HIDE DEF d
  <2>3. d.opened = d.counted + gone + 0
    BY <1>1, <2>2
  <2> QED BY <2>1, <2>2, <2>3, NoneAssumption DEF CoreOK
<1> QED
  BY <1>3, <1>4

\* on_stream keeps the core with what it was handed.
LEMMA OnStreamOK ==
  ASSUME NEW str \in Streams, NEW gone \in Nat, NEW c, CoreOK(c, str, gone),
         NEW item \in Items, Aligned(item.cells, str[item.side].len),
         NEW d \in OnStream(c, item)
  PROVE  CoreOK(d, Handed(str, item), gone)
<1> DEFINE to == Handed(str, item)
           at == PickedUp(c)
           lens == [s \in Sides |-> str[s].len]
           next == [s \in Sides |-> to[s].len]
<1>1. /\ to \in Streams /\ to[item.side].len = str[item.side].len + Len(item.cells)
      /\ \A s \in Sides : s # item.side => to[s] = str[s]
  BY HandedStream
<1>2. lens \in [Sides -> Nat] /\ next \in [Sides -> Nat] /\ item.side \in Sides
  BY <1>1 DEF Streams, Items
<1> HIDE DEF to
<1>3. next = Moved(lens, item)
  <2>1. \A s \in Sides : next[s] = Moved(lens, item)[s]
    <3> TAKE s \in Sides
    <3>1. CASE s = item.side
      <4>1. Moved(lens, item)[item.side] = lens[item.side] + Len(item.cells)
        BY <1>2, MovedTo
      <4> QED BY <1>1, <3>1, <4>1
    <3>2. CASE s # item.side
      <4>1. Moved(lens, item)[s] = lens[s]
        BY <1>2, <3>2, MovedTo
      <4> QED BY <1>1, <3>2, <4>1
    <3> QED BY <3>1, <3>2
  <2>2. Moved(lens, item) \in [Sides -> Nat]
    BY <1>2, MovedTo
  <2> HIDE DEF lens, next
  <2> QED BY <1>2, <2>1, <2>2
<1>4. CASE item.cells = <<>> /\ item.stop = None
  <2>1. d = c
    BY <1>4 DEF OnStream
  <2>2. str[item.side].len + Len(item.cells) = str[item.side].len
    BY <1>2, <1>4 DEF Streams
  <2>3. \A s \in Sides : to[s].len = str[s].len
    BY <1>1, <2>2
  <2>4. CoreOK(c, to, gone)
    BY <1>1, <2>3, SameLengths
  <2> QED BY <2>1, <2>4 DEF to
<1>5. CASE c.flow = None /\ ~admits
  <2>1. d = c
    BY <1>5 DEF OnStream
  <2>2. CoreOK(c, to, gone)
    BY <1>5, NoneAssumption DEF CoreOK
  <2> QED BY <2>1, <2>2 DEF to
<1>6. CASE /\ ~(item.cells = <<>> /\ item.stop = None)
           /\ ~(c.flow = None /\ ~admits)
  <2>1. CoreOK(at, str, gone) /\ at.flow # None
    BY <1>6, PickedUpOK
  <2>2. /\ at \in Cores /\ at.opened \in Nat /\ at.counted \in Nat
        /\ at.flow \in {"Probing", "Active", "Closed"}
    BY <2>1 DEF CoreOK, Cores
  <2>3. d \in CASE at.flow = "Closed" -> {at}
                [] at.flow = "Active" -> {Settled(at, p) : p \in Fed(at.parser, item)}
                [] at.flow = "Probing" -> Judged(at, Stepped(at.probe, item))
    BY <1>6 DEF OnStream
  <2> HIDE DEF at
  <2>4. CASE at.flow = "Closed"
    <3>1. d = at
      BY <2>3, <2>4
    <3>2. CoreOK(at, to, gone)
      BY <2>1, <2>4, NoneAssumption DEF CoreOK
    <3> QED BY <3>1, <3>2 DEF to
  <2>5. CASE at.flow = "Active"
    <3>1. PICK p \in Fed(at.parser, item) : d = Settled(at, p)
      BY <2>3, <2>5
    <3>2. Reading(at.parser, lens) /\ at.opened = at.counted + gone + 1
      BY <2>1, <2>5 DEF CoreOK, ParserOK
    <3>3. Aligned(item.cells, lens[item.side])
      BY <1>2
    <3> HIDE DEF lens
    <3>4. Reading(p, Moved(lens, item))
      BY <1>2, <3>1, <3>2, <3>3, FedReading
    <3>5. Reading(p, [s \in Sides |-> to[s].len])
      BY <1>3, <3>4
    <3>6. CoreOK(Settled(at, p), to, gone)
      BY <1>1, <2>2, <3>2, <3>5, SettledOK
    <3> QED BY <3>1, <3>6 DEF to
  <2>6. CASE at.flow = "Probing"
    <3> DEFINE pr == Stepped(at.probe, item)
    <3>1. ProbeOK(at.probe, str) /\ at.opened = at.counted + gone /\ at.parser = NewParser
      <4>1. /\ ProbeOK(at.probe, str) /\ at.parser = NewParser
            /\ at.opened = at.counted + gone + 0
        BY <2>1, <2>6 DEF CoreOK
      <4> QED BY <2>2, <4>1
    <3>2. ProbeOK(pr, to) /\ pr \in Probes
      <4>1. ProbeOK(pr, to)
        BY <3>1, SteppedOK DEF to
      <4> QED BY <4>1 DEF ProbeOK
    <3>3. d \in Judged(at, pr)
      BY <2>3, <2>6
    <3> HIDE DEF pr
    <3>4. Verdict(pr) \in {"Match", "Reject", "Undecided"}
      BY DEF Verdict
    <3>5. CASE Verdict(pr) = "Undecided"
      <4>1. d = [at EXCEPT !.probe = pr]
        BY <3>3, <3>5 DEF Judged
      <4>2. /\ d \in Cores /\ d.flow = "Probing" /\ d.probe = pr /\ d.parser = at.parser
            /\ d.opened = at.opened /\ d.counted = at.counted
        BY <2>2, <2>6, <3>2, <4>1 DEF Cores
      <4>3. d.opened = d.counted + gone + 0
        BY <2>2, <3>1, <4>2
      <4>4. CoreOK(d, to, gone)
        BY <3>1, <3>2, <4>2, <4>3, NoneAssumption DEF CoreOK
      <4> QED BY <4>4 DEF to
    <3>6. CASE Verdict(pr) = "Reject"
      <4>1. d = [at EXCEPT !.flow = "Closed", !.probe = NoProbe]
        BY <3>3, <3>6 DEF Judged
      <4>2. /\ d \in Cores /\ d.flow = "Closed" /\ d.probe = NoProbe /\ d.parser = at.parser
            /\ d.opened = at.opened /\ d.counted = at.counted
        BY <2>2, <4>1, FreshStates DEF Cores
      <4>3. d.opened = d.counted + gone + 0
        BY <2>2, <3>1, <4>2
      <4>4. CoreOK(d, to, gone)
        BY <3>1, <4>2, <4>3, NoneAssumption DEF CoreOK
      <4> QED BY <4>4 DEF to
    <3>7. CASE Verdict(pr) = "Match"
      <4> DEFINE b == [at EXCEPT !.opened = @ + 1]
      <4>1. PICK p \in FedAll(NewParser, Replayed(pr)) : d = Settled(b, p)
        BY <3>3, <3>7 DEF Judged
      <4>2. b \in Cores /\ b.opened = at.opened + 1 /\ b.counted = at.counted
        BY <2>2 DEF Cores
      <4> HIDE DEF b
      <4>3. b.opened = b.counted + gone + 1
        BY <2>2, <3>1, <4>2
      <4>4. Reading(p, [s \in Sides |-> to[s].len])
        BY <1>1, <3>2, <4>1, ReplayComplete
      <4>5. CoreOK(Settled(b, p), to, gone)
        BY <1>1, <4>2, <4>3, <4>4, SettledOK
      <4> QED BY <4>1, <4>5 DEF to
    <3> QED BY <3>4, <3>5, <3>6, <3>7
  <2> QED BY <2>2, <2>4, <2>5, <2>6
<1> QED
  BY <1>4, <1>5, <1>6

------------------------------------------------------------------------------
(* The actions.                                                            *)

\* What a drain gives follows on what was handed out.
LEMMA DrainedItem ==
  ASSUME stream \in Streams, NEW s \in Sides, NEW item \in Finals(s)
  PROVE  item \in Items /\ item.side = s /\ Aligned(item.cells, stream[s].len)
<1>1. <<>> \in Seq(Int) /\ Aligned(<<>>, stream[s].len)
  BY DEF Aligned
<1>2. \A stop \in {None, "Overflow", "Memcap"} : Item(s, <<>>, stop) \in Items
  BY <1>1 DEF Item, Items
<1>3. \A stop : Item(s, <<>>, stop).side = s /\ Item(s, <<>>, stop).cells = <<>>
  BY DEF Item
<1>4. CASE \E stop \in {None, "Overflow", "Memcap"} : item = Item(s, <<>>, stop)
  BY <1>1, <1>2, <1>3, <1>4
<1> DEFINE at == stream[s].len
           next == {cells \in UNION {[1..n -> {Gap} \cup at..at + MaxChunk - 1] : n \in 0..MaxChunk} :
                      /\ at + Len(cells) <= MaxLen[s]
                      /\ \A i \in DOMAIN cells : cells[i] \in {Gap, at + i - 1}}
<1>5. CASE \E cells \in next, stop \in {"Overflow", None} : item = Item(s, cells, stop)
  <2>1. PICK cells \in next, stop \in {"Overflow", None} : item = Item(s, cells, stop)
    BY <1>5
  <2>2. PICK n \in 0..MaxChunk : cells \in [1..n -> {Gap} \cup at..at + MaxChunk - 1]
    OBVIOUS
  <2>3. Aligned(cells, at)
    BY DEF Aligned
  <2>4. at \in Nat /\ MaxChunk \in Nat /\ n \in Nat
    BY StreamAssumption DEF Streams
  <2> HIDE DEF at, next
  <2>5. {Gap} \cup at..at + MaxChunk - 1 \subseteq Int
    BY <2>4 DEF Gap
  <2>6. cells \in [1..n -> Int]
    BY <2>2, <2>5
  <2>7. cells \in Seq(Int)
    BY <2>4, <2>6
  <2>8. item \in Items /\ item.side = s /\ item.cells = cells
    BY <2>1, <2>7 DEF Item, Items
  <2> QED BY <2>3, <2>8 DEF at
<1>6. stream[s].stop \in {None, "Overflow", "Memcap"}
  BY DEF Streams
<1>7. \/ \E stop \in {None, "Overflow", "Memcap"} : item = Item(s, <<>>, stop)
      \/ \E cells \in next, stop \in {"Overflow", None} : item = Item(s, cells, stop)
  <2> HIDE DEF next
  <2>1. CASE item = Item(s, <<>>, None)
    BY <2>1
  <2>2. CASE item \in Drained(s) /\ stream[s].stop = None
    <3>1. item \in {Item(s, <<>>, "Memcap")}
                   \cup {Item(s, cells, stop) : cells \in next, stop \in {"Overflow", None}}
      BY <2>2, NoneAssumption DEF Drained, next
    <3> QED BY <3>1
  <2>3. CASE item \in Drained(s) /\ stream[s].stop = "Overflow"
    BY <2>3, NoneAssumption DEF Drained
  <2>4. CASE item \in Drained(s) /\ stream[s].stop = "Memcap"
    BY <2>4, NoneAssumption DEF Drained
  <2>5. item \in Drained(s) \/ item = Item(s, <<>>, None)
    BY DEF Finals
  <2> QED BY <1>6, <2>1, <2>2, <2>3, <2>4, <2>5
<1> QED
  BY <1>4, <1>5, <1>7

LEMMA BecomesCore ==
  ASSUME NEW c \in Cores, Becomes(c)
  PROVE  Core' = c
  BY DEF Becomes, Core, Cores

\* The key without an entry.
LEMMA NoEntry ==
  ASSUME NEW gone \in Nat, dropped' = gone, NEW c \in Cores, Becomes(c),
         stream' = NoStream, tracked' \in {"Tracked", "Ended", "Dropped"},
         c.flow = None, c.probe = NoProbe, c.parser = NewParser, c.opened = c.counted + gone
  PROVE  SessionInv'
<1>1. Core' = c
  BY BecomesCore
<1>3. stream' \in Streams /\ \A s \in Sides : stream'[s].len = 0 /\ stream'[s].from = 0
  BY DEF NoStream, Streams
<1>4. c.opened = c.counted + gone + 0
  BY DEF Cores
<1>5. CoreOK(Core, stream, dropped)'
  BY <1>1, <1>3, <1>4, NoneAssumption DEF CoreOK
<1>6. flow' = None
  BY DEF Becomes
<1>7. OneFlow'
  BY <1>3, <1>6 DEF OneFlow
<1> QED
  BY <1>3, <1>5, <1>7 DEF SessionInv

LEMMA SessionInit == Init => SessionInv
<1> SUFFICES ASSUME Init PROVE SessionInv
  OBVIOUS
<1>1. /\ Core = [flow |-> None, probe |-> NoProbe, parser |-> NewParser, opened |-> 0, counted |-> 0]
      /\ stream = NoStream /\ dropped = 0
  BY DEF Init, Core
<1>2. stream \in Streams /\ \A s \in Sides : stream[s].len = 0 /\ stream[s].from = 0
  BY <1>1 DEF NoStream, Streams
<1>3. Core \in Cores
  BY <1>1, FreshStates DEF Cores
<1>4. CoreOK(Core, stream, dropped)
  <2>1. /\ Core.flow = None /\ Core.probe = NoProbe /\ Core.parser = NewParser
        /\ Core.opened = 0 /\ Core.counted = 0
    BY <1>1
  <2> QED BY <1>1, <1>2, <1>3, <2>1, NoneAssumption DEF CoreOK
<1>5. OneFlow
  BY <1>2 DEF Init, OneFlow
<1> QED
  BY <1>1, <1>2, <1>4, <1>5 DEF SessionInv

LEMMA DeliverStep ==
  ASSUME SessionInv, NEW s \in Sides, Deliver(s)
  PROVE  SessionInv'
<1>1. PICK item \in Drained(s) : /\ stream' = Handed(stream, item)
                                 /\ \E c \in OnStream(Core, item) : Becomes(c)
  BY DEF Deliver
<1>2. /\ admits' = admits /\ dropped' = dropped /\ tracked' = tracked /\ joined' = joined
      /\ tracked = "Tracked"
  BY DEF Deliver
<1>3. PICK c \in OnStream(Core, item) : Becomes(c)
  BY <1>1
<1>4. stream \in Streams /\ dropped \in Nat /\ CoreOK(Core, stream, dropped)
  BY DEF SessionInv
<1>5. item \in Items /\ item.side = s /\ Aligned(item.cells, stream[s].len)
  BY <1>4, DrainedItem DEF Finals
<1>6. CoreOK(c, Handed(stream, item), dropped)
  BY <1>3, <1>4, <1>5, OnStreamOK
<1>7. Core' = c
  BY <1>3, <1>6, BecomesCore DEF CoreOK
<1>8. stream' \in Streams
  BY <1>1, <1>4, <1>5, HandedStream
<1>9. CoreOK(c, stream', dropped)
  BY <1>1, <1>6
<1>10. CoreOK(Core, stream, dropped)'
  BY <1>2, <1>7, <1>9 DEF CoreOK
<1>11. \A q \in Sides : stream'[q].from = stream[q].from
  BY <1>1, <1>4, <1>5, HandedStream
<1>12. OneFlow'
  BY <1>2, <1>11 DEF SessionInv, OneFlow
<1> QED
  BY <1>2, <1>4, <1>8, <1>10, <1>12 DEF SessionInv

\* The next flow on the key: with no entry it is handed out from its start, and
\* an entry that was left goes on from where it was.
LEMMA BeginStep ==
  ASSUME SessionInv, Begin
  PROVE  SessionInv'
<1>1. stream \in Streams /\ dropped \in Nat /\ CoreOK(Core, stream, dropped) /\ OneFlow
  BY DEF SessionInv
<1>2. Core' = Core /\ dropped' = dropped /\ tracked' = "Tracked" /\ joined' = (tracked = "Dropped")
  BY DEF Begin, Core
<1>3. CASE flow = None
  <2>1. stream' = NoStream
    BY <1>3 DEF Begin
  <2>2. stream' \in Streams /\ \A s \in Sides : stream'[s].len = 0 /\ stream'[s].from = 0
    BY <2>1 DEF NoStream, Streams
  <2>3. Core.flow = None
    BY <1>3 DEF Core
  <2>4. CoreOK(Core, stream, dropped)'
    BY <1>1, <1>2, <2>2, <2>3, NoneAssumption DEF CoreOK
  <2>5. OneFlow'
    BY <1>2, <2>2 DEF OneFlow
  <2> QED BY <1>1, <1>2, <2>2, <2>4, <2>5 DEF SessionInv
<1>4. CASE flow # None
  <2>1. stream' = [s \in Sides |-> [from |-> stream[s].len, len |-> stream[s].len, stop |-> None]]
    BY <1>4 DEF Begin
  <2>2. stream' \in Streams /\ \A s \in Sides : stream'[s].len = stream[s].len
    BY <1>1, <2>1 DEF Streams
  <2>3. CoreOK(Core, stream', dropped)
    BY <1>1, <2>2, SameLengths
  <2>4. Core.flow # None
    BY <1>4 DEF Core
  <2>5. CoreOK(Core, stream, dropped)'
    BY <1>2, <2>3, <2>4 DEF CoreOK
  <2>6. tracked = "Dropped"
    BY <1>1, <1>4 DEF OneFlow, Begin
  <2>7. OneFlow'
    BY <1>2, <2>6 DEF OneFlow
  <2> QED BY <1>1, <1>2, <2>2, <2>5, <2>7 DEF SessionInv
<1> QED
  BY <1>3, <1>4

LEMMA ResizeStep ==
  ASSUME SessionInv, Resize
  PROVE  SessionInv'
<1>1. /\ Core' = Core /\ UNCHANGED <<stream, admits, dropped, joined>> /\ tracked' = "Dropped"
  BY DEF Resize, Core
<1>2. OneFlow'
  BY <1>1 DEF SessionInv, OneFlow
<1> QED
  BY <1>1, <1>2 DEF SessionInv, CoreOK

LEMMA FlowEndStep ==
  ASSUME SessionInv, OnFlowEnd
  PROVE  SessionInv'
<1>1. PICK d0 \in {Closed(x) : x \in Finished} : Becomes(d0)
  BY DEF OnFlowEnd
<1>a. PICK c \in Finished : d0 = Closed(c)
  OBVIOUS
<1>b. PICK b \in UNION {OnStream(Core, i) : i \in Finals("Initiator")} :
        c \in UNION {OnStream(b, r) : r \in Finals("Responder")}
  BY DEF Finished
<1>c. PICK i \in Finals("Initiator") : b \in OnStream(Core, i)
  OBVIOUS
<1>d. PICK r \in Finals("Responder") : c \in OnStream(b, r)
  BY <1>b
<1>2. Becomes(Closed(c)) /\ stream' = NoStream /\ tracked' = "Ended" /\ dropped' = dropped
  BY <1>1, <1>a DEF OnFlowEnd
<1>3. stream \in Streams /\ dropped \in Nat /\ CoreOK(Core, stream, dropped)
  BY DEF SessionInv
<1>4. "Initiator" \in Sides /\ "Responder" \in Sides /\ "Initiator" # "Responder"
  BY DEF Sides
<1>5. i \in Items /\ i.side = "Initiator" /\ Aligned(i.cells, stream["Initiator"].len)
  BY <1>3, <1>4, DrainedItem
<1>6. r \in Items /\ r.side = "Responder" /\ Aligned(r.cells, stream["Responder"].len)
  BY <1>3, <1>4, DrainedItem
<1> DEFINE mid == Handed(stream, i)
<1>7. CoreOK(b, mid, dropped)
  BY <1>c, <1>3, <1>5, OnStreamOK
<1>8. mid \in Streams /\ mid["Responder"] = stream["Responder"]
  BY <1>3, <1>4, <1>5, HandedStream
<1> HIDE DEF mid
<1>9. CoreOK(c, Handed(mid, r), dropped)
  BY <1>d, <1>3, <1>6, <1>7, <1>8, OnStreamOK
<1>10. /\ c \in Cores /\ c.opened \in Nat /\ c.counted \in Nat
       /\ c.opened = c.counted + dropped + (IF c.flow = "Active" THEN 1 ELSE 0)
  BY <1>9 DEF CoreOK, Cores
<1> DEFINE n == IF c.flow = "Active" THEN c.counted + 1 ELSE c.counted
           e == [c EXCEPT !.flow = None, !.probe = NoProbe, !.parser = NewParser]
           d == [e EXCEPT !.counted = n]
<1>11. n \in Nat /\ c.opened = n + dropped
  BY <1>3, <1>10
<1>12. d = Closed(c)
  <2>1. e.counted = c.counted
    BY <1>10 DEF Cores
  <2> QED BY <2>1 DEF Closed, Without
<1>13. Becomes(d)
  BY <1>2, <1>12
<1> HIDE DEF n
<1>14. e \in Cores /\ e.flow = None /\ e.probe = NoProbe /\ e.parser = NewParser
       /\ e.opened = c.opened
  BY <1>10, FreshStates DEF Cores
<1> HIDE DEF e
<1>15. d \in Cores /\ d.flow = None /\ d.probe = NoProbe /\ d.parser = NewParser
       /\ d.opened = c.opened /\ d.counted = n
  BY <1>11, <1>14 DEF Cores
<1> HIDE DEF d
<1>16. d.opened = d.counted + dropped
  BY <1>11, <1>15
<1> QED
  BY <1>2, <1>3, <1>13, <1>15, <1>16, NoEntry

LEMMA TickStep ==
  ASSUME SessionInv, OnTick
  PROVE  SessionInv'
<1> DEFINE p == [parser EXCEPT !.open = FALSE]
           lens == [s \in Sides |-> stream[s].len]
<1>1. stream \in Streams /\ dropped \in Nat /\ CoreOK(Core, stream, dropped)
  BY DEF SessionInv
<1>2. flow = "Active" /\ Core.flow = "Active" /\ Core.parser = parser
  BY DEF OnTick, Core
<1>3. Core \in Cores /\ Core.opened = Core.counted + dropped + 1 /\ ParserOK(parser, stream)
  BY <1>1, <1>2 DEF CoreOK
<1>4. p \in Parsers /\ p.fed = parser.fed /\ ~p.open
  BY <1>3 DEF ParserOK, Reading, Parsers
<1>5. InPlace(p)
  BY <1>3, <1>4 DEF ParserOK, Reading, InPlace
<1> HIDE DEF p
<1>6. Reading(p, [s \in Sides |-> stream[s].len])
  BY <1>4, <1>5 DEF Reading
<1>7. CoreOK(Settled(Core, p), stream, dropped)
  BY <1>1, <1>3, <1>6, SettledOK
<1>8. Becomes(Settled(Core, p)) /\ UNCHANGED <<stream, tracked, joined, admits, dropped>>
  BY DEF OnTick, p
<1>9. Core' = Settled(Core, p)
  BY <1>7, <1>8, BecomesCore DEF CoreOK
<1>10. CoreOK(Core, stream, dropped)'
  BY <1>7, <1>8, <1>9 DEF CoreOK
<1>11. tracked # "Ended"
  BY <1>2, NoneAssumption DEF SessionInv, OneFlow
<1>12. OneFlow'
  BY <1>8, <1>11 DEF SessionInv, OneFlow
<1> QED
  BY <1>1, <1>8, <1>10, <1>12 DEF SessionInv

LEMMA RetainStep ==
  ASSUME SessionInv, Retain
  PROVE  SessionInv'
<1> DEFINE d == [Core EXCEPT !.flow = None, !.probe = NoProbe, !.parser = NewParser]
           gone == IF flow = "Active" THEN dropped + 1 ELSE dropped
<1>1. stream \in Streams /\ dropped \in Nat /\ CoreOK(Core, stream, dropped)
  BY DEF SessionInv
<1>2. /\ Core \in Cores /\ Core.opened \in Nat /\ Core.counted \in Nat
      /\ Core.opened = Core.counted + dropped + (IF Core.flow = "Active" THEN 1 ELSE 0)
  BY <1>1 DEF CoreOK, Cores
<1>3. Core.flow = flow
  BY DEF Core
<1>4. /\ d \in Cores /\ d.flow = None /\ d.probe = NoProbe /\ d.parser = NewParser
      /\ d.opened = Core.opened /\ d.counted = Core.counted
  BY <1>2, FreshStates DEF Cores
<1>5. Becomes(d) /\ stream' = NoStream /\ tracked' = "Ended" /\ dropped' = gone
  BY DEF Retain, Without
<1> HIDE DEF d
<1>6. gone \in Nat /\ d.opened = d.counted + gone
  BY <1>1, <1>2, <1>3, <1>4
<1> HIDE DEF gone
<1> QED
  BY <1>4, <1>5, <1>6, NoEntry

LEMMA SessionStep == SessionInv /\ [Next]_vars => SessionInv'
<1> SUFFICES ASSUME SessionInv, [Next]_vars PROVE SessionInv'
  OBVIOUS
<1>1. ASSUME NEW s \in Sides, Deliver(s) PROVE SessionInv'
  BY <1>1, DeliverStep
<1>2. CASE OnFlowEnd
  BY <1>2, FlowEndStep
<1>3. CASE OnTick
  BY <1>3, TickStep
<1>4. CASE Retain
  BY <1>4, RetainStep
<1>5. CASE Begin
  BY <1>5, BeginStep
<1>6. CASE Resize
  BY <1>6, ResizeStep
<1>7. CASE UNCHANGED vars
  <2>1. Core' = Core /\ UNCHANGED <<flow, stream, tracked, joined, admits, dropped>>
    BY <1>7 DEF vars, Core
  <2>2. OneFlow'
    BY <2>1 DEF SessionInv, OneFlow
  <2> QED BY <2>1, <2>2 DEF SessionInv, CoreOK
<1> QED
  BY <1>1, <1>2, <1>3, <1>4, <1>5, <1>6, <1>7 DEF Next

------------------------------------------------------------------------------
(* The theorems.                                                           *)

\* The core is in step with the streams it is handed (on_stream, on_flow_end,
\* on_tick and retain of session/core.rs): SessionInv is inductive.
THEOREM SessionInvariance == Spec => []SessionInv
<1>1. Init => SessionInv
  BY SessionInit
<1>2. SessionInv /\ [Next]_vars => SessionInv'
  BY SessionStep
<1> QED
  BY <1>1, <1>2, PTL DEF Spec

\* ReadsAllInPlace holds of every run, for every signature, prefix cap and
\* replay cap: a pinned parser was replayed each side from its first byte.  A
\* flow that takes the key of a silently dropped one before the next sweep is
\* excepted, as there.
THEOREM ReadInPlace == Spec => []ReadsAllInPlace
<1>1. SessionInv => ReadsAllInPlace
  <2> SUFFICES ASSUME SessionInv PROVE ReadsAllInPlace
    OBVIOUS
  <2>1. CoreOK(Core, stream, dropped)
    BY DEF SessionInv
  <2>2. Core.flow = flow /\ Core.probe = probe /\ Core.parser = parser
    BY DEF Core
  <2>3. \A s \in Sides : \A i \in DOMAIN probe.prefix[s] : probe.prefix[s][i] = i - 1
    <3>1. CASE flow = "Probing"
      BY <2>1, <2>2, <3>1 DEF CoreOK, ProbeOK
    <3>2. CASE flow # "Probing"
      <4>1. probe = NoProbe
        BY <2>1, <2>2, <3>2 DEF CoreOK
      <4> QED BY <4>1 DEF NoProbe
    <3> QED BY <3>1, <3>2
  <2>4. InPlace(parser)
    <3>1. CASE flow = "Active"
      BY <2>1, <2>2, <3>1 DEF CoreOK, ParserOK, Reading
    <3>2. CASE flow # "Active"
      <4>1. parser = NewParser
        BY <2>1, <2>2, <3>2 DEF CoreOK
      <4> QED BY <4>1, NewReading DEF Reading
    <3> QED BY <3>1, <3>2
  <2>5. \A s \in Sides : \A i \in DOMAIN parser.fed[s] : parser.fed[s][i] \in {Gap, i - 1}
    <3> TAKE s \in Sides
    <3> TAKE i \in DOMAIN parser.fed[s]
    <3>1. parser.fed[s] \in Seq(Int)
      BY <2>1, <2>2 DEF CoreOK, Cores, Parsers
    <3>2. i \in Int
      BY <3>1, SeqIs
    <3>3. parser.fed[s][i] \in {Gap, 0 + i - 1}
      BY <2>4 DEF InPlace, Aligned
    <3> QED BY <3>2, <3>3
  <2>6. flow = "Active" => \A s \in Sides : ~parser.stopped[s] => Len(parser.fed[s]) = stream[s].len
    BY <2>1, <2>2 DEF CoreOK, ParserOK, Reading, Current
  <2>7. ~joined => \A s \in Sides : stream[s].from = 0
    BY DEF SessionInv, OneFlow
  <2> QED BY <2>3, <2>5, <2>6, <2>7 DEF ReadsAllInPlace
<1> QED
  BY <1>1, SessionInvariance, PTL

\* ClosesCounted holds of every run: a parser that was opened is counted
\* closed once, in on_stream, on_tick or on_flow_end, or dropped by retain.
THEOREM ClosesAllCounted == Spec => []ClosesCounted
<1>1. SessionInv => ClosesCounted
  BY DEF SessionInv, CoreOK, Core, ClosesCounted
<1> QED
  BY <1>1, SessionInvariance, PTL

==============================================================================
