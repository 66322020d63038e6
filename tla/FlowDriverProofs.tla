-------------------------- MODULE FlowDriverProofs ---------------------------
(***************************************************************************)
(* Proofs about FlowDriver, for every set of keys, every configuration and *)
(* every bound.  A driver step is a step of the tracker, so the tracker's  *)
(* inductive invariant Inv holds of it as well; DriverInv adds what the    *)
(* driver keeps about its streams, its pool and the ends it has seen.      *)
(***************************************************************************)
EXTENDS FlowDriverCharges

------------------------------------------------------------------------------
(* The inductive invariant.                                                *)

\* While the driver has seen every end, a stream with a reassembler belongs to
\* a live flow or to one handed out and not finalized yet.
Settled ==
  seen_gone = Gone /\ resized = 0 =>
    \A k \in DOMAIN streams \ (Live \cup pending) : NothingHeld(streams[k])

DriverInv ==
  /\ Inv
  /\ Balanced(streams, pool)
  /\ born \in [Keys -> Nat]
  /\ seen_gone \in Nat
  /\ seen_gone <= Gone
  /\ NoInheritance
  /\ Settled

------------------------------------------------------------------------------
(* What a tracker call tells the driver about the flows it ends.           *)

\* Of the flows S the call leaves those it did not end, and it counts the
\* others as ended.
Closes(S) ==
  /\ IsFiniteSet(EndedNow)
  /\ EndedNow \subseteq S
  /\ DOMAIN flows' = S \ EndedNow
  /\ stats'.ended = stats.ended + Cardinality(EndedNow)
  /\ UNCHANGED <<forgotten, resized>>

LEMMA EndedKeys ==
  ASSUME NEW evs, out' = Gated(evs) \/ out' = evs
  PROVE  EndedNow = {e.key : e \in {x \in evs : x.ev = "Ended"}}
<1>1. {e \in Gated(evs) : e.ev = "Ended"} = {e \in evs : e.ev = "Ended"}
  BY DriverAssumption, OwnerGate
<1> QED
  BY <1>1 DEF EndedNow

LEMMA KeysOfEnded ==
  ASSUME NEW S, NEW r
  PROVE  {e.key : e \in {x \in Ended(S, r) : x.ev = "Ended"}} = S
<1> DEFINE evs == {x \in Ended(S, r) : x.ev = "Ended"}
           of(k) == [ev |-> "Ended", key |-> k, reason |-> r]
<1>1. ASSUME NEW k \in S PROVE k \in {e.key : e \in evs}
  <2>1. of(k) \in evs /\ of(k).key = k
    BY DEF Ended
  <2> QED BY <2>1
<1>2. ASSUME NEW e \in evs PROVE e.key \in S
  <2>1. PICK k \in S : e = of(k)
    BY DEF Ended
  <2> QED BY <2>1
<1> QED
  BY <1>1, <1>2

LEMMA StatsTyped ==
  ASSUME Inv
  PROVE  /\ stats \in [created : Nat, ended : Nat, evicted : Nat, unmatched : Nat]
         /\ forgotten \in Nat /\ resized \in Nat /\ IsFiniteSet(Live) /\ Live \subseteq Keys
  BY DEF Inv, Scalars, IsTable, Live

LEMMA TrackCloses ==
  ASSUME Inv, NEW p \in Packet, NEW sweeps \in BOOLEAN, TrackThen(p, sweeps)
  PROVE  Closes(Live \cup {p.key})
<1>1. PICK evicted \in Evictions(p) :
        LET tbl == Table(p, evicted)
            expired == IF sweeps THEN Expired(tbl, p.ts) ELSE {}
            swept == IF sweeps THEN Swept(tbl, p.ts) ELSE {}
        IN /\ flows' = Without(tbl, expired)
           /\ stats' = [stats EXCEPT
                          !.created = @ + (IF IsNew(p) THEN 1 ELSE 0),
                          !.evicted = @ + Cardinality(evicted),
                          !.ended = @ + Cardinality(evicted) + Cardinality(Dies(p))
                                      + Cardinality(swept)]
           /\ out' = Gated(Ended(evicted, "Evicted") \cup PacketEvents(p) \cup OwnEnd(p)
                           \cup Ended(swept, "IdleTimeout"))
           /\ UNCHANGED <<forgotten, resized>>
  BY DEF TrackThen, Report
<1> DEFINE tbl == Table(p, evicted)
           D == DOMAIN tbl
           X == IF sweeps THEN Expired(tbl, p.ts) ELSE {}
           W == IF sweeps THEN Swept(tbl, p.ts) ELSE {}
           S == Live \cup {p.key}
           evs == Ended(evicted, "Evicted") \cup PacketEvents(p) \cup OwnEnd(p)
                    \cup Ended(W, "IdleTimeout")
<1>2. IsTable(tbl) /\ D = ((Live \ evicted) \cup {p.key}) \ Dies(p)
  BY TableOK
<1>3. X \in SUBSET D
  BY DEF Expired
<1>4. W = X
  BY <1>2 DEF Swept, Expired, IsTable, EntryOK
<1>5. /\ evicted \in SUBSET Live /\ p.key \notin evicted /\ IsFiniteSet(evicted)
      /\ Cardinality(evicted) \in Nat
  BY EvictedOK
<1>6. Dies(p) \subseteq {p.key}
  BY DEF Dies
<1>7. /\ IsFiniteSet(X) /\ IsFiniteSet(Dies(p)) /\ Cardinality(X) \in Nat
      /\ Cardinality(Dies(p)) \in Nat
  <2> HIDE DEF X
  <2> QED BY <1>3, TrackCount
<1>8. EndedNow = evicted \cup Dies(p) \cup X
  <2>1. \A T, q : {e.key : e \in {x \in Ended(T, q) : x.ev = "Ended"}} = T
    BY KeysOfEnded
  <2>2. {x \in PacketEvents(p) : x.ev = "Ended"} = {}
    BY DEF PacketEvents, Notice
  <2>3. \E q : OwnEnd(p) = Ended(Dies(p), q)
    BY DEF OwnEnd
  <2>4. EndedNow = {e.key : e \in {x \in evs : x.ev = "Ended"}}
    BY <1>1, EndedKeys
  <2> HIDE DEF X, W
  <2>5. {e.key : e \in {x \in evs : x.ev = "Ended"}}
          = {e.key : e \in {x \in Ended(evicted, "Evicted") : x.ev = "Ended"}}
            \cup {e.key : e \in {x \in OwnEnd(p) : x.ev = "Ended"}}
            \cup {e.key : e \in {x \in Ended(W, "IdleTimeout") : x.ev = "Ended"}}
    BY <2>2
  <2> QED BY <2>1, <2>3, <2>4, <2>5, <1>4
<1>9. flows' = Without(tbl, X)
  BY <1>1
<1>10. DOMAIN flows' = D \ X
  BY <1>9 DEF Without
<1>11. stats'.ended = stats.ended + Cardinality(evicted) + Cardinality(Dies(p))
                                  + Cardinality(X)
  <2>1. stats'.ended = stats.ended + Cardinality(evicted) + Cardinality(Dies(p))
                                  + Cardinality(W)
    <3> HIDE DEF W
    <3> QED BY <1>1, StatsTyped DEF W
  <2> QED BY <2>1, <1>4
<1>12. UNCHANGED <<forgotten, resized>>
  BY <1>1
<1>13. X \cap (evicted \cup Dies(p)) = {} /\ evicted \cap Dies(p) = {}
  <2> HIDE DEF X
  <2> QED BY <1>2, <1>3, <1>5, <1>6
<1> HIDE DEF X, W, D, tbl
<1>14. /\ IsFiniteSet(evicted \cup Dies(p))
       /\ Cardinality(evicted \cup Dies(p)) = Cardinality(evicted) + Cardinality(Dies(p))
  BY <1>5, <1>7, <1>13, FS_Union, FS_EmptySet
<1>15. /\ IsFiniteSet(evicted \cup Dies(p) \cup X)
       /\ Cardinality(evicted \cup Dies(p) \cup X)
            = Cardinality(evicted) + Cardinality(Dies(p)) + Cardinality(X)
  <2> DEFINE E == evicted \cup Dies(p)
  <2>1. Cardinality(E \cap X) = 0
    BY <1>13, FS_EmptySet
  <2>2. IsFiniteSet(E) /\ Cardinality(E) = Cardinality(evicted) + Cardinality(Dies(p))
    BY <1>14
  <2> HIDE DEF E
  <2>3. IsFiniteSet(E \cup X)
        /\ Cardinality(E \cup X) = Cardinality(E) + Cardinality(X) - Cardinality(E \cap X)
    BY <2>2, <1>7, FS_Union
  <2>4. Cardinality(E \cup X) = Cardinality(evicted) + Cardinality(Dies(p)) + Cardinality(X)
    BY <2>1, <2>2, <2>3, <1>5, <1>7
  <2> QED BY <2>3, <2>4 DEF E
<1>16. EndedNow \subseteq S /\ D \ X = S \ EndedNow
  BY <1>2, <1>3, <1>5, <1>6, <1>8
<1>17. stats'.ended = stats.ended + Cardinality(EndedNow)
  <2>1. stats.ended \in Nat
    BY StatsTyped
  <2> QED BY <2>1, <1>5, <1>7, <1>8, <1>11, <1>15
<1> QED
  BY <1>8, <1>10, <1>12, <1>15, <1>16, <1>17 DEF Closes

LEMMA SweepCloses ==
  ASSUME Inv, NEW now, Sweep(now)
  PROVE  Closes(Live)
<1> DEFINE X == Expired(flows, now)
<1>1. X \in SUBSET Live
  BY DEF Expired, Live
<1>2. Swept(flows, now) = X
  BY <1>1 DEF Swept, Inv, IsTable, EntryOK, Expired, Live
<1>3. EndedNow = X
  <2>1. EndedNow = {e.key : e \in {x \in Ended(X, "IdleTimeout") : x.ev = "Ended"}}
    BY <1>2, EndedKeys DEF Sweep, Report
  <2> QED BY <2>1, KeysOfEnded
<1>4. DOMAIN flows' = Live \ X
  BY DEF Sweep, Without, Live
<1>5. stats'.ended = stats.ended + Cardinality(X)
  BY <1>2, StatsTyped DEF Sweep
<1> QED
  BY <1>1, <1>3, <1>4, <1>5, StatsTyped, FS_Subset DEF Closes, Sweep

LEMMA ForceCloseCloses ==
  ASSUME Inv, NEW k, ForceClose(k)
  PROVE  Closes(Live)
<1> DEFINE X == {k} \cap Live
<1>3. EndedNow = X
  <2>1. EndedNow = {e.key : e \in {x \in Ended(X, "ForceClosed") : x.ev = "Ended"}}
    BY EndedKeys DEF ForceClose, Report
  <2> QED BY <2>1, KeysOfEnded
<1>4. DOMAIN flows' = Live \ X
  BY DEF ForceClose, Without, Live
<1>5. stats'.ended = stats.ended + Cardinality(X)
  BY StatsTyped DEF ForceClose
<1> QED
  BY <1>3, <1>4, <1>5, StatsTyped, FS_Subset DEF Closes, ForceClose

------------------------------------------------------------------------------
(* Driver calls that end flows.                                            *)

\* How a call that ends flows keeps the driver's knowledge of them: streams of
\* flows outside S are not touched but for what they hold, the streams of the
\* ended ones go or are pending, and either the driver counts what it saw or
\* it has reconciled.
LEMMA SettledKept ==
  ASSUME DriverInv, NEW S, Live \subseteq S, Closes(S), NEW x,
         Balanced(x.streams, x.pool), NEW gone, NEW told, Release(x, gone, told),
         \A k \in DOMAIN x.streams \ S :
           k \in DOMAIN streams /\ (NothingHeld(streams[k]) => NothingHeld(x.streams[k])),
         EndedNow \subseteq gone \cup pending',
         pending \subseteq gone \cup pending',
         \/ NoteGone
         \/ /\ seen_gone' = stats'.ended + forgotten
            /\ seen_gone # Gone => DOMAIN x.streams \ S \subseteq gone
  PROVE  Settled' /\ seen_gone' \in Nat /\ seen_gone' <= Gone'
<1> DEFINE n == Cardinality(EndedNow)
<1>1. n \in Nat /\ stats.ended \in Nat /\ forgotten \in Nat /\ seen_gone \in Nat
      /\ seen_gone <= Gone
  BY StatsTyped, FS_CardinalityType DEF Closes, DriverInv
<1>2. stats'.ended = stats.ended + n /\ forgotten' = forgotten /\ resized' = resized
  BY DEF Closes
<1>3. Gone' = Gone + n /\ Gone \in Nat
  BY <1>1, <1>2 DEF Gone
<1>4. seen_gone' = seen_gone + n \/ seen_gone' = Gone'
  BY <1>1, <1>2 DEF NoteGone, Gone
<1>5. seen_gone' \in Nat /\ seen_gone' <= Gone'
  <2> HIDE DEF n
  <2> QED BY <1>1, <1>3, <1>4
<1>6. /\ DOMAIN streams' = DOMAIN x.streams \ gone
      /\ \A k \in DOMAIN streams' : NothingHeld(x.streams[k]) => NothingHeld(streams'[k])
  BY ReleaseOK
<1>7. DOMAIN flows' = S \ EndedNow
  BY DEF Closes
<1>8. ASSUME seen_gone' = Gone', resized' = 0,
             NEW k \in DOMAIN streams' \ (DOMAIN flows' \cup pending')
      PROVE  NothingHeld(streams'[k])
  <2>1. k \in DOMAIN x.streams /\ k \notin gone /\ k \notin pending'
    BY <1>6
  <2>2. k \notin S
    BY <1>7, <2>1
  <2>3. k \in DOMAIN streams \ (Live \cup pending)
    BY <2>1, <2>2
  <2>4. seen_gone = Gone
    <3>1. CASE NoteGone
      <4>1. seen_gone' = seen_gone + n
        BY <3>1 DEF NoteGone
      <4>2. n \in Nat /\ seen_gone \in Nat
        BY <1>1
      <4> HIDE DEF n
      <4> QED BY ONLY <4>1, <4>2, <1>3, <1>8
    <3>2. CASE seen_gone # Gone => DOMAIN x.streams \ S \subseteq gone
      BY <3>2, <2>1, <2>2
    <3> QED BY <3>1, <3>2
  <2>5. NothingHeld(streams[k])
    BY <2>3, <2>4, <1>2, <1>8 DEF DriverInv, Settled
  <2> QED BY <2>1, <2>2, <2>5, <1>6
<1> QED
  BY <1>5, <1>8 DEF Settled, Live

\* Streams keep the number of their flow while flows only leave.
LEMMA NumbersKept ==
  ASSUME NoInheritance, DOMAIN flows' \subseteq Live, born' = born,
         \A k \in DOMAIN streams' :
           k \in Live => k \in DOMAIN streams /\ streams'[k].flow = streams[k].flow
  PROVE  NoInheritance'
  BY DEF NoInheritance, Live

\* A call that ends flows of the tracker without feeding any.
LEMMA EndingStep ==
  ASSUME DriverInv, Inv', Closes(Live), NEW gone, NEW told,
         Release(State(streams, pool), gone, told),
         EndedNow \subseteq gone \cup pending',
         pending \subseteq gone \cup pending',
         \/ NoteGone
         \/ /\ seen_gone' = stats'.ended + forgotten
            /\ Stale(streams, flows) \subseteq gone,
         born' = born
  PROVE  DriverInv' /\ pool' \in Nat /\ pool' <= pool
<1> DEFINE x == State(streams, pool)
<1>1. x.streams = streams /\ x.pool = pool
  BY DEF State
<1>2. Balanced(x.streams, x.pool) /\ Release(x, gone, told)
  BY <1>1 DEF DriverInv
<1> HIDE DEF x
<1>3. /\ Balanced(streams', pool') /\ pool' \in Nat /\ pool' <= pool
      /\ DOMAIN streams' = DOMAIN streams \ gone
      /\ \A k \in DOMAIN streams' : streams'[k].flow = streams[k].flow
  BY <1>1, <1>2, ReleaseOK
<1>4. \/ NoteGone
      \/ /\ seen_gone' = stats'.ended + forgotten
         /\ seen_gone # Gone => DOMAIN x.streams \ Live \subseteq gone
  BY <1>1 DEF Stale, Live
<1>5. Settled' /\ seen_gone' \in Nat /\ seen_gone' <= Gone'
  BY <1>1, <1>2, <1>4, SettledKept
<1>6. NoInheritance'
  BY <1>3, NumbersKept DEF DriverInv, Closes
<1> QED
  BY <1>3, <1>5, <1>6 DEF DriverInv

LEMMA TrackStep ==
  ASSUME DriverInv, NEW p \in Sent, NEW seg \in Segment, NEW sweeps \in BOOLEAN,
         pending = {}, TrackThen(p, sweeps), NEW wants, NEW x \in FedBy(p, seg, wants),
         NEW gone, NEW told, Release(x, gone, told),
         EndedNow \subseteq gone \cup pending',
         \/ NoteGone
         \/ /\ seen_gone' = stats'.ended + forgotten
            /\ Stale(x.streams, flows') \subseteq gone,
         born' = [born EXCEPT ![p.key] = Number(p)]
  PROVE  DriverInv' /\ CapKept(pool, pool')
<1>1. p \in Packet
  BY DEF Sent
<1>2. Inv /\ Balanced(streams, pool) /\ NoInheritance /\ born \in [Keys -> Nat]
  BY DEF DriverInv
<1>3. Inv' /\ Closes(Live \cup {p.key})
  BY <1>1, <1>2, TrackInv, TrackCloses
<1>4. /\ Balanced(x.streams, x.pool) /\ pool \in Nat /\ x.pool \in Nat
      /\ CapKept(pool, x.pool)
      /\ \A k \in DOMAIN x.streams \ {p.key} :
           k \in DOMAIN streams /\ x.streams[k] = streams[k]
      /\ p.key \in DOMAIN x.streams => x.streams[p.key].flow = Number(p)
  BY ONLY <1>1, <1>2, x \in FedBy(p, seg, wants), seg \in Segment, FedByOK
<1>5. /\ Balanced(streams', pool') /\ pool' \in Nat /\ pool' <= x.pool
      /\ DOMAIN streams' = DOMAIN x.streams \ gone
      /\ \A k \in DOMAIN streams' : streams'[k].flow = x.streams[k].flow
  BY <1>4, ReleaseOK
<1>6. Settled' /\ seen_gone' \in Nat /\ seen_gone' <= Gone'
  <2> DEFINE S == Live \cup {p.key}
  <2>1. /\ Live \subseteq S /\ Closes(S)
        /\ \A k \in DOMAIN x.streams \ S :
             k \in DOMAIN streams /\ (NothingHeld(streams[k]) => NothingHeld(x.streams[k]))
    BY <1>3, <1>4
  <2>2. DOMAIN flows' \subseteq S
    BY <1>3 DEF Closes
  <2>3. \/ NoteGone
        \/ /\ seen_gone' = stats'.ended + forgotten
           /\ seen_gone # Gone => DOMAIN x.streams \ S \subseteq gone
    BY <2>2 DEF Stale
  <2> HIDE DEF S
  <2> QED BY <1>4, <2>1, <2>3, SettledKept
<1>7. p.key \in Keys /\ Number(p) \in Nat
  <2>1. p.key \in Keys /\ (IsNew(p) <=> p.key \notin Live)
    BY <1>1, <1>2, KnownFlow
  <2> QED BY <1>2, <2>1 DEF Number, Inv, Scalars
<1>8. born' \in [Keys -> Nat] /\ born'[p.key] = Number(p)
      /\ \A k \in Keys : k # p.key => born'[k] = born[k]
  BY <1>2, <1>7
<1>9. NoInheritance'
  <2> SUFFICES ASSUME NEW k \in DOMAIN flows' \cap DOMAIN streams'
               PROVE  streams'[k].flow = born'[k]
    BY DEF NoInheritance, Live
  <2>1. k \in Live \cup {p.key}
    BY <1>3 DEF Closes
  <2>2. k \in DOMAIN x.streams /\ streams'[k].flow = x.streams[k].flow
    BY <1>5
  <2>3. CASE k = p.key
    BY <2>2, <2>3, <1>4, <1>8
  <2>4. CASE k # p.key
    <3>1. k \in Live /\ k \in DOMAIN streams /\ x.streams[k] = streams[k]
      BY <2>1, <2>2, <2>4, <1>4
    <3>2. streams[k].flow = born[k] /\ k \in Keys
      BY <3>1, <1>2, StatsTyped DEF NoInheritance
    <3> QED BY <2>2, <2>4, <3>1, <3>2, <1>8
  <2> QED BY <2>3, <2>4
<1>10. CapKept(pool, pool')
  <2>1. config.reassembly_memcap \in Nat \cup {None} /\ None \notin Nat /\ Overhead \in Nat
    BY <1>2, ConfigAssumption, KeysAssumption, SegmentAssumption
       DEF Inv, Scalars, Config
  <2>2. CASE x.pool <= pool
    <3>1. pool' <= pool
      BY ONLY <2>2, <1>4, <1>5
    <3> QED BY <3>1 DEF CapKept
  <2>3. CASE WithinCap(x.pool)
    <3> DEFINE cap == config.reassembly_memcap
               slack == IF config.reassembly_memcap_policy = "DropPacket" THEN Overhead ELSE 0
    <3>1. slack \in Nat /\ cap \in Nat \cup {None}
      BY <2>1
    <3>2. cap # None /\ config.reassembly_memcap_policy # "Ignore" => x.pool <= cap + slack
      BY <2>3 DEF WithinCap
    <3> DEFINE l == x.pool
               m == pool'
               bound == cap # None /\ config.reassembly_memcap_policy # "Ignore"
    <3>3. l \in Nat /\ m \in Nat /\ m <= l /\ (bound => l <= cap + slack) /\ (bound => cap # None)
      BY <3>2, <1>4, <1>5
    <3> HIDE DEF cap, slack, l, m, bound
    <3>4. bound => m <= cap + slack
      BY ONLY <3>1, <3>3
    <3>5. WithinCap(pool')
      BY <3>4 DEF WithinCap, cap, slack, m, bound
    <3> QED BY <3>5 DEF CapKept
  <2> QED BY <1>4, <2>2, <2>3 DEF CapKept
<1> QED
  BY <1>3, <1>5, <1>6, <1>8, <1>9, <1>10 DEF DriverInv

LEMMA TrackPendingStep ==
  ASSUME DriverInv, NEW p \in Sent, NEW seg \in Segment, NEW wants \in BOOLEAN,
         TrackPending(p, seg, wants)
  PROVE  DriverInv' /\ CapKept(pool, pool')
<1>1. PICK x \in FedBy(p, seg, wants) : Release(x, EndedNow \ HandedOut, HandedOut)
  BY DEF TrackPending
<1>2. /\ pending = {} /\ TrackThen(p, FALSE) /\ NoteGone /\ FALSE \in BOOLEAN
      /\ pending' = HandedOut /\ born' = [born EXCEPT ![p.key] = Number(p)]
  BY DEF TrackPending
<1>3. EndedNow \subseteq (EndedNow \ HandedOut) \cup pending'
  BY <1>2
<1> QED
  BY <1>1, <1>2, <1>3, TrackStep

LEMMA TrackFinalStep ==
  ASSUME DriverInv, NEW p \in Sent, NEW seg \in Segment, TrackFinal(p, seg)
  PROVE  DriverInv' /\ CapKept(pool, pool')
<1> DEFINE sweeps == AutoSweepDue(p.ts)
<1>1. PICK x \in FedBy(p, seg, TRUE) :
        IF sweeps
        THEN Release(x, EndedNow \cup Stale(x.streams, flows'), DOMAIN flows')
        ELSE Release(x, EndedNow, {})
  BY DEF TrackFinal
<1>2. /\ pending = {} /\ TrackThen(p, sweeps)
      /\ IF sweeps THEN seen_gone' = stats'.ended + forgotten ELSE NoteGone
      /\ pending' = {} /\ born' = [born EXCEPT ![p.key] = Number(p)]
  BY DEF TrackFinal
<1>3. sweeps \in BOOLEAN
  BY DEF AutoSweepDue
<1> HIDE DEF sweeps
<1>4. CASE sweeps
  <2> DEFINE gone == EndedNow \cup Stale(x.streams, flows')
  <2>1. /\ Release(x, gone, DOMAIN flows') /\ EndedNow \subseteq gone \cup pending'
        /\ seen_gone' = stats'.ended + forgotten /\ Stale(x.streams, flows') \subseteq gone
    BY <1>1, <1>2, <1>4
  <2> HIDE DEF gone
  <2> QED BY <1>2, <1>3, <2>1, TrackStep
<1>5. CASE ~sweeps
  <2>1. Release(x, EndedNow, {}) /\ EndedNow \subseteq EndedNow \cup pending' /\ NoteGone
    BY <1>1, <1>2, <1>5
  <2> QED BY <1>2, <1>3, <2>1, TrackStep
<1> QED
  BY <1>3, <1>4, <1>5

LEMMA SweepStep ==
  ASSUME DriverInv, NEW now \in Times, SweepPending(now) \/ SweepFinal(now)
  PROVE  DriverInv' /\ pool' \in Nat /\ pool' <= pool
<1>1. Inv' /\ Closes(Live)
  BY SweepInv, SweepCloses DEF SweepPending, SweepFinal, DriverInv
<1>2. CASE SweepPending(now)
  <2> DEFINE gone == Stale(streams, flows) \cup (EndedNow \ HandedOut)
  <2>1. /\ Release(State(streams, pool), gone, Live)
        /\ EndedNow \subseteq gone \cup pending' /\ pending \subseteq gone \cup pending'
        /\ seen_gone' = stats'.ended + forgotten /\ Stale(streams, flows) \subseteq gone
        /\ born' = born
    BY <1>2 DEF SweepPending
  <2> HIDE DEF gone
  <2> QED BY <1>1, <2>1, EndingStep
<1>3. CASE SweepFinal(now)
  <2> DEFINE gone == Stale(streams, flows) \cup EndedNow
  <2>1. /\ Release(State(streams, pool), gone, Live)
        /\ EndedNow \subseteq gone \cup pending' /\ pending \subseteq gone \cup pending'
        /\ seen_gone' = stats'.ended + forgotten /\ Stale(streams, flows) \subseteq gone
        /\ born' = born
    BY <1>3 DEF SweepFinal
  <2> HIDE DEF gone
  <2> QED BY <1>1, <2>1, EndingStep
<1> QED
  BY <1>2, <1>3

LEMMA FinishStep ==
  ASSUME DriverInv, FinishFinal
  PROVE  DriverInv' /\ pool' \in Nat /\ pool' <= pool
<1>1. Inv' /\ Closes(Live)
  BY SweepInv, SweepCloses DEF FinishFinal, Finish, DriverInv
<1>2. /\ Release(State(streams, pool), EndedNow, {})
      /\ EndedNow \subseteq EndedNow \cup pending' /\ pending \subseteq EndedNow \cup pending'
      /\ NoteGone /\ born' = born
  BY DEF FinishFinal
<1> QED
  BY <1>1, <1>2, EndingStep

LEMMA ForceCloseStep ==
  ASSUME DriverInv, NEW k \in Keys, ForceClosePending(k) \/ ForceCloseFinal(k)
  PROVE  DriverInv' /\ pool' \in Nat /\ pool' <= pool
<1>1. Inv' /\ Closes(Live)
  BY ForceCloseInv, ForceCloseCloses DEF ForceClosePending, ForceCloseFinal, DriverInv
<1>2. CASE ForceClosePending(k)
  <2> DEFINE gone == EndedNow \ HandedOut
  <2>1. /\ Release(State(streams, pool), gone, HandedOut)
        /\ EndedNow \subseteq gone \cup pending' /\ pending \subseteq gone \cup pending'
        /\ NoteGone /\ born' = born
    BY <1>2 DEF ForceClosePending
  <2> HIDE DEF gone
  <2> QED BY <1>1, <2>1, EndingStep
<1>3. CASE ForceCloseFinal(k)
  <2>1. /\ Release(State(streams, pool), EndedNow, {})
        /\ EndedNow \subseteq EndedNow \cup pending'
        /\ pending \subseteq EndedNow \cup pending'
        /\ NoteGone /\ born' = born
    BY <1>3 DEF ForceCloseFinal
  <2> QED BY <1>1, <2>1, EndingStep
<1> QED
  BY <1>2, <1>3

------------------------------------------------------------------------------
(* The draining sweep.                                                     *)

\* Re-syncing the streams of `keys` lowers their charges and no others.
LEMMA SyncedOK ==
  ASSUME NEW strs, IsStreams(strs), NEW keys
  PROVE  LET synced == Synced(strs, keys)
         IN /\ IsStreams(synced)
            /\ DOMAIN synced = DOMAIN strs
            /\ \A k \in DOMAIN strs : /\ synced[k].flow = strs[k].flow
                                      /\ NothingHeld(strs[k]) => NothingHeld(synced[k])
            /\ Charges(synced, keys) <= Charges(strs, keys)
            /\ \A X : X \cap keys = {} => Charges(synced, X) = Charges(strs, X)
<1> DEFINE D == DOMAIN strs
           synced == Synced(strs, keys)
<1>1. ASSUME NEW k \in D
      PROVE  /\ StreamOK(synced[k]) /\ synced[k].flow = strs[k].flow
             /\ \A s \in Sides : /\ synced[k].sides[s].st = strs[k].sides[s].st
                                 /\ synced[k].sides[s].accounted <= strs[k].sides[s].accounted
             /\ k \notin keys => synced[k] = strs[k]
  <2>1. StreamOK(strs[k])
    BY DEF IsStreams
  <2>2. \A s \in Sides : strs[k].sides[s].accounted \in Nat
    BY <2>1, SideTypes DEF StreamOK
  <2>3. CASE k \notin keys
    <3>1. synced[k] = strs[k]
      BY <2>3 DEF Synced
    <3> HIDE DEF synced
    <3>2. \A s \in Sides : synced[k].sides[s].accounted <= strs[k].sides[s].accounted
      BY <2>2, <3>1
    <3> QED BY <2>1, <3>1, <3>2
  <2>4. CASE k \in keys
    <3> DEFINE t == [s \in Sides |->
                       [strs[k].sides[s] EXCEPT !.accounted = strs[k].sides[s].held]]
    <3>1. synced[k] = [strs[k] EXCEPT !.sides = t]
      BY <2>4 DEF Synced
    <3>2. ASSUME NEW s \in Sides
          PROVE  SlotOK(t[s]) /\ t[s].st = strs[k].sides[s].st
                 /\ t[s].accounted <= strs[k].sides[s].accounted
      <4>1. strs[k].sides[s] \in Slot /\ SlotOK(strs[k].sides[s])
        BY <2>1 DEF StreamOK, SidesOK
      <4>2. t[s] = [strs[k].sides[s] EXCEPT !.accounted = strs[k].sides[s].held]
        OBVIOUS
      <4> HIDE DEF t
      <4> QED BY <4>1, <4>2, SegmentAssumption DEF SlotOK, Slot, Sizes
    <3>3. t \in [Sides -> Slot]
      <4>1. \A s \in Sides : t[s] \in Slot
        BY <3>2 DEF SlotOK
      <4> QED BY <4>1
    <3>4. SidesOK(t)
      BY <3>2, <3>3 DEF SidesOK
    <3> HIDE DEF t, synced
    <3>5. synced[k] \in [sides : [Sides -> Slot], flow : Nat] /\ synced[k].sides = t
          /\ synced[k].flow = strs[k].flow
      BY <3>1, <3>3, <2>1 DEF StreamOK
    <3> QED BY <2>4, <3>2, <3>4, <3>5 DEF StreamOK
  <2> QED BY <2>3, <2>4
<1>2. DOMAIN synced = D /\ synced = [k \in DOMAIN synced |-> synced[k]]
  BY DEF Synced
<1> HIDE DEF synced
<1>3. IsStreams(synced)
  BY <1>1, <1>2 DEF IsStreams
<1>4. Charges(synced, keys) <= Charges(strs, keys)
  <2>1. Bytes(synced, keys) \in SUBSET Bytes(strs, keys)
    <3> SUFFICES ASSUME NEW b \in Bytes(synced, keys) PROVE b \in Bytes(strs, keys)
      OBVIOUS
    <3>1. PICK k \in keys \cap D, s \in Sides, n \in 1..MaxBuf :
            b = <<<<k, s>>, n>> /\ n <= synced[k].sides[s].accounted
      BY <1>2 DEF Bytes
    <3>2. synced[k].sides[s].accounted <= strs[k].sides[s].accounted
      BY <1>1
    <3>3. synced[k].sides[s].accounted \in Nat /\ strs[k].sides[s].accounted \in Nat
      BY <1>2, <1>3, SideTypes DEF IsStreams, StreamOK
    <3>4. n <= strs[k].sides[s].accounted
      <4> DEFINE a == synced[k].sides[s].accounted
                 c == strs[k].sides[s].accounted
      <4>1. n \in Nat /\ n <= a /\ a <= c /\ a \in Nat /\ c \in Nat
        BY <3>1, <3>2, <3>3
      <4> HIDE DEF a, c
      <4>2. n <= c
        BY ONLY <4>1
      <4> QED BY <4>2 DEF c
    <3> QED BY <3>1, <3>4 DEF Bytes
  <2> QED BY <2>1, BytesFinite, FS_Subset DEF Charges
<1>5. ASSUME NEW X, X \cap keys = {} PROVE Charges(synced, X) = Charges(strs, X)
  <2>1. X \cap DOMAIN synced = X \cap D
    BY <1>2
  <2>2. \A k \in X \cap D : synced[k] = strs[k]
    BY <1>1, <1>5
  <2> QED BY <2>1, <2>2, ChargesSame
<1> QED
  BY <1>1, <1>2, <1>3, <1>4, <1>5 DEF synced, NothingHeld, IsLive

LEMMA DrainedBalance ==
  ASSUME NEW strs, NEW total, Balanced(strs, total), NEW keys,
         NEW e \in Easings(strs, keys)
  PROVE  LET synced == Synced(e, keys)
             left == Less(total, Charges(strs, keys)) + Charges(synced, keys)
         IN /\ Balanced(synced, left) /\ left \in Nat /\ total \in Nat /\ left <= total
            /\ DOMAIN synced = DOMAIN strs
            /\ \A k \in DOMAIN strs : /\ synced[k].flow = strs[k].flow
                                      /\ NothingHeld(strs[k]) => NothingHeld(synced[k])
<1> DEFINE synced == Synced(e, keys)
           D == DOMAIN strs
           a == Charges(strs, keys)
           b == Charges(strs, D \ keys)
           c == Charges(synced, keys)
<1>1. IsStreams(strs) /\ total = Charges(strs, D)
  BY DEF Balanced
<1>2. IsStreams(e) /\ Alike(strs, e)
  BY <1>1, EasingsOK
<1>3. /\ IsStreams(synced) /\ DOMAIN synced = D
      /\ \A k \in D : /\ synced[k].flow = strs[k].flow
                      /\ NothingHeld(strs[k]) => NothingHeld(synced[k])
      /\ c <= Charges(e, keys)
      /\ Charges(synced, D \ keys) = Charges(e, D \ keys)
  <2>1. (D \ keys) \cap keys = {}
    OBVIOUS
  <2>2. /\ IsStreams(synced) /\ DOMAIN synced = DOMAIN e
        /\ \A k \in DOMAIN e : /\ synced[k].flow = e[k].flow
                               /\ NothingHeld(e[k]) => NothingHeld(synced[k])
        /\ c <= Charges(e, keys)
        /\ \A X : X \cap keys = {} => Charges(synced, X) = Charges(e, X)
    BY <1>2, SyncedOK
  <2>3. DOMAIN e = D /\ \A k \in D : /\ e[k].flow = strs[k].flow
                                     /\ NothingHeld(strs[k]) => NothingHeld(e[k])
    BY <1>2 DEF Alike, NothingHeld, IsLive
  <2> HIDE DEF synced, D, c
  <2> QED BY <2>1, <2>2, <2>3
<1>4. Charges(e, keys) = a /\ Charges(e, D \ keys) = b
  BY <1>2, AlikeCharges
<1> HIDE DEF synced
<1>5. a \in Nat /\ b \in Nat /\ c \in Nat
  BY <1>1, <1>3, BytesFinite
<1>6. \A s \in {strs, synced} : Charges(s, D) = Charges(s, keys) + Charges(s, D \ keys)
  <2> SUFFICES ASSUME NEW s \in {strs, synced}
               PROVE  Charges(s, D) = Charges(s, keys) + Charges(s, D \ keys)
    OBVIOUS
  <2>1. IsStreams(s) /\ DOMAIN s = D
    BY <1>1, <1>3
  <2>2. Charges(s, keys) = Charges(s, keys \cap D)
    BY <2>1, ChargesOfKnown
  <2>3. (keys \cap D) \cap (D \ keys) = {} /\ (keys \cap D) \cup (D \ keys) = D
    OBVIOUS
  <2>4. Charges(s, (keys \cap D) \cup (D \ keys))
          = Charges(s, keys \cap D) + Charges(s, D \ keys)
    <3> HIDE DEF D
    <3> QED BY <2>1, <2>3, ChargesSplit
  <2> HIDE DEF D
  <2> QED BY <2>2, <2>3, <2>4
<1>7. total = a + b
  BY <1>1, <1>6
<1>8. Charges(synced, D) = c + b
  BY <1>3, <1>4, <1>6
<1> HIDE DEF a, b, c
<1>9. Less(total, a) = b
  BY <1>5, <1>7 DEF Less
<1>10. c <= a
  BY <1>3, <1>4
<1>11. b + c \in Nat /\ total \in Nat /\ b + c <= total /\ Charges(synced, D) = b + c
  BY <1>5, <1>7, <1>8, <1>10
<1> QED
  BY <1>3, <1>9, <1>11 DEF Balanced, a, c, synced

LEMMA SweepDrainStep ==
  ASSUME DriverInv, NEW now \in Times, SweepDrain(now)
  PROVE  DriverInv' /\ pool' \in Nat /\ pool' <= pool
<1> DEFINE stale == Stale(streams, flows)
           kept == Without(streams, stale)
           rest == Less(pool, Charges(streams, stale))
           gone == EndedNow \ HandedOut
<1>1. Inv' /\ Closes(Live)
  BY SweepInv, SweepCloses DEF SweepDrain, DriverInv
<1>2. /\ pending = {} /\ pending' = HandedOut /\ born' = born
      /\ seen_gone' = stats'.ended + forgotten
  BY DEF SweepDrain
<1>3. PICK e \in Easings(kept, Live) :
        Release(State(Synced(e, Live), Less(rest, Charges(kept, Live))
                                         + Charges(Synced(e, Live), Live)),
                gone, HandedOut)
  BY DEF SweepDrain
<1>4. /\ Balanced(kept, rest) /\ pool \in Nat /\ rest \in Nat /\ rest <= pool
      /\ DOMAIN kept = DOMAIN streams \ stale
      /\ \A k \in DOMAIN streams \ stale : kept[k] = streams[k]
  BY WithoutBalanced DEF DriverInv
<1> DEFINE synced == Synced(e, Live)
           left == Less(rest, Charges(kept, Live)) + Charges(synced, Live)
           x == State(synced, left)
<1>5. /\ Balanced(synced, left) /\ left \in Nat /\ left <= rest
      /\ DOMAIN synced = DOMAIN kept
      /\ \A k \in DOMAIN kept : /\ synced[k].flow = kept[k].flow
                                /\ NothingHeld(kept[k]) => NothingHeld(synced[k])
  <2> HIDE DEF kept, rest
  <2> QED BY <1>3, <1>4, DrainedBalance
<1>6. x.streams = synced /\ x.pool = left /\ Release(x, gone, HandedOut)
  BY <1>3 DEF State
<1>7. seen_gone # Gone => stale = DOMAIN streams \ Live
  BY DEF Stale, Live
<1>8. EndedNow \subseteq gone \cup pending' /\ pending \subseteq gone \cup pending'
  BY <1>2
<1> HIDE DEF stale, kept, rest, gone, synced, left, x
<1>9. /\ Balanced(streams', pool') /\ pool' \in Nat /\ pool' <= left
      /\ DOMAIN streams' = DOMAIN synced \ gone
      /\ \A k \in DOMAIN streams' : streams'[k].flow = synced[k].flow
  <2>1. Balanced(x.streams, x.pool) /\ Release(x, gone, HandedOut)
    BY <1>5, <1>6
  <2>2. /\ Balanced(streams', pool') /\ pool' \in Nat /\ pool' <= x.pool
        /\ DOMAIN streams' = DOMAIN x.streams \ gone
        /\ \A k \in DOMAIN streams' : streams'[k].flow = x.streams[k].flow
    BY <2>1, ReleaseOK
  <2> QED BY <1>6, <2>2
<1>10. Settled' /\ seen_gone' \in Nat /\ seen_gone' <= Gone'
  <2>1. \A k \in DOMAIN x.streams \ Live :
          k \in DOMAIN streams /\ (NothingHeld(streams[k]) => NothingHeld(x.streams[k]))
    BY <1>4, <1>5, <1>6
  <2>2. seen_gone # Gone => DOMAIN x.streams \ Live \subseteq gone
    BY <1>4, <1>5, <1>6, <1>7
  <2>3. Balanced(x.streams, x.pool)
    BY <1>5, <1>6
  <2> QED BY <1>1, <1>2, <1>6, <1>8, <2>1, <2>2, <2>3, SettledKept
<1>11. NoInheritance'
  <2>1. \A k \in DOMAIN streams' :
          k \in Live => k \in DOMAIN streams /\ streams'[k].flow = streams[k].flow
    BY <1>4, <1>5, <1>9
  <2>2. DOMAIN flows' \subseteq Live /\ NoInheritance
    BY <1>1 DEF Closes, DriverInv
  <2> QED BY <1>2, <2>1, <2>2, NumbersKept
<1>12. pool' <= pool
  <2>1. pool' \in Nat /\ pool' <= left
    BY <1>9
  <2>2. left \in Nat /\ left <= pool /\ pool \in Nat
    BY <1>4, <1>5
  <2> QED BY ONLY <2>1, <2>2
<1> QED
  BY <1>1, <1>2, <1>9, <1>10, <1>11, <1>12 DEF DriverInv

------------------------------------------------------------------------------
(* Calls on streams that leave the tracker alone.                          *)

LEMMA QuietStep ==
  ASSUME DriverInv, UNCHANGED <<vars, seen_gone, born>>, Balanced(streams', pool'),
         \A k \in DOMAIN streams' :
           \/ /\ k \in DOMAIN streams
              /\ streams'[k].flow = streams[k].flow
              /\ NothingHeld(streams[k]) => NothingHeld(streams'[k])
           \/ /\ k \in Live => streams'[k].flow = born[k]
              /\ NothingHeld(streams'[k]),
         DOMAIN streams' \cap pending \subseteq pending'
  PROVE  DriverInv'
<1>1. Inv'
  BY DEF DriverInv, vars, Inv, Scalars, Live, HotIsLive, WithinCapacity, FlowsConserved,
         OwnerSeesEveryEnd
<1>2. UNCHANGED <<flows, stats, forgotten, resized, seen_gone, born>>
  BY DEF vars
<1>3. NoInheritance'
  BY <1>2 DEF DriverInv, NoInheritance, Live
<1>4. Settled'
  BY <1>2 DEF DriverInv, Settled, Gone, Live
<1> QED
  BY <1>1, <1>2, <1>3, <1>4 DEF DriverInv, Gone

LEMMA FinalizeStep ==
  ASSUME DriverInv, NEW k \in Keys, FinalizeFlow(k)
  PROVE  DriverInv' /\ pool' \in Nat /\ pool' <= pool
<1> DEFINE x == State(streams, pool)
<1>1. /\ x.streams = streams /\ x.pool = pool /\ Release(x, {k}, {})
      /\ Balanced(x.streams, x.pool)
      /\ pending' = pending \ {k} /\ UNCHANGED <<vars, seen_gone, born>>
  BY DEF State, FinalizeFlow, DriverInv
<1> HIDE DEF x
<1>2. /\ Balanced(streams', pool') /\ pool' \in Nat /\ pool' <= pool
      /\ DOMAIN streams' = DOMAIN streams \ {k}
      /\ \A j \in DOMAIN streams' : /\ streams'[j].flow = streams[j].flow
                                    /\ NothingHeld(streams[j]) => NothingHeld(streams'[j])
  BY <1>1, ReleaseOK
<1> QED
  BY <1>1, <1>2, QuietStep

LEMMA TakeStep ==
  ASSUME DriverInv, NEW k \in Keys, TakeDirectly(k)
  PROVE  DriverInv' /\ pool' = pool
<1>1. /\ streams' \in Easings(streams, {k}) /\ UNCHANGED <<vars, pool, seen_gone, pending, born>>
      /\ IsStreams(streams) /\ pool = Charges(streams, DOMAIN streams)
  BY DEF TakeDirectly, DriverInv, Balanced
<1>2. IsStreams(streams') /\ Alike(streams, streams')
  BY <1>1, EasingsOK
<1>3. Balanced(streams', pool')
  <2>1. Charges(streams', DOMAIN streams) = Charges(streams, DOMAIN streams)
    BY <1>2, AlikeCharges
  <2>2. DOMAIN streams' = DOMAIN streams
    BY <1>2 DEF Alike
  <2> QED BY <1>1, <1>2, <2>1, <2>2 DEF Balanced
<1>4. \A j \in DOMAIN streams' :
        /\ j \in DOMAIN streams /\ streams'[j].flow = streams[j].flow
        /\ NothingHeld(streams[j]) => NothingHeld(streams'[j])
  BY <1>2 DEF Alike, NothingHeld, IsLive
<1> QED
  BY <1>1, <1>3, <1>4, QuietStep

LEMMA DrainStep ==
  ASSUME DriverInv, NEW k \in Keys, NEW side \in Sides, DrainStream(k, side)
  PROVE  DriverInv' /\ pool' \in Nat /\ pool' <= pool
<1> DEFINE r == At(streams[k].sides, pool)
           slot == r.sides[side]
           base == Charges(streams, DOMAIN streams \ {k})
<1>1. k \in DOMAIN streams /\ UNCHANGED <<vars, seen_gone, pending, born>>
  BY DEF DrainStream
<1>2. PICK next \in CASE IsLive(slot) -> Eased(r, side)
                      [] slot.st = "Done" ->
                           {At([r.sides EXCEPT ![side].told = TRUE], pool)}
                      [] OTHER -> {r} :
        streams' = [streams EXCEPT ![k].sides = next.sides] /\ pool' = next.pool
  BY DEF DrainStream
<1>3. r.sides = streams[k].sides /\ r.pool = pool
  BY DEF At
<1>4. /\ AtOK(r, base) /\ base \in Nat
      /\ IsStreams(streams) /\ StreamOK(streams[k])
  BY <1>1, FoundAtOK DEF DriverInv, Balanced, IsStreams
<1>5. pool \in Nat
  BY BytesFinite DEF DriverInv, Balanced
<1> HIDE DEF r, base
<1>6. /\ AtOK(next, base) /\ next.pool \in Nat /\ next.pool <= pool
      /\ NothingHeld(streams[k]) => NothingHeld(next)
  <2>1. CASE IsLive(slot)
    <3>1. next \in Eased(r, side)
      BY <2>1, <1>2 DEF IsLive
    <3>2. ~NothingHeld(streams[k])
      BY <2>1, <1>3 DEF NothingHeld
    <3> QED BY <3>1, <3>2, <1>3, <1>4, EasedOK
  <2>2. CASE ~IsLive(slot) /\ slot.st = "Done"
    <3> DEFINE d == [slot EXCEPT !.told = TRUE]
               t == [r.sides EXCEPT ![side] = d]
    <3>1. next = At([r.sides EXCEPT ![side].told = TRUE], pool)
      BY <1>2, <2>2
    <3>2. next.sides = t /\ next.pool = pool
      BY <3>1 DEF At
    <3>3. SlotOK(slot) /\ slot \in Slot
      BY <1>4 DEF AtOK, SidesOK
    <3>4. SlotOK(d) /\ d.accounted = slot.accounted /\ d.st = slot.st
      <4> HIDE DEF slot
      <4> QED BY <3>3 DEF SlotOK, Slot
    <3>5. slot.accounted \in Nat /\ ChargeOf(r.sides) \in Nat
      BY <1>4, SideTypes DEF AtOK
    <3>6. SidesOK(t) /\ ChargeOf(t) = ChargeOf(r.sides) - slot.accounted + d.accounted
      <4> HIDE DEF d
      <4> QED BY <3>4, <1>4, SideReplaced DEF AtOK
    <3>7. NothingHeld(streams[k]) => \A s \in Sides : ~IsLive(t[s])
      BY <3>4, <1>3, <1>4 DEF NothingHeld, IsLive, AtOK, SidesOK
    <3> HIDE DEF d, t, slot
    <3>8. AtOK(next, base)
      BY <3>2, <3>4, <3>5, <3>6, <1>3, <1>4 DEF AtOK
    <3> QED BY <3>2, <3>7, <3>8, <1>5 DEF NothingHeld
  <2>3. CASE ~IsLive(slot) /\ slot.st # "Done"
    <3>1. next = r
      BY <1>2, <2>3
    <3> QED BY <3>1, <1>3, <1>4, <1>5 DEF NothingHeld
  <2> QED BY <2>1, <2>2, <2>3
<1> DEFINE put == [j \in DOMAIN streams \cup {k} |->
                     IF j = k THEN [sides |-> next.sides, flow |-> streams[k].flow]
                     ELSE streams[j]]
<1>7. streams[k].flow \in Nat
  BY <1>4 DEF StreamOK
<1>8. Balanced(put, next.pool)
  <2>1. IsPut(put, streams, k, next.sides, streams[k].flow)
    BY DEF IsPut
  <2> HIDE DEF put
  <2> QED BY <1>4, <1>6, <1>7, <2>1, PutBalanced DEF base
<1>9. streams' = put
  <2>1. streams[k] \in [sides : [Sides -> Slot], flow : Nat]
    BY <1>4 DEF StreamOK
  <2>2. [streams[k] EXCEPT !.sides = next.sides]
          = [sides |-> next.sides, flow |-> streams[k].flow]
    BY <2>1
  <2>3. streams' = [j \in DOMAIN streams |->
                      IF j = k THEN [streams[k] EXCEPT !.sides = next.sides] ELSE streams[j]]
    BY <1>1, <1>2, <1>4 DEF IsStreams
  <2>4. DOMAIN streams \cup {k} = DOMAIN streams
    BY <1>1
  <2> QED BY <2>2, <2>3, <2>4
<1>10. \A j \in DOMAIN streams' :
        /\ j \in DOMAIN streams /\ streams'[j].flow = streams[j].flow
        /\ NothingHeld(streams[j]) => NothingHeld(streams'[j])
  BY <1>1, <1>6, <1>9 DEF NothingHeld
<1> HIDE DEF put
<1> QED
  BY <1>1, <1>2, <1>6, <1>8, <1>9, <1>10, QuietStep

\* A discarded side's charge is refunded, and the side holds nothing more.
LEMMA DiscardStep ==
  ASSUME DriverInv, NEW k \in Keys, NEW which \in SUBSET Sides, DiscardStream(k, which)
  PROVE  DriverInv' /\ pool' \in Nat /\ pool' <= pool
<1> DEFINE known == k \in DOMAIN streams
           sides == IF known THEN streams[k].sides ELSE NoSides
           left(s) == IF sides[s].st = "Done" THEN [sides[s] EXCEPT !.told = TRUE]
                      ELSE Done(None, TRUE)
           refund(s) == IF s \in which THEN sides[s].accounted ELSE 0
           ns == [s \in Sides |-> IF s \in which THEN left(s) ELSE sides[s]]
           number == IF known THEN streams[k].flow ELSE IF k \in Live THEN born[k] ELSE 0
           base == Charges(streams, DOMAIN streams \ {k})
           r == At(ns, pool')
           put == [j \in DOMAIN streams \cup {k} |->
                     IF j = k THEN [sides |-> r.sides, flow |-> number] ELSE streams[j]]
<1>1. /\ UNCHANGED <<vars, seen_gone, pending, born>>
      /\ pool' = Less(pool, refund("Initiator") + refund("Responder"))
  BY DEF DiscardStream
<1>2. /\ AtOK(At(sides, pool), base) /\ base \in Nat
      /\ IsStreams(streams) /\ (known => StreamOK(streams[k]))
      /\ born \in [Keys -> Nat]
  BY FoundAtOK DEF DriverInv, Balanced, IsStreams
<1>3. SidesOK(sides) /\ pool = base + ChargeOf(sides)
  BY <1>2 DEF AtOK, At
<1>4. number \in Nat
  BY <1>2 DEF StreamOK
<1>5. r.sides = ns /\ r.pool = pool'
  BY DEF At
<1>6. streams' = put
  <2>1. streams' = [j \in DOMAIN streams \cup {k} |->
                      IF j # k THEN streams[j] ELSE [sides |-> ns, flow |-> number]]
    BY DEF DiscardStream
  <2> HIDE DEF ns, number
  <2> QED BY <2>1, <1>5
<1> HIDE DEF sides
<1>7. \A s \in Sides : /\ SlotOK(left(s)) /\ left(s).accounted = 0 /\ ~IsLive(left(s))
                       /\ SlotOK(sides[s]) /\ sides[s].accounted \in Nat
  <2> TAKE s \in Sides
  <2>1. SlotOK(sides[s]) /\ sides[s] \in Slot
    BY <1>3 DEF SidesOK
  <2>2. CASE sides[s].st = "Done"
    <3> DEFINE slot == sides[s]
               d == [slot EXCEPT !.told = TRUE]
    <3>1. left(s) = d /\ SlotOK(slot) /\ slot \in Slot /\ slot.st = "Done"
      BY <2>1, <2>2
    <3>2. slot.accounted \in Nat
      BY <1>3, SideTypes
    <3> HIDE DEF slot, left
    <3>3. SlotOK(d) /\ d.accounted = slot.accounted /\ d.st = slot.st
      BY <3>1 DEF SlotOK, Slot
    <3>4. d.accounted = 0 /\ ~IsLive(d)
      BY <3>1, <3>3 DEF SlotOK, IsLive
    <3> HIDE DEF d
    <3> QED BY <3>1, <3>2, <3>3, <3>4, <2>1 DEF slot
  <2>3. CASE sides[s].st # "Done"
    <3>1. left(s) = Done(None, TRUE)
      BY <2>3
    <3>2. SlotOK(Done(None, TRUE)) /\ Done(None, TRUE).accounted = 0 /\ ~IsLive(Done(None, TRUE))
      BY SegmentAssumption DEF SlotOK, Slot, IsLive, Sizes, Done
    <3>3. sides[s].accounted \in Nat
      BY <1>3, SideTypes
    <3> HIDE DEF left
    <3> QED BY <3>1, <3>2, <3>3, <2>1
  <2> QED BY <2>2, <2>3
<1> HIDE DEF left
<1>8. /\ \A s \in Sides : ns[s] = IF s \in which THEN left(s) ELSE sides[s]
      /\ SidesOK(ns)
  BY <1>7 DEF SidesOK, SlotOK
<1> HIDE DEF ns
<1>9. AtOK(r, base) /\ pool' \in Nat /\ pool' <= pool
  <2>1. /\ sides["Initiator"].accounted \in Nat /\ sides["Responder"].accounted \in Nat
        /\ ns["Initiator"].accounted = sides["Initiator"].accounted - refund("Initiator")
        /\ ns["Responder"].accounted = sides["Responder"].accounted - refund("Responder")
        /\ refund("Initiator") \in Nat /\ refund("Initiator") <= sides["Initiator"].accounted
        /\ refund("Responder") \in Nat /\ refund("Responder") <= sides["Responder"].accounted
    <3>1. ASSUME NEW s \in Sides
          PROVE  /\ sides[s].accounted \in Nat
                 /\ ns[s].accounted = sides[s].accounted - refund(s)
                 /\ refund(s) \in Nat /\ refund(s) <= sides[s].accounted
      <4>1. sides[s].accounted \in Nat /\ left(s).accounted = 0
        BY <1>7
      <4>2. CASE s \in which
        BY <4>1, <4>2, <1>8
      <4>3. CASE s \notin which
        BY <4>1, <4>3, <1>8
      <4> QED BY <4>2, <4>3
    <3>2. "Initiator" \in Sides /\ "Responder" \in Sides
      BY DEF Sides
    <3> HIDE DEF refund
    <3> QED BY <3>1, <3>2
  <2> DEFINE a == sides["Initiator"].accounted  b == sides["Responder"].accounted
             f == refund("Initiator")  g == refund("Responder")
  <2>2. /\ a \in Nat /\ b \in Nat /\ f \in Nat /\ g \in Nat /\ f <= a /\ g <= b
        /\ ChargeOf(ns) = (a - f) + (b - g)
        /\ pool = base + (a + b) /\ base \in Nat /\ pool' = Less(pool, f + g)
    BY <2>1, <1>1, <1>2, <1>3 DEF ChargeOf
  <2> HIDE DEF a, b, f, g, r, base
  <2>3. pool' = base + ChargeOf(ns) /\ pool' \in Nat /\ pool' <= pool
    BY <2>2 DEF Less
  <2> QED BY <1>5, <1>8, <2>3 DEF AtOK
<1>10. Balanced(put, r.pool)
  <2>1. IsPut(put, streams, k, r.sides, number)
    <3> HIDE DEF r, number
    <3> QED BY DEF IsPut
  <2> HIDE DEF put, r, number
  <2> QED BY <1>2, <1>4, <1>9, <2>1, PutBalanced
<1>11. ASSUME NEW j \in DOMAIN streams'
       PROVE  \/ /\ j \in DOMAIN streams
                 /\ streams'[j].flow = streams[j].flow
                 /\ NothingHeld(streams[j]) => NothingHeld(streams'[j])
              \/ /\ j \in Live => streams'[j].flow = born[j]
                 /\ NothingHeld(streams'[j])
  <2>1. CASE j # k
    BY <2>1, <1>6
  <2>2. CASE j = k
    <3> DEFINE t == streams'[k]
    <3>0. t = [sides |-> ns, flow |-> number]
      BY <1>5, <1>6, <2>2
    <3>1. streams'[k].sides = ns /\ streams'[k].flow = number
      <4> HIDE DEF t, number
      <4>1. t.sides = ns /\ t.flow = number
        BY ONLY <3>0
      <4> QED BY <4>1 DEF t
    <3> HIDE DEF t, number
    <3>2. (\A s \in Sides : ~IsLive(sides[s])) => NothingHeld(streams'[k])
      <4> SUFFICES ASSUME \A s \in Sides : ~IsLive(sides[s]), NEW s \in Sides
                   PROVE  ~IsLive(streams'[k].sides[s])
        BY DEF NothingHeld
      <4>1. streams'[k].sides[s] = ns[s]
        BY <3>1
      <4> QED BY <4>1, <1>7, <1>8
    <3>3. CASE known
      <4>1. sides = streams[k].sides /\ number = streams[k].flow
        BY <3>3 DEF sides, number
      <4>2. streams'[k].flow = streams[k].flow
        BY <3>1, <4>1
      <4>3. NothingHeld(streams[k]) => NothingHeld(streams'[k])
        BY <3>2, <4>1 DEF NothingHeld
      <4> QED BY <3>3, <4>2, <4>3, <2>2
    <3>4. CASE ~known
      <4>1. \A s \in Sides : ~IsLive(sides[s])
        BY <3>4 DEF sides, NoSides, Empty, IsLive
      <4>2. streams'[k].flow = number /\ NothingHeld(streams'[k])
        BY <4>1, <3>1, <3>2
      <4>3. j \in Live => number = born[j]
        BY <3>4, <2>2 DEF number
      <4> QED BY <2>2, <4>2, <4>3
    <3> QED BY <3>3, <3>4
  <2> QED BY <2>1, <2>2
<1> HIDE DEF put, r
<1> QED
  BY <1>1, <1>5, <1>6, <1>9, <1>10, <1>11, QuietStep

------------------------------------------------------------------------------
(* Calls of the tracker the driver does not see.                           *)

LEMMA GoneTyped ==
  ASSUME Inv
  PROVE  Gone \in Nat /\ resized \in Nat
  BY StatsTyped DEF Gone

\* Flows may leave without the driver's knowledge, but the tracker counts each.
LEMMA BehindStep ==
  ASSUME DriverInv, Inv', Behind, DOMAIN flows' \subseteq Live,
         Gone' >= Gone, resized' >= resized,
         Gone' = Gone /\ resized' = resized => DOMAIN flows' = Live
  PROVE  DriverInv' /\ pool' = pool
<1>0. Gone \in Nat /\ Gone' \in Nat /\ resized \in Nat /\ resized' \in Nat
  <2>1. stats' \in [created : Nat, ended : Nat, evicted : Nat, unmatched : Nat]
        /\ forgotten' \in Nat /\ resized' \in Nat
    BY DEF Inv, Scalars
  <2> QED BY <2>1, GoneTyped DEF Gone, DriverInv
<1>1. UNCHANGED <<streams, pool, seen_gone, pending, born>>
  BY DEF Behind, driver_vars
<1>2. Balanced(streams, pool)' /\ born' \in [Keys -> Nat] /\ seen_gone' \in Nat
  BY <1>1 DEF DriverInv
<1>3. seen_gone' <= Gone'
  BY <1>0, <1>1 DEF DriverInv
<1>4. NoInheritance'
  BY <1>1 DEF DriverInv, NoInheritance, Live
<1>5. Settled'
  <2> SUFFICES ASSUME seen_gone = Gone', resized' = 0
               PROVE  \A k \in DOMAIN streams \ (DOMAIN flows' \cup pending) :
                        NothingHeld(streams[k])
    BY <1>1 DEF Settled, Live
  <2>1. seen_gone = Gone /\ resized = 0 /\ Gone' = Gone /\ resized' = resized
    BY <1>0 DEF DriverInv
  <2> QED BY <2>1 DEF DriverInv, Settled, Live
<1> QED
  BY <1>1, <1>2, <1>3, <1>4, <1>5 DEF DriverInv

LEMMA BehindForget ==
  ASSUME DriverInv, NEW k \in Keys, Forget(k), Behind
  PROVE  DriverInv' /\ pool' = pool
<1> DEFINE gone == {k} \cap Live
<1>1. Inv'
  BY ForgetInv DEF DriverInv
<1>2. /\ flows' = Without(flows, gone) /\ forgotten' = forgotten + Cardinality(gone)
      /\ UNCHANGED <<stats, resized>>
  BY DEF Forget
<1>3. IsFiniteSet(gone) /\ Cardinality(gone) \in Nat /\ (Cardinality(gone) = 0 => gone = {})
  BY FS_Singleton, FS_Intersection, FS_EmptySet, FS_CardinalityType
<1>4. DOMAIN flows' = Live \ gone
  BY <1>2 DEF Without, Live
<1>5. stats.ended \in Nat /\ forgotten \in Nat /\ resized \in Nat
  BY StatsTyped DEF DriverInv
<1>6. Gone' = Gone + Cardinality(gone) /\ Gone \in Nat
  <2> HIDE DEF gone
  <2> QED BY <1>2, <1>3, <1>5 DEF Gone
<1> HIDE DEF gone
<1>7. Gone' >= Gone /\ resized' >= resized /\ (Gone' = Gone => gone = {})
  BY <1>2, <1>3, <1>5, <1>6
<1> QED
  BY <1>1, <1>4, <1>7, BehindStep

LEMMA BehindSetConfig ==
  ASSUME DriverInv, NEW c \in Configs, SetConfig(c), Behind
  PROVE  DriverInv' /\ pool' = pool
<1>1. Inv'
  BY SetConfigInv DEF DriverInv
<1>2. PICK kept \in Shrunk(c) :
        /\ flows' = Without(flows, Live \ kept)
        /\ resized' = resized + Cardinality(Live \ kept)
        /\ UNCHANGED <<stats, forgotten>>
  BY DEF SetConfig
<1> DEFINE gone == Live \ kept
<1>3. IsFiniteSet(gone) /\ Cardinality(gone) \in Nat /\ (Cardinality(gone) = 0 => gone = {})
  BY StatsTyped, FS_Subset, FS_EmptySet, FS_CardinalityType DEF DriverInv
<1>4. DOMAIN flows' = Live \ gone
  BY <1>2 DEF Without, Live
<1>5. Gone \in Nat /\ resized \in Nat /\ Gone' = Gone
  BY <1>2, GoneTyped DEF DriverInv, Gone
<1>6. resized' = resized + Cardinality(gone)
  BY <1>2
<1> HIDE DEF gone
<1>7. Gone' >= Gone /\ resized' >= resized /\ (resized' = resized => gone = {})
  BY <1>3, <1>5, <1>6
<1> QED
  BY <1>1, <1>4, <1>7, BehindStep

\* ForceClose and Sweep, called on the tracker itself.
LEMMA BehindCloses ==
  ASSUME DriverInv, Inv', Closes(Live), Behind
  PROVE  DriverInv' /\ pool' = pool
<1>1. /\ IsFiniteSet(EndedNow) /\ EndedNow \subseteq Live
      /\ DOMAIN flows' = Live \ EndedNow
      /\ stats'.ended = stats.ended + Cardinality(EndedNow)
      /\ forgotten' = forgotten /\ resized' = resized
  BY DEF Closes
<1>2. Cardinality(EndedNow) \in Nat /\ (Cardinality(EndedNow) = 0 => EndedNow = {})
  BY <1>1, FS_EmptySet, FS_CardinalityType
<1>3. stats.ended \in Nat /\ forgotten \in Nat /\ resized \in Nat
  BY StatsTyped DEF DriverInv
<1> DEFINE n == Cardinality(EndedNow)
<1> HIDE DEF n
<1>4. Gone' = Gone + n /\ Gone \in Nat /\ n \in Nat
  BY <1>1, <1>2, <1>3 DEF Gone, n
<1>5. Gone' >= Gone /\ resized' >= resized /\ (Gone' = Gone => EndedNow = {})
  BY <1>1, <1>2, <1>3, <1>4 DEF n
<1>6. EndedNow = {} => DOMAIN flows' = Live
  BY <1>1
<1>7. DOMAIN flows' \subseteq Live
  BY <1>1
<1> QED
  BY <1>5, <1>6, <1>7, BehindStep

\* A frame without a flow, and pausing events.
LEMMA BehindQuiet ==
  ASSUME DriverInv, Behind, TrackUnmatched \/ \E b \in BOOLEAN : PauseEvents(b)
  PROVE  DriverInv' /\ pool' = pool
<1>1. Inv'
  BY SettingInv DEF DriverInv
<1>2. flows' = flows /\ forgotten' = forgotten /\ resized' = resized
  BY DEF TrackUnmatched, PauseEvents
<1>3. stats'.ended = stats.ended
  BY StatsTyped DEF TrackUnmatched, PauseEvents, DriverInv
<1>4. Gone' = Gone /\ Gone \in Nat /\ resized \in Nat
  BY <1>2, <1>3, GoneTyped DEF Gone, DriverInv
<1>5. Gone' >= Gone /\ resized' >= resized /\ DOMAIN flows' = Live
  BY <1>2, <1>4 DEF Live
<1> QED
  BY <1>1, <1>5, BehindStep

------------------------------------------------------------------------------
(* The invariant.                                                          *)

LEMMA DriverInitInv ==
  ASSUME DriverInit
  PROVE  DriverInv
<1>1. Inv
  BY InitInv DEF DriverInit
<1>2. /\ DOMAIN streams = {} /\ streams = [k \in DOMAIN streams |-> streams[k]]
      /\ pool = 0 /\ seen_gone = 0 /\ pending = {} /\ born \in [Keys -> Nat]
  BY DEF DriverInit
<1>3. Bytes(streams, DOMAIN streams) = {}
  BY <1>2 DEF Bytes
<1>4. Balanced(streams, pool)
  BY <1>2, <1>3, FS_EmptySet DEF Balanced, IsStreams, Charges
<1>5. Gone \in Nat
  BY <1>1, GoneTyped
<1> QED
  BY <1>1, <1>2, <1>4, <1>5 DEF DriverInv, NoInheritance, Settled

\* Every call keeps the invariant and the memcap.
LEMMA DriverStep ==
  ASSUME DriverInv, [DriverNext]_all_vars
  PROVE  DriverInv' /\ CapKept(pool, pool')
<1>0. pool \in Nat
  BY BytesFinite DEF DriverInv, Balanced
<1> DEFINE Kept == DriverInv' /\ pool' \in Nat /\ pool' <= pool
<1>1. Kept => DriverInv' /\ CapKept(pool, pool')
  BY DEF CapKept
<1>2. CASE TrackNothing
  BY <1>0, <1>2, BehindQuiet DEF TrackNothing, Behind, driver_vars, CapKept
<1>3. ASSUME NEW p \in Sent, NEW seg \in Segment, TrackFinal(p, seg)
      PROVE  DriverInv' /\ CapKept(pool, pool')
  BY <1>3, TrackFinalStep
<1>4. ASSUME NEW p \in Sent, NEW seg \in Segment, NEW wants \in BOOLEAN,
             TrackPending(p, seg, wants)
      PROVE  DriverInv' /\ CapKept(pool, pool')
  BY <1>4, TrackPendingStep
<1>5. ASSUME NEW now \in Times, SweepPending(now) \/ SweepDrain(now) \/ SweepFinal(now)
      PROVE  Kept
  BY <1>5, SweepStep, SweepDrainStep
<1>6. CASE FinishFinal
  BY <1>1, <1>6, FinishStep
<1>7. ASSUME NEW k \in Keys, FinalizeFlow(k) \/ ForceClosePending(k) \/ ForceCloseFinal(k)
      PROVE  Kept
  BY <1>7, FinalizeStep, ForceCloseStep
<1>8. ASSUME NEW k \in Keys, NEW side \in Sides, DrainStream(k, side) \/ DiscardStream(k, {side})
      PROVE  Kept
  <2>1. {side} \in SUBSET Sides
    OBVIOUS
  <2> QED BY <1>8, <2>1, DrainStep, DiscardStep
<1>9. ASSUME NEW k \in Keys, DiscardStream(k, Sides) \/ TakeDirectly(k)
      PROVE  Kept
  BY <1>0, <1>9, DiscardStep, TakeStep
<1>10. ASSUME NEW k \in Keys, Forget(k) \/ ForceClose(k), Behind
       PROVE  Kept
  <2>1. CASE Forget(k)
    BY <1>0, <1>10, <2>1, BehindForget
  <2>2. CASE ForceClose(k)
    <3>1. Inv' /\ Closes(Live)
      BY <2>2, ForceCloseInv, ForceCloseCloses DEF DriverInv
    <3> QED BY <1>0, <1>10, <3>1, BehindCloses
  <2> QED BY <1>10, <2>1, <2>2
<1>11. ASSUME NEW now \in Times, Sweep(now), Behind
       PROVE  Kept
  BY <1>0, <1>11, BehindCloses, SweepInv, SweepCloses DEF DriverInv
<1>12. ASSUME NEW c \in Configs, SetConfig(c), Behind
       PROVE  Kept
  BY <1>0, <1>12, BehindSetConfig
<1>13. ASSUME NEW b \in BOOLEAN, PauseEvents(b), Behind
       PROVE  Kept
  BY <1>0, <1>13, BehindQuiet
<1>14. CASE UNCHANGED all_vars
  <2>1. UNCHANGED vars /\ UNCHANGED <<streams, pool, seen_gone, pending, born>>
    BY <1>14 DEF all_vars, driver_vars
  <2>2. Balanced(streams', pool')
    BY <2>1 DEF DriverInv
  <2>3. DriverInv'
    BY <2>1, <2>2, QuietStep DEF DriverInv
  <2> QED BY <1>0, <1>1, <2>1, <2>3
<1> HIDE DEF Kept
<1> QED
  BY <1>1, <1>2, <1>3, <1>4, <1>5, <1>6, <1>7, <1>8, <1>9, <1>10, <1>11, <1>12, <1>13, <1>14
     DEF DriverNext

\* The invariant the driver's properties rest on.
THEOREM DriverInvariance == DriverSpec => []DriverInv
<1>1. DriverInit => DriverInv
  BY DriverInitInv
<1>2. DriverInv /\ [DriverNext]_all_vars => DriverInv'
  BY DriverStep
<1> QED
  BY <1>1, <1>2, PTL DEF DriverSpec

\* The memcap pool is the sum of what the sides were last charged: no call
\* loses or doubles a charge, so no saturating_sub ever saturates.
THEOREM PoolExact == DriverSpec => []PoolIsSum
<1>1. DriverInv => PoolIsSum
  BY DEF DriverInv, Balanced, PoolIsSum
<1> QED
  BY <1>1, DriverInvariance, PTL

\* No reassembler holds more than its side is charged.
THEOREM ChargeCoversHeld == DriverSpec => []NeverUndercharged
<1>1. DriverInv => NeverUndercharged
  BY DEF DriverInv, Balanced, IsStreams, StreamOK, SidesOK, SlotOK, NeverUndercharged
<1> QED
  BY <1>1, DriverInvariance, PTL

\* A flow never works on the stream state of an earlier flow with its key.
THEOREM FreshStreams == DriverSpec => []NoInheritance
<1>1. DriverInv => NoInheritance
  BY DEF DriverInv
<1> QED
  BY <1>1, DriverInvariance, PTL

\* Once every end is finalized, and none went unseen, the reassemblers of the
\* flows that are gone are gone too.
THEOREM StreamsReleased == DriverSpec => []ReleasedWhenGone
<1>1. DriverInv => ReleasedWhenGone
  BY DEF DriverInv, Settled, NothingHeld, ReleasedWhenGone
<1> QED
  BY <1>1, DriverInvariance, PTL

\* The driver is handed one Ended for each flow its tracker ends.
THEOREM DriverSeesEveryEnd == DriverSpec => []OwnerSeesEveryEnd
<1>1. DriverInv => OwnerSeesEveryEnd
  BY DEF DriverInv, Inv
<1> QED
  BY <1>1, DriverInvariance, PTL

\* No call takes the pool past the memcap, under every policy but Ignore.
THEOREM MemcapKept == DriverSpec => MemcapHolds
<1> DEFINE Step == LET cap == config.reassembly_memcap
                       slack == IF config.reassembly_memcap_policy = "DropPacket"
                                THEN Overhead ELSE 0
                   IN cap # None /\ config.reassembly_memcap_policy # "Ignore"
                        => pool' <= pool \/ pool' <= cap + slack
<1>1. DriverInv /\ [DriverNext]_all_vars => [Step]_all_vars
  BY DriverStep DEF CapKept, WithinCap
<1> QED
  BY <1>1, DriverInvariance, PTL DEF DriverSpec, MemcapHolds

==============================================================================
