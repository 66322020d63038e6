-------------------------- MODULE FlowTrackerProofs --------------------------
(***************************************************************************)
(* Proofs about FlowTracker, for every set of keys, every configuration    *)
(* and every bound.  The inductive invariant is Inv: the table holds       *)
(* well-formed, non-terminal entries of a finite set of keys, the LRU      *)
(* order ranks exactly these keys, the hot key is one of them, and the     *)
(* counters account for every flow.                                        *)
(***************************************************************************)
EXTENDS FlowTracker, FiniteSetTheorems, TLAPS

------------------------------------------------------------------------------
(* The table and the order, as predicates of a value.                      *)

EntryOK(e) ==
  /\ e \in Entry
  /\ e.st \notin Terminal
  /\ e.st = "ClosingTcp" => e.fin = Sides

IsTable(t) ==
  /\ DOMAIN t \subseteq Keys
  /\ IsFiniteSet(DOMAIN t)
  /\ t = [k \in DOMAIN t |-> t[k]]
  /\ \A k \in DOMAIN t : EntryOK(t[k])

IsOrder(o, S) ==
  /\ o \subseteq S \X S
  /\ \A a \in S : <<a, a>> \notin o
  /\ \A a, b \in S : a # b => (<<a, b>> \in o <=> <<b, a>> \notin o)
  /\ \A a, b, c \in S : <<a, b>> \in o /\ <<b, c>> \in o => <<a, c>> \in o

Scalars ==
  /\ hot \in Keys \cup {None}
  /\ config \in Configs
  /\ idle_fn \in [Keys -> Nat \cup {None}]
  /\ last_sweep \in Times \cup {None, TsMax}
  /\ paused \in BOOLEAN
  /\ stats \in [created : Nat, ended : Nat, evicted : Nat, unmatched : Nat]
  /\ forgotten \in Nat
  /\ out \subseteq Event
  /\ resized \in Nat
  /\ reported \in Nat

Inv ==
  /\ IsTable(flows)
  /\ IsOrder(older, Live)
  /\ Scalars
  /\ HotIsLive
  /\ WithinCapacity
  /\ FlowsConserved
  /\ OwnerSeesEveryEnd

\* Removing flows from a table leaves a table of the others.
LEMMA WithoutTable ==
  ASSUME NEW t, IsTable(t), NEW g
  PROVE  /\ IsTable(Without(t, g))
         /\ DOMAIN Without(t, g) = DOMAIN t \ g
         /\ \A k \in DOMAIN t \ g : Without(t, g)[k] = t[k]
<1>1. DOMAIN Without(t, g) = DOMAIN t \ g
  BY DEF Without
<1>2. \A k \in DOMAIN t \ g : Without(t, g)[k] = t[k]
  BY DEF Without
<1>3. IsFiniteSet(DOMAIN t \ g)
  BY FS_Difference DEF IsTable
<1>4. Without(t, g) = [k \in DOMAIN Without(t, g) |-> Without(t, g)[k]]
  BY DEF Without
<1> QED
  BY <1>1, <1>2, <1>3, <1>4 DEF IsTable

\* Removing flows from the LRU order ranks the others as before.
LEMMA UnrankedOrder ==
  ASSUME NEW o, NEW S, IsOrder(o, S), NEW g
  PROVE  IsOrder(Unranked(o, g), S \ g)
<1>1. \A a, b \in S \ g : <<a, b>> \in Unranked(o, g) <=> <<a, b>> \in o
  BY DEF Unranked
<1>2. Unranked(o, g) \subseteq (S \ g) \X (S \ g)
  BY DEF Unranked, IsOrder
<1> QED
  BY <1>1, <1>2 DEF IsOrder

\* Using a flow moves it to the recent end of the order.
LEMMA UsedOrder ==
  ASSUME NEW o, NEW S, IsOrder(o, S), NEW k
  PROVE  IsOrder(Used(o, k, S), S \cup {k})
<1>1. \A a, b : <<a, b>> \in Used(o, k, S) <=>
        \/ <<a, b>> \in o /\ a # k /\ b # k
        \/ a \in S \ {k} /\ b = k
  BY DEF Used, Unranked
<1>2. Used(o, k, S) \subseteq (S \cup {k}) \X (S \cup {k})
  BY DEF Used, Unranked, IsOrder
<1>3. \A a \in S \cup {k} : <<a, a>> \notin Used(o, k, S)
  BY <1>1 DEF IsOrder
<1>4. ASSUME NEW a \in S \cup {k}, NEW b \in S \cup {k}, a # b
      PROVE  <<a, b>> \in Used(o, k, S) <=> <<b, a>> \notin Used(o, k, S)
  BY <1>1, <1>4 DEF IsOrder
<1>5. ASSUME NEW a \in S \cup {k}, NEW b \in S \cup {k}, NEW c \in S \cup {k},
             <<a, b>> \in Used(o, k, S), <<b, c>> \in Used(o, k, S)
      PROVE  <<a, c>> \in Used(o, k, S)
  BY <1>1, <1>5 DEF IsOrder
<1> QED
  BY <1>2, <1>3, <1>4, <1>5 DEF IsOrder

\* A part taken out of a finite set takes its size out of the count.
LEMMA CardMinus ==
  ASSUME NEW S, IsFiniteSet(S), NEW T \in SUBSET S
  PROVE  /\ IsFiniteSet(S \ T) /\ IsFiniteSet(T)
         /\ Cardinality(S) \in Nat /\ Cardinality(T) \in Nat
         /\ Cardinality(S \ T) = Cardinality(S) - Cardinality(T)
         /\ Cardinality(S \ T) \in Nat
<1>1. S \cap T = T
  OBVIOUS
<1> QED
  BY ZenonT(60), <1>1, FS_Difference, FS_Subset, FS_CardinalityType

\* As many Ended events as ended flows.
LEMMA EndedCount ==
  ASSUME NEW S, IsFiniteSet(S), NEW r
  PROVE  IsFiniteSet(Ended(S, r)) /\ Cardinality(Ended(S, r)) = Cardinality(S)
<1> DEFINE f == [k \in S |-> [ev |-> "Ended", key |-> k, reason |-> r]]
<1>1. f \in Bijection(S, Ended(S, r))
  <2>1. f \in Injection(S, Ended(S, r))
    BY DEF Injection, IsInjective, Ended
  <2>2. f \in Surjection(S, Ended(S, r))
    BY DEF Surjection, Ended
  <2> QED
    BY <2>1, <2>2 DEF Bijection
<1> QED
  BY <1>1, FS_Bijection DEF ExistsBijection

------------------------------------------------------------------------------
(* Calls that only remove flows: sweep, force_close, forget, set_config.   *)

\* Removing the flows of `gone`, the order and the hot key with them, keeps
\* everything but the counters.
LEMMA RemovalStep ==
  ASSUME Inv, NEW gone \in SUBSET Live,
         flows' = Without(flows, gone),
         older' = Unranked(older, gone),
         hot' \in {Cooled(gone), None}
  PROVE  /\ IsTable(flows')
         /\ IsOrder(older', Live')
         /\ hot' \in Keys \cup {None}
         /\ HotIsLive'
         /\ IsFiniteSet(gone)
         /\ Cardinality(gone) \in Nat
         /\ Cardinality(Live) \in Nat
         /\ Cardinality(Live') \in Nat
         /\ Cardinality(Live') = Cardinality(Live) - Cardinality(gone)
<1>1. IsTable(flows') /\ Live' = Live \ gone
  BY WithoutTable DEF Inv, Live
<1>2. IsOrder(older', Live')
  BY <1>1, UnrankedOrder DEF Inv
<1>3. hot' \in Keys \cup {None} /\ HotIsLive'
  BY <1>1 DEF Inv, Scalars, HotIsLive, Cooled
<1>4. IsFiniteSet(Live)
  BY DEF Inv, IsTable, Live
<1> QED
  BY <1>1, <1>2, <1>3, <1>4, CardMinus

\* A configuration holds at least one flow.
LEMMA CapacityType ==
  ASSUME NEW c \in Configs
  PROVE  Capacity(c) \in Nat /\ Capacity(c) >= 1
  BY ConfigAssumption DEF Capacity, Config

\* The gate lets every Ended through to an owning driver.
LEMMA OwnerGate ==
  ASSUME DriverOwned, NEW evs
  PROVE  {e \in Gated(evs) : e.ev = "Ended"} = {e \in evs : e.ev = "Ended"}
  BY DEF Gated, Emits

\* An Ended set holds nothing but Ended events.
LEMMA EndedEvents ==
  ASSUME NEW S \in SUBSET Keys, NEW r \in EndReasons
  PROVE  /\ {e \in Ended(S, r) : e.ev = "Ended"} = Ended(S, r)
         /\ Ended(S, r) \subseteq Event
  BY DEF Ended, Event, EventKinds

LEMMA SweepInv ==
  ASSUME Inv, NEW now \in Times \cup {TsMax}, Sweep(now)
  PROVE  Inv'
<1> DEFINE expired == Expired(flows, now)
           swept == Swept(flows, now)
           evs == Gated(Ended(swept, "IdleTimeout"))
<1>1. expired \in SUBSET Live
  BY DEF Expired, Live
<1>2. swept = expired
  BY <1>1 DEF Swept, Inv, IsTable, EntryOK, Expired, Live
<1>3. /\ last_sweep' = now
      /\ flows' = Without(flows, expired)
      /\ older' = Unranked(older, expired)
      /\ hot' = Cooled(expired)
      /\ stats' = [stats EXCEPT !.ended = @ + Cardinality(swept)]
      /\ Report(evs)
      /\ UNCHANGED <<config, idle_fn, paused, forgotten, resized>>
  BY <1>2 DEF Sweep
<1>4. /\ IsTable(flows') /\ IsOrder(older', Live')
      /\ hot' \in Keys \cup {None} /\ HotIsLive'
      /\ IsFiniteSet(expired)
      /\ Cardinality(expired) \in Nat /\ Cardinality(Live) \in Nat
      /\ Cardinality(Live') \in Nat
      /\ Cardinality(Live') = Cardinality(Live) - Cardinality(expired)
  <2> HIDE DEF expired, swept, evs
  <2> QED BY <1>1, <1>3, RemovalStep
<1>5. swept \subseteq Keys
  BY <1>1, <1>2 DEF Inv, IsTable, Live
<1>6. evs \subseteq Event
  BY <1>5, EndedEvents DEF Gated, EndReasons
<1>7. DriverOwned => Cardinality({e \in evs : e.ev = "Ended"}) = Cardinality(swept)
  <2> SUFFICES ASSUME DriverOwned
               PROVE  Cardinality({e \in evs : e.ev = "Ended"}) = Cardinality(swept)
    OBVIOUS
  <2>1. {e \in evs : e.ev = "Ended"} = Ended(swept, "IdleTimeout")
    <3> HIDE DEF swept
    <3> QED BY <1>5, OwnerGate, EndedEvents DEF EndReasons
  <2> QED
    BY <2>1, <1>2, <1>4, EndedCount
<1>8. Cardinality({e \in evs : e.ev = "Ended"}) \in Nat
  <2>1. {e \in evs : e.ev = "Ended"} \in SUBSET Ended(swept, "IdleTimeout")
    BY DEF Gated
  <2> HIDE DEF expired, swept, evs
  <2> QED
    BY <2>1, <1>2, <1>4, EndedCount, FS_Subset, FS_CardinalityType
<1> HIDE DEF expired, swept, evs
<1>9. Scalars'
  BY <1>2, <1>3, <1>4, <1>6, <1>8 DEF Scalars, Report, Inv
<1>10. WithinCapacity'
  BY <1>3, <1>4, CapacityType DEF Inv, WithinCapacity, Scalars
<1>11. FlowsConserved'
  BY <1>2, <1>3, <1>4 DEF Inv, FlowsConserved, Scalars
<1>12. OwnerSeesEveryEnd'
  BY <1>2, <1>3, <1>4, <1>7 DEF Inv, OwnerSeesEveryEnd, Scalars, Report
<1> QED
  BY <1>4, <1>9, <1>10, <1>11, <1>12 DEF Inv

LEMMA ForceCloseInv ==
  ASSUME Inv, NEW k \in Keys, ForceClose(k)
  PROVE  Inv'
<1> DEFINE gone == {k} \cap Live
           evs == Ended(gone, "ForceClosed")
<1>1. gone \in SUBSET Live /\ gone \subseteq Keys
  OBVIOUS
<1>2. /\ flows' = Without(flows, gone)
      /\ older' = Unranked(older, gone)
      /\ hot' = Cooled(gone)
      /\ stats' = [stats EXCEPT !.ended = @ + Cardinality(gone)]
      /\ Report(evs)
      /\ UNCHANGED <<config, idle_fn, last_sweep, paused, forgotten, resized>>
  BY DEF ForceClose
<1> HIDE DEF gone
<1>3. /\ IsTable(flows') /\ IsOrder(older', Live')
      /\ hot' \in Keys \cup {None} /\ HotIsLive'
      /\ IsFiniteSet(gone)
      /\ Cardinality(gone) \in Nat /\ Cardinality(Live) \in Nat
      /\ Cardinality(Live') \in Nat
      /\ Cardinality(Live') = Cardinality(Live) - Cardinality(gone)
  BY <1>1, <1>2, RemovalStep
<1>4. evs \subseteq Event /\ {e \in evs : e.ev = "Ended"} = evs
  BY <1>1, EndedEvents DEF EndReasons
<1>5. Cardinality({e \in evs : e.ev = "Ended"}) = Cardinality(gone)
  BY <1>3, <1>4, EndedCount
<1> HIDE DEF evs
<1>6. Scalars'
  BY <1>2, <1>3, <1>4, <1>5 DEF Scalars, Report, Inv
<1>7. WithinCapacity'
  BY <1>2, <1>3, CapacityType DEF Inv, WithinCapacity, Scalars
<1>8. FlowsConserved' /\ OwnerSeesEveryEnd'
  BY <1>2, <1>3, <1>4, <1>5
     DEF Inv, FlowsConserved, OwnerSeesEveryEnd, Scalars, Report
<1> QED
  BY <1>3, <1>6, <1>7, <1>8 DEF Inv

\* A call that returns no event reports no end.
LEMMA SilentReport ==
  ASSUME Inv, Report({})
  PROVE  out' = {} /\ reported' = reported
<1>1. {e \in {} : e.ev = "Ended"} = {}
  OBVIOUS
<1> QED
  BY <1>1, FS_EmptySet DEF Report, Inv, Scalars

LEMMA ForgetInv ==
  ASSUME Inv, NEW k \in Keys, Forget(k)
  PROVE  Inv'
<1> DEFINE gone == {k} \cap Live
<1>1. gone \in SUBSET Live
  OBVIOUS
<1>2. /\ flows' = Without(flows, gone)
      /\ older' = Unranked(older, gone)
      /\ hot' = Cooled(gone)
      /\ forgotten' = forgotten + Cardinality(gone)
      /\ Report({})
      /\ UNCHANGED <<config, idle_fn, last_sweep, paused, stats, resized>>
  BY DEF Forget
<1> HIDE DEF gone
<1>3. /\ IsTable(flows') /\ IsOrder(older', Live')
      /\ hot' \in Keys \cup {None} /\ HotIsLive'
      /\ Cardinality(gone) \in Nat /\ Cardinality(Live) \in Nat
      /\ Cardinality(Live') \in Nat
      /\ Cardinality(Live') = Cardinality(Live) - Cardinality(gone)
  BY <1>1, <1>2, RemovalStep
<1>4. out' = {} /\ reported' = reported
  BY <1>2, SilentReport
<1>5. Scalars' /\ FlowsConserved' /\ OwnerSeesEveryEnd'
  BY <1>2, <1>3, <1>4 DEF Inv, FlowsConserved, OwnerSeesEveryEnd, Scalars
<1>6. WithinCapacity'
  BY <1>2, <1>3, CapacityType DEF Inv, WithinCapacity, Scalars
<1> QED
  BY <1>3, <1>5, <1>6 DEF Inv

LEMMA SetConfigInv ==
  ASSUME Inv, NEW c \in Configs, SetConfig(c)
  PROVE  Inv'
<1>1. PICK kept \in Shrunk(c) :
        /\ flows' = Without(flows, Live \ kept)
        /\ older' = Unranked(older, Live \ kept)
        /\ hot' = None
        /\ config' = c
        /\ resized' = resized + Cardinality(Live \ kept)
        /\ Report({})
        /\ UNCHANGED <<idle_fn, last_sweep, paused, stats, forgotten>>
  BY DEF SetConfig
<1>2. Live \ kept \in SUBSET Live
  OBVIOUS
<1>3. /\ IsTable(flows') /\ IsOrder(older', Live')
      /\ hot' \in Keys \cup {None} /\ HotIsLive'
      /\ Cardinality(Live \ kept) \in Nat /\ Cardinality(Live) \in Nat
      /\ Cardinality(Live') \in Nat
      /\ Cardinality(Live') = Cardinality(Live) - Cardinality(Live \ kept)
  BY <1>1, <1>2, RemovalStep
<1>4. out' = {} /\ reported' = reported
  BY <1>1, SilentReport
<1>5. Scalars' /\ FlowsConserved' /\ OwnerSeesEveryEnd'
  BY <1>1, <1>3, <1>4 DEF Inv, FlowsConserved, OwnerSeesEveryEnd, Scalars
<1>6. WithinCapacity'
  <2>1. Live' = Live \ (Live \ kept)
    BY <1>1, WithoutTable DEF Inv, Live
  <2>2. Live' = kept
    BY <2>1 DEF Shrunk
  <2>3. Cardinality(kept) <= Capacity(c)
    BY <1>1, CapacityType DEF Shrunk
  <2> QED
    BY <2>2, <2>3, <1>1 DEF WithinCapacity
<1> QED
  BY <1>3, <1>5, <1>6 DEF Inv

LEMMA SettingInv ==
  ASSUME Inv,
         \/ TrackUnmatched
         \/ \E f \in IdleFns : SetIdleTimeoutFn(f)
         \/ ClearIdleTimeoutFn
         \/ \E b \in BOOLEAN : PauseEvents(b)
  PROVE  Inv'
<1>1. Report({}) /\ UNCHANGED <<flows, older, hot, config, last_sweep, forgotten, resized>>
  BY DEF TrackUnmatched, SetIdleTimeoutFn, ClearIdleTimeoutFn, PauseEvents
<1>2. out' = {} /\ reported' = reported
  BY <1>1, SilentReport
<1>3. idle_fn' \in [Keys -> Nat \cup {None}]
  BY IdleFnAssumption
     DEF TrackUnmatched, SetIdleTimeoutFn, ClearIdleTimeoutFn, PauseEvents, Inv, Scalars
<1>4. paused' \in BOOLEAN
  BY DEF TrackUnmatched, SetIdleTimeoutFn, ClearIdleTimeoutFn, PauseEvents, Inv, Scalars
<1>5. /\ stats' \in [created : Nat, ended : Nat, evicted : Nat, unmatched : Nat]
      /\ stats'.created = stats.created
      /\ stats'.ended = stats.ended
  BY DEF TrackUnmatched, SetIdleTimeoutFn, ClearIdleTimeoutFn, PauseEvents, Inv, Scalars
<1> QED
  BY <1>1, <1>2, <1>3, <1>4, <1>5
     DEF Inv, Scalars, Live, HotIsLive, WithinCapacity, FlowsConserved, OwnerSeesEveryEnd


------------------------------------------------------------------------------
(* track                                                                   *)

\* A new flow is not in the table, a known one is.
LEMMA KnownFlow ==
  ASSUME Inv, NEW p \in Packet
  PROVE  /\ p.key \in Keys
         /\ IsNew(p) <=> p.key \notin Live
  BY KeysAssumption DEF Inv, HotIsLive, IsNew, Packet

\* The entry a packet works on is well formed.
LEMMA FoundOK ==
  ASSUME Inv, NEW p \in Packet
  PROVE  EntryOK(Found(p))
<1>1. CASE IsNew(p)
  <2>1. NewEntry(p) \in Entry
    BY DEF NewEntry, Entry, Packet, FlowStates, Sides, Orientations
  <2>2. NewEntry(p).st = "Active"
    BY DEF NewEntry
  <2> QED
    BY <1>1, <2>1, <2>2 DEF Found, EntryOK, Terminal
<1>2. CASE ~IsNew(p)
  BY <1>2, KnownFlow DEF Found, Inv, IsTable, Live
<1> QED
  BY <1>1, <1>2

\* The TCP state machine stays within its states, and reaches ClosingTcp only
\* from itself or on a FIN answering the other side's FIN.
LEMMA TransitionOK ==
  ASSUME NEW st \in FlowStates, NEW flags, NEW side, NEW other \in BOOLEAN
  PROVE  LET to == Transition(st, flags, side, other)
         IN  /\ to \in FlowStates
             /\ to = "ClosingTcp" => \/ st = "ClosingTcp"
                                     \/ "FIN" \in flags /\ other
  BY DEF Transition, FlowStates

\* The entry after a packet is an entry, and still well formed unless the
\* packet ended the flow.
LEMMA TouchedOK ==
  ASSUME Inv, NEW p \in Packet
  PROVE  /\ Touched(p) \in Entry
         /\ Touched(p).st \notin Terminal => EntryOK(Touched(p))
<1> DEFINE e == Found(p)
           side == SideFor(e, p.dir)
           other_fin == (Sides \ {side}) \subseteq e.fin
           fin == IF "FIN" \in p.tcp THEN e.fin \cup {side} ELSE e.fin
           to == Transition(e.st, p.tcp, side, other_fin)
<1>1. EntryOK(e)
  BY FoundOK
<1>2. side \in Sides
  BY DEF SideFor, Sides
<1>3. p.ts \in Times
  BY DEF Packet
<1>4. CASE p.tcp = None
  <2>1. Touched(p) = [e EXCEPT !.last_seen = p.ts]
    BY <1>4 DEF Touched
  <2> HIDE DEF e
  <2> QED
    BY <2>1, <1>1, <1>3 DEF EntryOK, Entry
<1>5. CASE p.tcp # None
  <2>1. Touched(p) = [e EXCEPT !.last_seen = p.ts, !.fin = fin, !.st = to]
    BY <1>5 DEF Touched
  <2>2. e.st \in FlowStates /\ e.fin \in SUBSET Sides
    BY <1>1 DEF EntryOK, Entry
  <2>3. fin \in SUBSET Sides
    BY <1>2, <2>2
  <2>4. to \in FlowStates
    <3> HIDE DEF e, side, other_fin
    <3>1. other_fin \in BOOLEAN
      BY DEF other_fin
    <3> QED BY <3>1, <2>2, TransitionOK
  <2>5. to = "ClosingTcp" => fin = Sides
    <3> SUFFICES ASSUME to = "ClosingTcp" PROVE fin = Sides
      OBVIOUS
    <3>1. e.st = "ClosingTcp" \/ ("FIN" \in p.tcp /\ other_fin)
      <4>1. other_fin \in BOOLEAN
        OBVIOUS
      <4> HIDE DEF e, side, other_fin
      <4> QED BY <4>1, <2>2, TransitionOK
    <3>2. CASE e.st = "ClosingTcp"
      BY <3>2, <1>1, <1>2 DEF EntryOK, Sides
    <3>3. CASE "FIN" \in p.tcp /\ other_fin
      BY <3>3, <1>2, <2>2 DEF Sides
    <3> QED
      BY <3>1, <3>2, <3>3
  <2> HIDE DEF e, fin, to
  <2> QED
    BY <2>1, <2>3, <2>4, <2>5, <1>1, <1>3 DEF EntryOK, Entry
<1> QED
  BY <1>4, <1>5

\* Only a new flow evicts, at most one other flow, and always when the table
\* is full.
LEMMA EvictedOK ==
  ASSUME Inv, NEW p \in Packet, NEW evicted \in Evictions(p)
  PROVE  /\ evicted \in SUBSET Live
         /\ p.key \notin evicted
         /\ IsFiniteSet(evicted)
         /\ Cardinality(evicted) \in {0, 1}
         /\ IsNew(p) /\ Cardinality(Live) >= Capacity(config) => Cardinality(evicted) = 1
<1>1. CASE IsNew(p) /\ Cardinality(Live) >= Capacity(config)
  <2>1. PICK v \in Live : evicted = {v}
    BY <1>1 DEF Evictions
  <2> QED
    BY <2>1, <1>1, KnownFlow, FS_Singleton
<1>2. CASE ~(IsNew(p) /\ Cardinality(Live) >= Capacity(config))
  <2>1. evicted = {}
    BY <1>2 DEF Evictions
  <2> QED
    BY <2>1, <1>2, FS_EmptySet
<1> QED
  BY <1>1, <1>2

\* The table the packet leaves, before any sweep.
LEMMA TableOK ==
  ASSUME Inv, NEW p \in Packet, NEW evicted \in Evictions(p)
  PROVE  /\ IsTable(Table(p, evicted))
         /\ DOMAIN Table(p, evicted) = ((Live \ evicted) \cup {p.key}) \ Dies(p)
<1> DEFINE D == ((Live \ evicted) \cup {p.key}) \ Dies(p)
           t == Table(p, evicted)
<1>1. t = [k \in D |-> IF k = p.key THEN Touched(p) ELSE flows[k]]
  BY DEF Table
<1>2. p.key \in D => EntryOK(Touched(p))
  BY TouchedOK DEF Dies
<1>3. ASSUME NEW k \in D, k # p.key
      PROVE  EntryOK(flows[k])
  BY <1>3 DEF Inv, IsTable, Live
<1>4. D \subseteq Keys
  BY KnownFlow DEF Inv, IsTable, Live
<1>5. IsFiniteSet(D)
  <2>1. IsFiniteSet(Live)
    BY DEF Inv, IsTable, Live
  <2> QED
    BY <2>1, FS_Difference, FS_AddElement
<1> HIDE DEF D, t
<1>6. DOMAIN t = D /\ \A k \in D : EntryOK(t[k])
  BY <1>1, <1>2, <1>3
<1>7. t = [k \in DOMAIN t |-> t[k]]
  BY <1>1
<1>8. IsTable(t)
  BY <1>4, <1>5, <1>6, <1>7 DEF IsTable
<1> QED
  BY <1>6, <1>8 DEF D, t


\* How many flows a packet leaves: it adds a new one, takes out the evicted
\* one, itself when it dies, and what an auto-sweep expires.
LEMMA TrackCount ==
  ASSUME Inv, NEW p \in Packet, NEW evicted \in Evictions(p),
         NEW expired \in SUBSET DOMAIN Table(p, evicted)
  PROVE  LET D == DOMAIN Table(p, evicted)
         IN /\ IsFiniteSet(expired) /\ IsFiniteSet(Dies(p))
            /\ Cardinality(expired) \in Nat
            /\ Cardinality(Dies(p)) \in Nat
            /\ Cardinality(Live) \in Nat
            /\ Cardinality(D \ expired) \in Nat
            /\ Cardinality(D \ expired) + Cardinality(expired) + Cardinality(Dies(p))
                 + Cardinality(evicted)
               = Cardinality(Live) + (IF IsNew(p) THEN 1 ELSE 0)
<1> DEFINE A == Live \ evicted
           B == A \cup {p.key}
           D == DOMAIN Table(p, evicted)
<1>1. IsFiniteSet(Live)
  BY DEF Inv, IsTable, Live
<1>2. /\ IsFiniteSet(A) /\ Cardinality(A) \in Nat /\ Cardinality(Live) \in Nat
      /\ Cardinality(A) = Cardinality(Live) - Cardinality(evicted)
  BY <1>1, EvictedOK, CardMinus
<1>3. p.key \in A <=> ~IsNew(p)
  BY KnownFlow, EvictedOK
<1>4. /\ IsFiniteSet(B) /\ Cardinality(B) \in Nat
      /\ Cardinality(B) = Cardinality(A) + (IF IsNew(p) THEN 1 ELSE 0)
  <2> HIDE DEF A
  <2> QED BY <1>2, <1>3, FS_AddElement
<1>5. Dies(p) \in SUBSET B
  BY DEF Dies
<1>6. D = B \ Dies(p)
  BY TableOK
<1> HIDE DEF A, B, D
<1>7. /\ IsFiniteSet(D) /\ IsFiniteSet(Dies(p))
      /\ Cardinality(Dies(p)) \in Nat /\ Cardinality(D) \in Nat
      /\ Cardinality(D) = Cardinality(B) - Cardinality(Dies(p))
  BY <1>4, <1>5, <1>6, CardMinus
<1>8. /\ IsFiniteSet(expired) /\ Cardinality(expired) \in Nat
      /\ Cardinality(D \ expired) \in Nat
      /\ Cardinality(D \ expired) = Cardinality(D) - Cardinality(expired)
  BY <1>7, CardMinus DEF D
<1>9. Cardinality(evicted) \in Nat
  BY EvictedOK
<1> QED
  BY <1>2, <1>4, <1>7, <1>8, <1>9 DEF D

\* The events of a packet are events, finitely many of them Ended; an owner
\* gets one for the evicted flow, one for its own end and one per swept flow.
LEMMA TrackEvents ==
  ASSUME Inv, NEW p \in Packet, NEW evicted \in Evictions(p),
         NEW swept \in SUBSET DOMAIN Table(p, evicted)
  PROVE  LET evs == Gated(Ended(evicted, "Evicted") \cup PacketEvents(p)
                          \cup OwnEnd(p) \cup Ended(swept, "IdleTimeout"))
             ends == {e \in evs : e.ev = "Ended"}
         IN /\ evs \subseteq Event
            /\ Cardinality(ends) \in Nat
            /\ DriverOwned =>
                 Cardinality(ends) = Cardinality(evicted) + Cardinality(Dies(p))
                                     + Cardinality(swept)
<1> DEFINE all == Ended(evicted, "Evicted") \cup PacketEvents(p)
                  \cup OwnEnd(p) \cup Ended(swept, "IdleTimeout")
           r == IF Touched(p).st = "Reset" THEN "Rst" ELSE "Fin"
           ev_ends == Ended(evicted, "Evicted")
           own_ends == Ended(Dies(p), r)
           idle_ends == Ended(swept, "IdleTimeout")
           ends == {e \in Gated(all) : e.ev = "Ended"}
<1>1. OwnEnd(p) = own_ends
  BY DEF OwnEnd
<1>2. evicted \subseteq Keys /\ Dies(p) \subseteq Keys /\ swept \subseteq Keys
  <2>1. evicted \subseteq Live /\ Live \subseteq Keys
    BY EvictedOK DEF Inv, IsTable, Live
  <2>2. Dies(p) \subseteq Keys
    BY KnownFlow DEF Dies
  <2>3. DOMAIN Table(p, evicted) \subseteq Keys
    BY TableOK DEF IsTable
  <2> QED
    BY <2>1, <2>2, <2>3
<1>3. /\ PacketEvents(p) \subseteq Event
      /\ \A e \in PacketEvents(p) : e.ev # "Ended"
  BY KnownFlow DEF PacketEvents, Notice, Event, EventKinds
<1>4. all \subseteq Event
  BY <1>1, <1>2, <1>3, EndedEvents DEF EndReasons
<1>5. \A S, q : \A e \in Ended(S, q) : e.ev = "Ended"
  BY DEF Ended
<1>6. {e \in all : e.ev = "Ended"} = ev_ends \cup own_ends \cup idle_ends
  BY <1>1, <1>3, <1>5
<1>7. IsFiniteSet(evicted) /\ IsFiniteSet(Dies(p)) /\ IsFiniteSet(swept)
  BY EvictedOK, TrackCount
<1>8. /\ IsFiniteSet(ev_ends) /\ Cardinality(ev_ends) = Cardinality(evicted)
      /\ IsFiniteSet(own_ends) /\ Cardinality(own_ends) = Cardinality(Dies(p))
      /\ IsFiniteSet(idle_ends) /\ Cardinality(idle_ends) = Cardinality(swept)
  BY <1>7, EndedCount
<1>9. ev_ends \cap own_ends = {}
  BY EvictedOK DEF Ended, Dies
<1>9a. (ev_ends \cup own_ends) \cap idle_ends = {}
  <2>1. DOMAIN Table(p, evicted) = ((Live \ evicted) \cup {p.key}) \ Dies(p)
    BY TableOK
  <2>2. swept \cap evicted = {} /\ swept \cap Dies(p) = {}
    BY <2>1, EvictedOK
  <2>3. \A S, T, q, t : S \cap T = {} => Ended(S, q) \cap Ended(T, t) = {}
    BY DEF Ended
  <2> HIDE DEF r
  <2> QED BY <2>2, <2>3
<1> HIDE DEF ev_ends, own_ends, idle_ends, all
<1>10. IsFiniteSet(ev_ends \cup own_ends \cup idle_ends)
  BY <1>8, FS_Union
<1>11. ends \in SUBSET (ev_ends \cup own_ends \cup idle_ends)
  BY <1>6 DEF Gated
<1>12. Cardinality(ends) \in Nat
  <2> HIDE DEF ends
  <2> QED BY <1>10, <1>11, FS_Subset, FS_CardinalityType
<1>13. ASSUME DriverOwned
       PROVE  Cardinality(ends) = Cardinality(evicted) + Cardinality(Dies(p))
                                  + Cardinality(swept)
  <2> DEFINE both == ev_ends \cup own_ends
  <2>1. ends = both \cup idle_ends
    BY <1>6, <1>13, OwnerGate
  <2>2. /\ IsFiniteSet(both)
        /\ Cardinality(both) = Cardinality(ev_ends) + Cardinality(own_ends)
                                - Cardinality(ev_ends \cap own_ends)
    BY <1>8, FS_Union
  <2> HIDE DEF ends, both
  <2>3. Cardinality(ends) = Cardinality(both) + Cardinality(idle_ends)
                            - Cardinality(both \cap idle_ends)
    BY <2>1, <2>2, <1>8, FS_Union
  <2>4. /\ Cardinality(evicted) \in Nat /\ Cardinality(Dies(p)) \in Nat
        /\ Cardinality(swept) \in Nat
    BY <1>7, FS_CardinalityType
  <2>5. Cardinality(ev_ends \cap own_ends) = 0 /\ Cardinality(both \cap idle_ends) = 0
    BY <1>9, <1>9a, FS_EmptySet DEF both
  <2> QED
    BY <2>2, <2>3, <2>4, <2>5, <1>8
<1>14. Gated(all) \subseteq Event
  BY <1>4 DEF Gated
<1> QED
  BY <1>12, <1>13, <1>14 DEF all

LEMMA TrackInv ==
  ASSUME Inv, NEW p \in Sent, NEW sweeps \in BOOLEAN, TrackThen(p, sweeps)
  PROVE  Inv'
<1>0. p \in Packet
  BY DEF Sent
<1> DEFINE tbl(evicted) == Table(p, evicted)
           expired(evicted) == IF sweeps THEN Expired(tbl(evicted), p.ts) ELSE {}
           swept(evicted) == IF sweeps THEN Swept(tbl(evicted), p.ts) ELSE {}
           warm(evicted) == IF Dies(p) = {} THEN p.key
                            ELSE Cooled(evicted \cup {p.key})
           order(evicted) == Used(Unranked(older, evicted), p.key, Live \ evicted)
           evs(evicted) == Gated(Ended(evicted, "Evicted") \cup PacketEvents(p)
                                 \cup OwnEnd(p) \cup Ended(swept(evicted), "IdleTimeout"))
<1>1. PICK evicted \in Evictions(p) :
        /\ flows' = Without(tbl(evicted), expired(evicted))
        /\ older' = Unranked(order(evicted), Dies(p) \cup expired(evicted))
        /\ hot' = IF warm(evicted) \in swept(evicted) THEN None ELSE warm(evicted)
        /\ last_sweep' = IF sweeps THEN p.ts ELSE last_sweep
        /\ stats' = [stats EXCEPT
                       !.created = @ + (IF IsNew(p) THEN 1 ELSE 0),
                       !.evicted = @ + Cardinality(evicted),
                       !.ended = @ + Cardinality(evicted) + Cardinality(Dies(p))
                                   + Cardinality(swept(evicted))]
        /\ Report(evs(evicted))
        /\ UNCHANGED <<config, idle_fn, paused, forgotten, resized>>
  BY DEF TrackThen
<1> DEFINE D == DOMAIN tbl(evicted)
           X == expired(evicted)
           W == swept(evicted)
           E == evs(evicted)
           ends == {e \in E : e.ev = "Ended"}
<1>2. IsTable(tbl(evicted)) /\ D = ((Live \ evicted) \cup {p.key}) \ Dies(p)
  BY <1>0, TableOK
<1>3. X \in SUBSET D
  BY DEF Expired
<1>4. W = X
  BY <1>2 DEF Swept, Expired, IsTable, EntryOK
<1>6. IsTable(flows') /\ Live' = D \ X
  <2> HIDE DEF tbl, expired
  <2> QED BY <1>1, <1>2, WithoutTable DEF Live
<1>7. IsOrder(older', Live')
  <2>1. IsOrder(order(evicted), (Live \ evicted) \cup {p.key})
    BY UnrankedOrder, UsedOrder DEF Inv
  <2>2. IsOrder(older', ((Live \ evicted) \cup {p.key}) \ (Dies(p) \cup X))
    <3> HIDE DEF order, expired
    <3> QED BY <2>1, <1>1, UnrankedOrder
  <2>3. Live' = ((Live \ evicted) \cup {p.key}) \ (Dies(p) \cup X)
    <3> HIDE DEF D, X
    <3> QED BY <1>2, <1>6
  <2> QED
    BY <2>2, <2>3
<1>8. hot' \in Keys \cup {None} /\ HotIsLive'
  <2>1. warm(evicted) = None \/ warm(evicted) \in D
    <3>1. CASE Dies(p) = {}
      BY <3>1, <1>2
    <3>2. CASE Dies(p) # {}
      <4>1. Dies(p) = {p.key}
        BY <3>2 DEF Dies
      <4> HIDE DEF D
      <4> QED BY <3>2, <4>1, <1>2 DEF Cooled, Inv, HotIsLive
    <3> QED
      BY <3>1, <3>2
  <2>2. D \subseteq Keys
    BY <1>2 DEF IsTable
  <2> HIDE DEF D, X, warm, swept, expired
  <2>3. hot' = None \/ (hot' \in D /\ hot' \notin X)
    BY <2>1, <1>1, <1>4 DEF X, W
  <2> QED
    BY <2>2, <2>3, <1>6 DEF HotIsLive
<1>9. /\ IsFiniteSet(X) /\ Cardinality(X) \in Nat /\ Cardinality(Dies(p)) \in Nat
      /\ Cardinality(Live) \in Nat /\ Cardinality(Live') \in Nat
      /\ Cardinality(Live') + Cardinality(X) + Cardinality(Dies(p)) + Cardinality(evicted)
           = Cardinality(Live) + (IF IsNew(p) THEN 1 ELSE 0)
  <2> HIDE DEF X
  <2> QED BY <1>0, <1>3, <1>6, TrackCount
<1>10. Cardinality(evicted) \in {0, 1}
  BY <1>0, EvictedOK
<1>11. /\ E \subseteq Event /\ Cardinality(ends) \in Nat
       /\ DriverOwned => Cardinality(ends) = Cardinality(evicted) + Cardinality(Dies(p))
                                             + Cardinality(W)
  <2>1. W \in SUBSET DOMAIN Table(p, evicted)
    BY <1>3, <1>4
  <2> HIDE DEF swept
  <2> QED
    BY <1>0, <2>1, TrackEvents
<1>12. last_sweep' \in Times \cup {None, TsMax}
  BY <1>0, <1>1 DEF Inv, Scalars, Packet
<1> HIDE DEF D, X, W, E, tbl, expired, swept, warm, order, evs
<1>13. /\ stats' = [stats EXCEPT
                       !.created = @ + (IF IsNew(p) THEN 1 ELSE 0),
                       !.evicted = @ + Cardinality(evicted),
                       !.ended = @ + Cardinality(evicted) + Cardinality(Dies(p))
                                   + Cardinality(X)]
       /\ out' = E
       /\ reported' = reported + Cardinality(ends)
       /\ UNCHANGED <<config, idle_fn, paused, forgotten, resized>>
  BY <1>1, <1>4 DEF Report, W, E
<1> HIDE DEF ends
<1>14. Scalars'
  <2>1. stats' \in [created : Nat, ended : Nat, evicted : Nat, unmatched : Nat]
    <3> DEFINE c == stats.created + (IF IsNew(p) THEN 1 ELSE 0)
               v == stats.evicted + Cardinality(evicted)
               n == stats.ended + Cardinality(evicted) + Cardinality(Dies(p))
                      + Cardinality(X)
    <3>1. stats \in [created : Nat, ended : Nat, evicted : Nat, unmatched : Nat]
      BY DEF Inv, Scalars
    <3>2. c \in Nat /\ v \in Nat /\ n \in Nat
      BY <3>1, <1>9, <1>10
    <3>3. stats' = [stats EXCEPT !.created = c, !.evicted = v, !.ended = n]
      BY <1>13
    <3> HIDE DEF c, v, n
    <3> QED
      BY <3>1, <3>2, <3>3
  <2>2. reported' \in Nat /\ out' \subseteq Event
    BY <1>11, <1>13 DEF Inv, Scalars
  <2> QED
    BY <2>1, <2>2, <1>8, <1>12, <1>13 DEF Inv, Scalars
<1>15. FlowsConserved' /\ OwnerSeesEveryEnd'
  BY <1>4, <1>9, <1>10, <1>11, <1>13
     DEF Inv, Scalars, FlowsConserved, OwnerSeesEveryEnd
<1>16. WithinCapacity'
  BY <1>0, <1>9, <1>10, <1>13, EvictedOK, CapacityType
     DEF Inv, Scalars, WithinCapacity
<1> QED
  BY <1>6, <1>7, <1>8, <1>14, <1>15, <1>16 DEF Inv


------------------------------------------------------------------------------
(* The theorems                                                            *)

LEMMA InitInv ==
  ASSUME Init
  PROVE  Inv
<1>1. DOMAIN flows = {} /\ Live = {}
  BY DEF Init, Live
<1>2. IsTable(flows)
  BY <1>1, FS_EmptySet DEF IsTable, Init
<1>3. IsOrder(older, Live)
  BY <1>1 DEF IsOrder, Init
<1>4. Scalars
  BY DEF Scalars, Init
<1>5. Cardinality(Live) = 0
  BY <1>1, FS_EmptySet
<1>6. HotIsLive /\ FlowsConserved /\ OwnerSeesEveryEnd
  BY <1>5 DEF Init, HotIsLive, FlowsConserved, OwnerSeesEveryEnd
<1>7. WithinCapacity
  BY <1>4, <1>5, CapacityType DEF WithinCapacity, Scalars
<1> QED
  BY <1>2, <1>3, <1>4, <1>6, <1>7 DEF Inv

LEMMA NextInv ==
  ASSUME Inv, [Next]_vars
  PROVE  Inv'
<1>1. CASE \E p \in Sent : Track(p)
  BY <1>1, TrackInv DEF Track
<1>2. CASE (\E now \in Times : Sweep(now)) \/ Finish
  BY <1>2, SweepInv DEF Finish
<1>3. CASE \E k \in Keys : ForceClose(k)
  BY <1>3, ForceCloseInv
<1>4. CASE \E k \in Keys : Forget(k)
  BY <1>4, ForgetInv
<1>5. CASE \E c \in Configs : SetConfig(c)
  BY <1>5, SetConfigInv
<1>6. CASE \/ TrackUnmatched
           \/ \E f \in IdleFns : SetIdleTimeoutFn(f)
           \/ ClearIdleTimeoutFn
           \/ \E b \in BOOLEAN : PauseEvents(b)
  BY <1>6, SettingInv
<1>7. CASE UNCHANGED vars
  BY <1>7 DEF vars, Inv, Scalars, Live, HotIsLive, WithinCapacity, FlowsConserved,
              OwnerSeesEveryEnd
<1> QED
  BY <1>1, <1>2, <1>3, <1>4, <1>5, <1>6, <1>7 DEF Next

\* The inductive invariant holds in every reachable state.
THEOREM Invariance == Spec => []Inv
<1>1. Init => Inv
  BY InitInv
<1>2. Inv /\ [Next]_vars => Inv'
  BY NextInv
<1> QED
  BY <1>1, <1>2, PTL DEF Spec

\* Every variable of the tracker keeps its type.
THEOREM TypeCorrect == Spec => []TypeOK
<1>1. Inv => TypeOK
  <2> SUFFICES ASSUME Inv PROVE TypeOK
    OBVIOUS
  <2>1. Live \in SUBSET Keys /\ flows \in [Live -> Entry]
    BY DEF Inv, IsTable, EntryOK, Live
  <2> QED
    BY <2>1 DEF TypeOK, Inv, Scalars, IsOrder
<1> QED
  BY <1>1, Invariance, PTL

\* The hot key always names a live flow (the lookup behind it cannot panic),
\* the LRU order ranks the live flows strictly and totally, and they are
\* within max_flows whatever the configuration history.
THEOREM TableKept == Spec => []TableConsistent
<1>1. Inv => TableConsistent
  BY DEF Inv, IsOrder, TableConsistent, OrderRanksLive
<1> QED
  BY <1>1, Invariance, PTL

\* No flow is left in the table in a terminal state.
THEOREM NothingTerminal == Spec => []NoTerminalFlow
<1>1. Inv => NoTerminalFlow
  BY DEF Inv, IsTable, EntryOK, NoTerminalFlow, Live
<1> QED
  BY <1>1, Invariance, PTL

\* created = live + ended + forgotten + dropped by a resize, always.
THEOREM Conservation == Spec => []FlowsConserved
<1>1. Inv => FlowsConserved
  BY DEF Inv
<1> QED
  BY <1>1, Invariance, PTL

\* A flow is in ClosingTcp only after both sides sent a FIN.
THEOREM ClosingHasBothFins == Spec => []ClosingNeedsBothFins
<1>1. Inv => ClosingNeedsBothFins
  BY DEF Inv, IsTable, EntryOK, ClosingNeedsBothFins, Live
<1> QED
  BY <1>1, Invariance, PTL

\* An owning driver is handed one Ended per ended flow, whatever is masked.
THEOREM EveryEndReported == Spec => []OwnerSeesEveryEnd
<1>1. Inv => OwnerSeesEveryEnd
  BY DEF Inv
<1> QED
  BY <1>1, Invariance, PTL


Advances(e, f) ==
  Rank[f.st] >= Rank[e.st] /\ e.fin \subseteq f.fin /\ f.init = e.init

\* No TCP transition goes back.
LEMMA TransitionAdvances ==
  ASSUME NEW st \in FlowStates, NEW flags, NEW side, NEW other \in BOOLEAN
  PROVE  Rank[Transition(st, flags, side, other)] >= Rank[st]
  BY DEF Transition, Rank, FlowStates

LEMMA TouchedAdvances ==
  ASSUME Inv, NEW p \in Packet
  PROVE  Advances(Found(p), Touched(p))
<1> DEFINE e == Found(p)
           side == SideFor(e, p.dir)
           other_fin == (Sides \ {side}) \subseteq e.fin
           fin == IF "FIN" \in p.tcp THEN e.fin \cup {side} ELSE e.fin
           to == Transition(e.st, p.tcp, side, other_fin)
<1>1. e \in Entry /\ Rank[e.st] \in Nat
  BY FoundOK DEF EntryOK, Entry, Rank, FlowStates
<1>2. Rank[to] >= Rank[e.st]
  <2>1. other_fin \in BOOLEAN /\ e.st \in FlowStates
    BY <1>1 DEF Entry
  <2> HIDE DEF e, side, other_fin
  <2> QED BY <2>1, TransitionAdvances
<1>3. CASE p.tcp = None
  <2>1. Touched(p) = [e EXCEPT !.last_seen = p.ts]
    BY <1>3 DEF Touched
  <2> HIDE DEF e
  <2> QED BY <2>1, <1>1 DEF Advances, Entry, e
<1>4. CASE p.tcp # None
  <2>1. Touched(p) = [e EXCEPT !.last_seen = p.ts, !.fin = fin, !.st = to]
    BY <1>4 DEF Touched
  <2>2. e.fin \subseteq fin
    OBVIOUS
  <2> HIDE DEF e, fin, to
  <2>3. Touched(p).st = to /\ Touched(p).fin = fin /\ Touched(p).init = e.init
    BY <2>1, <1>1 DEF Entry
  <2> QED BY <2>2, <2>3, <1>2 DEF Advances, e
<1> QED
  BY <1>3, <1>4

\* A surviving flow's TCP state never moves back, its FINs are never
\* forgotten, its initiator never changes, and it comes to ClosingTcp only
\* after a FIN of each side.
THEOREM FlowsAdvance == Spec => FlowOnlyAdvances
<1> DEFINE Step == \A k \in Live \cap DOMAIN flows' : Advances(flows[k], flows'[k])
<1>1. ASSUME Inv, NEW k \in Live PROVE Advances(flows[k], flows[k])
  <2>1. flows[k] \in Entry
    BY <1>1 DEF Inv, IsTable, EntryOK, Live
  <2>2. Rank[flows[k].st] \in Nat
    BY <2>1 DEF Entry, Rank, FlowStates
  <2> QED BY <2>2 DEF Advances
<1>2. ASSUME Inv, NEW p \in Sent, Track(p) PROVE Step
  <2>0. p \in Packet
    BY DEF Sent
  <2>1. PICK evicted, gone : flows' = Without(Table(p, evicted), gone)
    BY <1>2 DEF Track, TrackThen
  <2>2. TAKE k \in Live \cap DOMAIN flows'
  <2>3. flows'[k] = IF k = p.key THEN Touched(p) ELSE flows[k]
    BY <2>1 DEF Without, Table
  <2>4. CASE k = p.key
    <3>1. Found(p) = flows[k]
      BY <1>2, <2>0, <2>4, KnownFlow DEF Found
    <3> QED BY <1>2, <2>0, <2>3, <2>4, <3>1, TouchedAdvances
  <2>5. CASE k # p.key
    BY <1>1, <1>2, <2>3, <2>5
  <2> QED
    BY <2>4, <2>5
<1>3. ASSUME Inv, NEW g, flows' = Without(flows, g) PROVE Step
  BY <1>1, <1>3 DEF Without, Live
<1>4. ASSUME Inv, flows' = flows PROVE Step
  BY <1>1, <1>4
<1>5. ASSUME Inv, [Next]_vars PROVE [Step]_vars
  <2>1. CASE \E p \in Sent : Track(p)
    BY <2>1, <1>2, <1>5
  <2>2. CASE \/ \E now \in Times : Sweep(now)
             \/ Finish
             \/ \E k \in Keys : ForceClose(k)
             \/ \E k \in Keys : Forget(k)
             \/ \E c \in Configs : SetConfig(c)
    <3>1. \E g : flows' = Without(flows, g)
      BY <2>2 DEF Sweep, Finish, ForceClose, Forget, SetConfig
    <3> QED BY <3>1, <1>3, <1>5
  <2>3. CASE \/ TrackUnmatched
             \/ \E f \in IdleFns : SetIdleTimeoutFn(f)
             \/ ClearIdleTimeoutFn
             \/ \E b \in BOOLEAN : PauseEvents(b)
             \/ UNCHANGED vars
    <3>1. flows' = flows
      BY <2>3 DEF TrackUnmatched, SetIdleTimeoutFn, ClearIdleTimeoutFn, PauseEvents, vars
    <3> QED BY <3>1, <1>4, <1>5
  <2> QED
    BY <2>1, <2>2, <2>3, <1>5 DEF Next
<1>6. ASSUME Inv' PROVE \A k \in DOMAIN flows' : flows'[k].st = "ClosingTcp" => flows'[k].fin = Sides
  BY <1>6 DEF Inv, IsTable, EntryOK
<1>7. Inv' /\ [Step]_vars => [\A k \in Live \cap DOMAIN flows' :
                        /\ Rank[flows'[k].st] >= Rank[flows[k].st]
                        /\ flows[k].fin \subseteq flows'[k].fin
                        /\ flows'[k].init = flows[k].init
                        /\ flows'[k].st = "ClosingTcp" => flows'[k].fin = Sides]_vars
  BY <1>6 DEF Advances
<1> QED
  BY <1>5, <1>7, Invariance, PTL DEF Spec, FlowOnlyAdvances

==============================================================================
