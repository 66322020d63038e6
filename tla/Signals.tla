------------------------------- MODULE Signals ------------------------------
(***************************************************************************)
(* The small per-key signal stores of correlate/:                          *)
(*                                                                         *)
(*   "bits"   xbits.rs  BitStore: named values with a deadline, per key    *)
(*   "burst"  burst.rs  BurstDetector: so many events of a kind within a   *)
(*                      window, with or without a trigger event after them *)
(*                                                                         *)
(* self   the store                                                        *)
(* past   for bits, what was accepted last under each key and name; for    *)
(*        bursts, the events since the last hit and the last hit           *)
(***************************************************************************)
EXTENDS Naturals, Sequences, FiniteSets

CONSTANTS Keys, Names, Values, Ttls, Times, MaxKeys, Threshold, Window, MaxEvents, None

VARIABLES self, past

NewBits == [kind |-> "bits", map |-> <<>>]
NewBurst(trigger) == [kind |-> "burst", trigger |-> trigger, state |-> <<>>]

Init ==
    \/ /\ self = NewBits
       /\ past = [k \in Keys |-> [n \in Names |-> None]]
    \/ \E trigger \in BOOLEAN :
          /\ self = NewBurst(trigger)
          /\ past = [events |-> [k \in Keys |-> <<>>], hit |-> None, seen |-> 0, latest |-> 0,
                      back |-> FALSE]

With(f, k, v) == [j \in DOMAIN f \cup {k} |-> IF j = k THEN v ELSE f[j]]
Without(f, ks) == [j \in DOMAIN f \ ks |-> f[j]]

-----------------------------------------------------------------------------
\* set_checked, set, set_flag: a new key is refused when the map is full,
\* expired bits included.
SetChecked(k, n, v, ttl, now) ==
    LET bit == [value |-> v, deadline |-> now + ttl]
    IN /\ self.kind = "bits"
       /\ \/ /\ k \in DOMAIN self.map
             /\ self' = [self EXCEPT !.map[k] = With(@, n, bit)]
             /\ past' = [past EXCEPT ![k][n] = bit]
          \/ /\ k \notin DOMAIN self.map
             /\ Cardinality(DOMAIN self.map) < MaxKeys
             /\ self' = [self EXCEPT !.map = With(@, k, With(<<>>, n, bit))]
             /\ past' = [past EXCEPT ![k][n] = bit]

BitAt(k, n, now) ==
    IF k \notin DOMAIN self.map \/ n \notin DOMAIN self.map[k] THEN None
    ELSE IF now >= self.map[k][n].deadline THEN None ELSE self.map[k][n].value

Dense(map) == Without(map, {k \in DOMAIN map : map[k] = <<>>})

Unset(k, n) ==
    /\ self.kind = "bits"
    /\ k \in DOMAIN self.map
    /\ self' = [self EXCEPT !.map = Dense([@ EXCEPT ![k] = Without(@, {n})])]
    /\ past' = [past EXCEPT ![k][n] = None]

Expire(now) ==
    /\ self.kind = "bits"
    /\ self' = [self EXCEPT !.map = Dense([k \in DOMAIN @ |->
                   Without(@[k], {n \in DOMAIN @[k] : now >= @[k][n].deadline})])]
    /\ past' = [k \in Keys |-> [n \in Names |->
                   IF past[k][n] # None /\ now >= past[k][n].deadline THEN None ELSE past[k][n]]]

-----------------------------------------------------------------------------
Cutoff(now) == IF now > Window THEN now - Window ELSE 0

\* drop_expired: from the front, up to the first that is recent enough.
DropExpired(q, now) ==
    LET recent == {i \in DOMAIN q : q[i] >= Cutoff(now)}
    IN IF recent = {} THEN <<>>
       ELSE SubSeq(q, CHOOSE i \in recent : \A j \in recent : i <= j, Len(q))

Purged(k, now) ==
    IF k \in DOMAIN self.state
    THEN [self.state EXCEPT ![k] = DropExpired(@, now)] ELSE self.state

\* The times of the calls so far: the latest, and whether any went back.
Clocked(now) ==
    [past EXCEPT !.latest = IF now > @ THEN now ELSE @, !.back = @ \/ now < past.latest]

\* Mutant: a hit leaves its events for the next one.
FiredAgain(k, state, events, now) ==
    /\ self' = [self EXCEPT !.state = state]
    /\ past' = [Clocked(now) EXCEPT !.events[k] = <<>>, !.seen = @ + 1,
                  !.hit = [key |-> k, count |-> Len(state[k]), at |-> now, events |-> events]]

Fired(k, state, events, now) ==
    /\ self' = [self EXCEPT !.state = With(state, k, <<>>)]
    /\ past' = [Clocked(now) EXCEPT !.events[k] = <<>>, !.seen = @ + 1,
                  !.hit = [key |-> k, count |-> Len(state[k]), at |-> now, events |-> events]]

Quiet(k, state, events, now) ==
    /\ self' = [self EXCEPT !.state = state]
    /\ past' = [Clocked(now) EXCEPT !.events[k] = events, !.seen = @ + 1, !.hit = None]

\* observe of a burst event.
ObserveBurst(k, now) ==
    /\ self.kind = "burst"
    /\ past.seen < MaxEvents
    /\ LET purged == Purged(k, now)
           state  == With(purged, k, Append(IF k \in DOMAIN purged THEN purged[k] ELSE <<>>, now))
           events == Append(past.events[k], now)
       IN \/ /\ ~self.trigger /\ Len(state[k]) = Threshold
             /\ Fired(k, state, events, now)
          \/ /\ self.trigger \/ Len(state[k]) # Threshold
             /\ Quiet(k, state, events, now)

\* observe of the trigger event.
ObserveTrigger(k, now) ==
    /\ self.kind = "burst" /\ self.trigger
    /\ past.seen < MaxEvents
    /\ LET state == Purged(k, now)
       IN \/ /\ k \in DOMAIN state /\ Len(state[k]) >= Threshold
             /\ Fired(k, state, past.events[k], now)
          \/ /\ k \in DOMAIN state => Len(state[k]) < Threshold
             /\ Quiet(k, state, past.events[k], now)

EvictExpired(now) ==
    /\ self.kind = "burst"
    /\ self' = [self EXCEPT !.state = Dense([k \in DOMAIN @ |-> DropExpired(@[k], now)])]
    /\ past' = [Clocked(now) EXCEPT !.hit = None]

Next ==
    \/ \E k \in Keys, n \in Names, v \in Values, ttl \in Ttls, now \in Times : SetChecked(k, n, v, ttl, now)
    \/ \E k \in Keys, n \in Names : Unset(k, n)
    \/ \E now \in Times : Expire(now) \/ EvictExpired(now)
    \/ \E k \in Keys, now \in Times : ObserveBurst(k, now) \/ ObserveTrigger(k, now)

-----------------------------------------------------------------------------
(***************************************************************************)
(* A bit that was accepted reads as the last value set, until its deadline *)
(* and not after, whatever else expires or is unset.  A burst hit stands   *)
(* on at least Threshold events of that key that no earlier hit used; with *)
(* timestamps in order, they are exactly the events within the window.     *)
(* (BitStore, BurstDetector::observe.)                                     *)
(***************************************************************************)
SignalIsReal ==
    /\ self.kind = "bits" =>
          /\ Cardinality(DOMAIN self.map) <= MaxKeys
          /\ \A k \in Keys, n \in Names, now \in Times :
                BitAt(k, n, now) = (IF past[k][n] = None \/ now >= past[k][n].deadline THEN None
                                    ELSE past[k][n].value)
    /\ (self.kind = "burst" /\ past.hit # None) =>
          LET hit    == past.hit
              recent == {i \in DOMAIN hit.events : hit.events[i] >= Cutoff(hit.at)}
          IN /\ Threshold <= hit.count /\ hit.count <= Len(hit.events)
             /\ ~past.back => hit.count = Cardinality(recent)
=============================================================================
