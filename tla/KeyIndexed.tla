----------------------------- MODULE KeyIndexed -----------------------------
(***************************************************************************)
(* correlate/indexed.rs: the LRU-bounded map with a time to live that most *)
(* stores of the repository are built on.  An entry is a value and the     *)
(* time it was inserted; it is expired once it is older than the TTL, and  *)
(* an expired entry stays in the map, invisible, until it is evicted.      *)
(* Every operator takes the map, its TTL or its capacity as the code's     *)
(* method takes `self`.                                                    *)
(*                                                                         *)
(* It is kept in the `lru` crate's LruCache, external to the repository: a *)
(* partial map with an order of use.  `get`, `get_mut` and `put` make the  *)
(* key the most recently used one, `peek` and `contains` do not, and `put` *)
(* or `push` of a new key into a full cache drops the least recently used. *)
(* A cache is a record                                                     *)
(*                                                                         *)
(*   at     the entries, a function whose domain is the set of live keys   *)
(*   older  the pairs <<j, k>> of live keys where j was used before k      *)
(***************************************************************************)
EXTENDS Naturals, FiniteSets

-----------------------------------------------------------------------------
(* LruCache                                                                *)

EmptyLru == [at |-> <<>>, older |-> {}]

Live(c) == DOMAIN c.at

\* The entries and the order without the keys in `gone`: pop, pop_entry.
Drop(c, gone) ==
    [at    |-> [k \in Live(c) \ gone |-> c.at[k]],
     older |-> {p \in c.older : p[1] \notin gone /\ p[2] \notin gone}]

\* get, get_mut: the key becomes the most recently used one.
Touch(c, k) ==
    IF k \notin Live(c) THEN c
    ELSE [c EXCEPT !.older =
            {p \in c.older : p[1] # k /\ p[2] # k} \cup ((Live(c) \ {k}) \X {k})]

\* The least recently used keys: pop_lru and a full put drop them.
LeastRecent(c) == {k \in Live(c) : \A j \in Live(c) : <<j, k>> \notin c.older}

\* Replace the entry of a live key, without moving it in the order.
Poke(c, k, v) == [c EXCEPT !.at[k] = v]

\* put, push: replace, or insert after dropping the least recently used key
\* of a full cache.
Put(c, k, v, capacity) ==
    LET room == IF k \notin Live(c) /\ Cardinality(Live(c)) >= capacity
                THEN Drop(c, LeastRecent(c)) ELSE c
    IN [at    |-> [j \in Live(room) \cup {k} |-> IF j = k THEN v ELSE room.at[j]],
        older |-> {p \in room.older : p[1] # k /\ p[2] # k}
                    \cup ((Live(room) \ {k}) \X {k})]

-----------------------------------------------------------------------------
(* KeyIndexed                                                              *)

\* Timestamp::saturating_sub: zero when the clock went back.
Elapsed(now, then) == IF now > then THEN now - then ELSE 0

Expired(m, k, now, ttl) == Elapsed(now, m.at[k].ts) > ttl

\* peek: what the caller sees under k.
Holds(m, k, now, ttl) == k \in Live(m) /\ ~Expired(m, k, now, ttl)

Insert(m, k, v, ts, capacity) == Put(m, k, [val |-> v, ts |-> ts], capacity)

\* Mutant: a lookup that does not promote.
GetMutAsPeek(m, k) == m

\* get and get_mut: the order of use moves even when the entry is expired
\* and nothing is returned.
GetMut(m, k) == Touch(m, k)

\* Write through the reference get_mut returns: the time is not renewed.
WriteBack(m, k, v) == Poke(m, k, [m.at[k] EXCEPT !.val = v])

RemoveKey(m, k) == Drop(m, {k})

\* evict_expired, drain_expired, drain_expired_into.
Stale(m, now, ttl) == {k \in Live(m) : Expired(m, k, now, ttl)}

EvictExpired(m, now, ttl) == Drop(m, Stale(m, now, ttl))
=============================================================================
