---------------------------- MODULE FoldTheorems ----------------------------
(***************************************************************************)
(* Induction over the natural numbers and along a sequence of steps, in    *)
(* the form the proofs about folds and loops use it: what holds is a set   *)
(* of numbers, and a step a function.  And what sequences are made of.     *)
(***************************************************************************)
EXTENDS Integers, Sequences, WellFoundedInduction, TLAPS

\* A sequence has a length, and an element at each of its places.
LEMMA SeqIs ==
  ASSUME NEW S, NEW s \in Seq(S)
  PROVE  Len(s) \in Nat /\ DOMAIN s = 1..Len(s) /\ s \in [1..Len(s) -> S]
  OBVIOUS

LEMMA ElementIn ==
  ASSUME NEW S, NEW s \in Seq(S), NEW i \in 1..Len(s)
  PROVE  s[i] \in S
  OBVIOUS

\* Two sequences with the same elements are the same.
LEMMA SameElements ==
  ASSUME NEW S, NEW s \in Seq(S), NEW t \in Seq(S), Len(s) = Len(t),
         \A i \in 1..Len(s) : s[i] = t[i]
  PROVE  s = t
  OBVIOUS

LEMMA EmptyIs ==
  ASSUME NEW S
  PROVE  <<>> \in Seq(S) /\ Len(<<>>) = 0 /\ \A s \in Seq(S) : s # <<>> => Len(s) \in Nat \ {0}
  OBVIOUS

LEMMA JoinIs ==
  ASSUME NEW S, NEW s \in Seq(S), NEW t \in Seq(S)
  PROVE  /\ s \o t \in Seq(S) /\ Len(s \o t) = Len(s) + Len(t)
         /\ \A i \in 1..Len(s) + Len(t) :
              (s \o t)[i] = IF i <= Len(s) THEN s[i] ELSE t[i - Len(s)]
  OBVIOUS

LEMMA JoinEmpty ==
  ASSUME NEW S, NEW s \in Seq(S)
  PROVE  s \o <<>> = s /\ <<>> \o s = s
  OBVIOUS

LEMMA JoinAgain ==
  ASSUME NEW S, NEW s \in Seq(S), NEW t \in Seq(S), NEW u \in Seq(S)
  PROVE  (s \o t) \o u = s \o (t \o u)
  OBVIOUS

LEMMA PartIs ==
  ASSUME NEW S, NEW s, NEW m \in Int, NEW n \in Int, \A i \in m..n : s[i] \in S
  PROVE  /\ SubSeq(s, m, n) \in Seq(S)
         /\ Len(SubSeq(s, m, n)) = IF m <= n THEN n - m + 1 ELSE 0
         /\ \A i \in 1..n - m + 1 : SubSeq(s, m, n)[i] = s[m + i - 1]
  OBVIOUS

LEMMA AppendedIs ==
  ASSUME NEW S, NEW s \in Seq(S), NEW e \in S
  PROVE  /\ Append(s, e) \in Seq(S) /\ Append(s, e) # <<>> /\ Len(Append(s, e)) = Len(s) + 1
         /\ \A i \in 1..Len(s) : Append(s, e)[i] = s[i]
         /\ Append(s, e)[Len(s) + 1] = e /\ Append(s, e) = s \o <<e>>
  OBVIOUS

\* A set of natural numbers has a least one.
LEMMA LeastOf ==
  ASSUME NEW T, T \subseteq Nat, T # {}
  PROVE  \E m \in T : \A k \in T : m <= k
<1> DEFINE R == OpToRel(<, Nat)
<1>1. IsWellFoundedOn(R, Nat)
  BY NatLessThanWellFounded
<1> HIDE DEF R
<1>2. PICK m \in T : \A k \in T : ~(<<k, m>> \in R)
  BY <1>1, WFMin
<1>3. \A k \in T : ~(k < m)
  BY <1>2 DEF R, OpToRel
<1> QED
  BY <1>3

\* What holds at 0 and is kept from each number to the next holds up to N.
LEMMA Upwards ==
  ASSUME NEW N \in Nat, NEW good, 0 \in good, \A m \in 1..N : m - 1 \in good => m \in good
  PROVE  N \in good /\ \A m \in 0..N : m \in good
<1> DEFINE bad == {m \in 0..N : m \notin good}
<1>1. bad = {}
  <2> SUFFICES ASSUME bad # {} PROVE FALSE
    OBVIOUS
  <2>1. bad \subseteq Nat
    OBVIOUS
  <2>2. PICK m \in bad : \A k \in bad : m <= k
    <3> HIDE DEF bad
    <3> QED BY <2>1, LeastOf
  <2>3. m \in 0..N /\ m \notin good /\ m # 0
    BY <2>2
  <2>4. m \in 1..N /\ m - 1 \in 0..N
    BY <2>3
  <2>5. m - 1 \in good
    BY <2>2, <2>4
  <2> QED BY <2>3, <2>4, <2>5
<1> QED
  BY <1>1

\* Values of V, the first one `b`, each from the one before by the step h[n].
IsFold(g, N, V, b, h) ==
  g \in [0..N -> V] /\ g[0] = b /\ \A n \in 1..N : g[n] = h[n][g[n - 1]]

\* A fold exists, whatever the steps.
LEMMA FoldExists ==
  ASSUME NEW N \in Nat, NEW V, NEW b \in V, NEW h \in [1..N -> [V -> V]]
  PROVE  \E g : IsFold(g, N, V, b, h)
<1> DEFINE Has(m) == \E g \in [0..m -> V] : g[0] = b /\ \A n \in 1..m : g[n] = h[n][g[n - 1]]
           good == {m \in 0..N : Has(m)}
<1>1. Has(0)
  <2> DEFINE g == [i \in 0..0 |-> b]
  <2>1. g \in [0..0 -> V] /\ g[0] = b /\ 1..0 = {}
    OBVIOUS
  <2> QED BY <2>1
<1>2. ASSUME NEW m \in 1..N, Has(m - 1) PROVE Has(m)
  <2>1. PICK g \in [0..(m - 1) -> V] : g[0] = b /\ \A n \in 1..(m - 1) : g[n] = h[n][g[n - 1]]
    BY <1>2
  <2> DEFINE v == h[m][g[m - 1]]
             f == [i \in 0..m |-> IF i = m THEN v ELSE g[i]]
  <2>2. m - 1 \in 0..(m - 1) /\ g[m - 1] \in V
    BY <2>1
  <2>3. v \in V
    BY <2>2
  <2>4. \A i \in 0..m : i # m => i \in 0..(m - 1)
    OBVIOUS
  <2>5. f \in [0..m -> V] /\ f[0] = b
    BY <2>1, <2>3, <2>4
  <2>6. ASSUME NEW n \in 1..m PROVE f[n] = h[n][f[n - 1]]
    <3>1. n \in 0..m /\ n - 1 \in 0..m /\ n - 1 # m /\ n - 1 \in 0..(m - 1)
      OBVIOUS
    <3>2. f[n - 1] = g[n - 1]
      BY <3>1
    <3>3. CASE n = m
      BY <3>1, <3>2, <3>3
    <3>4. CASE n # m
      <4>1. n \in 1..(m - 1)
        BY <3>4
      <4> QED BY <2>1, <3>1, <3>2, <3>4, <4>1
    <3> QED BY <3>3, <3>4
  <2> QED BY <2>5, <2>6
<1> HIDE DEF Has
<1>3. 0 \in good /\ \A m \in 1..N : m - 1 \in good => m \in good
  BY <1>1, <1>2
<1>4. N \in good
  <2> HIDE DEF good
  <2> QED BY <1>3, Upwards
<1> QED
  BY <1>4 DEF Has, IsFold

=============================================================================
