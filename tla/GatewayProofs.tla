---------------------------- MODULE GatewayProofs ---------------------------
(***************************************************************************)
(* Every rate limit is kept, for every set of limits, senders and capacity *)
(* of the limiter's Map; and at the gateway, which consults the limiter,   *)
(* credentials and approvals are used once, for every set of requests,     *)
(* routes and concurrent calls and every capacity of the store, and no     *)
(* more passes within a window than the limit allows.                      *)
(***************************************************************************)
EXTENDS Gateway, ListProofs, TLAPS

(***************************************************************************)
(* The rate limiter's lists                                                *)
(***************************************************************************)

Sorted(w) == \A i, j \in 1 .. Len(w) : i < j => w[i] <= w[j]

UpTo(w, now) == \A i \in 1 .. Len(w) : w[i] <= now

Distinct(o) == o \in Seq(Senders) /\ Once(o)

(* l and w have the same instants after cut. *)
SameAfter(l, w, cut) == \A c \in Int : c >= cut => CountIn(l, After(c)) = CountIn(w, After(c))

Policy(p) == p.requests \in Nat /\ p.windowMs \in Nat

(* The instants a request is judged by: all those in its window, in order. *)
LEMMA LiveCounts ==
  ASSUME NEW w \in Seq(Nat), NEW p, Policy(p), NEW now \in Nat,
         NEW cut, cut = now - p.windowMs, NEW l, l = Live(w, p, now)
  PROVE  /\ cut \in Int /\ l \in Seq(Nat) /\ Len(l) = CountIn(w, After(cut))
         /\ SameAfter(l, w, cut)
         /\ Sorted(w) => Sorted(l)
         /\ UpTo(w, now) => UpTo(l, now)
<1>1. PICK at : at = {i \in 1 .. Len(w) : w[i] > cut}
  OBVIOUS
<1>2. cut \in Int /\ at \subseteq 1 .. Len(w)
  BY <1>1 DEF Policy
<1>3. l = Picked(w, at)
  <2>1. DOMAIN w = 1 .. Len(w)
    OBVIOUS
  <2> QED BY <1>1, <2>1 DEF Live
<1>4. at = Where(w, After(cut))
  <2>1. \A i \in 1 .. Len(w) : w[i] \in Int
    OBVIOUS
  <2> QED BY <1>1, <2>1 DEF After, Where
<1>5. l \in Seq(Nat) /\ Len(l) = CountIn(w, After(cut))
  BY <1>3, <1>4, CountPicked
<1>6. ASSUME NEW c \in Int, c >= cut PROVE CountIn(l, After(c)) = CountIn(w, After(c))
  <2>1. \A e \in Nat : e \in After(c) => e \in After(cut)
    BY <1>2, <1>6 DEF After
  <2>2. PICK C, D : C = After(c) /\ D = After(cut)
    OBVIOUS
  <2>3. (\A e \in Nat : e \in C => e \in D) /\ l = Picked(w, Where(w, D))
    BY <1>3, <1>4, <2>1, <2>2
  <2>4. CountIn(l, C) = CountIn(w, C)
    BY <2>3, CountPicked
  <2> QED BY <2>2, <2>4
<1>7. PICK m, where : /\ m = Cardinality(at) /\ Places(w, at, where) /\ Len(l) = m
  BY <1>2, <1>3, PickedPlaces
<1>8. /\ m = Len(l) /\ where \in [1 .. m -> at] /\ \A x \in 1 .. m : l[x] = w[where[x]]
      /\ \A x, y \in 1 .. m : x < y => where[x] < where[y]
  BY <1>3, <1>7 DEF Places, Bijection, Injection, Surjection
<1>9. ASSUME Sorted(w) PROVE Sorted(l)
  <2>1. SUFFICES ASSUME NEW x \in 1 .. m, NEW y \in 1 .. m, x < y PROVE l[x] <= l[y]
    BY <1>8 DEF Sorted
  <2>2. where[x] \in 1 .. Len(w) /\ where[y] \in 1 .. Len(w) /\ where[x] < where[y]
    BY <1>2, <1>8, <2>1
  <2> QED BY <1>8, <1>9, <2>2 DEF Sorted
<1>10. ASSUME UpTo(w, now) PROVE UpTo(l, now)
  BY <1>2, <1>8, <1>10 DEF UpTo
<1> QED BY <1>2, <1>5, <1>6, <1>9, <1>10 DEF SameAfter

(* The window stored: the request's instant is added if it is allowed. *)
LEMMA WindowCounts ==
  ASSUME NEW w \in Seq(Nat), NEW p, Policy(p), NEW now \in Nat, Sorted(w), UpTo(w, now),
         NEW r, r = WindowAfter(w, p, now)
  PROVE  /\ r \in Seq(Nat) /\ Sorted(r) /\ UpTo(r, now)
         /\ \A c \in Int : c >= now - p.windowMs =>
              CountIn(r, After(c)) =
                IF Allowed(w, p, now) /\ now > c THEN CountIn(w, After(c)) + 1
                ELSE CountIn(w, After(c))
         /\ CountIn(w, After(now - p.windowMs)) <= p.requests =>
              CountIn(r, After(now - p.windowMs)) <= p.requests
         /\ r = << >> => ~Allowed(w, p, now)
         /\ Allowed(w, p, now) <=> CountIn(w, After(now - p.windowMs)) < p.requests
<1>1. PICK cut, l : cut = now - p.windowMs /\ l = Live(w, p, now)
  OBVIOUS
<1>a. /\ cut \in Int /\ l \in Seq(Nat) /\ Len(l) = CountIn(w, After(cut))
      /\ SameAfter(l, w, cut) /\ Sorted(l) /\ UpTo(l, now)
  BY <1>1, LiveCounts
<1>2. /\ cut \in Int /\ l \in Seq(Nat) /\ Len(l) = CountIn(w, After(cut))
      /\ \A c \in Int : c >= cut => CountIn(l, After(c)) = CountIn(w, After(c))
      /\ Sorted(l) /\ UpTo(l, now)
  BY <1>a DEF SameAfter
<1>3. Allowed(w, p, now) <=> CountIn(w, After(cut)) < p.requests
  BY <1>1, <1>2 DEF Allowed
<1>4. CountIn(w, After(cut)) \in Nat /\ p.requests \in Nat /\ p.windowMs \in Nat
  BY CountType DEF Policy
<1>5. CASE ~Allowed(w, p, now)
  <2>1. r = l
    BY <1>1, <1>5 DEF WindowAfter
  <2>2. cut >= cut
    BY <1>2
  <2> QED BY <1>1, <1>2, <1>3, <1>4, <1>5, <2>1, <2>2
<1>6. CASE Allowed(w, p, now)
  <2>1. r = Append(l, now)
    BY <1>1, <1>6 DEF WindowAfter
  <2>2. r \in Seq(Nat) /\ Len(r) = Len(l) + 1 /\ r[Len(l) + 1] = now
        /\ \A i \in 1 .. Len(l) : r[i] = l[i]
    BY <1>2, <2>1
  <2>3. Sorted(r) /\ UpTo(r, now)
    <3>0. Len(l) \in Nat /\ \A i \in 1 .. Len(r) : i = Len(l) + 1 \/ i \in 1 .. Len(l)
      BY <1>2, <2>2
    <3>1. UpTo(r, now)
      <4>1. SUFFICES ASSUME NEW i \in 1 .. Len(r) PROVE r[i] <= now
        BY DEF UpTo
      <4>2. CASE i = Len(l) + 1
        BY <2>2, <4>2
      <4>3. CASE i \in 1 .. Len(l)
        BY <1>2, <2>2, <4>3 DEF UpTo
      <4> QED BY <3>0, <4>2, <4>3
    <3>2. SUFFICES ASSUME NEW i \in 1 .. Len(r), NEW j \in 1 .. Len(r), i < j PROVE r[i] <= r[j]
      BY <3>1 DEF Sorted
    <3>3. i \in 1 .. Len(l)
      BY <3>0, <3>2, <2>2
    <3>4. CASE j = Len(l) + 1
      BY <3>1, <3>4, <2>2 DEF UpTo
    <3>5. CASE j \in 1 .. Len(l)
      BY <1>2, <2>2, <3>2, <3>3, <3>5 DEF Sorted
    <3> QED BY <3>0, <3>4, <3>5
  <2>4. ASSUME NEW c \in Int, c >= cut
        PROVE CountIn(r, After(c)) = IF now > c THEN CountIn(w, After(c)) + 1
                                     ELSE CountIn(w, After(c))
    <3>1. now \in After(c) <=> now > c
      BY DEF After
    <3>2. CountIn(r, After(c)) = IF now \in After(c) THEN CountIn(l, After(c)) + 1
                                 ELSE CountIn(l, After(c))
      <4>1. PICK C : C = After(c)
        OBVIOUS
      <4>2. CountIn(r, C) = IF now \in C THEN CountIn(l, C) + 1 ELSE CountIn(l, C)
        BY ONLY now \in Nat, <1>a, <2>1, CountAppend
      <4> QED BY <4>1, <4>2
    <3> QED BY <1>2, <2>4, <3>1, <3>2
  <2>5. CountIn(r, After(cut)) <= p.requests
    <3>1. cut >= cut /\ cut \in Int
      BY <1>2
    <3>2. CountIn(r, After(cut)) = IF now > cut THEN CountIn(w, After(cut)) + 1
                                   ELSE CountIn(w, After(cut))
      BY <2>4, <3>1
    <3> QED BY <3>2, <1>3, <1>4, <1>6
  <2>6. r # << >>
    BY <2>2, <1>2
  <2> QED BY <1>1, <1>3, <1>6, <2>2, <2>3, <2>4, <2>5, <2>6
<1> QED BY <1>5, <1>6

LEMMA TrackedIs ==
  ASSUME NEW o PROVE \A k : k \in Tracked(o) <=> \E i \in 1 .. Len(o) : o[i] = k
BY DEF Tracked

LEMMA DistinctTracked ==
  ASSUME NEW o, Distinct(o)
  PROVE  /\ Tracked(o) \subseteq Senders /\ IsFiniteSet(Tracked(o))
         /\ Len(o) \in Nat /\ Cardinality(Tracked(o)) = Len(o)
<1>1. o \in Seq(Senders) /\ Once(o)
  BY DEF Distinct
<1>2. \A i \in 1 .. Len(o) : o[i] \in Senders
  BY <1>1
<1>3. Tracked(o) \subseteq Senders
  BY <1>2, TrackedIs
<1>4. /\ IsFiniteSet({o[i] : i \in 1 .. Len(o)})
      /\ Cardinality({o[i] : i \in 1 .. Len(o)}) = Len(o)
  BY <1>1, DistinctCount
<1>5. IsFiniteSet(Tracked(o)) /\ Cardinality(Tracked(o)) = Len(o)
  BY <1>4 DEF Tracked
<1> QED BY <1>1, <1>3, <1>5

(* Part of a list of distinct senders. *)
LEMMA PickedDistinct ==
  ASSUME NEW o, Distinct(o), NEW at, at \subseteq 1 .. Len(o)
  PROVE  /\ Distinct(Picked(o, at)) /\ Len(Picked(o, at)) = Cardinality(at)
         /\ Len(o) \in Nat /\ Cardinality(at) \in Nat /\ Cardinality(at) <= Len(o)
         /\ \A k : k \in Tracked(Picked(o, at)) <=> \E i \in at : o[i] = k
<1>1. o \in Seq(Senders) /\ Len(o) \in Nat
  BY DEF Distinct
<1>2. PICK q : q = Picked(o, at)
  OBVIOUS
<1>3. q \in Seq(Senders) /\ Len(q) = Cardinality(at)
  BY <1>1, <1>2, PickedPlaces
<1>4. TakenFrom(q, o, at) /\ Once(q)
  BY <1>1, <1>2, PickedElements DEF Distinct
<1>5. \A k : k \in Tracked(q) <=> \E i \in at : o[i] = k
  <2>1. /\ \A x \in 1 .. Len(q) : \E i \in at : q[x] = o[i]
        /\ \A i \in at : \E x \in 1 .. Len(q) : q[x] = o[i]
    BY <1>4 DEF TakenFrom
  <2>2. \A k : k \in Tracked(q) <=> \E x \in 1 .. Len(q) : q[x] = k
    BY TrackedIs
  <2>3. ASSUME NEW k \in Tracked(q) PROVE \E i \in at : o[i] = k
    <3>1. PICK x \in 1 .. Len(q) : q[x] = k
      BY <2>2, <2>3
    <3>2. PICK i \in at : q[x] = o[i]
      BY <2>1
    <3> QED BY <3>1, <3>2
  <2>4. ASSUME NEW i \in at PROVE o[i] \in Tracked(q)
    <3>1. PICK x \in 1 .. Len(q) : q[x] = o[i]
      BY <2>1
    <3> QED BY <2>2, <3>1
  <2> QED BY <2>3, <2>4
<1>6. Cardinality(at) \in Nat /\ Cardinality(at) <= Len(o)
  BY <1>1, PositionsFinite
<1> QED BY <1>1, <1>2, <1>3, <1>4, <1>5, <1>6 DEF Distinct

LEMMA WithoutTracked ==
  ASSUME NEW o, Distinct(o), NEW S
  PROVE  /\ Distinct(Without(o, S)) /\ Tracked(Without(o, S)) = Tracked(o) \ S
         /\ Len(Without(o, S)) <= Len(o)
<1>1. PICK at : at = {i \in DOMAIN o : o[i] \notin S}
  OBVIOUS
<1>2. Without(o, S) = Picked(o, at)
  BY <1>1 DEF Without
<1>3. at \subseteq 1 .. Len(o) /\ DOMAIN o = 1 .. Len(o)
  BY <1>1 DEF Distinct
<1>4. \A k : (\E i \in at : o[i] = k) <=> (k \in Tracked(o) /\ k \notin S)
  BY <1>1, <1>3 DEF Tracked
<1>5. /\ Distinct(Picked(o, at)) /\ Len(Picked(o, at)) <= Len(o)
      /\ \A k : k \in Tracked(Picked(o, at)) <=> \E i \in at : o[i] = k
  BY <1>3, PickedDistinct
<1>6. Tracked(Picked(o, at)) = Tracked(o) \ S
  BY <1>4, <1>5
<1> QED BY <1>2, <1>5, <1>6

LEMMA TouchedTracked ==
  ASSUME NEW o, Distinct(o), NEW k \in Senders
  PROVE  Distinct(Touched(o, k)) /\ Tracked(Touched(o, k)) = Tracked(o) \cup {k}
<1>1. PICK q, r : q = Without(o, {k}) /\ r = Append(q, k)
  OBVIOUS
<1>2. Distinct(q) /\ Tracked(q) = Tracked(o) \ {k}
  BY <1>1, WithoutTracked
<1>3. q \in Seq(Senders) /\ Len(q) \in Nat /\ \A i \in 1 .. Len(q) : q[i] # k
  <2>1. q \in Seq(Senders) /\ Len(q) \in Nat
    BY <1>2 DEF Distinct
  <2>2. \A i \in 1 .. Len(q) : q[i] \in Tracked(q)
    BY DEF Tracked
  <2> QED BY <1>2, <2>1, <2>2
<1>4. /\ r \in Seq(Senders) /\ Len(r) = Len(q) + 1 /\ r[Len(q) + 1] = k
      /\ \A i \in 1 .. Len(q) : r[i] = q[i]
      /\ \A i : i \in 1 .. Len(q) + 1 <=> (i \in 1 .. Len(q) \/ i = Len(q) + 1)
  BY <1>1, <1>3
<1>5. Distinct(r)
  BY <1>2, <1>3, <1>4 DEF Distinct, Once
<1>6. Tracked(r) = Tracked(q) \cup {k}
  BY <1>4 DEF Tracked
<1>7. Touched(o, k) = r
  BY <1>1 DEF Touched
<1> QED BY <1>2, <1>5, <1>6, <1>7

(* One eviction loop: only senders of S go, none of them when the Map is   *)
(* within its bound, and all of them if it is still over it.               *)
LEMMA EvictTracked ==
  ASSUME NEW o, Distinct(o), NEW S
  PROVE  /\ Distinct(Evict(o, S)) /\ Len(Evict(o, S)) \in Nat /\ Len(o) \in Nat
         /\ Len(Evict(o, S)) <= Len(o)
         /\ Tracked(Evict(o, S)) \subseteq Tracked(o)
         /\ Tracked(o) \ S \subseteq Tracked(Evict(o, S))
         /\ Len(o) <= maxKeys => Tracked(Evict(o, S)) = Tracked(o)
         /\ Len(Evict(o, S)) > maxKeys => Tracked(Evict(o, S)) \cap S = {}
<1>0. o \in Seq(Senders) /\ Len(o) \in Nat /\ DOMAIN o = 1 .. Len(o) /\ maxKeys \in Nat
  BY RateLimiterAssumption DEF Distinct
<1>1. PICK n, cand, victims, at, e :
        /\ n = Len(o)
        /\ cand = {i \in 1 .. n : o[i] \in S}
        /\ victims = {i \in cand : Rank(cand, i) <= n - maxKeys}
        /\ at = (1 .. n) \ victims
        /\ e = Picked(o, at)
  OBVIOUS
<1>2. Evict(o, S) = e
  BY <1>0, <1>1 DEF Evict
<1>3. n \in Nat /\ cand \subseteq 1 .. n /\ victims \subseteq cand /\ at \subseteq 1 .. n
  BY <1>0, <1>1
<1>4. /\ Distinct(e) /\ Len(e) = Cardinality(at)
      /\ \A k : k \in Tracked(e) <=> \E i \in at : o[i] = k
      /\ Cardinality(at) \in Nat /\ Cardinality(at) <= n
  BY <1>1, <1>3, PickedDistinct
<1>5. Tracked(e) \subseteq Tracked(o)
  BY <1>1, <1>3, <1>4 DEF Tracked
<1>6. Tracked(o) \ S \subseteq Tracked(e)
  <2>1. SUFFICES ASSUME NEW k \in Tracked(o), k \notin S PROVE k \in Tracked(e)
    OBVIOUS
  <2>a. PICK i \in 1 .. n : o[i] = k
    BY <1>1, TrackedIs
  <2>2. i \in at
    BY <1>1, <1>3, <2>1, <2>a
  <2> QED BY <1>4, <2>2, <2>a
<1>7. ASSUME n <= maxKeys PROVE Tracked(e) = Tracked(o)
  <2>1. victims = {}
    <3>1. SUFFICES ASSUME NEW i \in cand PROVE ~(Rank(cand, i) <= n - maxKeys)
      BY <1>1
    <3>2. Rank(cand, i) \in 1 .. Cardinality(cand) /\ Cardinality(cand) \in Nat
      BY <1>3, RankOnce, PositionsFinite
    <3> QED BY <3>2, <1>0, <1>3, <1>7
  <2> QED BY <2>1, <1>1, <1>4 DEF Tracked
<1>8. ASSUME Cardinality(at) > maxKeys PROVE victims = cand
  <2>1. /\ IsFiniteSet(victims) /\ Cardinality(victims) \in Nat
        /\ IsFiniteSet(cand) /\ Cardinality(cand) \in Nat
    BY <1>3, PositionsFinite, CountSubset
  <2>2. Cardinality(at) = n - Cardinality(victims)
    <3>1. IsFiniteSet(1 .. n) /\ Cardinality(1 .. n) = n
      BY <1>3, FS_Interval
    <3>2. (1 .. n) \cap victims = victims
      BY <1>3
    <3>3. Cardinality((1 .. n) \ victims) = Cardinality(1 .. n) - Cardinality((1 .. n) \cap victims)
      BY <3>1, FS_Difference
    <3> QED BY <1>1, <3>1, <3>2, <3>3
  <2>3. Cardinality(victims) < n - maxKeys /\ n - maxKeys \in Int
    BY <1>0, <1>3, <1>8, <2>1, <2>2
  <2>4. ~(n - maxKeys <= Cardinality(cand))
    <3>1. SUFFICES ASSUME n - maxKeys <= Cardinality(cand) PROVE FALSE
      OBVIOUS
    <3>2. PICK m : m = n - maxKeys
      OBVIOUS
    <3>3. m \in Int /\ m <= Cardinality(cand)
      BY <2>3, <3>1, <3>2
    <3>4. Cardinality({i \in cand : Rank(cand, i) <= m}) >= m
      BY <1>3, <3>3, FirstRanked
    <3>5. Cardinality(victims) >= m
      BY <1>1, <3>2, <3>4
    <3> QED BY <2>1, <2>3, <3>2, <3>5
  <2>5. ASSUME NEW i \in cand PROVE i \in victims
    <3>1. Rank(cand, i) \in 1 .. Cardinality(cand)
      BY <1>3, RankOnce
    <3>2. Rank(cand, i) <= n - maxKeys
      BY <3>1, <2>1, <2>3, <2>4
    <3> QED BY <1>1, <3>2
  <2> QED BY <1>3, <2>5
<1>9. ASSUME Len(e) > maxKeys PROVE Tracked(e) \cap S = {}
  <2>1. victims = cand
    BY <1>4, <1>8, <1>9
  <2>2. SUFFICES ASSUME NEW k \in Tracked(e) PROVE k \notin S
    OBVIOUS
  <2>3. PICK i \in at : o[i] = k
    BY <1>4
  <2>4. i \in 1 .. n /\ i \notin cand
    BY <1>1, <2>1
  <2> QED BY <1>1, <2>3, <2>4
<1> QED BY <1>0, <1>1, <1>2, <1>4, <1>5, <1>6, <1>7, <1>9

(* Senders of o are missing in r only if they have no full window with a   *)
(* live instant, or if all in r but k have one.                            *)
SparesFull(o, r, w, k, p, now) ==
  \A x \in Tracked(o) \ Tracked(r), i \in Tracked(r) \ {k} :
    \/ Expired(w[x], p, now) \/ Len(w[x]) < p.requests
    \/ ~Expired(w[i], p, now) /\ ~(Len(w[i]) < p.requests)

(* consume() and a full Map: it never holds more than maxKeys senders; and *)
(* if it drops one with a full window and a live instant, then no sender   *)
(* that is left, but the caller, is without.                               *)
LEMMA ShrunkTracked ==
  ASSUME NEW o, Distinct(o), NEW w, NEW k, NEW p, NEW now, NEW r, r = Shrunk(o, w, k, p, now)
  PROVE  /\ Distinct(r) /\ Len(r) <= maxKeys /\ Tracked(r) \subseteq Tracked(o)
         /\ Len(o) <= maxKeys => Tracked(r) = Tracked(o)
         /\ SparesFull(o, r, w, k, p, now)
<1>1. PICK S1, S2 :
        /\ S1 = {j \in Senders \ {k} : Expired(w[j], p, now)}
        /\ S2 = {j \in Senders \ {k} : Len(w[j]) < p.requests}
  OBVIOUS
<1>a. PICK o1, o2 : o1 = Evict(o, S1) /\ o2 = Evict(o1, S2)
  OBVIOUS
<1>2. r = Evict(o2, Senders)
  BY <1>1, <1>a DEF Shrunk
<1>3. maxKeys \in Nat
  BY RateLimiterAssumption
<1>4. /\ Distinct(o1) /\ Len(o1) \in Nat /\ Len(o) \in Nat /\ Len(o1) <= Len(o)
      /\ Tracked(o1) \subseteq Tracked(o) /\ Tracked(o) \ S1 \subseteq Tracked(o1)
      /\ Len(o) <= maxKeys => Tracked(o1) = Tracked(o)
      /\ Len(o1) > maxKeys => Tracked(o1) \cap S1 = {}
  BY ONLY Distinct(o), <1>a, EvictTracked
<1>5. /\ Distinct(o2) /\ Len(o2) \in Nat /\ Len(o2) <= Len(o1)
      /\ Tracked(o2) \subseteq Tracked(o1) /\ Tracked(o1) \ S2 \subseteq Tracked(o2)
      /\ Len(o1) <= maxKeys => Tracked(o2) = Tracked(o1)
      /\ Len(o2) > maxKeys => Tracked(o2) \cap S2 = {}
  BY ONLY <1>4, <1>a, EvictTracked
<1>6. /\ Distinct(r) /\ Len(r) \in Nat /\ Len(r) <= Len(o2)
      /\ Tracked(r) \subseteq Tracked(o2)
      /\ Len(o2) <= maxKeys => Tracked(r) = Tracked(o2)
      /\ Len(r) > maxKeys => Tracked(r) \cap Senders = {}
  BY ONLY <1>2, <1>5, EvictTracked
<1>7. Len(r) <= maxKeys
  <2>1. SUFFICES ASSUME Len(r) > maxKeys PROVE FALSE
    BY <1>3, <1>6
  <2>2. r[1] \in Senders /\ r[1] \in Tracked(r)
    <3>1. 1 \in 1 .. Len(r)
      BY <1>3, <1>6, <2>1
    <3>2. r \in Seq(Senders)
      BY <1>6 DEF Distinct
    <3> QED BY <3>1, <3>2, TrackedIs
  <2> QED BY <1>6, <2>1, <2>2
<1>8. Tracked(r) \subseteq Tracked(o)
  BY <1>4, <1>5, <1>6
<1>9. Len(o) <= maxKeys => Tracked(r) = Tracked(o)
  BY <1>3, <1>4, <1>5, <1>6
<1>10. ASSUME NEW x \in Tracked(o) \ Tracked(r), NEW i \in Tracked(r) \ {k},
              ~Expired(w[x], p, now), ~(Len(w[x]) < p.requests)
       PROVE  ~Expired(w[i], p, now) /\ ~(Len(w[i]) < p.requests)
  <2>1. x \in Tracked(o2)
    BY <1>1, <1>4, <1>5, <1>10
  <2>2. Len(o2) > maxKeys /\ Len(o1) > maxKeys
    BY <1>3, <1>4, <1>5, <1>6, <1>10, <2>1
  <2>3. i \notin S1 /\ i \notin S2
    BY <1>4, <1>5, <1>6, <2>2
  <2>4. i \in Senders
    BY <1>6, TrackedIs DEF Distinct
  <2> QED BY <1>1, <2>3, <2>4
<1> QED BY <1>6, <1>7, <1>8, <1>9, <1>10 DEF SparesFull

(***************************************************************************)
(* The rate limiter's invariants                                           *)
(***************************************************************************)

(* The senders in the Map, once each, are those with a window; a window is *)
(* in the order of time.                                                   *)
LimiterShape ==
  /\ clock \in Nat
  /\ windows \in [Senders -> Seq(Nat)]
  /\ \A k \in Senders : Sorted(windows[k]) /\ UpTo(windows[k], clock)
  /\ Distinct(order) /\ Len(order) <= maxKeys
  /\ \A k \in Senders : k \in Tracked(order) <=> windows[k] # << >>

Entry(now, p) == [at |-> now, by |-> p]

LEMMA ConsumeShape ==
  ASSUME LimiterShape, NEW k \in Senders, NEW p \in Policies, Consume(k, p),
         admitted \in [Senders -> Seq([at : Nat, by : Policies])]
  PROVE  /\ LimiterShape' /\ clock' = clock
         /\ admitted' \in [Senders -> Seq([at : Nat, by : Policies])]
         /\ \A j \in Senders :
              \/ windows'[j] = << >> /\ admitted'[j] = << >>
              \/ j # k /\ windows'[j] = windows[j] /\ admitted'[j] = admitted[j]
              \/ /\ j = k /\ windows'[j] = WindowAfter(windows[k], p, clock)
                 /\ admitted'[j] = IF Allowed(windows[k], p, clock)
                                   THEN Append(admitted[k], Entry(clock, p)) ELSE admitted[k]
         /\ Cardinality(Senders) <= maxKeys /\ IsFiniteSet(Senders) =>
              \A j \in Senders :
                windows'[j] = IF j = k THEN WindowAfter(windows[k], p, clock) ELSE windows[j]
<1>0. Policy(p) /\ maxKeys \in Nat
  BY RateLimiterAssumption DEF Policy
<1>1. PICK r, w, o, seen :
        /\ r = WindowAfter(windows[k], p, clock)
        /\ w = [windows EXCEPT ![k] = r]
        /\ o = IF w[k] = << >> THEN Without(order, {k})
               ELSE Shrunk(Touched(order, k), w, k, p, clock)
        /\ seen = IF Allowed(windows[k], p, clock)
                  THEN [admitted EXCEPT ![k] = Append(@, Entry(clock, p))] ELSE admitted
  OBVIOUS
<1>2. /\ order' = o /\ clock' = clock
      /\ windows' = [j \in Senders |-> IF j \in Tracked(o) THEN w[j] ELSE << >>]
      /\ admitted' = [j \in Senders |-> IF j \in Tracked(o) THEN seen[j] ELSE << >>]
  BY <1>1 DEF Consume, Entry
<1>3. r \in Seq(Nat) /\ Sorted(r) /\ UpTo(r, clock)
  <2>1. windows[k] \in Seq(Nat) /\ clock \in Nat /\ Sorted(windows[k]) /\ UpTo(windows[k], clock)
    BY DEF LimiterShape
  <2>2. PICK v, now : v = windows[k] /\ now = clock
    OBVIOUS
  <2> QED BY <1>0, <1>1, <2>1, <2>2, WindowCounts
<1>4. /\ \A j \in Senders : w[j] = IF j = k THEN r ELSE windows[j]
      /\ w \in [Senders -> Seq(Nat)]
  BY <1>1, <1>3 DEF LimiterShape
<1>5. seen \in [Senders -> Seq([at : Nat, by : Policies])]
      /\ \A j \in Senders : seen[j] = IF j = k /\ Allowed(windows[k], p, clock)
                                      THEN Append(admitted[k], Entry(clock, p)) ELSE admitted[j]
  <2>1. Entry(clock, p) \in [at : Nat, by : Policies]
    BY DEF Entry, LimiterShape
  <2>2. PICK T, e : T = [at : Nat, by : Policies] /\ e = Entry(clock, p)
    OBVIOUS
  <2>3. /\ e \in T /\ admitted \in [Senders -> Seq(T)]
        /\ seen = IF Allowed(windows[k], p, clock)
                  THEN [admitted EXCEPT ![k] = Append(@, e)] ELSE admitted
    BY <1>1, <2>1, <2>2
  <2>4. /\ seen \in [Senders -> Seq(T)]
        /\ \A j \in Senders : seen[j] = IF j = k /\ Allowed(windows[k], p, clock)
                                        THEN Append(admitted[k], e) ELSE admitted[j]
    BY ONLY <2>3, k \in Senders
  <2> QED BY <2>2, <2>4
<1>6. /\ Distinct(o) /\ Len(o) <= maxKeys /\ Tracked(o) \subseteq Tracked(order) \cup {k}
      /\ k \in Tracked(o) => r # << >>
      /\ \A j \in Senders : j \in Tracked(o) => w[j] # << >>
  <2>0. Distinct(order) /\ Len(order) <= maxKeys /\ w[k] = r
    BY <1>4 DEF LimiterShape
  <2>1. CASE w[k] = << >>
    <3>1. o = Without(order, {k})
      BY <1>1, <2>1
    <3>2. Distinct(o) /\ Tracked(o) = Tracked(order) \ {k} /\ Len(o) <= Len(order)
      BY <2>0, <3>1, WithoutTracked
    <3>3. Len(o) \in Nat /\ Len(order) \in Nat
      BY <2>0, <3>2 DEF Distinct
    <3> QED BY <1>0, <1>4, <2>0, <3>2, <3>3 DEF LimiterShape
  <2>2. CASE w[k] # << >>
    <3>1. PICK t : t = Touched(order, k)
      OBVIOUS
    <3>2. Distinct(t) /\ Tracked(t) = Tracked(order) \cup {k}
      BY <2>0, <3>1, TouchedTracked
    <3>3. o = Shrunk(t, w, k, p, clock)
      BY <1>1, <2>2, <3>1
    <3>4. Distinct(o) /\ Len(o) <= maxKeys /\ Tracked(o) \subseteq Tracked(t)
      BY <3>2, <3>3, ShrunkTracked
    <3> QED BY <1>4, <2>0, <2>2, <3>2, <3>4 DEF LimiterShape
  <2> QED BY <2>1, <2>2
<1>7. windows' \in [Senders -> Seq(Nat)]
  BY <1>2, <1>4
<1>8. ASSUME NEW j \in Senders PROVE Sorted(windows'[j]) /\ UpTo(windows'[j], clock')
  <2>1. windows'[j] = IF j \in Tracked(o) THEN (IF j = k THEN r ELSE windows[j]) ELSE << >>
    BY <1>2, <1>4
  <2>2. Sorted(<< >>) /\ UpTo(<< >>, clock)
    BY DEF Sorted, UpTo
  <2>3. Sorted(windows[j]) /\ UpTo(windows[j], clock)
    BY DEF LimiterShape
  <2> QED BY <1>2, <1>3, <2>1, <2>2, <2>3
<1>9. \A j \in Senders : j \in Tracked(order') <=> windows'[j] # << >>
  BY <1>2, <1>6
<1>10. LimiterShape'
  BY <1>2, <1>6, <1>7, <1>8, <1>9 DEF LimiterShape
<1>11. admitted' \in [Senders -> Seq([at : Nat, by : Policies])]
  <2>1. PICK T : T = [at : Nat, by : Policies]
    OBVIOUS
  <2>2. seen \in [Senders -> Seq(T)]
    BY <1>5, <2>1
  <2>3. admitted' \in [Senders -> Seq(T)]
    BY ONLY <1>2, <2>2
  <2> QED BY <2>1, <2>3
<1>12. ASSUME NEW j \in Senders
       PROVE  \/ windows'[j] = << >> /\ admitted'[j] = << >>
              \/ j # k /\ windows'[j] = windows[j] /\ admitted'[j] = admitted[j]
              \/ /\ j = k /\ windows'[j] = r
                 /\ admitted'[j] = IF Allowed(windows[k], p, clock)
                                   THEN Append(admitted[k], Entry(clock, p)) ELSE admitted[k]
  BY <1>2, <1>4, <1>5
<1>13. ASSUME Cardinality(Senders) <= maxKeys, IsFiniteSet(Senders), NEW j \in Senders
       PROVE  windows'[j] = IF j = k THEN r ELSE windows[j]
  <2>0. Distinct(order) /\ Len(order) <= maxKeys /\ w[k] = r
    BY <1>4 DEF LimiterShape
  <2>1. CASE w[k] = << >>
    <3>1. o = Without(order, {k})
      BY <1>1, <2>1
    <3>2. Tracked(o) = Tracked(order) \ {k}
      BY <2>0, <3>1, WithoutTracked
    <3> QED BY <1>2, <1>4, <2>0, <2>1, <3>2 DEF LimiterShape
  <2>2. CASE w[k] # << >>
    <3>1. PICK t : t = Touched(order, k)
      OBVIOUS
    <3>2. Distinct(t) /\ Tracked(t) = Tracked(order) \cup {k}
      BY <2>0, <3>1, TouchedTracked
    <3>3. o = Shrunk(t, w, k, p, clock)
      BY <1>1, <2>2, <3>1
    <3>4. Len(t) <= maxKeys
      <4>1. Tracked(t) \subseteq Senders
        BY <3>2, DistinctTracked
      <4>2. Cardinality(Tracked(t)) = Len(t) /\ Len(t) \in Nat
        BY <3>2, DistinctTracked
      <4>3. Cardinality(Tracked(t)) <= Cardinality(Senders) /\ Cardinality(Senders) \in Nat
        BY <1>13, <4>1, CountSubset
      <4> QED BY <1>0, <1>13, <4>2, <4>3
    <3>5. Tracked(o) = Tracked(order) \cup {k}
      BY <3>2, <3>3, <3>4, ShrunkTracked
    <3> QED BY <1>2, <1>4, <2>0, <3>5 DEF LimiterShape
  <2> QED BY <2>1, <2>2
<1> QED BY <1>1, <1>2, <1>10, <1>11, <1>12, <1>13

Entries == [at : Nat, by : Policies]

MapInv == LimiterShape /\ admitted \in [Senders -> Seq(Entries)]

LEMMA MapInit == LimiterInit => MapInv
<1> SUFFICES ASSUME LimiterInit PROVE MapInv
  OBVIOUS
<1>1. /\ clock = 0 /\ order = << >> /\ windows \in [Senders -> Seq(Nat)]
      /\ admitted \in [Senders -> Seq(Entries)]
      /\ \A k \in Senders : windows[k] = << >>
  BY DEF LimiterInit
<1>2. Distinct(<< >>) /\ Len(<< >>) = 0 /\ \A k : k \notin Tracked(<< >>)
  BY TrackedIs DEF Distinct, Once
<1>3. LimiterShape
  BY <1>1, <1>2, RateLimiterAssumption DEF LimiterShape, Sorted, UpTo
<1> QED BY <1>1, <1>3 DEF MapInv

LEMMA MapStep == MapInv /\ [LimiterNext]_limiterVars => MapInv'
<1> SUFFICES ASSUME MapInv, [LimiterNext]_limiterVars PROVE MapInv'
  OBVIOUS
<1>t. LimiterShape /\ admitted \in [Senders -> Seq(Entries)]
  BY DEF MapInv
<1>n. /\ clock \in Nat /\ windows \in [Senders -> Seq(Nat)]
  BY <1>t DEF LimiterShape
<1>e. Sorted(<< >>) /\ \A t : UpTo(<< >>, t)
  BY DEF Sorted, UpTo
<1>1. ASSUME NEW k \in Senders, NEW p \in Policies, Consume(k, p) PROVE MapInv'
  BY <1>1, <1>t, ConsumeShape DEF Entries, MapInv
<1>2. ASSUME NEW k \in Senders, Reset(k) PROVE MapInv'
  <2>1. /\ order' = Without(order, {k}) /\ clock' = clock
        /\ windows' = [windows EXCEPT ![k] = << >>] /\ admitted' = [admitted EXCEPT ![k] = << >>]
    BY <1>2 DEF Reset
  <2>2. /\ \A j \in Senders : windows'[j] = IF j = k THEN << >> ELSE windows[j]
        /\ windows' \in [Senders -> Seq(Nat)] /\ admitted' \in [Senders -> Seq(Entries)]
    BY <2>1, <1>n, <1>t
  <2>3. Distinct(order) /\ Len(order) <= maxKeys
    BY <1>t DEF LimiterShape
  <2>4. /\ Distinct(order') /\ Tracked(order') = Tracked(order) \ {k} /\ Len(order') <= maxKeys
    <3>1. PICK o : o = order
      OBVIOUS
    <3>2. /\ Distinct(Without(o, {k})) /\ Tracked(Without(o, {k})) = Tracked(o) \ {k}
          /\ Len(Without(o, {k})) <= Len(o)
      BY <2>3, <3>1, WithoutTracked
    <3>3. Len(Without(o, {k})) \in Nat /\ Len(o) \in Nat /\ maxKeys \in Nat
      BY <2>3, <3>1, <3>2, RateLimiterAssumption DEF Distinct
    <3>4. Len(Without(o, {k})) <= maxKeys
      BY <2>3, <3>1, <3>2, <3>3
    <3>5. order' = Without(o, {k})
      BY <2>1, <3>1
    <3>6. /\ Distinct(order') /\ Tracked(order') = Tracked(o) \ {k} /\ Len(order') <= maxKeys
      BY ONLY <3>2, <3>4, <3>5
    <3> QED BY <3>1, <3>6
  <2>5. LimiterShape'
    BY <2>1, <2>2, <2>4, <1>t, <1>e DEF LimiterShape
  <2> QED BY <2>2, <2>5 DEF MapInv
<1>3. CASE Clear
  <2>1. /\ order' = << >> /\ clock' = clock
        /\ windows' \in [Senders -> Seq(Nat)] /\ admitted' \in [Senders -> Seq(Entries)]
        /\ \A k \in Senders : windows'[k] = << >>
    BY <1>3 DEF Clear
  <2>2. Distinct(<< >>) /\ Len(<< >>) = 0 /\ \A k : k \notin Tracked(<< >>)
    BY TrackedIs DEF Distinct, Once
  <2>3. LimiterShape'
    BY <2>1, <2>2, <1>e, <1>n, RateLimiterAssumption DEF LimiterShape
  <2> QED BY <2>1, <2>3 DEF MapInv
<1>4. CASE LimiterTick
  <2>1. clock' = clock + 1 /\ UNCHANGED <<windows, order, admitted>>
    BY <1>4 DEF LimiterTick
  <2>2. LimiterShape'
    <3>1. ASSUME NEW k \in Senders PROVE UpTo(windows[k], clock + 1)
      <4>1. windows[k] \in Seq(Nat) /\ UpTo(windows[k], clock)
        BY <1>t, <1>n DEF LimiterShape
      <4> QED BY <4>1, <1>n DEF UpTo
    <3> QED BY <2>1, <3>1, <1>t, <1>n DEF LimiterShape
  <2> QED BY <2>1, <2>2, <1>t DEF MapInv
<1>5. CASE UNCHANGED limiterVars
  BY <1>5, <1>t DEF limiterVars, MapInv, LimiterShape
<1> QED BY <1>1, <1>2, <1>3, <1>4, <1>5 DEF LimiterNext


(* Requests admitted after c. *)
Taken(c) == {e \in Entries : e.at > c}

(* What is admitted is no later than now; and of what is admitted within   *)
(* the length W of a window, every instant is still in the sender's list.  *)
Counted(W) ==
  /\ admitted \in [Senders -> Seq(Entries)]
  /\ \A k \in Senders : \A i \in 1 .. Len(admitted[k]) : admitted[k][i].at <= clock
  /\ \A k \in Senders, c \in Int : c >= clock - W =>
       CountIn(admitted[k], Taken(c)) <= CountIn(windows[k], After(c))

QuotaInv(W) == LimiterShape /\ Counted(W) /\ WithinQuota

LEMMA LimiterInitInv ==
  ASSUME NEW W \in Nat PROVE LimiterInit => QuotaInv(W)
<1> SUFFICES ASSUME LimiterInit PROVE QuotaInv(W)
  OBVIOUS
<1>1. /\ clock = 0 /\ order = << >> /\ windows \in [Senders -> Seq(Nat)]
      /\ admitted \in [Senders -> Seq(Entries)]
      /\ \A k \in Senders : windows[k] = << >> /\ admitted[k] = << >>
  BY DEF LimiterInit
<1>3. LimiterShape
  BY MapInit DEF MapInv
<1>4. Counted(W)
  <2>1. \A C : CountIn(<< >>, C) = 0
    BY CountEmpty
  <2> QED BY <1>1, <2>1 DEF Counted
<1>5. WithinQuota
  <2>1. SUFFICES ASSUME NEW k \in Senders, NEW p \in Policies, NEW t \in 0 .. clock
                 PROVE Cardinality(AdmittedWithin(k, p, t)) <= p.requests
    BY DEF WithinQuota
  <2>2. AdmittedWithin(k, p, t) = {}
    BY <1>1 DEF AdmittedWithin
  <2>3. p.requests \in Nat
    BY RateLimiterAssumption
  <2> QED BY <2>2, <2>3, FS_EmptySet
<1> QED BY <1>3, <1>4, <1>5 DEF QuotaInv

(* The window that ends now: no more than the policy's quota. *)
LEMMA WindowEndingNow ==
  ASSUME NEW W \in Nat, LimiterShape, Counted(W), NEW k \in Senders, NEW p \in Policies,
         p.windowMs = W, NEW U,
         \A i \in U : i \in 1 .. Len(admitted[k]) /\ admitted[k][i].at > clock - W
  PROVE  /\ IsFiniteSet(U) /\ Cardinality(U) \in Nat
         /\ Cardinality(U) <= CountIn(windows[k], After(clock - W))
         /\ CountIn(windows[k], After(clock - W)) \in Nat
<1>1. PICK a, w, c, T, A : /\ a = admitted[k] /\ w = windows[k] /\ c = clock - W
                           /\ T = Taken(c) /\ A = After(c)
  OBVIOUS
<1>2. a \in Seq(Entries) /\ w \in Seq(Nat) /\ c \in Int /\ c >= c
  BY <1>1 DEF Counted, LimiterShape
<1>3. CountIn(a, T) <= CountIn(w, A)
  BY <1>1, <1>2 DEF Counted
<1>4. \A i \in U : i \in 1 .. Len(a) /\ a[i] \in T
  BY <1>1, <1>2 DEF Taken
<1>5. IsFiniteSet(U) /\ Cardinality(U) \in Nat /\ Cardinality(U) <= CountIn(a, T)
  BY <1>2, <1>4, CountLess
<1>6. CountIn(a, T) \in Nat /\ CountIn(w, A) \in Nat
  BY <1>2, CountType
<1>7. Cardinality(U) <= CountIn(w, A)
  BY <1>3, <1>5, <1>6
<1> QED BY <1>1, <1>5, <1>6, <1>7

LEMMA LimiterStepInv ==
  ASSUME NEW W \in Nat, \A p \in Policies : p.windowMs = W
  PROVE  QuotaInv(W) /\ [LimiterNext]_limiterVars => QuotaInv(W)'
<1> SUFFICES ASSUME QuotaInv(W), [LimiterNext]_limiterVars PROVE QuotaInv(W)'
  OBVIOUS
<1>t. LimiterShape /\ Counted(W) /\ WithinQuota
  BY DEF QuotaInv
<1>n. /\ clock \in Nat /\ windows \in [Senders -> Seq(Nat)]
      /\ admitted \in [Senders -> Seq(Entries)]
      /\ \A p \in Policies : p.requests \in Nat /\ p.windowMs \in Nat
  BY <1>t, RateLimiterAssumption DEF LimiterShape, Counted
<1>e. /\ \A C : CountIn(<< >>, C) = 0
      /\ \A p \in Policies : Cardinality({}) <= p.requests
  BY <1>n, CountEmpty, FS_EmptySet
<1>s. LimiterShape'
  BY <1>t, <1>n, MapStep DEF MapInv
<1>1. ASSUME NEW k \in Senders, NEW p \in Policies, Consume(k, p) PROVE QuotaInv(W)'
  <2>1. /\ LimiterShape' /\ clock' = clock
        /\ admitted' \in [Senders -> Seq(Entries)]
        /\ \A j \in Senders :
              \/ windows'[j] = << >> /\ admitted'[j] = << >>
              \/ j # k /\ windows'[j] = windows[j] /\ admitted'[j] = admitted[j]
              \/ /\ j = k /\ windows'[j] = WindowAfter(windows[k], p, clock)
                 /\ admitted'[j] = IF Allowed(windows[k], p, clock)
                                   THEN Append(admitted[k], Entry(clock, p)) ELSE admitted[k]
    BY <1>1, <1>t, <1>n, ConsumeShape DEF Entries
  <2>2. PICK w, r, a, e, ok :
          /\ w = windows[k] /\ r = WindowAfter(windows[k], p, clock) /\ a = admitted[k]
          /\ e = Entry(clock, p) /\ ok = Allowed(windows[k], p, clock)
    OBVIOUS
  <2>3. /\ w \in Seq(Nat) /\ a \in Seq(Entries) /\ e \in Entries /\ e.at = clock /\ e.by = p
        /\ p.windowMs = W
    BY <2>2, <1>n DEF Entry, Entries
  <2>4. /\ r \in Seq(Nat)
        /\ \A c \in Int : c >= clock - W =>
             CountIn(r, After(c)) = IF Allowed(w, p, clock) /\ clock > c THEN CountIn(w, After(c)) + 1
                                    ELSE CountIn(w, After(c))
        /\ CountIn(w, After(clock - W)) <= p.requests =>
             CountIn(r, After(clock - W)) <= p.requests
        /\ Allowed(w, p, clock) <=> CountIn(w, After(clock - W)) < p.requests
    <3>1. Sorted(w) /\ UpTo(w, clock) /\ Policy(p)
      BY <1>t, <1>n, <2>2 DEF LimiterShape, Policy
    <3>2. PICK now : now = clock
      OBVIOUS
    <3>3. r = WindowAfter(w, p, now) /\ now \in Nat /\ UpTo(w, now)
      BY <2>2, <3>1, <3>2, <1>n
    <3>4. /\ r \in Seq(Nat)
          /\ \A c \in Int : c >= now - p.windowMs =>
              CountIn(r, After(c)) =
                IF Allowed(w, p, now) /\ now > c THEN CountIn(w, After(c)) + 1
                ELSE CountIn(w, After(c))
          /\ CountIn(w, After(now - p.windowMs)) <= p.requests =>
               CountIn(r, After(now - p.windowMs)) <= p.requests
          /\ Allowed(w, p, now) <=> CountIn(w, After(now - p.windowMs)) < p.requests
      BY <2>3, <3>1, <3>3, WindowCounts
    <3> QED BY <2>3, <3>2, <3>4
  <2>5. \A j \in Senders :
          \/ windows'[j] = << >> /\ admitted'[j] = << >>
          \/ j # k /\ windows'[j] = windows[j] /\ admitted'[j] = admitted[j]
          \/ j = k /\ windows'[j] = r /\ admitted'[j] = IF ok THEN Append(a, e) ELSE a
    BY <2>1, <2>2
  <2>6. /\ Len(Append(a, e)) = Len(a) + 1 /\ Len(a) \in Nat /\ Append(a, e)[Len(a) + 1] = e
        /\ \A i \in 1 .. Len(a) : Append(a, e)[i] = a[i]
        /\ \A i \in 1 .. Len(a) + 1 : i \in 1 .. Len(a) \/ i = Len(a) + 1
    BY <2>3
  <2>7. ASSUME NEW j \in Senders, NEW i \in 1 .. Len(admitted'[j])
        PROVE  admitted'[j][i].at <= clock'
    <3>1. \A x \in Senders : \A y \in 1 .. Len(admitted[x]) : admitted[x][y].at <= clock
      BY <1>t DEF Counted
    <3>2. CASE admitted'[j] = << >>
      BY <2>7, <3>2
    <3>3. CASE j # k /\ admitted'[j] = admitted[j]
      BY <2>1, <2>7, <3>1, <3>3
    <3>4. CASE j = k /\ admitted'[j] = a
      BY <2>1, <2>2, <2>7, <3>1, <3>4
    <3>5. CASE j = k /\ admitted'[j] = Append(a, e)
      <4>1. CASE i = Len(a) + 1
        BY <2>1, <2>3, <2>6, <3>5, <4>1, <1>n
      <4>2. CASE i \in 1 .. Len(a)
        BY <2>1, <2>2, <2>6, <3>1, <3>5, <4>2
      <4> QED BY <2>6, <2>7, <3>5, <4>1, <4>2
    <3> QED BY <2>5, <3>2, <3>3, <3>4, <3>5
  <2>8. ASSUME NEW j \in Senders, NEW c \in Int, c >= clock - W
        PROVE  CountIn(admitted'[j], Taken(c)) <= CountIn(windows'[j], After(c))
    <3>1. CountIn(admitted[j], Taken(c)) <= CountIn(windows[j], After(c))
      BY <2>8, <1>t DEF Counted
    <3>2. CASE windows'[j] = << >> /\ admitted'[j] = << >>
      BY <1>e, <3>2
    <3>3. CASE j # k /\ windows'[j] = windows[j] /\ admitted'[j] = admitted[j]
      BY <3>1, <3>3
    <3>4. CASE j = k /\ windows'[j] = r /\ admitted'[j] = IF ok THEN Append(a, e) ELSE a
      <4>1. PICK T, A : T = Taken(c) /\ A = After(c)
        OBVIOUS
      <4>2. CountIn(a, T) <= CountIn(w, A)
        BY <2>2, <3>1, <3>4, <4>1
      <4>3. CountIn(a, T) \in Nat /\ CountIn(w, A) \in Nat
        BY <2>3, CountType
      <4>4. CountIn(r, A) = IF ok /\ clock > c THEN CountIn(w, A) + 1 ELSE CountIn(w, A)
        BY <2>2, <2>4, <2>8, <4>1
      <4>5. CountIn(Append(a, e), T) = IF e \in T THEN CountIn(a, T) + 1 ELSE CountIn(a, T)
        BY <2>3, CountAppend
      <4>6. e \in T => clock > c
        BY <2>3, <4>1 DEF Taken
      <4>7. CountIn(admitted'[j], T) <= CountIn(r, A)
        BY <3>4, <4>2, <4>3, <4>4, <4>5, <4>6
      <4> QED BY <3>4, <4>1, <4>7
    <3> QED BY <2>5, <3>2, <3>3, <3>4
  <2>9. Counted(W)'
    BY <2>1, <2>7, <2>8 DEF Counted
  <2>10. ASSUME NEW j \in Senders, NEW q \in Policies, NEW t \in 0 .. clock'
         PROVE  Cardinality(AdmittedWithin(j, q, t)') <= q.requests
    <3>0. t \in 0 .. clock /\ Cardinality(AdmittedWithin(j, q, t)) <= q.requests
      BY <2>1, <2>10, <1>t DEF WithinQuota
    <3>1. CASE admitted'[j] = << >>
      <4>1. AdmittedWithin(j, q, t)' = {}
        BY <3>1 DEF AdmittedWithin
      <4> QED BY <4>1, <1>e
    <3>2. CASE admitted'[j] = admitted[j]
      <4>1. AdmittedWithin(j, q, t)' = AdmittedWithin(j, q, t)
        BY <3>2 DEF AdmittedWithin
      <4> QED BY <3>0, <4>1
    <3>3. CASE j = k /\ ok /\ windows'[j] = r /\ admitted'[j] = Append(a, e) /\ (q # p \/ t # clock)
      <4>1. AdmittedWithin(j, q, t)' = AdmittedWithin(j, q, t)
        <5>1. \A i \in 1 .. Len(a) : Append(a, e)[i] = a[i]
          BY <2>6
        <5>2. ~(e.by = q /\ e.at <= t)
          BY <2>3, <3>0, <3>3, <1>n
        <5>3. AdmittedWithin(j, q, t)' =
                {i \in 1 .. Len(a) + 1 : /\ Append(a, e)[i].by = q
                                         /\ Append(a, e)[i].at > t - q.windowMs
                                         /\ Append(a, e)[i].at <= t}
          BY <3>3, <2>6 DEF AdmittedWithin
        <5>4. AdmittedWithin(j, q, t) =
                {i \in 1 .. Len(a) : a[i].by = q /\ a[i].at > t - q.windowMs /\ a[i].at <= t}
          BY <3>3, <2>2 DEF AdmittedWithin
        <5>5. \A i : i \in 1 .. Len(a) + 1 <=> (i \in 1 .. Len(a) \/ i = Len(a) + 1)
          BY <2>6
        <5> QED BY <5>1, <5>2, <5>3, <5>4, <5>5, <2>6
      <4> QED BY <3>0, <4>1
    <3>4. CASE j = k /\ ok /\ windows'[j] = r /\ q = p /\ t = clock
      <4>1. PICK U : U = AdmittedWithin(j, q, t)'
        OBVIOUS
      <4>2. \A i \in U : i \in 1 .. Len(admitted'[j]) /\ admitted'[j][i].at > clock - W
        BY <2>3, <3>4, <4>1 DEF AdmittedWithin
      <4>3. PICK a2, w2, c, T, A :
              /\ a2 = admitted'[j] /\ w2 = windows'[j] /\ c = clock - W
              /\ T = Taken(c) /\ A = After(c)
        OBVIOUS
      <4>4. a2 \in Seq(Entries) /\ w2 \in Seq(Nat) /\ c \in Int /\ c >= clock - W
        BY <2>1, <2>4, <3>4, <4>3, <1>n
      <4>5. CountIn(a2, T) <= CountIn(w2, A)
        BY <2>8, <4>3, <4>4
      <4>6. \A i \in U : i \in 1 .. Len(a2) /\ a2[i] \in T
        BY <4>2, <4>3, <4>4 DEF Taken
      <4>7. Cardinality(U) \in Nat /\ Cardinality(U) <= CountIn(a2, T)
        BY <4>4, <4>6, CountLess
      <4>8. CountIn(a2, T) \in Nat /\ CountIn(w2, A) \in Nat
        BY <4>4, CountType
      <4>9. CountIn(w2, A) <= q.requests
        <5>1. CountIn(w, A) < p.requests /\ CountIn(w, A) \in Nat
          BY <2>2, <2>3, <2>4, <3>4, <4>3, CountType
        <5>2. CountIn(w, A) <= p.requests
          BY <5>1, <1>n
        <5> QED BY <2>4, <3>4, <4>3, <5>2
      <4> QED BY <4>1, <4>5, <4>7, <4>8, <4>9, <1>n
    <3> QED BY <2>2, <2>5, <3>1, <3>2, <3>3, <3>4
  <2>11. WithinQuota'
    BY <2>10 DEF WithinQuota
  <2> QED BY <2>1, <2>9, <2>11 DEF QuotaInv
<1>2. ASSUME NEW k \in Senders, Reset(k) PROVE QuotaInv(W)'
  <2>1. /\ order' = Without(order, {k}) /\ clock' = clock
        /\ windows' = [windows EXCEPT ![k] = << >>] /\ admitted' = [admitted EXCEPT ![k] = << >>]
    BY <1>2 DEF Reset
  <2>2. /\ \A j \in Senders : windows'[j] = IF j = k THEN << >> ELSE windows[j]
        /\ \A j \in Senders : admitted'[j] = IF j = k THEN << >> ELSE admitted[j]
        /\ windows' \in [Senders -> Seq(Nat)] /\ admitted' \in [Senders -> Seq(Entries)]
    BY <2>1, <1>n
  <2>6. Counted(W)'
    <3>1. ASSUME NEW j \in Senders, NEW i \in 1 .. Len(admitted'[j])
          PROVE  admitted'[j][i].at <= clock'
      BY <2>1, <2>2, <1>t DEF Counted
    <3>2. ASSUME NEW j \in Senders, NEW c \in Int, c >= clock' - W
          PROVE  CountIn(admitted'[j], Taken(c)) <= CountIn(windows'[j], After(c))
      <4>1. CASE j = k
        BY <2>2, <4>1, <1>e
      <4>2. CASE j # k
        BY <2>1, <2>2, <3>2, <4>2, <1>t DEF Counted
      <4> QED BY <4>1, <4>2
    <3> QED BY <2>2, <3>1, <3>2 DEF Counted
  <2>7. WithinQuota'
    <3>1. SUFFICES ASSUME NEW j \in Senders, NEW p \in Policies, NEW t \in 0 .. clock'
                   PROVE  Cardinality(AdmittedWithin(j, p, t)') <= p.requests
      BY DEF WithinQuota
    <3>2. CASE j = k
      <4>1. AdmittedWithin(j, p, t)' = {}
        BY <2>2, <3>2 DEF AdmittedWithin
      <4> QED BY <4>1, <1>e
    <3>3. CASE j # k
      <4>1. AdmittedWithin(j, p, t)' = AdmittedWithin(j, p, t)
        BY <2>2, <3>3 DEF AdmittedWithin
      <4> QED BY <2>1, <3>1, <4>1, <1>t DEF WithinQuota
    <3> QED BY <3>2, <3>3
  <2> QED BY <2>6, <2>7, <1>s DEF QuotaInv
<1>3. CASE Clear
  <2>1. /\ order' = << >> /\ clock' = clock
        /\ windows' \in [Senders -> Seq(Nat)] /\ admitted' \in [Senders -> Seq(Entries)]
        /\ \A k \in Senders : windows'[k] = << >> /\ admitted'[k] = << >>
    BY <1>3 DEF Clear
  <2>4. Counted(W)'
    BY <2>1, <1>e DEF Counted
  <2>5. WithinQuota'
    <3>1. SUFFICES ASSUME NEW j \in Senders, NEW p \in Policies, NEW t \in 0 .. clock'
                   PROVE  Cardinality(AdmittedWithin(j, p, t)') <= p.requests
      BY DEF WithinQuota
    <3>2. AdmittedWithin(j, p, t)' = {}
      BY <2>1 DEF AdmittedWithin
    <3> QED BY <3>2, <1>e
  <2> QED BY <2>4, <2>5, <1>s DEF QuotaInv
<1>4. CASE LimiterTick
  <2>1. clock' = clock + 1 /\ UNCHANGED <<windows, order, admitted>>
    BY <1>4 DEF LimiterTick
  <2>3. Counted(W)'
    <3>1. ASSUME NEW j \in Senders, NEW i \in 1 .. Len(admitted[j])
          PROVE  admitted[j][i].at <= clock + 1
      <4>1. admitted[j][i].at <= clock /\ admitted[j][i] \in Entries
        BY <1>t, <1>n DEF Counted
      <4> QED BY <4>1, <1>n DEF Entries
    <3>2. ASSUME NEW c \in Int, c >= clock + 1 - W PROVE c >= clock - W
      BY <3>2, <1>n
    <3>3. ASSUME NEW k \in Senders, NEW c \in Int, c >= clock' - W
          PROVE  CountIn(admitted'[k], Taken(c)) <= CountIn(windows'[k], After(c))
      <4>1. c >= clock - W
        BY <2>1, <3>3, <1>n
      <4>2. CountIn(admitted[k], Taken(c)) <= CountIn(windows[k], After(c))
        BY <4>1, <1>t DEF Counted
      <4> QED BY <2>1, <4>2
    <3>4. \A j \in Senders : \A i \in 1 .. Len(admitted'[j]) : admitted'[j][i].at <= clock'
      BY <2>1, <3>1
    <3> QED BY <2>1, <3>3, <3>4, <1>n DEF Counted
  <2>4. WithinQuota'
    <3>1. SUFFICES ASSUME NEW j \in Senders, NEW p \in Policies, NEW t \in 0 .. clock + 1
                   PROVE  Cardinality(AdmittedWithin(j, p, t)) <= p.requests
      BY <2>1 DEF WithinQuota, AdmittedWithin
    <3>2. CASE t \in 0 .. clock
      BY <3>2, <1>t DEF WithinQuota
    <3>3. CASE t = clock + 1
      <4>1. Cardinality(AdmittedWithin(j, p, clock)) <= p.requests
        BY <1>t, <1>n DEF WithinQuota
      <4>2. PICK U, V : U = AdmittedWithin(j, p, t) /\ V = AdmittedWithin(j, p, clock)
        OBVIOUS
      <4>3. \A i \in 1 .. Len(admitted[j]) : admitted[j][i].at \in Nat /\ admitted[j][i].at <= clock
        <5>1. \A i \in 1 .. Len(admitted[j]) : admitted[j][i] \in Entries
          BY <1>n
        <5>2. \A x \in Entries : x.at \in Nat
          BY DEF Entries
        <5> QED BY <5>1, <5>2, <1>t DEF Counted
      <4>4. U \subseteq V
        BY <3>3, <4>2, <4>3, <1>n DEF AdmittedWithin
      <4>5. V \subseteq 1 .. Len(admitted[j]) /\ Len(admitted[j]) \in Nat
        BY <4>2, <1>n DEF AdmittedWithin
      <4>6. IsFiniteSet(V)
        BY <4>5, PositionsFinite
      <4>7. /\ Cardinality(U) \in Nat /\ Cardinality(V) \in Nat
            /\ Cardinality(U) <= Cardinality(V)
        BY <4>4, <4>6, CountSubset
      <4> QED BY <4>1, <4>2, <4>7, <1>n
    <3> QED BY <3>1, <3>2, <3>3, <1>n
  <2> QED BY <2>3, <2>4, <1>s DEF QuotaInv
<1>5. CASE UNCHANGED limiterVars
  BY <1>5, <1>t DEF limiterVars, QuotaInv, LimiterShape, Counted, WithinQuota, AdmittedWithin
<1> QED BY <1>1, <1>2, <1>3, <1>4, <1>5 DEF LimiterNext

(* A route admits at most its quota of a sender's requests in any window   *)
(* of its length, for every set of senders and quotas and every capacity,  *)
(* if the routes agree on the length of the window.                        *)
THEOREM QuotaHolds ==
  ASSUME NEW W \in Nat, \A p \in Policies : p.windowMs = W
  PROVE  LimiterSpec => []WithinQuota
<1>1. LimiterInit => QuotaInv(W)
  BY LimiterInitInv
<1>2. QuotaInv(W) /\ [LimiterNext]_limiterVars => QuotaInv(W)'
  BY LimiterStepInv
<1>3. QuotaInv(W) => WithinQuota
  BY DEF QuotaInv
<1> QED BY <1>1, <1>2, <1>3, PTL DEF LimiterSpec

LEMMA MapInvariance == LimiterSpec => []MapInv
<1>1. LimiterInit => MapInv
  BY MapInit
<1>2. MapInv /\ [LimiterNext]_limiterVars => MapInv'
  BY MapStep
<1> QED BY <1>1, <1>2, PTL DEF LimiterSpec

(* The rate limiter's variables keep their types. *)
THEOREM LimiterTypeCorrect == LimiterSpec => []LimiterTypeOK
<1>1. MapInv => LimiterTypeOK
  BY DEF MapInv, LimiterShape, LimiterTypeOK, Distinct, Entries
<1> QED BY <1>1, MapInvariance, PTL

(* consume() never leaves more than maxKeys senders in the Map, each once, *)
(* and they are the senders with a window.                                 *)
THEOREM TrackingBounded == LimiterSpec => []BoundedTracking
<1>1. MapInv => BoundedTracking
  <2>1. SUFFICES ASSUME MapInv PROVE BoundedTracking
    OBVIOUS
  <2>2. Distinct(order) /\ Len(order) <= maxKeys
        /\ \A k \in Senders : k \in Tracked(order) <=> windows[k] # << >>
    BY <2>1 DEF MapInv, LimiterShape
  <2>3. PICK o : o = order
    OBVIOUS
  <2>4. Tracked(o) \subseteq Senders /\ Cardinality(Tracked(o)) = Len(o)
    BY <2>2, <2>3, DistinctTracked
  <2> QED BY <2>2, <2>3, <2>4 DEF BoundedTracking
<1> QED BY <1>1, MapInvariance, PTL

(* A sender at its quota keeps its window when other senders overflow the  *)
(* Map, unless every sender left has a full window with a live instant;    *)
(* for every capacity and all policies that let something through.         *)
THEOREM FloodKeepsQuota ==
  ASSUME \A p \in Policies : p.requests > 0
  PROVE  LimiterSpec => QuotaSurvivesFlood
<1> DEFINE A == \A j, k, i \in Senders, p \in Policies :
                  DropsAtQuota(k, j, i, p) =>
                    Len(windows[i]) >= p.requests /\ ~Expired(windows[i], p, clock)
<1>1. MapInv /\ [LimiterNext]_limiterVars => [A]_limiterVars
  <2>1. SUFFICES ASSUME MapInv, NEW j \in Senders, NEW k \in Senders, NEW i \in Senders,
                        NEW p \in Policies, DropsAtQuota(k, j, i, p)
                 PROVE  Len(windows[i]) >= p.requests /\ ~Expired(windows[i], p, clock)
    BY DEF A
  <2>2. /\ k # j /\ k \notin Tracked(order') /\ i \in Tracked(order') /\ i # j
        /\ Len(Live(windows[k], p, clock)) >= p.requests /\ Consume(j, p)
    BY <2>1 DEF DropsAtQuota, AtQuota
  <2>3. /\ clock \in Nat /\ windows \in [Senders -> Seq(Nat)] /\ Distinct(order)
        /\ \A x \in Senders : Sorted(windows[x]) /\ UpTo(windows[x], clock)
        /\ \A x \in Senders : x \in Tracked(order) <=> windows[x] # << >>
    BY <2>1 DEF MapInv, LimiterShape
  <2>4. Policy(p) /\ p.requests \in Nat /\ p.requests > 0 /\ p.windowMs \in Nat
    BY RateLimiterAssumption DEF Policy
  <2>5. PICK v, now, cut, l : /\ v = windows[k] /\ now = clock /\ cut = now - p.windowMs
                              /\ l = Live(v, p, now)
    OBVIOUS
  <2>6. v \in Seq(Nat) /\ now \in Nat /\ Sorted(v) /\ Len(l) >= p.requests
    BY <2>2, <2>3, <2>5
  <2>7. cut \in Int /\ l \in Seq(Nat) /\ Len(l) = CountIn(v, After(cut))
    <3>1. PICK q : q = p
      OBVIOUS
    <3>2. /\ cut = now - q.windowMs /\ l = Live(v, q, now) /\ v \in Seq(Nat) /\ now \in Nat
          /\ Policy(q)
      BY <2>4, <2>5, <2>6, <3>1
    <3>3. cut \in Int /\ l \in Seq(Nat) /\ Len(l) = CountIn(v, After(cut))
      BY ONLY <3>2, LiveCounts
    <3> QED BY <3>3
  <2>8. CountIn(v, After(cut)) \in Nat /\ CountIn(v, After(cut)) <= Len(v) /\ Len(v) \in Nat
    <3>1. PICK C : C = After(cut)
      OBVIOUS
    <3>2. CountIn(v, C) \in Nat /\ CountIn(v, C) <= Len(v)
      BY <2>6, CountType
    <3> QED BY <2>6, <3>1, <3>2
  <2>9. ~(Len(v) < p.requests) /\ Len(v) > 0
    BY <2>4, <2>6, <2>7, <2>8
  <2>10. ~Expired(v, p, now)
    <3>1. PICK x \in 1 .. Len(v) : v[x] > cut
      <4>1. SUFFICES ASSUME \A x \in 1 .. Len(v) : ~(v[x] > cut) PROVE FALSE
        OBVIOUS
      <4>2. {x \in 1 .. Len(v) : v[x] \in After(cut)} = {}
        BY <4>1 DEF After
      <4>3. CountIn(v, After(cut)) = 0
        BY <4>2, FS_EmptySet DEF CountIn
      <4> QED BY <2>4, <2>6, <2>7, <4>3
    <3>2. Len(v) \in 1 .. Len(v) /\ v[Len(v)] \in Nat /\ v[x] \in Nat
      BY <2>6, <2>8, <2>9
    <3>3. x = Len(v) \/ x < Len(v)
      BY <2>8
    <3>4. v[x] <= v[Len(v)]
      BY <2>6, <3>2, <3>3 DEF Sorted
    <3>5. ~(v[Len(v)] <= cut)
      BY <2>7, <3>1, <3>2, <3>4
    <3>6. v # << >>
      BY <2>9
    <3> QED BY <2>5, <3>5, <3>6 DEF Expired
  <2>11. k \in Tracked(order)
    BY <2>3, <2>5, <2>9
  <2>12. PICK w, t, r :
           /\ w = [windows EXCEPT ![j] = WindowAfter(windows[j], p, clock)]
           /\ t = Touched(order, j) /\ r = Shrunk(t, w, j, p, now)
    OBVIOUS
  <2>13. w[k] = windows[k] /\ w[i] = windows[i]
    BY <2>2, <2>3, <2>12
  <2>14. order' = IF w[j] = << >> THEN Without(order, {j}) ELSE r
    BY <2>2, <2>5, <2>12 DEF Consume
  <2>15. w[j] # << >>
    <3>1. SUFFICES ASSUME w[j] = << >> PROVE FALSE
      OBVIOUS
    <3>2. PICK o : o = order
      OBVIOUS
    <3>3. Tracked(Without(o, {j})) = Tracked(o) \ {j}
      BY <2>3, <3>2, WithoutTracked
    <3> QED BY <2>2, <2>11, <2>14, <3>1, <3>2, <3>3
  <2>16. Distinct(t) /\ Tracked(t) = Tracked(order) \cup {j}
    BY <2>3, <2>12, TouchedTracked
  <2>17. SparesFull(t, r, w, j, p, now)
    BY <2>12, <2>16, ShrunkTracked
  <2>18. ~Expired(w[i], p, now) /\ ~(Len(w[i]) < p.requests)
    <3>1. k \in Tracked(t) \ Tracked(r) /\ i \in Tracked(r) \ {j}
      BY <2>2, <2>11, <2>14, <2>15, <2>16
    <3>2. ~Expired(w[k], p, now) /\ ~(Len(w[k]) < p.requests)
      BY <2>5, <2>9, <2>10, <2>13
    <3> QED BY <2>17, <3>1, <3>2 DEF SparesFull
  <2>19. Len(windows[i]) \in Nat
    BY <2>3
  <2> QED BY <2>4, <2>5, <2>13, <2>18, <2>19
<1> QED BY <1>1, MapInvariance, PTL DEF LimiterSpec, QuotaSurvivesFlood

(***************************************************************************)
(* Single use of credentials and approvals                                 *)
(***************************************************************************)

(* What one check() does to each key of the store. *)
LEMMA CheckedType ==
  ASSUME NEW h \in Windows, NEW k \in Keys, NEW ttl \in Nat, NEW t \in Nat,
         NEW r, r = Checked(h, k, ttl, t)
  PROVE  /\ r \in Windows
         /\ \A j \in Keys : \/ r[j] = h[j]
                            \/ r[j] = NoEntry /\ h[j] <= t
                            \/ j = k /\ ~Refuses(h, k, t)
         /\ ~Refuses(h, k, t) => r[k] = t + ttl
<1>1. /\ Swept(h, t) \in Windows
      /\ \A j \in Keys : Swept(h, t)[j] = h[j] \/ (Swept(h, t)[j] = NoEntry /\ h[j] <= t)
  BY DEF Swept, Prune, Windows, NoEntry
<1>2. CASE Seen(h, k, t)
  BY <1>2 DEF Checked, Refuses
<1>3. CASE ~Seen(h, k, t) /\ Full(h, t)
  BY <1>1, <1>3 DEF Checked, Refuses
<1>4. CASE ~Seen(h, k, t) /\ ~Full(h, t)
  <2>1. r = [Swept(h, t) EXCEPT ![k] = t + ttl]
    BY <1>4 DEF Checked
  <2> QED BY <1>1, <1>4, <2>1 DEF Refuses, Windows
<1> QED BY <1>2, <1>3, <1>4

(* The types of the requests, as the steps below use them. *)
LEMMA RequestTypes ==
  /\ \A r \in Requests :
       /\ r.cred.id \in Keys /\ r.cred.timestampMs \in Nat /\ r.cred.ttlMs \in Nat
       /\ r.cred.genuine \in BOOLEAN
       /\ r.grant \in Keys \cup {NoGrant} /\ r.grantExpiresAt \in Nat
       /\ HoldFor(r.cred) \in Nat /\ LastValid(r.cred) \in Nat
       /\ r.route \in Routes
  /\ \A r, s \in Requests : r.grant # s.cred.id
  /\ \A r, s \in Requests :
       /\ r.cred.kind \in Schemes /\ s.cred.kind \in Schemes
       /\ r.cred.genuine /\ s.cred.genuine /\ r.cred.id = s.cred.id
       => r.cred = s.cred
<1>1. ASSUME NEW r \in Requests
      PROVE  /\ r.cred \in Credentials /\ r.route \in Routes
             /\ r.grant \in Keys \cup {NoGrant} /\ r.grantExpiresAt \in Nat
  BY GatewayAssumption
<1>2. ASSUME NEW d \in Credentials
      PROVE  /\ d.id \in Keys /\ d.timestampMs \in Nat /\ d.ttlMs \in Nat
             /\ d.genuine \in BOOLEAN
             /\ HoldFor(d) \in Nat /\ LastValid(d) \in Nat
  BY GatewayAssumption DEF Credentials, HoldFor, LastValid
<1>3. \A r, s \in Requests : r.grant # s.cred.id
  BY GatewayAssumption
<1>4. \A r, s \in Requests :
       /\ r.cred.kind \in Schemes /\ s.cred.kind \in Schemes
       /\ r.cred.genuine /\ s.cred.genuine /\ r.cred.id = s.cred.id
       => r.cred = s.cred
  BY GatewayAssumption
<1> QED BY <1>1, <1>2, <1>3, <1>4

LEMMA InitInv == Init => IInv
<1> SUFFICES ASSUME Init PROVE IInv
  OBVIOUS
<1>1. TypeOK
  BY DEF Init, TypeOK, Empty, Windows, PCs
<1>2. RecentStart
  BY DEF Init, RecentStart, Verifying
<1>3. TakenHeld
  BY RequestTypes DEF Init, TakenHeld
<1>4. RefusalKeepsGrant
  BY RequestTypes DEF Init, RefusalKeepsGrant, Empty
<1> QED BY <1>1, <1>2, <1>3, <1>4 DEF IInv

(* A step of call c that touches neither the store nor lastUse: the new    *)
(* place asks for nothing the old one did not.                             *)
LEMMA MoveOnly ==
  ASSUME IInv, NEW c \in Calls, NEW from \in PCs \ {"idle"}, NEW to \in PCs \ {"fresh"},
         Goto(c, from, to),
         to \in {"arrived", "authenticated", "admitted"} => Verifying(c),
         UNCHANGED <<clock, store, req, since, lastUse>>,
         spent \subseteq spent', spent' \subseteq Keys
  PROVE  IInv'
<1>1. TypeOK'
  BY DEF IInv, TypeOK, Goto, PCs
<1>2. RecentStart'
  BY DEF IInv, TypeOK, RecentStart, Verifying, Goto, Cred
<1>3. TakenHeld' /\ RefusalKeepsGrant'
  BY DEF IInv, TakenHeld, RefusalKeepsGrant
<1> QED BY <1>1, <1>2, <1>3 DEF IInv

(* One check() of the store, for key k: only an entry that has expired is  *)
(* dropped, and only k is written.                                         *)
LEMMA CheckKeeps ==
  ASSUME IInv, NEW k \in Keys, NEW ttl \in Nat, store' = Checked(store, k, ttl, clock)
  PROVE  /\ store' \in Windows
         /\ \A j \in Keys : \/ store'[j] = store[j]
                            \/ store'[j] = NoEntry /\ store[j] <= clock
                            \/ j = k /\ ~Refuses(store, k, clock)
         /\ ~Refuses(store, k, clock) => store'[k] = clock + ttl
<1>1. store \in Windows /\ clock \in Nat
  BY DEF IInv, TypeOK
<1> HIDE DEF Windows, Refuses, Checked
<1> QED BY <1>1, CheckedType

(* The store forgets a credential it holds only when the hold is past. *)
LEMMA HeldStays ==
  ASSUME IInv, NEW k \in Keys, NEW ttl \in Nat, store' = Checked(store, k, ttl, clock),
         UNCHANGED <<clock, lastUse>>,
         Refuses(store, k, clock) \/ \A r \in Requests : r.cred.id # k
  PROVE  TakenHeld'
<1> SUFFICES ASSUME NEW r \in Requests, r.cred.kind \in Schemes, r.cred.genuine,
                    lastUse[r.cred.id] # Never
             PROVE  \/ store'[r.cred.id] >= lastUse[r.cred.id] + HoldFor(r.cred)
                    \/ clock >= lastUse[r.cred.id] + HoldFor(r.cred)
  BY DEF TakenHeld
<1> DEFINE i == r.cred.id
           until == lastUse[i] + HoldFor(r.cred)
<1>1. i \in Keys /\ until \in Nat /\ clock \in Nat /\ store[i] \in Nat \cup {NoEntry}
  BY RequestTypes DEF IInv, TypeOK, Windows, Never
<1>2. store[i] >= until \/ clock >= until
  BY DEF IInv, TakenHeld
<1>3. store'[i] = store[i] \/ store[i] <= clock
  BY <1>1, CheckKeeps
<1> QED BY <1>1, <1>2, <1>3 DEF NoEntry

LEMMA NextInv == IInv /\ [Next]_vars => IInv'
<1> SUFFICES ASSUME IInv, [Next]_vars PROVE IInv'
  OBVIOUS
<1>t. TypeOK /\ RecentStart /\ TakenHeld /\ RefusalKeepsGrant
  BY DEF IInv
<1>n. /\ NoRequest \notin Requests /\ Skew \in Nat /\ MaxDelay \in Nat
      /\ clock \in Nat /\ since \in [Calls -> Nat]
  BY <1>t, GatewayAssumption DEF TypeOK
<1>q. \A c \in Calls : pc[c] # "idle" => req[c] \in Requests
  BY <1>t DEF TypeOK
<1>1. ASSUME NEW c \in Calls, NEW r \in Requests, Arrive(c, r) PROVE IInv'
  <2>1. Start(r) \in {"denied", "ok", "arrived"}
    BY DEF Start
  <2>2. /\ pc[c] = "idle" /\ pc' = [pc EXCEPT ![c] = Start(r)]
        /\ req' = [req EXCEPT ![c] = r] /\ since' = [since EXCEPT ![c] = clock]
        /\ UNCHANGED <<clock, store, lastUse, spent>>
    BY <1>1 DEF Arrive, Goto, historyVars
  <2>3. TypeOK'
    BY <2>1, <2>2, <1>t DEF TypeOK, PCs
  <2>4. RecentStart'
    <3>1. ASSUME NEW d \in Calls, d # c
          PROVE  /\ pc'[d] = pc[d] /\ since'[d] = since[d] /\ Cred(d)' = Cred(d)
                 /\ Verifying(d)' = Verifying(d)
      BY <2>2, <3>1, <1>t DEF TypeOK, Cred, Verifying
    <3>2. pc'[c] = Start(r) /\ since'[c] = clock
      BY <2>2, <1>t DEF TypeOK
    <3> QED BY <2>1, <2>2, <3>1, <3>2, <1>t, <1>n DEF RecentStart
  <2> QED BY <2>2, <2>3, <2>4, <1>t DEF IInv, TakenHeld, RefusalKeepsGrant
<1>2. ASSUME NEW c \in Calls, CheckFresh(c) PROVE IInv'
  <2>1. /\ pc[c] = "arrived" /\ pc' = [pc EXCEPT ![c] = "fresh"]
        /\ Cred(c).kind = Scheme(Route(c)) /\ Fresh(Cred(c), clock)
        /\ UNCHANGED <<clock, store, req, since, lastUse, spent>>
    BY <1>2 DEF CheckFresh, Goto, historyVars
  <2>2. TypeOK'
    BY <2>1, <1>t DEF TypeOK, PCs
  <2>3. /\ Cred(c).kind \in Schemes /\ since[c] <= LastValid(Cred(c))
        /\ since[c] <= clock /\ clock <= since[c] + MaxDelay
    <3>1. LastValid(Cred(c)) \in Nat
      BY <2>1, <1>q, RequestTypes DEF Cred
    <3>2. since[c] <= clock /\ clock <= since[c] + MaxDelay
      BY <2>1, <1>t DEF RecentStart, Verifying
    <3>3. clock <= LastValid(Cred(c)) /\ Cred(c).kind \in Schemes
      BY <2>1 DEF Fresh, Scheme, Schemes
    <3> QED BY <3>1, <3>2, <3>3, <1>n
  <2>4. RecentStart'
    BY <2>1, <2>3, <1>t DEF RecentStart, TypeOK, Verifying, Cred
  <2> QED BY <2>1, <2>2, <2>4, <1>t DEF IInv, TakenHeld, RefusalKeepsGrant
<1>3. ASSUME NEW c \in Calls,
             \/ Unauthenticated(c) \/ CapabilityOk(c) \/ NotAdmitted(c)
             \/ NoApprovalNeeded(c) \/ ApprovalDenied(c) \/ Forward(c)
      PROVE  IInv'
  <2>1. \E from \in PCs \ {"idle"}, to \in PCs \ {"fresh"} :
          /\ Goto(c, from, to)
          /\ to \in {"arrived", "authenticated", "admitted"} => Verifying(c)
    BY <1>3 DEF Unauthenticated, CapabilityOk, NotAdmitted, NoApprovalNeeded, ApprovalDenied,
       Forward, Pass, Goto, Verifying, PCs
  <2>2. UNCHANGED <<clock, store, req, since, lastUse, spent>>
    BY <1>3 DEF Unauthenticated, CapabilityOk, NotAdmitted, NoApprovalNeeded, ApprovalDenied,
       Forward, historyVars
  <2>3. spent \subseteq spent' /\ spent' \subseteq Keys
    BY <2>2, <1>t DEF TypeOK
  <2> HIDE DEF Goto, PCs, Verifying
  <2> QED BY <2>1, <2>2, <2>3, MoveOnly
<1>4. ASSUME NEW c \in Calls, RateLimited(c) \/ Admit(c) PROVE IInv'
  <2>1. \E to \in {"denied", "admitted"} : Goto(c, "authenticated", to)
    BY <1>4 DEF RateLimited, Admit
  <2>2. UNCHANGED <<clock, store, req, since, lastUse, spent>>
    BY <1>4 DEF RateLimited, Admit, UseQuota, Consume, historyVars
  <2>3. spent \subseteq spent' /\ spent' \subseteq Keys
    BY <2>2, <1>t DEF TypeOK
  <2>4. \A to \in {"denied", "admitted"} : Goto(c, "authenticated", to) => Verifying(c)
    BY DEF Goto, Verifying
  <2>5. "authenticated" \in PCs \ {"idle"} /\ {"denied", "admitted"} \subseteq PCs \ {"fresh"}
    BY DEF PCs
  <2> HIDE DEF Goto, PCs, Verifying
  <2> QED BY <2>1, <2>2, <2>3, <2>4, <2>5, MoveOnly
<1>5. ASSUME NEW c \in Calls, ReplayDetected(c) PROVE IInv'
  <2> DEFINE k == Cred(c).id
             ttl == HoldFor(Cred(c))
  <2>1. /\ pc[c] = "fresh" /\ pc' = [pc EXCEPT ![c] = "denied"]
        /\ Refuses(store, k, clock) /\ store' = Checked(store, k, ttl, clock)
        /\ UNCHANGED <<clock, req, since, lastUse, spent>>
    BY <1>5 DEF ReplayDetected, CheckStore, Goto, historyVars
  <2>2. k \in Keys /\ ttl \in Nat
    BY <2>1, <1>q, RequestTypes DEF Cred
  <2> HIDE DEF k, ttl
  <2>3. TakenHeld'
    BY <2>1, <2>2, HeldStays
  <2>4. /\ store' \in Windows
        /\ \A j \in Keys : store'[j] = store[j] \/ store'[j] = NoEntry
    BY <2>1, <2>2, CheckKeeps
  <2>5. TypeOK'
    BY <2>1, <2>4, <1>t DEF TypeOK, PCs
  <2>6. RecentStart'
    BY <2>1, <1>t DEF RecentStart, TypeOK, Verifying, Cred
  <2>7. RefusalKeepsGrant'
    BY <2>1, <2>4, <1>t, RequestTypes DEF RefusalKeepsGrant
  <2> QED BY <2>3, <2>5, <2>6, <2>7 DEF IInv
<1>6. ASSUME NEW c \in Calls, TakeCredential(c) PROVE IInv'
  <2> DEFINE k == Cred(c).id
             ttl == HoldFor(Cred(c))
  <2>1. /\ pc[c] = "fresh" /\ pc' = [pc EXCEPT ![c] = "authenticated"]
        /\ Cred(c).genuine
        /\ ~Refuses(store, k, clock) /\ store' = Checked(store, k, ttl, clock)
        /\ lastUse' = [lastUse EXCEPT ![k] = clock]
        /\ UNCHANGED <<clock, req, since, spent>>
    BY <1>6 DEF TakeCredential, CheckStore, Goto
  <2>2. k \in Keys /\ ttl \in Nat /\ req[c] \in Requests /\ Cred(c).kind \in Schemes
    BY <2>1, <1>q, <1>t, RequestTypes DEF Cred, RecentStart
  <2>3. \A r \in Requests : r.cred.kind \in Schemes /\ r.cred.genuine /\ r.cred.id = k =>
                             HoldFor(r.cred) = ttl
    BY <2>1, <2>2, RequestTypes DEF Cred
  <2>4. \A r \in Requests : r.grant # k
    BY <2>2, RequestTypes DEF Cred
  <2> HIDE DEF k, ttl
  <2>5. /\ store' \in Windows
        /\ store'[k] = clock + ttl
        /\ \A j \in Keys \ {k} : store'[j] = store[j] \/ (store'[j] = NoEntry /\ store[j] <= clock)
    BY <2>1, <2>2, CheckKeeps
  <2>6. TypeOK'
    BY <2>1, <2>2, <2>5, <1>t DEF TypeOK, PCs
  <2>7. RecentStart'
    BY <2>1, <1>t DEF RecentStart, TypeOK, Verifying, Cred
  <2>8. TakenHeld'
    <3> SUFFICES ASSUME NEW r \in Requests, r.cred.kind \in Schemes, r.cred.genuine,
                        lastUse'[r.cred.id] # Never
                 PROVE  \/ store'[r.cred.id] >= lastUse'[r.cred.id] + HoldFor(r.cred)
                        \/ clock' >= lastUse'[r.cred.id] + HoldFor(r.cred)
      BY DEF TakenHeld
    <3>1. CASE r.cred.id = k
      <4>1. lastUse'[k] = clock /\ HoldFor(r.cred) = ttl
        BY <2>1, <2>2, <2>3, <3>1, <1>t DEF TypeOK
      <4> QED BY <3>1, <4>1, <2>2, <2>5, <1>n
    <3>2. CASE r.cred.id # k
      <4>1. /\ r.cred.id \in Keys /\ HoldFor(r.cred) \in Nat
            /\ lastUse'[r.cred.id] = lastUse[r.cred.id] /\ lastUse[r.cred.id] \in Nat
            /\ store[r.cred.id] \in Nat \cup {NoEntry}
        BY <2>1, <2>2, <3>2, <1>t, RequestTypes DEF TypeOK, Windows
      <4>2. \/ store[r.cred.id] >= lastUse[r.cred.id] + HoldFor(r.cred)
            \/ clock >= lastUse[r.cred.id] + HoldFor(r.cred)
        BY <4>1, <1>t DEF TakenHeld
      <4>3. store'[r.cred.id] = store[r.cred.id] \/ store[r.cred.id] <= clock
        BY <2>5, <3>2, <4>1
      <4> QED BY <2>1, <4>1, <4>2, <4>3, <1>n DEF NoEntry
    <3> QED BY <3>1, <3>2
  <2>9. RefusalKeepsGrant'
    BY <2>1, <2>4, <2>5, <1>t, RequestTypes DEF RefusalKeepsGrant
  <2> QED BY <2>6, <2>7, <2>8, <2>9 DEF IInv
<1>7. ASSUME NEW c \in Calls, ApprovalUsed(c) \/ Approved(c) PROVE IInv'
  <2> DEFINE k == req[c].grant
  <2>1. /\ pc[c] = "admitted" /\ k # NoGrant
        /\ \E to \in {"denied", "ok"} : pc' = [pc EXCEPT ![c] = to]
        /\ CheckGrant(c)
        /\ UNCHANGED <<clock, req, since, lastUse>>
        /\ \/ Refuses(store, k, clock) /\ spent' = spent
           \/ spent' = spent \cup {k}
    BY <1>7 DEF ApprovalUsed, Approved, Pass, Goto, historyVars
  <2>2. k \in Keys /\ (\A r \in Requests : r.cred.id # k) /\ req[c].grantExpiresAt \in Nat
    BY <2>1, <1>q, RequestTypes
  <2>3. PICK ttl \in Nat : store' = Checked(store, k, ttl, clock)
    <3>1. PICK t \in since[c] .. clock :
            /\ t < req[c].grantExpiresAt
            /\ store' = Checked(store, k, req[c].grantExpiresAt - t + Skew, clock)
      BY <2>1 DEF CheckGrant
    <3>2. req[c].grantExpiresAt - t + Skew \in Nat
      BY <3>1, <2>2, <1>n
    <3> QED BY <3>1, <3>2
  <2> HIDE DEF k
  <2>4. TakenHeld'
    BY <2>1, <2>2, <2>3, HeldStays
  <2>5. /\ store' \in Windows
        /\ \A j \in Keys : \/ store'[j] = store[j] \/ store'[j] = NoEntry
                           \/ j = k /\ ~Refuses(store, k, clock)
    BY <2>2, <2>3, CheckKeeps
  <2>6. TypeOK'
    BY <2>1, <2>2, <2>5, <1>t DEF TypeOK, PCs
  <2>7. RecentStart'
    BY <2>1, <1>t DEF RecentStart, TypeOK, Verifying, Cred
  <2>8. RefusalKeepsGrant'
    BY <2>1, <2>5, <1>t, RequestTypes DEF RefusalKeepsGrant
  <2> QED BY <2>4, <2>6, <2>7, <2>8 DEF IInv
<1>8. ASSUME NEW c \in Calls, Finish(c) PROVE IInv'
  <2>1. /\ pc' = [pc EXCEPT ![c] = "idle"] /\ req' = [req EXCEPT ![c] = NoRequest]
        /\ since' = [since EXCEPT ![c] = 0]
        /\ UNCHANGED <<clock, store, lastUse, spent>>
    BY <1>8 DEF Finish, historyVars
  <2>2. TypeOK'
    BY <2>1, <1>t DEF TypeOK, PCs
  <2>3. RecentStart'
    <3>1. ASSUME NEW d \in Calls, d # c
          PROVE  /\ pc'[d] = pc[d] /\ since'[d] = since[d] /\ Cred(d)' = Cred(d)
                 /\ Verifying(d)' = Verifying(d)
      BY <2>1, <3>1, <1>t DEF TypeOK, Cred, Verifying
    <3>2. pc'[c] = "idle"
      BY <2>1, <1>t DEF TypeOK
    <3> QED BY <2>1, <3>1, <3>2, <1>t DEF RecentStart, Verifying
  <2> QED BY <2>1, <2>2, <2>3, <1>t DEF IInv, TakenHeld, RefusalKeepsGrant
<1>9. CASE Tick
  <2>1. /\ clock' = clock + 1
        /\ \A c \in Calls : Verifying(c) => clock < since[c] + MaxDelay
        /\ UNCHANGED <<store, pc, req, since, lastUse, spent>>
    BY <1>9 DEF Tick, callVars, historyVars
  <2>2. TypeOK'
    BY <2>1, <1>t DEF TypeOK
  <2>3. RecentStart'
    BY <2>1, <1>t, <1>n DEF RecentStart, Verifying, Cred
  <2>4. TakenHeld'
    <3> SUFFICES ASSUME NEW r \in Requests, r.cred.kind \in Schemes, r.cred.genuine,
                        lastUse[r.cred.id] # Never
                 PROVE  \/ store[r.cred.id] >= lastUse[r.cred.id] + HoldFor(r.cred)
                        \/ clock' >= lastUse[r.cred.id] + HoldFor(r.cred)
      BY <2>1 DEF TakenHeld
    <3>1. lastUse[r.cred.id] \in Nat /\ HoldFor(r.cred) \in Nat
      BY <1>t, RequestTypes DEF TypeOK
    <3> QED BY <2>1, <3>1, <1>t, <1>n DEF TakenHeld
  <2> QED BY <2>1, <2>2, <2>3, <2>4, <1>t DEF IInv, RefusalKeepsGrant
<1>10. CASE UNCHANGED vars
  BY <1>10, <1>t DEF IInv, TypeOK, RecentStart, TakenHeld, RefusalKeepsGrant, Verifying, Cred,
     vars, callVars, historyVars
<1> QED
  BY <1>1, <1>2, <1>3, <1>4, <1>5, <1>6, <1>7, <1>8, <1>9, <1>10 DEF Next, CallStep

(* The inductive invariant holds of every reachable state. *)
THEOREM Invariance == Spec => []IInv
<1>1. Init => IInv
  BY InitInv
<1>2. IInv /\ [Next]_vars => IInv'
  BY NextInv
<1> QED BY <1>1, <1>2, PTL DEF Spec

(* The gateway's calls, store and history keep their types. *)
THEOREM TypeCorrect == Spec => []TypeOK
<1>1. IInv => TypeOK
  BY DEF IInv
<1> QED BY <1>1, Invariance, PTL

(* A request that is refused, at whichever check, leaves its approval      *)
(* unused: the store holds an approval only if a request passed on it.     *)
THEOREM RefusedKeepsApproval == Spec => []RefusalKeepsGrant
<1>1. IInv => RefusalKeepsGrant
  BY DEF IInv
<1> QED BY <1>1, Invariance, PTL

(* A single-use credential is taken a second time only if it was last      *)
(* taken no later than its timestamp and the delay of a call, a DPoP proof *)
(* one skew before: replayStore.check()'s hold covers every later use.     *)
THEOREM SingleUseWindow == Spec => SecondUseNeedsEarlyFirst
<1> DEFINE A == \A c \in Calls : Takes(c) =>
                  \/ lastUse[Cred(c).id] = Never
                  \/ lastUse[Cred(c).id] + Margin(Cred(c)) <= Cred(c).timestampMs + MaxDelay
<1>1. IInv /\ [Next]_vars => [A]_vars
  <2> SUFFICES ASSUME IInv, Next, NEW c \in Calls, Takes(c), lastUse[Cred(c).id] # Never
               PROVE  lastUse[Cred(c).id] + Margin(Cred(c)) <= Cred(c).timestampMs + MaxDelay
    OBVIOUS
  <2> DEFINE r == req[c]
             k == Cred(c).id
  <2>t. TypeOK /\ RecentStart /\ TakenHeld
    BY DEF IInv
  <2>1. pc[c] = "fresh" /\ r \in Requests /\ Cred(c) = r.cred
    BY <2>t DEF Takes, TypeOK, Cred
  <2>2. TakeCredential(c)
    <3>1. \A d \in Calls : CallStep(d) /\ d # c => pc'[c] = pc[c]
      BY <2>t DEF TypeOK, CallStep, Arrive, CheckFresh, Unauthenticated, CapabilityOk,
         ReplayDetected, TakeCredential, NotAdmitted, RateLimited, Admit, NoApprovalNeeded,
         ApprovalDenied, ApprovalUsed, Approved, Forward, Finish, Pass, Goto
    <3>2. Tick => pc'[c] = pc[c]
      BY DEF Tick, callVars
    <3>3. CallStep(c)
      BY <3>1, <3>2 DEF Next, Takes
    <3>4. pc'[c] = "authenticated" /\ pc[c] = "fresh"
      BY DEF Takes
    <3> QED
      BY <3>3, <3>4, <2>t DEF TypeOK, CallStep, Arrive, CheckFresh, Unauthenticated,
         CapabilityOk, ReplayDetected, NotAdmitted, RateLimited, Admit, NoApprovalNeeded,
         ApprovalDenied, ApprovalUsed, Approved, Forward, Finish, Pass, Goto
  <2>3. store[k] <= clock /\ r.cred.genuine
    BY <2>1, <2>2, <2>t, RequestTypes DEF TakeCredential, Refuses, Seen, TypeOK, Windows, NoEntry
  <2>4. /\ clock <= since[c] + MaxDelay /\ since[c] <= LastValid(r.cred)
        /\ r.cred.kind \in Schemes
    BY <2>1, <2>t DEF RecentStart, Verifying
  <2>5. \/ store[k] >= lastUse[k] + HoldFor(r.cred)
        \/ clock >= lastUse[k] + HoldFor(r.cred)
    BY <2>1, <2>3, <2>4, <2>t DEF TakenHeld
  <2>6. /\ lastUse[k] \in Nat /\ HoldFor(r.cred) \in Nat /\ LastValid(r.cred) \in Nat
        /\ clock \in Nat /\ since[c] \in Nat /\ store[k] \in Nat \cup {NoEntry}
        /\ MaxDelay \in Nat
    BY <2>1, <2>t, RequestTypes, GatewayAssumption DEF TypeOK, Windows
  <2>7. lastUse[k] + HoldFor(r.cred) <= LastValid(r.cred) + MaxDelay
    BY <2>3, <2>4, <2>5, <2>6 DEF NoEntry
  <2>8. /\ r.cred.timestampMs \in Nat /\ r.cred.ttlMs \in Nat
        /\ Skew \in Nat /\ MaxAge \in Nat
    BY <2>1, RequestTypes, GatewayAssumption
  <2>9. lastUse[k] + Margin(r.cred) <= r.cred.timestampMs + MaxDelay
    BY <2>4, <2>6, <2>7, <2>8 DEF Margin, HoldFor, LastValid, Schemes
  <2> QED BY <2>1, <2>9
<1> QED BY <1>1, Invariance, PTL DEF Spec, SecondUseNeedsEarlyFirst

(***************************************************************************)
(* What passes the gateway under one rate limit                            *)
(***************************************************************************)

(* Calls of sender s that were counted, wait for their approval and began  *)
(* after c.                                                                *)
Waiting(s, c) ==
  {x \in Calls : /\ pc[x] = "admitted" /\ Route(x).rateLimit # NoLimit
                 /\ Cred(x).sender = s /\ since[x] > c}

(* Since c, no more has passed or waits to pass than the sender's list has *)
(* instants from MaxDelay before c on.                                     *)
Covered(s, c) ==
  CountIn(passed[s], After(c)) + Cardinality(Waiting(s, c - MaxDelay))
    <= CountIn(windows[s], After(c - MaxDelay))

(* The list covers what passes as long as it keeps those instants, and is  *)
(* itself within the quota.                                                *)
PassCore(p) ==
  /\ MapInv
  /\ passed \in [Senders -> Seq(Nat)]
  /\ \A s \in Senders : CountIn(windows[s], After(clock - p.windowMs)) <= p.requests
  /\ \A s \in Senders, c \in Int : c >= clock - (p.windowMs - MaxDelay) => Covered(s, c)

PassInv(p) == PassCore(p) /\ PassesWithinQuota

LEMMA WaitingFinite ==
  ASSUME NEW s, NEW c
  PROVE  IsFiniteSet(Waiting(s, c)) /\ Cardinality(Waiting(s, c)) \in Nat
<1>1. Waiting(s, c) \subseteq Calls /\ IsFiniteSet(Calls)
  BY GatewayAssumption DEF Waiting
<1> QED BY <1>1, CountSubset

(* The window that ends now. *)
LEMMA EndingNow ==
  ASSUME NEW ps \in Seq(Nat), NEW w \in Seq(Nat), NEW now \in Nat, NEW W \in Nat, NEW D \in Nat,
         NEW R \in Nat, NEW n \in Nat, NEW c, c = now - (W - D),
         CountIn(ps, After(c)) + n <= CountIn(w, After(c - D)),
         CountIn(w, After(now - W)) <= R,
         NEW U, \A i \in U : i \in 1 .. Len(ps) /\ ps[i] > c
  PROVE  Cardinality(U) <= R
<1>1. c \in Int /\ c - D = now - W
  OBVIOUS
<1>2. PICK C, E : C = After(c) /\ E = After(now - W)
  OBVIOUS
<1>3. \A i \in U : i \in 1 .. Len(ps) /\ ps[i] \in C
  <2>1. SUFFICES ASSUME NEW i \in U PROVE ps[i] \in C
    OBVIOUS
  <2>2. i \in 1 .. Len(ps) /\ ps[i] > c
    OBVIOUS
  <2>3. ps[i] \in Nat
    BY <2>2
  <2> QED BY <2>2, <2>3, <1>2 DEF After
<1>4. Cardinality(U) \in Nat /\ Cardinality(U) <= CountIn(ps, C)
  BY <1>3, CountLess
<1>5. CountIn(ps, C) \in Nat /\ CountIn(w, E) \in Nat
  BY CountType
<1>6. CountIn(ps, C) + n <= CountIn(w, E) /\ CountIn(w, E) <= R
  BY <1>1, <1>2
<1> QED BY <1>4, <1>5, <1>6

(* Earlier windows do not change. *)
LEMMA QuotaStays ==
  ASSUME NEW p, Policies = {p}, IInv, IInv', PassInv(p), PassCore(p)',
         \/ passed' = passed /\ clock' \in {clock, clock + 1}
         \/ /\ clock' = clock
            /\ \E s \in Senders : passed' = [passed EXCEPT ![s] = Append(@, clock)]
  PROVE  PassesWithinQuota'
<1>0. /\ p.requests \in Nat /\ p.windowMs \in Nat /\ MaxDelay \in Nat /\ p \in Policies
  BY RateLimiterAssumption, GatewayAssumption
<1>1. /\ clock \in Nat /\ clock' \in Nat /\ passed \in [Senders -> Seq(Nat)]
      /\ passed' \in [Senders -> Seq(Nat)] /\ windows' \in [Senders -> Seq(Nat)]
  BY DEF PassInv, PassCore, MapInv, LimiterShape
<1>2. SUFFICES ASSUME NEW s \in Senders, NEW t \in 0 .. clock',
                      NEW U, U = {i \in 1 .. Len(passed'[s]) :
                                    /\ passed'[s][i] > t - (p.windowMs - MaxDelay)
                                    /\ passed'[s][i] <= t}
               PROVE  Cardinality(U) <= p.requests
  BY DEF PassesWithinQuota, Elements
<1>3. CASE t = clock'
  <2>1. PICK ps, w, now, W, D, R, n, c :
          /\ ps = passed'[s] /\ w = windows'[s] /\ now = clock' /\ W = p.windowMs
          /\ D = MaxDelay /\ R = p.requests /\ c = now - (W - D)
          /\ n = Cardinality(Waiting(s, c - D)')
    OBVIOUS
  <2>2. /\ ps \in Seq(Nat) /\ w \in Seq(Nat) /\ now \in Nat /\ W \in Nat /\ D \in Nat
        /\ R \in Nat /\ c \in Int
    BY <2>1, <1>0, <1>1
  <2>3. n \in Nat
    <3>1. Waiting(s, c - D)' \subseteq Calls /\ IsFiniteSet(Calls)
      BY GatewayAssumption DEF Waiting
    <3> QED BY <2>1, <3>1, CountSubset
  <2>4. CountIn(w, After(now - W)) <= R
    BY <2>1 DEF PassCore
  <2>5. CountIn(ps, After(c)) + n <= CountIn(w, After(c - D))
    <3>1. c >= clock' - (p.windowMs - MaxDelay)
      BY <2>1, <2>2
    <3>2. Covered(s, c)'
      BY <3>1, <2>2 DEF PassCore
    <3> QED BY <2>1, <3>2 DEF Covered
  <2>6. \A i \in U : i \in 1 .. Len(ps) /\ ps[i] > c
    BY <1>2, <1>3, <2>1
  <2>7. Cardinality(U) <= R
    BY <2>2, <2>3, <2>4, <2>5, <2>6, <2>1, EndingNow
  <2> QED BY <2>1, <2>7
<1>4. CASE t # clock'
  <2>1. t \in 0 .. clock
    BY <1>1, <1>4
  <2>2. PICK V : V = {i \in 1 .. Len(passed[s]) :
                        /\ passed[s][i] > t - (p.windowMs - MaxDelay) /\ passed[s][i] <= t}
    OBVIOUS
  <2>3. Cardinality(V) <= p.requests
    BY <1>0, <2>1, <2>2 DEF PassInv, PassesWithinQuota, Elements
  <2>4. U = V
    <3>1. CASE passed' = passed
      BY <3>1, <1>2, <2>2
    <3>2. CASE clock' = clock /\ passed'[s] = Append(passed[s], clock)
      <4>1. PICK ps, n : ps = passed[s] /\ n = Len(ps)
        OBVIOUS
      <4>2. /\ ps \in Seq(Nat) /\ n \in Nat /\ Len(Append(ps, clock)) = n + 1
            /\ Append(ps, clock)[n + 1] = clock
            /\ \A i \in 1 .. n : Append(ps, clock)[i] = ps[i]
            /\ \A i : i \in 1 .. n + 1 <=> (i \in 1 .. n \/ i = n + 1)
        BY <4>1, <1>1
      <4>3. ~(clock <= t)
        BY <3>2, <1>1, <1>4
      <4> QED BY <3>2, <4>1, <4>2, <4>3, <1>2, <2>2
    <3>3. passed'[s] = passed[s] \/ (clock' = clock /\ passed'[s] = Append(passed[s], clock))
      BY <1>1
    <3> QED BY <3>1, <3>2, <3>3, <1>2, <2>2
  <2> QED BY <2>3, <2>4
<1> QED BY <1>3, <1>4

(* A step that counts and passes nothing, and after which no more calls    *)
(* wait.                                                                   *)
LEMMA QuietStep ==
  ASSUME NEW p, Policies = {p}, IInv, IInv', PassInv(p),
         UNCHANGED <<clock, windows, order, admitted, passed>>,
         \A s \in Senders, c \in Int : Waiting(s, c)' \subseteq Waiting(s, c)
  PROVE  PassInv(p)'
<1>0. p.windowMs \in Nat /\ MaxDelay \in Nat /\ clock \in Nat /\ p \in Policies
  BY RateLimiterAssumption, GatewayAssumption DEF IInv, TypeOK
<1>1. ASSUME NEW s \in Senders, NEW c \in Int, c >= clock' - (p.windowMs - MaxDelay)
      PROVE  Covered(s, c)'
  <2>1. Covered(s, c) /\ c - MaxDelay \in Int
    BY <1>0, <1>1 DEF PassInv, PassCore
  <2>2. PICK X, Y : X = Waiting(s, c - MaxDelay) /\ Y = Waiting(s, c - MaxDelay)'
    OBVIOUS
  <2>3. IsFiniteSet(X) /\ Y \subseteq X
    BY <2>1, <2>2, WaitingFinite
  <2>4. Cardinality(Y) \in Nat /\ Cardinality(X) \in Nat /\ Cardinality(Y) <= Cardinality(X)
    BY <2>3, CountSubset
  <2>5. PICK a, b : a = CountIn(passed[s], After(c)) /\ b = CountIn(windows[s], After(c - MaxDelay))
    OBVIOUS
  <2>6. a \in Nat /\ b \in Nat
    <3>1. passed[s] \in Seq(Nat) /\ windows[s] \in Seq(Nat)
      BY DEF PassInv, PassCore, MapInv, LimiterShape
    <3>2. PICK v, w, C, E : /\ v = passed[s] /\ w = windows[s] /\ C = After(c)
                            /\ E = After(c - MaxDelay)
      OBVIOUS
    <3>3. CountIn(v, C) \in Nat /\ CountIn(w, E) \in Nat
      BY <3>1, <3>2, CountType
    <3> QED BY <2>5, <3>2, <3>3
  <2>7. a + Cardinality(X) <= b
    BY <2>1, <2>2, <2>5 DEF Covered
  <2>8. a + Cardinality(Y) <= b
    BY <2>4, <2>6, <2>7
  <2> QED BY <2>2, <2>5, <2>8 DEF Covered
<1>2. MapInv'
  BY DEF PassInv, PassCore, MapInv, LimiterShape
<1>3. PassCore(p)'
  BY <1>1, <1>2 DEF PassInv, PassCore
<1>4. PassesWithinQuota'
  BY <1>3, QuotaStays
<1> QED BY <1>3, <1>4 DEF PassInv

(* consume() when no sender is ever dropped: only the caller's list        *)
(* changes.                                                                *)
LEMMA ConsumeCounts ==
  ASSUME NEW p, Policies = {p}, IsFiniteSet(Senders), Cardinality(Senders) <= maxKeys,
         MapInv, NEW s \in Senders, Consume(s, p)
  PROVE  /\ MapInv' /\ clock' = clock
         /\ \A j \in Senders : j # s => windows'[j] = windows[j]
         /\ \A c \in Int : c >= clock - p.windowMs =>
              CountIn(windows'[s], After(c)) =
                IF Allowed(windows[s], p, clock) /\ clock > c THEN CountIn(windows[s], After(c)) + 1
                ELSE CountIn(windows[s], After(c))
         /\ CountIn(windows[s], After(clock - p.windowMs)) <= p.requests =>
              CountIn(windows'[s], After(clock - p.windowMs)) <= p.requests
<1>0. p \in Policies /\ Policy(p)
  BY RateLimiterAssumption DEF Policy
<1>1. /\ LimiterShape /\ admitted \in [Senders -> Seq(Entries)]
  BY DEF MapInv
<1>2. /\ LimiterShape' /\ clock' = clock /\ admitted' \in [Senders -> Seq(Entries)]
      /\ \A j \in Senders :
           windows'[j] = IF j = s THEN WindowAfter(windows[s], p, clock) ELSE windows[j]
  BY <1>0, <1>1, ConsumeShape DEF Entries
<1>3. PICK w, r, now, q : w = windows[s] /\ r = WindowAfter(w, p, now) /\ now = clock /\ q = p
  OBVIOUS
<1>4. w \in Seq(Nat) /\ now \in Nat /\ Sorted(w) /\ UpTo(w, now) /\ Policy(q)
      /\ r = WindowAfter(w, q, now)
  BY <1>0, <1>1, <1>3 DEF LimiterShape
<1>5. /\ \A c \in Int : c >= now - q.windowMs =>
           CountIn(r, After(c)) =
             IF Allowed(w, q, now) /\ now > c THEN CountIn(w, After(c)) + 1
             ELSE CountIn(w, After(c))
      /\ CountIn(w, After(now - q.windowMs)) <= q.requests =>
           CountIn(r, After(now - q.windowMs)) <= q.requests
  BY ONLY <1>4, WindowCounts
<1>6. windows'[s] = r
  BY <1>2, <1>3
<1> QED BY <1>1, <1>2, <1>3, <1>5, <1>6 DEF MapInv

(* The rate limiter's answer for call c: only an allowed one goes on to    *)
(* wait.                                                                   *)
LEMMA CountedStep ==
  ASSUME NEW p, Policies = {p}, IsFiniteSet(Senders), Cardinality(Senders) <= maxKeys,
         IInv, IInv', PassInv(p), NEW x \in Calls, RateLimited(x) \/ Admit(x),
         Route(x).rateLimit # NoLimit
  PROVE  PassInv(p)'
<1> DEFINE z == Cred(x).sender
<1>0. p.windowMs \in Nat /\ p.requests \in Nat /\ MaxDelay \in Nat /\ clock \in Nat /\ p \in Policies
  BY RateLimiterAssumption, GatewayAssumption DEF IInv, TypeOK
<1>1. /\ pc[x] = "authenticated" /\ UseQuota(x)
      /\ UNCHANGED <<store, req, since, passed>>
      /\ \/ pc' = [pc EXCEPT ![x] = "denied"] /\ ~QuotaLeft(x)
         \/ pc' = [pc EXCEPT ![x] = "admitted"] /\ QuotaLeft(x)
  BY DEF RateLimited, Admit, Goto, historyVars
<1>2. z \in Senders /\ Route(x).rateLimit = p /\ since[x] <= clock /\ since[x] \in Nat
  <2>1. req[x] \in Requests
    BY <1>1 DEF IInv, TypeOK
  <2>2. req[x].cred \in Credentials /\ req[x].route \in Routes
    BY <2>1, GatewayAssumption
  <2>3. req[x].cred.sender \in Senders
    BY <2>2 DEF Credentials
  <2>4. req[x].route.rateLimit \in Policies \cup {NoLimit}
    BY <2>2 DEF Routes
  <2>5. since[x] <= clock /\ since[x] \in Nat
    BY <1>1 DEF IInv, RecentStart, Verifying, TypeOK
  <2> QED BY <2>3, <2>4, <2>5 DEF Cred, Route
<1>3. Consume(z, p) /\ (QuotaLeft(x) <=> Allowed(windows[z], p, clock))
  BY <1>1, <1>2 DEF UseQuota, QuotaLeft
<1> HIDE DEF z
<1>4. MapInv /\ passed \in [Senders -> Seq(Nat)] /\ windows \in [Senders -> Seq(Nat)]
  BY DEF PassInv, PassCore, MapInv, LimiterShape
<1>5. /\ MapInv' /\ clock' = clock
      /\ \A j \in Senders : j # z => windows'[j] = windows[j]
      /\ \A c \in Int : c >= clock - p.windowMs =>
           CountIn(windows'[z], After(c)) =
             IF Allowed(windows[z], p, clock) /\ clock > c THEN CountIn(windows[z], After(c)) + 1
             ELSE CountIn(windows[z], After(c))
      /\ CountIn(windows[z], After(clock - p.windowMs)) <= p.requests =>
           CountIn(windows'[z], After(clock - p.windowMs)) <= p.requests
  BY <1>2, <1>3, <1>4, ConsumeCounts
<1>6. ASSUME NEW s \in Senders, NEW c \in Int, c >= clock' - (p.windowMs - MaxDelay)
      PROVE  Covered(s, c)'
  <2>0. PICK d : d = c - MaxDelay
    OBVIOUS
  <2>1. Covered(s, c) /\ d \in Int /\ d >= clock - p.windowMs
    BY <1>0, <1>5, <1>6, <2>0 DEF PassInv, PassCore
  <2>2. PICK X, Y : X = Waiting(s, d) /\ Y = Waiting(s, d)'
    OBVIOUS
  <2>3. IsFiniteSet(X)
    BY <2>2, WaitingFinite
  <2>4. PICK a, b, b2 : /\ a = CountIn(passed[s], After(c)) /\ b = CountIn(windows[s], After(d))
                        /\ b2 = CountIn(windows'[s], After(d))
    OBVIOUS
  <2>5. a \in Nat /\ b \in Nat
    <3>1. passed[s] \in Seq(Nat) /\ windows[s] \in Seq(Nat)
      BY <1>4
    <3>2. PICK v, w, C, E : /\ v = passed[s] /\ w = windows[s] /\ C = After(c) /\ E = After(d)
      OBVIOUS
    <3>3. CountIn(v, C) \in Nat /\ CountIn(w, E) \in Nat
      BY <3>1, <3>2, CountType
    <3> QED BY <2>4, <3>2, <3>3
  <2>6. a + Cardinality(X) <= b
    BY <2>0, <2>1, <2>2, <2>4 DEF Covered
  <2>7. Y \subseteq X \cup {x} /\ x \notin X
    BY <1>1, <2>2 DEF Waiting, Route, Cred, IInv, TypeOK
  <2>8. CASE ~(x \in Y)
    <3>1. Y \subseteq X
      BY <2>7, <2>8
    <3>2. Cardinality(Y) \in Nat /\ Cardinality(X) \in Nat /\ Cardinality(Y) <= Cardinality(X)
      BY <2>3, <3>1, CountSubset
    <3>3. b2 = b \/ b2 = b + 1
      BY <1>5, <2>1, <2>4
    <3>4. a + Cardinality(Y) <= b2
      BY <2>5, <2>6, <3>2, <3>3
    <3> QED BY <1>1, <2>0, <2>2, <2>4, <3>4 DEF Covered
  <2>9. CASE x \in Y
    <3>1. s = z /\ pc'[x] = "admitted" /\ since[x] > d
      BY <1>1, <2>2, <2>9 DEF Waiting, Cred, z
    <3>2. Allowed(windows[z], p, clock) /\ clock > d
      BY <1>0, <1>1, <1>2, <1>3, <2>1, <3>1 DEF IInv, TypeOK
    <3>3. b2 = b + 1
      BY <1>5, <2>1, <2>4, <3>1, <3>2
    <3>4. Cardinality(X \cup {x}) = Cardinality(X) + 1 /\ IsFiniteSet(X \cup {x})
      BY <2>3, <2>7, FS_AddElement
    <3>5. Cardinality(Y) \in Nat /\ Cardinality(X) \in Nat /\ Cardinality(Y) <= Cardinality(X) + 1
      BY <2>3, <2>7, <3>4, CountSubset
    <3>6. a + Cardinality(Y) <= b2
      BY <2>5, <2>6, <3>3, <3>5
    <3> QED BY <1>1, <2>0, <2>2, <2>4, <3>6 DEF Covered
  <2> QED BY <2>8, <2>9
<1>7. \A s \in Senders : CountIn(windows'[s], After(clock' - p.windowMs)) <= p.requests
  BY <1>5 DEF PassInv, PassCore
<1>8. PassCore(p)'
  BY <1>1, <1>4, <1>5, <1>6, <1>7 DEF PassCore
<1>9. PassesWithinQuota'
  BY <1>1, <1>5, <1>8, QuotaStays
<1> QED BY <1>8, <1>9 DEF PassInv

(* A counted request passes: it stops waiting. *)
LEMMA PassStep ==
  ASSUME NEW p, Policies = {p}, IInv, IInv', PassInv(p), NEW x \in Calls, Pass(x),
         Route(x).rateLimit # NoLimit,
         UNCHANGED <<clock, windows, order, admitted, req, since>>
  PROVE  PassInv(p)'
<1> DEFINE z == Cred(x).sender
<1>0. p.windowMs \in Nat /\ p.requests \in Nat /\ MaxDelay \in Nat /\ clock \in Nat /\ p \in Policies
  BY RateLimiterAssumption, GatewayAssumption DEF IInv, TypeOK
<1>1. /\ pc[x] = "admitted" /\ pc' = [pc EXCEPT ![x] = "ok"]
      /\ passed' = [passed EXCEPT ![z] = Append(@, clock)]
  BY DEF Pass, Goto
<1>2. z \in Senders /\ clock <= since[x] + MaxDelay /\ since[x] \in Nat
  <2>1. req[x] \in Requests
    BY <1>1 DEF IInv, TypeOK
  <2>2. req[x].cred \in Credentials
    BY <2>1, GatewayAssumption
  <2>3. req[x].cred.sender \in Senders
    BY <2>2 DEF Credentials
  <2>5. clock <= since[x] + MaxDelay /\ since[x] \in Nat
    BY <1>1 DEF IInv, RecentStart, Verifying, TypeOK
  <2> QED BY <2>3, <2>5 DEF Cred
<1>x. \A s, d : x \in Waiting(s, d) <=> s = z /\ since[x] > d
  BY <1>1 DEF Waiting
<1> HIDE DEF z
<1>4. MapInv /\ passed \in [Senders -> Seq(Nat)] /\ windows \in [Senders -> Seq(Nat)]
  BY DEF PassInv, PassCore, MapInv, LimiterShape
<1>5. MapInv' /\ passed' \in [Senders -> Seq(Nat)]
  <2>1. MapInv'
    BY <1>4 DEF MapInv, LimiterShape
  <2>2. PICK now : now = clock
    OBVIOUS
  <2>3. now \in Nat /\ passed' = [passed EXCEPT ![z] = Append(@, now)]
    BY <1>0, <1>1, <2>2
  <2>4. PICK P : P = passed
    OBVIOUS
  <2>5. P \in [Senders -> Seq(Nat)] /\ passed' = [P EXCEPT ![z] = Append(@, now)]
    BY <1>4, <2>3, <2>4
  <2>6. ASSUME NEW k \in Senders PROVE Append(P[k], now) \in Seq(Nat)
    <3>1. P[k] \in Seq(Nat)
      BY <2>5
    <3> QED BY <2>3, <3>1
  <2>7. [P EXCEPT ![z] = Append(@, now)] \in [Senders -> Seq(Nat)]
    BY <1>2, <2>5, <2>6
  <2> QED BY <2>1, <2>5, <2>7
<1>6. ASSUME NEW s \in Senders, NEW c \in Int, c >= clock' - (p.windowMs - MaxDelay)
      PROVE  Covered(s, c)'
  <2>0. PICK d : d = c - MaxDelay
    OBVIOUS
  <2>1. Covered(s, c) /\ d \in Int
    BY <1>0, <1>6, <2>0 DEF PassInv, PassCore
  <2>2. PICK X, Y : X = Waiting(s, d) /\ Y = Waiting(s, d)'
    OBVIOUS
  <2>3. IsFiniteSet(X) /\ Y = X \ {x}
    <3>1. IsFiniteSet(X)
      BY <2>2, WaitingFinite
    <3>2. pc \in [Calls -> PCs]
      BY DEF IInv, TypeOK
    <3>3. \A y \in Calls : pc'[y] = "admitted" <=> (pc[y] = "admitted" /\ y # x)
      BY <1>1, <3>2
    <3>4. Y = X \ {x}
      BY <2>2, <3>3 DEF Waiting, Route, Cred
    <3> QED BY <3>1, <3>4
  <2>4. PICK a, a2, b : /\ a = CountIn(passed[s], After(c)) /\ b = CountIn(windows[s], After(d))
                        /\ a2 = CountIn(passed'[s], After(c))
    OBVIOUS
  <2>5. /\ a \in Nat /\ b \in Nat
        /\ a2 = IF s = z /\ clock > c THEN a + 1 ELSE a
    <3>1. passed[s] \in Seq(Nat) /\ windows[s] \in Seq(Nat)
      BY <1>4
    <3>2. PICK v, w, C, E, now : /\ v = passed[s] /\ w = windows[s] /\ C = After(c) /\ E = After(d)
                                 /\ now = clock
      OBVIOUS
    <3>3. v \in Seq(Nat) /\ w \in Seq(Nat) /\ now \in Nat
      BY <1>0, <3>1, <3>2
    <3>4. /\ CountIn(v, C) \in Nat /\ CountIn(w, E) \in Nat
          /\ CountIn(Append(v, now), C) = IF now \in C THEN CountIn(v, C) + 1 ELSE CountIn(v, C)
      BY <3>3, CountType, CountAppend
    <3>5. now \in C <=> now > c
      BY <3>2, <3>3 DEF After
    <3>6. passed'[s] = IF s = z THEN Append(v, now) ELSE v
      BY <1>1, <1>4, <3>2
    <3> QED BY <2>4, <3>2, <3>4, <3>5, <3>6
  <2>6. a + Cardinality(X) <= b
    BY <2>0, <2>1, <2>2, <2>4 DEF Covered
  <2>7. Cardinality(X) \in Nat /\ Cardinality(Y) \in Nat /\ Cardinality(Y) <= Cardinality(X)
    BY <2>3, CountSubset
  <2>8. CASE s = z /\ clock > c
    <3>1. since[x] > d
      BY <1>0, <1>2, <2>0, <2>8
    <3>2. x \in X
      BY <1>x, <2>2, <2>8, <3>1
    <3>3. Cardinality(Y) = Cardinality(X) - 1
      BY <2>3, <3>2, FS_RemoveElement
    <3>4. a2 + Cardinality(Y) <= b
      BY <2>5, <2>6, <2>7, <2>8, <3>3
    <3> QED BY <2>0, <2>2, <2>4, <3>4 DEF Covered
  <2>9. CASE ~(s = z /\ clock > c)
    <3>1. a2 + Cardinality(Y) <= b
      BY <2>5, <2>6, <2>7, <2>9
    <3> QED BY <2>0, <2>2, <2>4, <3>1 DEF Covered
  <2> QED BY <2>8, <2>9
<1>7. \A s \in Senders : CountIn(windows'[s], After(clock' - p.windowMs)) <= p.requests
  BY DEF PassInv, PassCore
<1>8. PassCore(p)'
  BY <1>5, <1>6, <1>7 DEF PassCore
<1>9. PassesWithinQuota'
  BY <1>1, <1>2, <1>8, QuotaStays
<1> QED BY <1>8, <1>9 DEF PassInv

(* Time passes: the windows move on. *)
LEMMA TickStep ==
  ASSUME NEW p, Policies = {p}, IInv, IInv', PassInv(p), Tick
  PROVE  PassInv(p)'
<1>0. p.windowMs \in Nat /\ p.requests \in Nat /\ MaxDelay \in Nat /\ clock \in Nat /\ p \in Policies
  BY RateLimiterAssumption, GatewayAssumption DEF IInv, TypeOK
<1>1. clock' = clock + 1 /\ UNCHANGED <<windows, order, admitted, pc, req, since, passed>>
  BY DEF Tick, windowVars, callVars, historyVars
<1>2. MapInv /\ passed \in [Senders -> Seq(Nat)] /\ windows \in [Senders -> Seq(Nat)]
  BY DEF PassInv, PassCore, MapInv, LimiterShape
<1>3. MapInv'
  <2>1. ASSUME NEW k \in Senders PROVE UpTo(windows[k], clock + 1)
    <3>1. windows[k] \in Seq(Nat) /\ UpTo(windows[k], clock)
      BY <1>2 DEF MapInv, LimiterShape
    <3> QED BY <3>1, <1>0 DEF UpTo
  <2> QED BY <1>0, <1>1, <1>2, <2>1 DEF MapInv, LimiterShape
<1>4. ASSUME NEW s \in Senders PROVE CountIn(windows'[s], After(clock' - p.windowMs)) <= p.requests
  <2>1. PICK w, C, E : /\ w = windows[s] /\ C = After(clock + 1 - p.windowMs)
                       /\ E = After(clock - p.windowMs)
    OBVIOUS
  <2>2. w \in Seq(Nat) /\ CountIn(w, E) <= p.requests
    BY <1>2, <2>1 DEF PassInv, PassCore
  <2>3. \A e \in Nat : e \in C => e \in E
    BY <1>0, <2>1 DEF After
  <2>4. CountIn(w, C) <= CountIn(w, E) /\ CountIn(w, C) \in Nat /\ CountIn(w, E) \in Nat
    BY <2>2, <2>3, CountWithin, CountType
  <2>5. CountIn(w, C) <= p.requests
    BY <1>0, <2>2, <2>4
  <2>6. PICK t : t = clock' - p.windowMs
    OBVIOUS
  <2>7. t = clock + 1 - p.windowMs
    BY <1>0, <1>1, <2>6
  <2>8. windows'[s] = w /\ After(t) = C
    <3>1. windows' = windows
      BY <1>1
    <3> QED BY <2>1, <2>7, <3>1
  <2> QED BY <2>5, <2>6, <2>8
<1>5. ASSUME NEW s \in Senders, NEW c \in Int, c >= clock' - (p.windowMs - MaxDelay)
      PROVE  Covered(s, c)'
  <2>1. c >= clock - (p.windowMs - MaxDelay)
    BY <1>0, <1>1, <1>5
  <2>2. Covered(s, c)
    BY <2>1 DEF PassInv, PassCore
  <2>3. Waiting(s, c - MaxDelay)' = Waiting(s, c - MaxDelay)
    BY <1>1 DEF Waiting, Route, Cred
  <2> QED BY <1>1, <2>2, <2>3 DEF Covered
<1>8. PassCore(p)'
  BY <1>1, <1>2, <1>3, <1>4, <1>5 DEF PassCore
<1>9. PassesWithinQuota'
  BY <1>1, <1>8, QuotaStays
<1> QED BY <1>8, <1>9 DEF PassInv

LEMMA PassNext ==
  ASSUME NEW p, Policies = {p}, IsFiniteSet(Senders), Cardinality(Senders) <= maxKeys
  PROVE  IInv /\ IInv' /\ PassInv(p) /\ [Next]_vars => PassInv(p)'
<1> SUFFICES ASSUME IInv, IInv', PassInv(p), [Next]_vars PROVE PassInv(p)'
  OBVIOUS
<1>t. pc \in [Calls -> PCs] /\ req \in [Calls -> Requests \cup {NoRequest}] /\ since \in [Calls -> Nat]
  BY DEF IInv, TypeOK
<1>1. ASSUME NEW x \in Calls, NEW r \in Requests, Arrive(x, r) PROVE PassInv(p)'
  <2>1. /\ pc[x] = "idle" /\ pc' = [pc EXCEPT ![x] = Start(r)] /\ req' = [req EXCEPT ![x] = r]
        /\ since' = [since EXCEPT ![x] = clock] /\ Start(r) # "admitted"
        /\ UNCHANGED <<clock, windows, order, admitted, passed>>
    BY <1>1 DEF Arrive, Goto, Start, windowVars, historyVars
  <2>2. \A y \in Calls : pc'[y] = "admitted" =>
          pc[y] = "admitted" /\ req'[y] = req[y] /\ since'[y] = since[y]
    BY <2>1, <1>t
  <2>3. \A s \in Senders, c \in Int : Waiting(s, c)' \subseteq Waiting(s, c)
    BY <2>2 DEF Waiting, Route, Cred
  <2> QED BY <2>1, <2>3, QuietStep
<1>2. ASSUME NEW x \in Calls,
             \/ CheckFresh(x) \/ Unauthenticated(x) \/ CapabilityOk(x) \/ ReplayDetected(x)
             \/ TakeCredential(x) \/ NotAdmitted(x) \/ ApprovalDenied(x) \/ ApprovalUsed(x)
             \/ Forward(x)
      PROVE  PassInv(p)'
  <2>1. /\ \E to \in PCs \ {"admitted"} : pc' = [pc EXCEPT ![x] = to]
        /\ UNCHANGED <<clock, windows, order, admitted, passed, req, since>>
    BY <1>2 DEF CheckFresh, Unauthenticated, CapabilityOk, ReplayDetected, TakeCredential,
       NotAdmitted, ApprovalDenied, ApprovalUsed, Forward, Goto, PCs, windowVars, historyVars
  <2>2. \A y \in Calls : pc'[y] = "admitted" => pc[y] = "admitted"
    BY <2>1, <1>t
  <2>3. \A s \in Senders, c \in Int : Waiting(s, c)' \subseteq Waiting(s, c)
    BY <2>1, <2>2 DEF Waiting, Route, Cred
  <2> QED BY <2>1, <2>3, QuietStep
<1>3. ASSUME NEW x \in Calls, RateLimited(x) \/ Admit(x) PROVE PassInv(p)'
  <2>1. CASE Route(x).rateLimit # NoLimit
    BY <1>3, <2>1, CountedStep
  <2>2. CASE Route(x).rateLimit = NoLimit
    <3>1. /\ pc' = [pc EXCEPT ![x] = "admitted"]
          /\ UNCHANGED <<clock, windows, order, admitted, passed, req, since>>
      BY <1>3, <2>2 DEF RateLimited, Admit, Goto, windowVars, historyVars
    <3>2. \A y \in Calls : pc'[y] = "admitted" => pc[y] = "admitted" \/ y = x
      BY <3>1, <1>t
    <3>3. \A s \in Senders, c \in Int : Waiting(s, c)' \subseteq Waiting(s, c)
      BY <2>2, <3>1, <3>2 DEF Waiting, Route, Cred
    <3> QED BY <3>1, <3>3, QuietStep
  <2> QED BY <2>1, <2>2
<1>4. ASSUME NEW x \in Calls, NoApprovalNeeded(x) \/ Approved(x) PROVE PassInv(p)'
  <2>1. Pass(x) /\ UNCHANGED <<clock, windows, order, admitted, req, since>>
    BY <1>4 DEF NoApprovalNeeded, Approved, windowVars
  <2>2. CASE Route(x).rateLimit # NoLimit
    BY <2>1, <2>2, PassStep
  <2>3. CASE Route(x).rateLimit = NoLimit
    <3>1. pc' = [pc EXCEPT ![x] = "ok"] /\ passed' = passed
      BY <2>1, <2>3 DEF Pass, Goto
    <3>2. \A y \in Calls : pc'[y] = "admitted" => pc[y] = "admitted"
      BY <3>1, <1>t
    <3>3. \A s \in Senders, c \in Int : Waiting(s, c)' \subseteq Waiting(s, c)
      BY <2>1, <3>2 DEF Waiting, Route, Cred
    <3> QED BY <2>1, <3>1, <3>3, QuietStep
  <2> QED BY <2>2, <2>3
<1>5. ASSUME NEW x \in Calls, Finish(x) PROVE PassInv(p)'
  <2>1. /\ pc' = [pc EXCEPT ![x] = "idle"] /\ req' = [req EXCEPT ![x] = NoRequest]
        /\ since' = [since EXCEPT ![x] = 0]
        /\ UNCHANGED <<clock, windows, order, admitted, passed>>
    BY <1>5 DEF Finish, windowVars, historyVars
  <2>2. \A y \in Calls : pc'[y] = "admitted" =>
          pc[y] = "admitted" /\ req'[y] = req[y] /\ since'[y] = since[y]
    BY <2>1, <1>t
  <2>3. \A s \in Senders, c \in Int : Waiting(s, c)' \subseteq Waiting(s, c)
    BY <2>2 DEF Waiting, Route, Cred
  <2> QED BY <2>1, <2>3, QuietStep
<1>6. CASE Tick
  BY <1>6, TickStep
<1>7. CASE UNCHANGED vars
  <2>1. UNCHANGED <<clock, windows, order, admitted, passed, pc, req, since>>
    BY <1>7 DEF vars, windowVars, callVars, historyVars
  <2>2. \A s \in Senders, c \in Int : Waiting(s, c)' \subseteq Waiting(s, c)
    BY <2>1 DEF Waiting, Route, Cred
  <2> QED BY <2>1, <2>2, QuietStep
<1> QED BY <1>1, <1>2, <1>3, <1>4, <1>5, <1>6, <1>7 DEF Next, CallStep

LEMMA PassInit ==
  ASSUME NEW p, Policies = {p} PROVE Init => PassInv(p)
<1> SUFFICES ASSUME Init PROVE PassInv(p)
  OBVIOUS
<1>0. p.requests \in Nat /\ p \in Policies
  BY RateLimiterAssumption
<1>1. MapInv
  BY MapInit DEF Init, LimiterInit
<1>2. /\ passed \in [Senders -> Seq(Nat)]
      /\ \A s \in Senders : passed[s] = << >> /\ windows[s] = << >>
      /\ \A x \in Calls : pc[x] = "idle"
  BY DEF Init
<1>3. (\A C : CountIn(<< >>, C) = 0) /\ Cardinality({}) = 0
  BY CountEmpty, FS_EmptySet
<1>4. \A s, c : Waiting(s, c) = {}
  BY <1>2 DEF Waiting
<1>5. PassCore(p)
  <2>1. ASSUME NEW s \in Senders, NEW c \in Int PROVE Covered(s, c)
    <3>1. CountIn(passed[s], After(c)) = 0 /\ CountIn(windows[s], After(c - MaxDelay)) = 0
      BY <1>2, <1>3
    <3>2. Cardinality(Waiting(s, c - MaxDelay)) = 0
      BY <1>3, <1>4
    <3> QED BY <3>1, <3>2 DEF Covered
  <2>2. ASSUME NEW s \in Senders PROVE CountIn(windows[s], After(clock - p.windowMs)) <= p.requests
    <3>1. CountIn(windows[s], After(clock - p.windowMs)) = 0
      BY <1>2, <1>3
    <3> QED BY <1>0, <3>1
  <2> QED BY <1>1, <1>2, <2>1, <2>2 DEF PassCore
<1>6. PassesWithinQuota
  <2>1. SUFFICES ASSUME NEW s \in Senders, NEW t \in 0 .. clock,
                        NEW U, U = {i \in 1 .. Len(passed[s]) :
                                      /\ passed[s][i] > t - (p.windowMs - MaxDelay)
                                      /\ passed[s][i] <= t}
                 PROVE  Cardinality(U) <= p.requests
    BY DEF PassesWithinQuota, Elements
  <2>2. U = {}
    BY <1>2, <2>1
  <2> QED BY <1>0, <1>3, <2>2
<1> QED BY <1>5, <1>6 DEF PassInv

(* Under one rate limit, and with room in the Map for every sender, what   *)
(* passes the gateway within a window shorter than the limit's by the      *)
(* longest wait for an approval never exceeds the quota: however a sender  *)
(* authenticates, for every number of concurrent calls and every delay.    *)
THEOREM PassedWithinQuota ==
  ASSUME NEW p, Policies = {p}, IsFiniteSet(Senders), Cardinality(Senders) <= maxKeys
  PROVE  Spec => []PassesWithinQuota
<1>1. Init => PassInv(p)
  BY PassInit
<1>2. IInv /\ IInv' /\ PassInv(p) /\ [Next]_vars => PassInv(p)'
  BY PassNext
<1>3. PassInv(p) => PassesWithinQuota
  BY DEF PassInv
<1> QED BY <1>1, <1>2, <1>3, Invariance, PTL DEF Spec
=============================================================================
