----------------------------- MODULE ListProofs ------------------------------
(***************************************************************************)
(* Facts about natural numbers, counting and filtered lists that the other *)
(* proofs use.                                                             *)
(***************************************************************************)
EXTENDS Lists, FiniteSetTheorems, WellFoundedInduction, TLAPS

(* A set of naturals has a least element. *)
LEMMA LeastNatural ==
  ASSUME NEW T, T \subseteq Nat, T # {}
  PROVE  \E x \in T : \A y \in T : x <= y
<1> DEFINE R == OpToRel(<, Nat)
<1>1. \A x, y \in Nat : <<y, x>> \in R <=> y < x
  BY DEF OpToRel
<1>2. IsWellFoundedOn(R, Nat)
  BY NatLessThanWellFounded
<1> HIDE DEF R
<1>3. PICK x \in T : \A y \in T : ~(<<y, x>> \in R)
  BY <1>2, WFMin
<1>4. ASSUME NEW y \in T PROVE x <= y
  <2>1. x \in Nat /\ y \in Nat
    OBVIOUS
  <2>2. ~(y < x)
    BY <2>1, <1>1, <1>3
  <2> QED BY <2>1, <2>2
<1> QED BY <1>3, <1>4

(* Induction, over a set of numbers. *)
LEMMA Induction ==
  ASSUME NEW P, P \subseteq Nat, 0 \in P, \A n \in P : n + 1 \in P
  PROVE  P = Nat
<1> SUFFICES ASSUME Nat \ P # {} PROVE FALSE
  OBVIOUS
<1>1. PICK x \in Nat \ P : \A y \in Nat \ P : x <= y
  BY LeastNatural
<1>2. x - 1 \in Nat /\ x - 1 \notin Nat \ P
  BY <1>1
<1> QED BY <1>2, <1>1

(* A smaller set has no more elements. *)
LEMMA CountSubset ==
  ASSUME NEW S, NEW T, IsFiniteSet(T), S \subseteq T
  PROVE  /\ IsFiniteSet(S) /\ Cardinality(S) \in Nat /\ Cardinality(T) \in Nat
         /\ Cardinality(S) <= Cardinality(T)
BY FS_Subset, FS_CardinalityType

(* Positions in a list of length n. *)
LEMMA PositionsFinite ==
  ASSUME NEW n \in Nat, NEW at, at \subseteq 1 .. n
  PROVE  IsFiniteSet(at) /\ Cardinality(at) \in Nat /\ Cardinality(at) <= n
<1>1. IsFiniteSet(1 .. n) /\ Cardinality(1 .. n) = n
  BY FS_Interval
<1> QED BY <1>1, CountSubset

LEMMA RankSteps ==
  ASSUME NEW n \in Nat, NEW at, at \subseteq 1 .. n
  PROVE  /\ Rank(at, 0) = 0 /\ Rank(at, n) = Cardinality(at)
         /\ \A i \in 0 .. n : Rank(at, i) \in Nat
         /\ \A i \in 1 .. n : Rank(at, i) = IF i \in at THEN Rank(at, i - 1) + 1
                                            ELSE Rank(at, i - 1)
<1>0. \A j \in at : j \in Nat /\ 1 <= j /\ j <= n
  OBVIOUS
<1>1. ASSUME NEW i \in 0 .. n
      PROVE  IsFiniteSet({j \in at : j <= i}) /\ Cardinality({j \in at : j <= i}) \in Nat
  <2>1. PICK U : U = {j \in at : j <= i}
    OBVIOUS
  <2>2. U \subseteq 1 .. n
    BY <2>1
  <2> QED BY <2>1, <2>2, PositionsFinite
<1>2. \A i \in 0 .. n : Rank(at, i) \in Nat
  BY <1>1 DEF Rank
<1>3. {j \in at : j <= 0} = {} /\ {j \in at : j <= n} = at
  <2>1. \A j \in at : ~(j <= 0)
    BY <1>0
  <2>2. \A j \in at : j <= n
    BY <1>0
  <2> QED BY <2>1, <2>2
<1>4. Rank(at, 0) = 0 /\ Rank(at, n) = Cardinality(at)
  BY <1>3, FS_EmptySet DEF Rank
<1>5. ASSUME NEW i \in 1 .. n
      PROVE  Rank(at, i) = IF i \in at THEN Rank(at, i - 1) + 1 ELSE Rank(at, i - 1)
  <2>0. i - 1 \in 0 .. n /\ i \in Nat
    OBVIOUS
  <2>1. PICK U : U = {j \in at : j <= i - 1}
    OBVIOUS
  <2>2. IsFiniteSet(U) /\ Rank(at, i - 1) = Cardinality(U) /\ i \notin U
    <3>1. IsFiniteSet(U) /\ Rank(at, i - 1) = Cardinality(U)
      BY <1>1, <2>0, <2>1 DEF Rank
    <3>2. i \notin U
      BY <2>0, <2>1
    <3> QED BY <3>1, <3>2
  <2>3. CASE i \in at
    <3>1. \A j \in at : j <= i <=> j <= i - 1 \/ j = i
      BY <1>0, <2>0
    <3>2. {j \in at : j <= i} = U \cup {i}
      BY <2>1, <2>3, <3>1
    <3>3. Cardinality(U \cup {i}) = Cardinality(U) + 1
      BY <2>2, FS_AddElement
    <3> QED BY <2>2, <2>3, <3>2, <3>3 DEF Rank
  <2>4. CASE i \notin at
    <3>1. \A j \in at : j <= i <=> j <= i - 1
      BY <1>0, <2>0, <2>4
    <3>2. {j \in at : j <= i} = U
      BY <2>1, <3>1
    <3> QED BY <2>2, <2>4, <3>2 DEF Rank
  <2> QED BY <2>3, <2>4
<1> QED BY <1>2, <1>4, <1>5

LEMMA RankGrows ==
  ASSUME NEW n \in Nat, NEW at, at \subseteq 1 .. n, NEW i \in 0 .. n, NEW j \in 0 .. n, i <= j
  PROVE  Rank(at, i) <= Rank(at, j)
<1>1. PICK U, V : U = {k \in at : k <= i} /\ V = {k \in at : k <= j}
  OBVIOUS
<1>2. \A k \in at : k \in Nat /\ (k <= i => k <= j)
  OBVIOUS
<1>3. U \subseteq V /\ V \subseteq 1 .. n
  BY <1>1, <1>2
<1>4. Cardinality(U) <= Cardinality(V)
  BY <1>3, PositionsFinite, CountSubset
<1> QED BY <1>1, <1>4 DEF Rank

(* Every number up to the number of positions is the rank of one of them. *)
LEMMA RankTaken ==
  ASSUME NEW n \in Nat, NEW at, at \subseteq 1 .. n, NEW m \in 1 .. Cardinality(at)
  PROVE  \E i \in at : Rank(at, i) = m
<1>1. PICK r : r = [i \in 0 .. n |-> Rank(at, i)]
  OBVIOUS
<1>2. /\ r[0] = 0 /\ r[n] = Cardinality(at) /\ Cardinality(at) \in Nat
      /\ \A i \in 0 .. n : r[i] \in Nat
      /\ \A i \in 1 .. n : r[i] = IF i \in at THEN r[i - 1] + 1 ELSE r[i - 1]
  <2>1. \A i \in 1 .. n : i \in 0 .. n /\ i - 1 \in 0 .. n
    OBVIOUS
  <2>2. /\ Rank(at, 0) = 0 /\ Rank(at, n) = Cardinality(at)
        /\ \A i \in 0 .. n : Rank(at, i) \in Nat
        /\ \A i \in 1 .. n : Rank(at, i) = IF i \in at THEN Rank(at, i - 1) + 1
                                           ELSE Rank(at, i - 1)
    BY RankSteps
  <2> QED BY <1>1, <2>1, <2>2, PositionsFinite
<1>3. PICK T : T = {i \in 0 .. n : r[i] >= m}
  OBVIOUS
<1>4. T \subseteq Nat /\ n \in T
  BY <1>2, <1>3
<1>5. PICK x \in T : \A y \in T : x <= y
  BY <1>4, LeastNatural
<1>6. x \in 1 .. n
  BY <1>2, <1>3, <1>5
<1>7. x - 1 \in 0 .. n /\ x - 1 \notin T
  BY <1>5, <1>6
<1>8. r[x - 1] \in Nat /\ r[x - 1] < m /\ r[x] >= m /\ r[x] \in Nat
  BY <1>2, <1>3, <1>5, <1>6, <1>7
<1>9. x \in at /\ r[x] = m
  BY <1>2, <1>6, <1>8
<1> QED BY <1>1, <1>6, <1>9

LEMMA RankOnce ==
  ASSUME NEW n \in Nat, NEW at, at \subseteq 1 .. n
  PROVE  /\ \A i \in at : Rank(at, i) \in 1 .. Cardinality(at)
         /\ \A i, j \in at : i < j => Rank(at, i) < Rank(at, j)
<1>0. /\ Rank(at, n) = Cardinality(at) /\ Cardinality(at) \in Nat
      /\ \A i \in 0 .. n : Rank(at, i) \in Nat
      /\ \A i \in at : Rank(at, i) = Rank(at, i - 1) + 1
  BY RankSteps, PositionsFinite
<1>1. ASSUME NEW i \in at PROVE Rank(at, i) \in 1 .. Cardinality(at)
  <2>1. i \in 0 .. n /\ i - 1 \in 0 .. n /\ n \in 0 .. n /\ i <= n
    OBVIOUS
  <2>2. Rank(at, i) = Rank(at, i - 1) + 1 /\ Rank(at, i - 1) \in Nat
    BY <2>1, <1>0
  <2>3. Rank(at, i) <= Rank(at, n)
    BY <2>1, RankGrows
  <2> QED BY <2>2, <2>3, <1>0
<1>2. ASSUME NEW i \in at, NEW j \in at, i < j PROVE Rank(at, i) < Rank(at, j)
  <2>1. i \in 0 .. n /\ j \in 1 .. n /\ j - 1 \in 0 .. n /\ i <= j - 1
    BY <1>2
  <2>2. Rank(at, i) <= Rank(at, j - 1)
    BY <2>1, RankGrows
  <2>3. Rank(at, j) = Rank(at, j - 1) + 1 /\ Rank(at, j - 1) \in Nat /\ Rank(at, i) \in Nat
    BY <2>1, <1>0
  <2> QED BY <2>2, <2>3
<1> QED BY <1>1, <1>2

(* where[x] is where the x-th element of the list picked was. *)
Places(s, at, where) ==
  /\ where \in Bijection(1 .. Cardinality(at), at)
  /\ \A x \in 1 .. Cardinality(at) : Picked(s, at)[x] = s[where[x]]
  /\ \A x, y \in 1 .. Cardinality(at) : x < y => where[x] < where[y]

LEMMA PickedPlaces ==
  ASSUME NEW S, NEW s \in Seq(S), NEW at, at \subseteq 1 .. Len(s)
  PROVE  /\ IsFiniteSet(at) /\ Cardinality(at) \in Nat
         /\ Picked(s, at) \in Seq(S) /\ Len(Picked(s, at)) = Cardinality(at)
         /\ \E where : Places(s, at, where)
<1>1. PICK n, m : n = Len(s) /\ m = Cardinality(at)
  OBVIOUS
<1>2. n \in Nat /\ at \subseteq 1 .. n /\ IsFiniteSet(at) /\ m \in Nat
  <2>1. n \in Nat /\ at \subseteq 1 .. n
    BY <1>1
  <2> QED BY <1>1, <2>1, PositionsFinite
<1>3. PICK where : where = [x \in 1 .. m |-> CHOOSE i \in at : Rank(at, i) = x]
  OBVIOUS
<1>4. ASSUME NEW x \in 1 .. m PROVE where[x] \in at /\ Rank(at, where[x]) = x
  <2>1. \E i \in at : Rank(at, i) = x
    BY <1>1, <1>2, RankTaken
  <2>2. where[x] = CHOOSE i \in at : Rank(at, i) = x
    BY <1>3
  <2> QED BY <2>1, <2>2
<1>5. ASSUME NEW i \in at PROVE Rank(at, i) \in 1 .. m /\ where[Rank(at, i)] = i
  <2>1. Rank(at, i) \in 1 .. m
    BY <1>1, <1>2, RankOnce
  <2>2. where[Rank(at, i)] \in at /\ Rank(at, where[Rank(at, i)]) = Rank(at, i)
    BY <1>4, <2>1
  <2>3. \A j \in at : Rank(at, j) = Rank(at, i) => j = i
    <3>1. SUFFICES ASSUME NEW j \in at, Rank(at, j) = Rank(at, i) PROVE j = i
      OBVIOUS
    <3>2. j \in Nat /\ i \in Nat /\ ~(Rank(at, i) < Rank(at, j)) /\ ~(Rank(at, j) < Rank(at, i))
      BY <1>2, <2>1, <3>1
    <3>3. ~(i < j) /\ ~(j < i)
      BY <1>2, <3>2, RankOnce
    <3> QED BY <3>2, <3>3
  <2> QED BY <2>1, <2>2, <2>3
<1>6. where \in Bijection(1 .. m, at)
  <2>1. where \in [1 .. m -> at]
    BY <1>3, <1>4
  <2>2. \A x, y \in 1 .. m : where[x] = where[y] => x = y
    BY <1>4
  <2>3. \A i \in at : \E x \in 1 .. m : where[x] = i
    BY <1>5
  <2> QED BY <2>1, <2>2, <2>3 DEF Bijection, Injection, Surjection, IsInjective
<1>7. ASSUME NEW x \in 1 .. m, NEW y \in 1 .. m, x < y PROVE where[x] < where[y]
  <2>0. where[x] \in at /\ where[y] \in at
    BY <1>4
  <2>a. \A i \in at : i \in Nat
    BY <1>2
  <2>1. where[x] \in at /\ where[y] \in at /\ where[x] \in Nat /\ where[y] \in Nat
    BY <2>a, <2>0
  <2>2. ~(where[y] < where[x]) /\ where[x] # where[y]
    <3>1. Rank(at, where[x]) = x /\ Rank(at, where[y]) = y /\ x \in Nat /\ y \in Nat
      BY <1>4
    <3>2. where[y] < where[x] => Rank(at, where[y]) < Rank(at, where[x])
      BY <1>2, <2>1, RankOnce
    <3> QED BY <3>1, <3>2, <1>7
  <2> QED BY <2>1, <2>2
<1>8. \A x \in 1 .. m : Picked(s, at)[x] = s[where[x]]
  BY <1>1, <1>3 DEF Picked
<1>9. Picked(s, at) \in Seq(S) /\ Len(Picked(s, at)) = m
  <2>1. ASSUME NEW x \in 1 .. m PROVE s[where[x]] \in S
    <3>1. where[x] \in 1 .. Len(s)
      BY <1>4
    <3> QED BY <3>1
  <2>2. Picked(s, at) \in [1 .. m -> S]
    BY <1>1, <1>8, <2>1 DEF Picked
  <2> QED BY <1>2, <2>2
<1>10. Places(s, at, where)
  BY <1>1, <1>6, <1>7, <1>8 DEF Places
<1> QED BY <1>1, <1>2, <1>9, <1>10

(* The number of elements of s that are in C. *)
CountIn(s, C) == Cardinality({i \in 1 .. Len(s) : s[i] \in C})

(* Their positions. *)
Where(s, C) == {i \in 1 .. Len(s) : s[i] \in C}

LEMMA PickedCount ==
  ASSUME NEW S, NEW s \in Seq(S), NEW at, at \subseteq 1 .. Len(s), NEW C,
         NEW B, B = {i \in at : s[i] \in C}
  PROVE  CountIn(Picked(s, at), C) = Cardinality(B)
<1>1. PICK m, p : m = Cardinality(at) /\ p = Picked(s, at)
  OBVIOUS
<1>0. PICK where : Places(s, at, where)
  BY ONLY s \in Seq(S), at \subseteq 1 .. Len(s), PickedPlaces
<1>2. where \in Bijection(1 .. m, at) /\ \A x \in 1 .. m : p[x] = s[where[x]]
  BY ONLY <1>0, <1>1 DEF Places
<1>3. m \in Nat /\ Len(p) = m /\ IsFiniteSet(at)
  BY ONLY s \in Seq(S), at \subseteq 1 .. Len(s), <1>1, PickedPlaces
<1>4. PICK A : A = {x \in 1 .. m : p[x] \in C}
  OBVIOUS
<1>5. /\ where \in [1 .. m -> at] /\ \A x, y \in 1 .. m : where[x] = where[y] => x = y
      /\ \A i \in at : \E x \in 1 .. m : where[x] = i
  BY <1>2 DEF Bijection, Injection, Surjection, IsInjective
<1>6. PICK f : f = [x \in A |-> where[x]]
  OBVIOUS
<1>7. f \in Bijection(A, B)
  <2>1. f \in [A -> B]
    BY <1>2, <1>4, <1>5, <1>6
  <2>2. \A x, y \in A : f[x] = f[y] => x = y
    BY <1>4, <1>5, <1>6
  <2>3. ASSUME NEW i \in B PROVE \E x \in A : f[x] = i
    <3>1. PICK x \in 1 .. m : where[x] = i
      BY <1>4, <1>5
    <3> QED BY <1>2, <1>4, <1>6, <3>1
  <2> QED BY <2>1, <2>2, <2>3 DEF Bijection, Injection, Surjection, IsInjective
<1>8. IsFiniteSet(A) /\ ExistsBijection(A, B)
  BY <1>3, <1>4, <1>7, PositionsFinite DEF ExistsBijection
<1>9. Cardinality(A) = Cardinality(B)
  BY <1>8, FS_Bijection
<1> QED BY <1>1, <1>3, <1>4, <1>9 DEF CountIn

(* No element is there twice. *)
Once(s) == \A i, j \in 1 .. Len(s) : s[i] = s[j] => i = j

(* p consists of what is at the positions at of s. *)
TakenFrom(p, s, at) ==
  /\ \A x \in 1 .. Len(p) : \E i \in at : p[x] = s[i]
  /\ \A i \in at : \E x \in 1 .. Len(p) : p[x] = s[i]

(* Its elements are those at the positions picked, and each is there once  *)
(* if it was before.                                                       *)
LEMMA PickedElements ==
  ASSUME NEW S, NEW s \in Seq(S), NEW at, at \subseteq 1 .. Len(s), NEW p, p = Picked(s, at)
  PROVE  TakenFrom(p, s, at) /\ (Once(s) => Once(p))
<1>1. PICK m : m = Cardinality(at)
  OBVIOUS
<1>0. PICK where : Places(s, at, where)
  BY ONLY s \in Seq(S), at \subseteq 1 .. Len(s), PickedPlaces
<1>2. where \in Bijection(1 .. m, at) /\ \A x \in 1 .. m : p[x] = s[where[x]]
  BY ONLY <1>0, <1>1, p = Picked(s, at) DEF Places
<1>3. m \in Nat /\ Len(p) = m
  BY <1>1, PickedPlaces
<1>4. /\ where \in [1 .. m -> at] /\ \A x, y \in 1 .. m : where[x] = where[y] => x = y
      /\ \A i \in at : \E x \in 1 .. m : where[x] = i
  BY <1>2 DEF Bijection, Injection, Surjection, IsInjective
<1>5. \A x \in 1 .. m : \E i \in at : p[x] = s[i]
  BY <1>2, <1>4
<1>6. \A i \in at : \E x \in 1 .. m : p[x] = s[i]
  BY <1>2, <1>4
<1>7. ASSUME Once(s),
             NEW x \in 1 .. m, NEW y \in 1 .. m, p[x] = p[y]
      PROVE  x = y
  <2>1. where[x] \in at /\ where[y] \in at
    BY <1>4
  <2>2. s[where[x]] = s[where[y]]
    BY <1>2, <1>7
  <2>3. where[x] = where[y]
    BY <1>7, <2>1, <2>2 DEF Once
  <2> QED BY <1>4, <2>3
<1> QED BY <1>1, <1>3, <1>5, <1>6, <1>7 DEF Once, TakenFrom

(***************************************************************************)
(* Counting elements                                                       *)
(***************************************************************************)

(* The instants after c. *)
After(c) == {n \in Int : n > c}

LEMMA CountType ==
  ASSUME NEW S, NEW s \in Seq(S), NEW C
  PROVE  /\ IsFiniteSet({i \in 1 .. Len(s) : s[i] \in C})
         /\ CountIn(s, C) \in Nat /\ CountIn(s, C) <= Len(s)
<1>1. PICK U : U = {i \in 1 .. Len(s) : s[i] \in C}
  OBVIOUS
<1>2. U \subseteq 1 .. Len(s) /\ Len(s) \in Nat
  BY <1>1
<1>3. IsFiniteSet(U) /\ Cardinality(U) \in Nat /\ Cardinality(U) <= Len(s)
  BY <1>2, PositionsFinite
<1> QED BY <1>1, <1>3 DEF CountIn

(* What is counted in a smaller set, or of a part of the positions. *)
LEMMA CountLess ==
  ASSUME NEW S, NEW s \in Seq(S), NEW U, NEW C,
         \A i \in U : i \in 1 .. Len(s) /\ s[i] \in C
  PROVE  IsFiniteSet(U) /\ Cardinality(U) \in Nat /\ Cardinality(U) <= CountIn(s, C)
<1>1. PICK V : V = {i \in 1 .. Len(s) : s[i] \in C}
  OBVIOUS
<1>2. IsFiniteSet(V) /\ CountIn(s, C) = Cardinality(V)
  BY <1>1, CountType DEF CountIn
<1>3. U \subseteq V
  BY <1>1
<1> QED BY <1>2, <1>3, CountSubset

LEMMA CountWithin ==
  ASSUME NEW S, NEW s \in Seq(S), NEW C, NEW D, \A e \in S : e \in C => e \in D
  PROVE  CountIn(s, C) <= CountIn(s, D)
<1>1. PICK U : U = {i \in 1 .. Len(s) : s[i] \in C}
  OBVIOUS
<1>2. \A i \in U : i \in 1 .. Len(s) /\ s[i] \in D
  BY <1>1
<1>3. Cardinality(U) <= CountIn(s, D)
  BY <1>2, CountLess
<1> QED BY <1>1, <1>3 DEF CountIn

LEMMA CountEmpty == ASSUME NEW C PROVE CountIn(<< >>, C) = 0
<1>1. {i \in 1 .. Len(<< >>) : << >>[i] \in C} = {}
  OBVIOUS
<1> QED BY <1>1, FS_EmptySet DEF CountIn

LEMMA CountAppend ==
  ASSUME NEW S, NEW s \in Seq(S), NEW e \in S, NEW C
  PROVE  CountIn(Append(s, e), C) = IF e \in C THEN CountIn(s, C) + 1 ELSE CountIn(s, C)
<1>1. PICK n, t : n = Len(s) /\ t = Append(s, e)
  OBVIOUS
<1>2. n \in Nat /\ Len(t) = n + 1 /\ t[n + 1] = e /\ \A i \in 1 .. n : t[i] = s[i]
  BY <1>1
<1>3. PICK U, V : U = {i \in 1 .. n : s[i] \in C} /\ V = {i \in 1 .. Len(t) : t[i] \in C}
  OBVIOUS
<1>4. IsFiniteSet(U) /\ n + 1 \notin U
  <2>1. IsFiniteSet(U)
    BY <1>1, <1>3, CountType
  <2>2. n + 1 \notin 1 .. n
    BY <1>2
  <2> QED BY <1>3, <2>1, <2>2
<1>5. \A i : i \in 1 .. n + 1 <=> (i \in 1 .. n \/ i = n + 1)
  BY <1>2
<1>6. CASE e \in C
  <2>1. V = U \cup {n + 1}
    BY <1>2, <1>3, <1>5, <1>6
  <2>2. Cardinality(V) = Cardinality(U) + 1
    BY <1>4, <2>1, FS_AddElement
  <2> QED BY <1>1, <1>3, <1>6, <2>2 DEF CountIn
<1>7. CASE e \notin C
  <2>1. V = U
    BY <1>2, <1>3, <1>5, <1>7
  <2> QED BY <1>1, <1>3, <1>7, <2>1 DEF CountIn
<1> QED BY <1>6, <1>7

(* filter() keeps every element of a part of what it keeps. *)
LEMMA CountPicked ==
  ASSUME NEW S, NEW s \in Seq(S), NEW D, NEW C, \A e \in S : e \in C => e \in D
  PROVE  /\ CountIn(Picked(s, Where(s, D)), C) = CountIn(s, C)
         /\ Picked(s, Where(s, D)) \in Seq(S) /\ Len(Picked(s, Where(s, D))) = CountIn(s, D)
<1>0. PICK at : at = Where(s, D)
  OBVIOUS
<1>1. at \subseteq 1 .. Len(s)
  BY <1>0 DEF Where
<1>2. {i \in at : s[i] \in C} = {i \in 1 .. Len(s) : s[i] \in C}
  <2>1. \A i \in 1 .. Len(s) : s[i] \in S
    OBVIOUS
  <2> QED BY <1>0, <2>1 DEF Where
<1>3. CountIn(Picked(s, at), C) = CountIn(s, C)
  <2>1. PICK B : B = {i \in at : s[i] \in C}
    OBVIOUS
  <2>2. CountIn(Picked(s, at), C) = Cardinality(B)
    BY <1>1, <2>1, PickedCount
  <2>3. CountIn(s, C) = Cardinality(B)
    BY ONLY <1>2, <2>1 DEF CountIn
  <2> QED BY <2>2, <2>3
<1>4. Picked(s, at) \in Seq(S) /\ Len(Picked(s, at)) = Cardinality(at)
  BY <1>1, PickedPlaces
<1> QED BY <1>0, <1>3, <1>4 DEF CountIn, Where

(* A list of distinct elements is as long as their set is large. *)
LEMMA DistinctCount ==
  ASSUME NEW S, NEW s \in Seq(S), Once(s)
  PROVE  /\ IsFiniteSet({s[i] : i \in 1 .. Len(s)})
         /\ Cardinality({s[i] : i \in 1 .. Len(s)}) = Len(s)
<1>1. PICK n, E, f : /\ n = Len(s) /\ E = {s[i] : i \in 1 .. Len(s)}
                     /\ f = [i \in 1 .. Len(s) |-> s[i]]
  OBVIOUS
<1>0. n \in Nat
  BY <1>1
<1>2. n \in Nat /\ IsFiniteSet(1 .. n) /\ Cardinality(1 .. n) = n
  BY <1>0, FS_Interval
<1>3. f \in Bijection(1 .. n, E)
  <2>1. f \in [1 .. n -> E]
    BY <1>1
  <2>2. \A i, j \in 1 .. n : f[i] = f[j] => i = j
    BY <1>1 DEF Once
  <2>3. \A e \in E : \E i \in 1 .. n : f[i] = e
    BY <1>1
  <2> QED BY <2>1, <2>2, <2>3 DEF Bijection, Injection, Surjection, IsInjective
<1>4. ExistsBijection(1 .. n, E)
  BY <1>3 DEF ExistsBijection
<1>5. IsFiniteSet(E) /\ Cardinality(E) = n
  BY <1>2, <1>4, FS_Bijection
<1> QED BY <1>1, <1>5

(* The positions of at up to the m-th are m. *)
LEMMA FirstRanked ==
  ASSUME NEW n \in Nat, NEW at, at \subseteq 1 .. n, NEW m \in Int, m <= Cardinality(at)
  PROVE  Cardinality({i \in at : Rank(at, i) <= m}) >= m
<1>1. PICK U : U = {i \in at : Rank(at, i) <= m}
  OBVIOUS
<1>2. IsFiniteSet(U) /\ Cardinality(U) \in Nat /\ IsFiniteSet(at) /\ Cardinality(at) \in Nat
  <2>1. U \subseteq 1 .. n
    BY <1>1
  <2> QED BY <2>1, PositionsFinite
<1>3. CASE m <= 0
  BY <1>1, <1>2, <1>3
<1>4. CASE m > 0
  <2>1. m \in 1 .. Cardinality(at)
    BY <1>2, <1>4
  <2>2. PICK x \in at : Rank(at, x) = m
    BY <2>1, RankTaken
  <2>3. PICK V : V = {j \in at : j <= x}
    OBVIOUS
  <2>4. Cardinality(V) = m
    BY <2>2, <2>3 DEF Rank
  <2>5. V \subseteq U
    <3>1. SUFFICES ASSUME NEW j \in at, j <= x PROVE Rank(at, j) <= m
      BY <1>1, <2>3
    <3>2. j \in 0 .. n /\ x \in 0 .. n
      OBVIOUS
    <3> QED BY <2>2, <3>1, <3>2, RankGrows
  <2> QED BY <1>1, <1>2, <2>4, <2>5, CountSubset
<1> QED BY <1>3, <1>4
=============================================================================
