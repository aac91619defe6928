------------------------- MODULE ContextSelectionProofs -------------------------
(***************************************************************************)
(* What a request's context is chosen from, what it costs and what is      *)
(* recorded of it, for every index, scoring, query, budget and memory.     *)
(***************************************************************************)
EXTENDS ContextSelection, FiniteSetTheorems, SequenceTheorems, TLAPS

-----------------------------------------------------------------------------
(* Naturals *)

\* A nonempty set of naturals has a least one.
LEMMA LeastNatural ==
  ASSUME NEW M \in SUBSET Nat, M # {}
  PROVE  Least(M) \in M /\ \A m \in M : Least(M) <= m
<1> DEFINE R == {p \in Nat \X Nat : p[1] < p[2]}
<1>1. IsWellFoundedOn(R, Nat)
  <2>1. R = OpToRel(<, Nat)
    BY DEF OpToRel
  <2> QED BY <2>1, NatLessThanWellFounded
<1>2. PICK n \in M : \A m \in M : ~(<<m, n>> \in R)
  <2> HIDE DEF R
  <2> QED BY <1>1, WFMin
<1>3. ASSUME NEW m \in M PROVE n <= m
  <2>1. ~(m < n)
    BY <1>2
  <2> QED BY <2>1
<1> QED BY <1>3 DEF Least

\* A set of naturals with 0 and every successor is all of them.
LEMMA SetInduction ==
  ASSUME NEW N \in SUBSET Nat, 0 \in N, \A n \in N : n + 1 \in N
  PROVE  N = Nat
<1> DEFINE M == Nat \ N
<1> SUFFICES ASSUME M # {} PROVE FALSE
  OBVIOUS
<1>1. PICK n \in M : \A m \in M : n <= m
  <2>1. M \in SUBSET Nat
    OBVIOUS
  <2> HIDE DEF M
  <2> QED BY <2>1, LeastNatural
<1>2. n # 0 /\ n - 1 \in Nat
  OBVIOUS
<1>3. n - 1 \in N
  <2>1. ~(n <= n - 1)
    BY <1>2
  <2> QED BY <1>1, <1>2, <2>1
<1>4. (n - 1) + 1 \in N
  BY <1>3
<1> QED BY <1>4

\* A bounded nonempty set of naturals has a greatest one.
LEMMA GreatestNatural ==
  ASSUME NEW b \in Nat, NEW M \in SUBSET 0 .. b, M # {}
  PROVE  \E m \in M : \A n \in M : n <= m
<1> DEFINE D == {b - m : m \in M}
<1>1. D \in SUBSET Nat /\ D # {}
  <2>1. \A m \in M : b - m \in Nat
    OBVIOUS
  <2> QED BY <2>1
<1>2. PICK d \in D : \A e \in D : d <= e
  <2> HIDE DEF D
  <2> QED BY <1>1, LeastNatural
<1>3. PICK m \in M : d = b - m
  BY <1>2
<1>4. ASSUME NEW n \in M PROVE n <= m
  <2>1. d <= b - n
    BY <1>2
  <2> QED BY <1>3, <2>1
<1> QED BY <1>4

IsRecursive(f, A, n, base, step) ==
  /\ f \in [0 .. n -> A]
  /\ f = [k \in 0 .. n |-> IF k = 0 THEN base ELSE step[<<f[k - 1], k>>]]

\* What is found by steps from a base exists, if every step stays in A.
LEMMA Recursion ==
  ASSUME NEW A, NEW n \in Nat, NEW base \in A, NEW step \in [A \X (1 .. n) -> A]
  PROVE  \E f : IsRecursive(f, A, n, base, step)
<1> DEFINE Steps(f, m) == \A k \in 0 .. m : f[k] = IF k = 0 THEN base ELSE step[<<f[k - 1], k>>]
           N == {m \in Nat : m <= n => \E f \in [0 .. m -> A] : Steps(f, m)}
<1>1. 0 \in N
  <2>1. [k \in 0 .. 0 |-> base] \in [0 .. 0 -> A] /\ Steps([k \in 0 .. 0 |-> base], 0)
    OBVIOUS
  <2> QED BY <2>1
<1>2. \A m \in N : m + 1 \in N
  <2> SUFFICES ASSUME NEW m \in Nat, m + 1 <= n, NEW f \in [0 .. m -> A], Steps(f, m)
               PROVE  \E g \in [0 .. m + 1 -> A] : Steps(g, m + 1)
    OBVIOUS
  <2> DEFINE g == [k \in 0 .. m + 1 |-> IF k = m + 1 THEN step[<<f[m], m + 1>>] ELSE f[k]]
  <2>1. step[<<f[m], m + 1>>] \in A
    <3>1. <<f[m], m + 1>> \in A \X (1 .. n)
      OBVIOUS
    <3> QED BY <3>1
  <2>2. g \in [0 .. m + 1 -> A]
    BY <2>1
  <2>3. /\ \A k \in 0 .. m : g[k] = f[k] /\ k \in 0 .. m + 1
        /\ g[m + 1] = step[<<f[m], m + 1>>]
    OBVIOUS
  <2> HIDE DEF g
  <2>4. ASSUME NEW k \in 0 .. m + 1
        PROVE  g[k] = IF k = 0 THEN base ELSE step[<<g[k - 1], k>>]
    <3>1. CASE k = m + 1
      <4>1. k # 0 /\ k - 1 = m /\ g[k - 1] = f[m]
        BY <3>1, <2>3
      <4> QED BY <3>1, <4>1, <2>3
    <3>2. CASE k # m + 1
      <4>1. k \in 0 .. m /\ (k # 0 => k - 1 \in 0 .. m)
        BY <3>2
      <4>2. g[k] = f[k] /\ (k # 0 => g[k - 1] = f[k - 1])
        BY <4>1, <2>3
      <4>3. f[k] = IF k = 0 THEN base ELSE step[<<f[k - 1], k>>]
        BY <4>1
      <4> QED BY <4>2, <4>3
    <3> QED BY <3>1, <3>2
  <2> QED BY <2>2, <2>4
<1>3. N = Nat
  <2>1. N \in SUBSET Nat
    OBVIOUS
  <2> HIDE DEF N
  <2> QED BY <1>1, <1>2, <2>1, SetInduction
<1>4. PICK f \in [0 .. n -> A] : Steps(f, n)
  BY <1>3
<1>5. f = [k \in 0 .. n |-> IF k = 0 THEN base ELSE step[<<f[k - 1], k>>]]
  BY <1>4
<1> QED BY <1>5 DEF IsRecursive

-----------------------------------------------------------------------------
(* Places: how many are before an element says where it stands *)

Below(S, R, x) == {y \in S : <<y, x>> \in R}

StrictOrder(S, R) ==
  /\ \A x \in S : <<x, x>> \notin R
  /\ \A x, y, z \in S : <<x, y>> \in R /\ <<y, z>> \in R => <<x, z>> \in R
  /\ \A x, y \in S : x = y \/ <<x, y>> \in R \/ <<y, x>> \in R

\* The elements before x are fewer than those before an element after x.
LEMMA FewerBelow ==
  ASSUME NEW S, IsFiniteSet(S), NEW R, StrictOrder(S, R),
         NEW x \in S, NEW y \in S, <<x, y>> \in R
  PROVE  Cardinality(Below(S, R, x)) < Cardinality(Below(S, R, y))
<1>1. Below(S, R, x) \in SUBSET S /\ Below(S, R, y) \in SUBSET S
  BY DEF Below
<1>2. /\ IsFiniteSet(Below(S, R, x)) /\ IsFiniteSet(Below(S, R, y))
      /\ Cardinality(Below(S, R, x)) \in Nat /\ Cardinality(Below(S, R, y)) \in Nat
  BY <1>1, FS_Subset, FS_CardinalityType
<1>3. x \notin Below(S, R, x)
  BY DEF Below, StrictOrder
<1>4. Below(S, R, x) \cup {x} \in SUBSET Below(S, R, y)
  BY DEF Below, StrictOrder
<1>5. Cardinality(Below(S, R, x) \cup {x}) = Cardinality(Below(S, R, x)) + 1
  BY <1>2, <1>3, FS_AddElement
<1>6. Cardinality(Below(S, R, x) \cup {x}) <= Cardinality(Below(S, R, y))
  BY <1>2, <1>4, FS_Subset
<1> QED BY <1>2, <1>5, <1>6

\* Every place from 0 is that of exactly one element.
LEMMA PlacesAreTaken ==
  ASSUME NEW S, IsFiniteSet(S), NEW R, StrictOrder(S, R)
  PROVE  /\ Cardinality(S) \in Nat
         /\ \A x \in S : Cardinality(Below(S, R, x)) \in 0 .. Cardinality(S) - 1
         /\ \A x, y \in S : Cardinality(Below(S, R, x)) = Cardinality(Below(S, R, y)) => x = y
         /\ \A i \in 0 .. Cardinality(S) - 1 : \E x \in S : Cardinality(Below(S, R, x)) = i
<1>1. Cardinality(S) \in Nat
  BY FS_CardinalityType
<1>2. ASSUME NEW x \in S PROVE Cardinality(Below(S, R, x)) \in 0 .. Cardinality(S) - 1
  <2>1. Below(S, R, x) \in SUBSET (S \ {x})
    BY DEF Below, StrictOrder
  <2>2. IsFiniteSet(S \ {x}) /\ Cardinality(S \ {x}) = Cardinality(S) - 1
    BY FS_RemoveElement
  <2>3. IsFiniteSet(Below(S, R, x)) /\ Cardinality(Below(S, R, x)) <= Cardinality(S) - 1
    BY <2>1, <2>2, FS_Subset
  <2>4. Cardinality(Below(S, R, x)) \in Nat
    BY <2>3, FS_CardinalityType
  <2> QED BY <1>1, <2>3, <2>4
<1>3. ASSUME NEW x \in S, NEW y \in S, Cardinality(Below(S, R, x)) = Cardinality(Below(S, R, y))
      PROVE  x = y
  <2>1. ASSUME <<x, y>> \in R PROVE FALSE
    <3>1. Cardinality(Below(S, R, x)) < Cardinality(Below(S, R, y))
      BY <2>1, FewerBelow
    <3> QED BY <1>2, <1>3, <3>1
  <2>2. ASSUME <<y, x>> \in R PROVE FALSE
    <3>1. Cardinality(Below(S, R, y)) < Cardinality(Below(S, R, x))
      BY <2>2, FewerBelow
    <3> QED BY <1>2, <1>3, <3>1
  <2> QED BY <2>1, <2>2 DEF StrictOrder
<1>4. ASSUME NEW i \in 0 .. Cardinality(S) - 1
      PROVE  \E x \in S : Cardinality(Below(S, R, x)) = i
  <2> SUFFICES ASSUME \A x \in S : Cardinality(Below(S, R, x)) # i PROVE FALSE
    OBVIOUS
  <2> DEFINE T == (0 .. Cardinality(S) - 1) \ {i}
             f == [x \in S |-> Cardinality(Below(S, R, x))]
  <2>1. f \in [S -> T]
    BY <1>2
  <2>2. IsFiniteSet(0 .. Cardinality(S) - 1) /\ Cardinality(0 .. Cardinality(S) - 1) = Cardinality(S)
    BY <1>1, FS_Interval
  <2>3. IsFiniteSet(T) /\ Cardinality(T) < Cardinality(S)
    <3>1. /\ IsFiniteSet((0 .. Cardinality(S) - 1) \ {i})
          /\ Cardinality((0 .. Cardinality(S) - 1) \ {i}) = Cardinality(0 .. Cardinality(S) - 1) - 1
      BY <2>2, FS_RemoveElement
    <3> QED BY <1>1, <2>2, <3>1
  <2>4. \A x, y \in S : f[x] = f[y] => x = y
    <3>1. \A x \in S : f[x] = Cardinality(Below(S, R, x))
      OBVIOUS
    <3> HIDE DEF f
    <3> QED BY <1>3, <3>1
  <2> HIDE DEF f, T
  <2>5. \E x, y \in S : x # y /\ f[x] = f[y]
    BY <2>1, <2>3, FS_PigeonHole
  <2> QED BY <2>4, <2>5
<1> QED BY <1>1, <1>2, <1>3, <1>4

-----------------------------------------------------------------------------
(* Sizes *)

\* The image of a finite set is finite.
LEMMA ImageFinite ==
  ASSUME NEW S, IsFiniteSet(S), NEW T, NEW f \in [S -> T]
  PROVE  /\ IsFiniteSet(Range(f)) /\ Range(f) = {f[x] : x \in S}
         /\ (\A x, y \in S : f[x] = f[y] => x = y) => Cardinality(Range(f)) = Cardinality(S)
<1>1. Range(f) = {f[x] : x \in S}
  BY DEF Range
<1>2. f \in Surjection(S, Range(f))
  BY <1>1 DEF Surjection
<1> DEFINE R == Range(f)
<1> HIDE DEF R
<1>3. f \in Surjection(S, R)
  BY <1>2 DEF R
<1>4. IsFiniteSet(R) /\ (Cardinality(R) = Cardinality(S) <=> f \in Injection(S, R))
  BY <1>3, FS_Surjection, Zenon
<1>5. f \in [S -> R]
  BY <1>3 DEF Surjection
<1>6. (\A x, y \in S : f[x] = f[y] => x = y) => f \in Injection(S, R)
  BY <1>5 DEF Injection, IsInjective
<1> QED BY <1>1, <1>4, <1>6 DEF R

\* A sequence of different elements has as many as it is long.
LEMMA DistinctSize ==
  ASSUME NEW A, NEW s \in Seq(A), Distinct(s)
  PROVE  Cardinality(Range(s)) = Len(s)
<1>1. Len(s) \in Nat /\ DOMAIN s = 1 .. Len(s) /\ s \in [1 .. Len(s) -> A]
  BY LenProperties
<1>2. IsFiniteSet(1 .. Len(s)) /\ Cardinality(1 .. Len(s)) = Len(s)
  BY <1>1, FS_Interval
<1>3. \A x, y \in 1 .. Len(s) : s[x] = s[y] => x = y
  BY <1>1 DEF Distinct
<1> QED BY <1>1, <1>2, <1>3, ImageFinite

-----------------------------------------------------------------------------
(* What is kept of a sequence *)

Place(P, k) == CHOOSE i \in P : Cardinality({j \in P : j < i}) = k - 1

Lower(P) == {p \in P \X P : p[1] < p[2]}

\* What is kept are the elements at the places, once for each.
LEMMA KeptPlaces ==
  ASSUME NEW A, NEW s \in Seq(A), NEW P \in SUBSET DOMAIN s
  PROVE  /\ Cardinality(P) \in Nat
         /\ Kept(s, P) \in Seq(A) /\ Len(Kept(s, P)) = Cardinality(P)
         /\ \E at0 \in [1 .. Cardinality(P) -> P] :
              /\ \A k \in 1 .. Cardinality(P) : Kept(s, P)[k] = s[at0[k]]
              /\ \A k, m \in 1 .. Cardinality(P) : at0[k] = at0[m] => k = m
              /\ \A i \in P : \E k \in 1 .. Cardinality(P) : at0[k] = i
<1> DEFINE c == Cardinality(P)
           at0 == [k \in 1 .. c |-> Place(P, k)]
           place(i) == Cardinality({j \in P : j < i})
<1>1. P \in SUBSET (1 .. Len(s)) /\ Len(s) \in Nat
  BY LenProperties
<1>2. IsFiniteSet(P)
  BY <1>1, FS_Interval, FS_Subset
<1>3. StrictOrder(P, Lower(P))
  BY <1>1 DEF StrictOrder, Lower
<1>4. \A i \in P : place(i) = Cardinality(Below(P, Lower(P), i))
  <2>1. \A i \in P : Below(P, Lower(P), i) = {j \in P : j < i}
    BY DEF Below, Lower
  <2> QED BY <2>1, Zenon
<1>a. /\ c \in Nat
      /\ \A i \in P : Cardinality(Below(P, Lower(P), i)) \in 0 .. c - 1
      /\ \A i, j \in P : Cardinality(Below(P, Lower(P), i)) = Cardinality(Below(P, Lower(P), j)) => i = j
      /\ \A k \in 0 .. c - 1 : \E i \in P : Cardinality(Below(P, Lower(P), i)) = k
  BY <1>2, <1>3, PlacesAreTaken
<1>c. \A k : Place(P, k) = CHOOSE i \in P : place(i) = k - 1
  BY DEF Place
<1> HIDE DEF place
<1>5. /\ c \in Nat
      /\ \A i \in P : place(i) \in 0 .. c - 1
      /\ \A i, j \in P : place(i) = place(j) => i = j
      /\ \A k \in 0 .. c - 1 : \E i \in P : place(i) = k
  BY <1>4, <1>a
<1> HIDE DEF c
<1>6. ASSUME NEW k \in 1 .. c
      PROVE  Place(P, k) \in P /\ place(Place(P, k)) = k - 1
  <2>1. k - 1 \in 0 .. c - 1
    BY <1>5
  <2>2. \E i \in P : place(i) = k - 1
    BY <1>5, <2>1
  <2> QED BY <2>2, <1>c
<1>7. at0 \in [1 .. c -> P]
  BY <1>6
<1>8. Kept(s, P) = [k \in 1 .. c |-> s[Place(P, k)]]
  BY DEF Kept, Place, c
<1>b. \A k \in 1 .. c : at0[k] = Place(P, k)
  OBVIOUS
<1> HIDE DEF at0
<1>9. \A i \in P : s[i] \in A
  BY <1>1, ElementOfSeq
<1>10. Kept(s, P) \in Seq(A) /\ Len(Kept(s, P)) = c
  <2>1. \A k \in 1 .. c : s[Place(P, k)] \in A
    BY <1>6, <1>9
  <2> QED BY <1>5, <1>8, <2>1
<1>11. \A k \in 1 .. c : Kept(s, P)[k] = s[at0[k]]
  BY <1>8, <1>b
<1>12. \A k, m \in 1 .. c : at0[k] = at0[m] => k = m
  <2> SUFFICES ASSUME NEW k \in 1 .. c, NEW m \in 1 .. c, at0[k] = at0[m] PROVE k = m
    OBVIOUS
  <2>1. k - 1 = m - 1
    BY <1>6, <1>b
  <2> QED BY <2>1
<1>13. ASSUME NEW i \in P PROVE \E k \in 1 .. c : at0[k] = i
  <2> DEFINE k == place(i) + 1
  <2>1. k \in 1 .. c /\ k - 1 = place(i)
    BY <1>5
  <2> HIDE DEF k
  <2>2. place(at0[k]) = place(i) /\ at0[k] \in P
    BY <1>6, <1>b, <2>1
  <2>3. at0[k] = i
    BY <1>5, <2>2
  <2> QED BY <2>1, <2>3
<1> QED BY <1>5, <1>7, <1>10, <1>11, <1>12, <1>13 DEF c

\* So they are a sequence of them, without repetition where s has none.
LEMMA KeptProperties ==
  ASSUME NEW A, NEW s \in Seq(A), NEW P \in SUBSET DOMAIN s
  PROVE  /\ Kept(s, P) \in Seq(A)
         /\ Range(Kept(s, P)) = {s[i] : i \in P}
         /\ (\A i, j \in P : s[i] = s[j] => i = j) => Distinct(Kept(s, P))
<1> DEFINE w == Kept(s, P)
           c == Cardinality(P)
<1>1. /\ c \in Nat /\ w \in Seq(A) /\ Len(w) = c
  BY KeptPlaces
<1>2. PICK at0 \in [1 .. c -> P] :
        /\ \A k \in 1 .. c : w[k] = s[at0[k]]
        /\ \A k, m \in 1 .. c : at0[k] = at0[m] => k = m
        /\ \A i \in P : \E k \in 1 .. c : at0[k] = i
  BY KeptPlaces
<1> HIDE DEF w, c
<1>3. Range(w) = {w[k] : k \in 1 .. c} /\ DOMAIN w = 1 .. c
  BY <1>1, RangeEquality, LenProperties
<1>4. Range(w) = {s[i] : i \in P}
  BY <1>2, <1>3
<1>5. (\A i, j \in P : s[i] = s[j] => i = j) => Distinct(w)
  <2> SUFFICES ASSUME \A i, j \in P : s[i] = s[j] => i = j,
                      NEW k \in 1 .. c, NEW m \in 1 .. c, w[k] = w[m]
               PROVE  k = m
    BY <1>3 DEF Distinct
  <2>1. at0[k] \in P /\ at0[m] \in P /\ s[at0[k]] = s[at0[m]]
    BY <1>2
  <2>2. at0[k] = at0[m]
    BY <2>1
  <2> QED BY <1>2, <2>2
<1> QED BY <1>1, <1>4, <1>5 DEF w

\* Two parts of a sequence: those in S, and the others.
LEMMA Parted ==
  ASSUME NEW A, NEW s \in Seq(A), NEW S
  PROVE  /\ Among(s, S) \in Seq(A) /\ Range(Among(s, S)) = Range(s) \cap S
         /\ Without(s, S) \in Seq(A) /\ Range(Without(s, S)) = Range(s) \ S
         /\ Distinct(s) => Distinct(Among(s, S)) /\ Distinct(Without(s, S))
<1> DEFINE P == {i \in DOMAIN s : s[i] \in S}
           Q == {i \in DOMAIN s : s[i] \notin S}
<1>1. Among(s, S) = Kept(s, P) /\ Without(s, S) = Kept(s, Q)
  BY DEF Among, Without
<1>2. P \in SUBSET DOMAIN s /\ Q \in SUBSET DOMAIN s
  OBVIOUS
<1>3. {s[i] : i \in P} = Range(s) \cap S /\ {s[i] : i \in Q} = Range(s) \ S
  BY DEF Range
<1> HIDE DEF P, Q
<1>4. /\ Kept(s, P) \in Seq(A) /\ Range(Kept(s, P)) = {s[i] : i \in P}
      /\ Kept(s, Q) \in Seq(A) /\ Range(Kept(s, Q)) = {s[i] : i \in Q}
  BY <1>2, KeptProperties
<1>5. Distinct(s) => Distinct(Kept(s, P)) /\ Distinct(Kept(s, Q))
  <2> SUFFICES ASSUME Distinct(s) PROVE Distinct(Kept(s, P)) /\ Distinct(Kept(s, Q))
    OBVIOUS
  <2>1. /\ \A i, j \in P : s[i] = s[j] => i = j
        /\ \A i, j \in Q : s[i] = s[j] => i = j
    BY <1>2 DEF Distinct
  <2> QED BY <1>2, <2>1, KeptProperties
<1> QED BY <1>1, <1>3, <1>4, <1>5

\* Two sequences of different elements, one after the other.
LEMMA JoinedDistinct ==
  ASSUME NEW A, NEW s \in Seq(A), NEW t \in Seq(A), Distinct(s), Distinct(t),
         Range(s) \cap Range(t) = {}
  PROVE  s \o t \in Seq(A) /\ Distinct(s \o t) /\ Range(s \o t) = Range(s) \cup Range(t)
<1>1. /\ s \o t \in Seq(A) /\ Len(s \o t) = Len(s) + Len(t)
      /\ \A i \in 1 .. Len(s) + Len(t) :
           (s \o t)[i] = IF i <= Len(s) THEN s[i] ELSE t[i - Len(s)]
  BY ConcatProperties
<1>2. Range(s \o t) = Range(s) \cup Range(t)
  BY RangeConcatenation
<1>3. /\ DOMAIN s = 1 .. Len(s) /\ Len(s) \in Nat /\ DOMAIN t = 1 .. Len(t) /\ Len(t) \in Nat
      /\ DOMAIN (s \o t) = 1 .. Len(s) + Len(t)
  BY <1>1, LenProperties
<1>4. ASSUME NEW i \in 1 .. Len(s), NEW j \in 1 .. Len(t) PROVE s[i] # t[j]
  BY <1>3 DEF Range
<1>5. Distinct(s \o t)
  <2> SUFFICES ASSUME NEW i \in 1 .. Len(s) + Len(t), NEW j \in 1 .. Len(s) + Len(t),
                      (s \o t)[i] = (s \o t)[j]
               PROVE  i = j
    BY <1>3 DEF Distinct
  <2>1. CASE i <= Len(s) /\ j <= Len(s)
    BY <1>1, <1>3, <2>1 DEF Distinct
  <2>2. CASE i > Len(s) /\ j > Len(s)
    <3>1. i - Len(s) \in 1 .. Len(t) /\ j - Len(s) \in 1 .. Len(t) /\ t[i - Len(s)] = t[j - Len(s)]
      BY <1>1, <1>3, <2>2
    <3>2. i - Len(s) = j - Len(s)
      BY <1>3, <3>1 DEF Distinct
    <3> QED BY <1>3, <3>2
  <2>3. CASE i <= Len(s) /\ j > Len(s)
    <3>1. i \in 1 .. Len(s) /\ j - Len(s) \in 1 .. Len(t) /\ s[i] = t[j - Len(s)]
      BY <1>1, <1>3, <2>3
    <3> QED BY <1>4, <3>1
  <2>4. CASE i > Len(s) /\ j <= Len(s)
    <3>1. j \in 1 .. Len(s) /\ i - Len(s) \in 1 .. Len(t) /\ s[j] = t[i - Len(s)]
      BY <1>1, <1>3, <2>4
    <3> QED BY <1>4, <3>1
  <2> QED BY <1>3, <2>1, <2>2, <2>3, <2>4
<1> QED BY <1>1, <1>2, <1>5

-----------------------------------------------------------------------------
(* The ranking *)

\* A ranking of the symbols of S: each once.
IsRanking(order, S) == order \in Seq(Symbol) /\ Distinct(order) /\ Range(order) = S

Ranks(profile, dirty, S) == {p \in S \X S : Outranks(profile, dirty, p[1], p[2])}

Matching == [Symbol -> [score : Nat, match : Matches]]

\* A score is a natural number.
LEMMA ScoreNat ==
  ASSUME NEW profile \in Matching, NEW dirty, NEW s \in Symbol
  PROVE  Score(profile, dirty, s) \in Nat /\ profile[s].score \in Nat
BY SelectionAssumption DEF Score, Matching

\* No two symbols have the same place.
LEMMA RanksAreStrict ==
  ASSUME NEW profile \in Matching, NEW dirty, NEW S \in SUBSET Symbol
  PROVE  StrictOrder(S, Ranks(profile, dirty, S))
<1>1. \A s \in S : Score(profile, dirty, s) \in Nat /\ s \in Nat
  BY ScoreNat, SelectionAssumption
<1>2. \A x, y \in S : <<x, y>> \in Ranks(profile, dirty, S) <=> Outranks(profile, dirty, x, y)
  BY DEF Ranks
<1>3. /\ \A x \in S : ~Outranks(profile, dirty, x, x)
      /\ \A x, y, z \in S : Outranks(profile, dirty, x, y) /\ Outranks(profile, dirty, y, z)
                              => Outranks(profile, dirty, x, z)
      /\ \A x, y \in S : x = y \/ Outranks(profile, dirty, x, y) \/ Outranks(profile, dirty, y, x)
  BY <1>1, SMTT(30) DEF Outranks
<1> QED BY <1>2, <1>3 DEF StrictOrder

\* The sort ranks what the minimum leaves, and as many are before a symbol as
\* outrank it.
LEMMA SortedProperties ==
  ASSUME NEW profile \in Matching, NEW dirty
  PROVE  /\ IsRanking(Sorted(profile, dirty), Candidates(profile, dirty))
         /\ \A i \in DOMAIN Sorted(profile, dirty) :
              Cardinality({t \in Candidates(profile, dirty) :
                             Outranks(profile, dirty, t, Sorted(profile, dirty)[i])}) = i - 1
<1> DEFINE all == Candidates(profile, dirty)
           c == Cardinality(all)
           sorted == Sorted(profile, dirty)
           place(s) == Cardinality({t \in all : Outranks(profile, dirty, t, s)})
<1>1. all \in SUBSET Symbol /\ IsFiniteSet(all)
  BY SelectionAssumption, FS_Subset DEF Candidates
<1>2. StrictOrder(all, Ranks(profile, dirty, all))
  BY <1>1, RanksAreStrict
<1>3. \A s \in all : place(s) = Cardinality(Below(all, Ranks(profile, dirty, all), s))
  <2> HIDE DEF all
  <2>1. \A s \in all : Below(all, Ranks(profile, dirty, all), s) = {t \in all : Outranks(profile, dirty, t, s)}
    BY DEF Below, Ranks
  <2> QED BY <2>1, Zenon
<1>4. sorted = [i \in 1 .. c |-> CHOOSE s \in all : place(s) = i - 1]
  BY DEF Sorted
<1> HIDE DEF all, sorted
<1>a. /\ c \in Nat
      /\ \A s \in all : Cardinality(Below(all, Ranks(profile, dirty, all), s)) \in 0 .. c - 1
      /\ \A s, t \in all : Cardinality(Below(all, Ranks(profile, dirty, all), s))
                            = Cardinality(Below(all, Ranks(profile, dirty, all), t)) => s = t
      /\ \A k \in 0 .. c - 1 : \E s \in all : Cardinality(Below(all, Ranks(profile, dirty, all), s)) = k
  BY <1>1, <1>2, PlacesAreTaken
<1> HIDE DEF place
<1>5. /\ c \in Nat
      /\ \A s \in all : place(s) \in 0 .. c - 1
      /\ \A s, t \in all : place(s) = place(t) => s = t
      /\ \A k \in 0 .. c - 1 : \E s \in all : place(s) = k
  BY <1>3, <1>a, Zenon
<1> HIDE DEF c
<1>6. ASSUME NEW i \in 1 .. c
      PROVE  sorted[i] \in all /\ place(sorted[i]) = i - 1
  <2>1. i - 1 \in 0 .. c - 1
    BY <1>5
  <2>2. \E s \in all : place(s) = i - 1
    BY <1>5, <2>1
  <2>3. sorted[i] = CHOOSE s \in all : place(s) = i - 1
    BY <1>4
  <2> QED BY <2>2, <2>3
<1>7. sorted \in Seq(Symbol) /\ DOMAIN sorted = 1 .. c
  <2>1. sorted = [i \in 1 .. c |-> sorted[i]]
    BY <1>4
  <2>2. sorted \in [1 .. c -> Symbol]
    BY <1>1, <1>6, <2>1
  <2> QED BY <1>5, <2>2
<1>8. Distinct(sorted)
  <2> SUFFICES ASSUME NEW i \in 1 .. c, NEW j \in 1 .. c, sorted[i] = sorted[j] PROVE i = j
    BY <1>7 DEF Distinct
  <2>1. i - 1 = j - 1
    BY <1>6
  <2> QED BY <2>1
<1>9. ASSUME NEW s \in all PROVE \E i \in 1 .. c : sorted[i] = s
  <2>1. place(s) + 1 \in 1 .. c /\ (place(s) + 1) - 1 = place(s)
    BY <1>5
  <2>2. sorted[place(s) + 1] \in all /\ place(sorted[place(s) + 1]) = place(s)
    BY <1>6, <2>1
  <2> QED BY <1>5, <2>1, <2>2
<1>10. Range(sorted) = all
  BY <1>6, <1>7, <1>9 DEF Range
<1>11. \A i \in DOMAIN sorted : place(sorted[i]) = i - 1
  BY <1>6, <1>7
<1> QED BY <1>7, <1>8, <1>10, <1>11 DEF IsRanking, sorted, all, place

\* The place of position k before i has moved to j.
From(j, i, k) == IF k < j THEN k ELSE IF k = j THEN i ELSE IF k <= i THEN k - 1 ELSE k

\* An element is taken from place i to an earlier place j.
LEMMA MovedForward ==
  ASSUME NEW A, NEW s \in Seq(A), NEW i \in Nat, NEW j \in Nat, 1 <= j, j < i, i <= Len(s)
  PROVE  /\ InsertAt(RemoveAt(s, i), j, s[i]) \in Seq(A)
         /\ Len(InsertAt(RemoveAt(s, i), j, s[i])) = Len(s)
         /\ \A k \in 1 .. Len(s) : InsertAt(RemoveAt(s, i), j, s[i])[k] = s[From(j, i, k)]
<1> DEFINE r == RemoveAt(s, i)
           w == InsertAt(r, j, s[i])
<1>0. PICK n \in Nat : Len(s) = n
  BY LenProperties
<1>1. r \in Seq(A) /\ Len(r) = n - 1
  BY <1>0 DEF RemoveAt
<1>2. \A k \in 1 .. n - 1 : r[k] = IF k < i THEN s[k] ELSE s[k + 1]
  BY <1>0 DEF RemoveAt
<1>3. w \in Seq(A) /\ Len(w) = n
  <2> HIDE DEF r
  <2> QED BY <1>0, <1>1 DEF InsertAt
<1>4. \A k \in 1 .. n : w[k] = IF k < j THEN r[k] ELSE IF k = j THEN s[i] ELSE r[k - 1]
  <2> HIDE DEF r
  <2> QED BY <1>0, <1>1 DEF InsertAt
<1> HIDE DEF r, w
<1>5. ASSUME NEW k \in 1 .. n PROVE w[k] = s[From(j, i, k)]
  <2>1. i <= n
    BY <1>0
  <2> QED BY <1>2, <1>4, <2>1 DEF From
<1>6. w \in Seq(A) /\ Len(w) = Len(s) /\ \A k \in 1 .. Len(s) : w[k] = s[From(j, i, k)]
  BY <1>0, <1>3, <1>5
<1> QED BY <1>6 DEF r, w

\* The guard only moves a symbol.
LEMMA GuardedKeeps ==
  ASSUME NEW profile, NEW dirty, NEW S, NEW order, IsRanking(order, S)
  PROVE  IsRanking(Guarded(profile, dirty, order), S)
<1> DEFINE i == Least(Anchors(profile, dirty, order))
           new == InsertAt(RemoveAt(order, i), Slots, order[i])
<1>1. CASE Guarded(profile, dirty, order) = order
  BY <1>1
<1>2. CASE Guarded(profile, dirty, order) # order
  <2>1. /\ Anchors(profile, dirty, order) # {} /\ Guarded(profile, dirty, order) = new
    BY <1>2 DEF Guarded
  <2>2. order \in Seq(Symbol) /\ Len(order) \in Nat /\ DOMAIN order = 1 .. Len(order)
    BY LenProperties DEF IsRanking
  <2>3. i \in Slots + 1 .. Len(order) /\ Slots \in Nat \ {0}
    <3>1. Anchors(profile, dirty, order) \in SUBSET (Slots + 1 .. Len(order))
      BY DEF Anchors
    <3>2. Slots + 1 .. Len(order) \in SUBSET Nat
      BY SelectionAssumption
    <3> QED BY <2>1, <3>1, <3>2, LeastNatural, SelectionAssumption
  <2> HIDE DEF i
  <2>4. i \in Nat /\ Slots \in Nat /\ 1 <= Slots /\ Slots < i /\ i <= Len(order)
    BY <2>2, <2>3
  <2>5. /\ new \in Seq(Symbol) /\ Len(new) = Len(order)
        /\ \A k \in 1 .. Len(order) : new[k] = order[From(Slots, i, k)]
    <3>1. InsertAt(RemoveAt(order, i), Slots, order[i]) \in Seq(Symbol)
      BY <2>2, <2>4, MovedForward, Zenon
    <3>2. Len(InsertAt(RemoveAt(order, i), Slots, order[i])) = Len(order)
      BY <2>2, <2>4, MovedForward, Zenon
    <3>3. \A k \in 1 .. Len(order) :
            InsertAt(RemoveAt(order, i), Slots, order[i])[k] = order[From(Slots, i, k)]
      BY <2>2, <2>4, MovedForward
    <3> QED BY <3>1, <3>2, <3>3
  <2>6. DOMAIN new = 1 .. Len(order)
    BY <2>5, LenProperties
  <2> HIDE DEF new
  <2>7. \A k \in 1 .. Len(order) : From(Slots, i, k) \in 1 .. Len(order)
    BY <2>2, <2>4 DEF From
  <2>8. \A k, m \in 1 .. Len(order) : From(Slots, i, k) = From(Slots, i, m) => k = m
    BY <2>2, <2>4 DEF From
  <2>9. ASSUME NEW m \in 1 .. Len(order) PROVE \E k \in 1 .. Len(order) : From(Slots, i, k) = m
    <3> DEFINE k == IF m < Slots THEN m ELSE IF m = i THEN Slots ELSE IF m < i THEN m + 1 ELSE m
    <3>1. k \in 1 .. Len(order) /\ From(Slots, i, k) = m
      BY <2>2, <2>4 DEF From
    <3> QED BY <3>1
  <2>10. Distinct(new)
    BY <2>2, <2>5, <2>6, <2>7, <2>8 DEF Distinct, IsRanking
  <2>11. Range(new) = Range(order)
    <3>1. \A k \in 1 .. Len(order) : new[k] \in Range(order)
      BY <2>2, <2>5, <2>7 DEF Range
    <3>2. ASSUME NEW m \in 1 .. Len(order) PROVE order[m] \in Range(new)
      <4>1. PICK k \in 1 .. Len(order) : From(Slots, i, k) = m
        BY <2>9
      <4>2. new[k] = order[m] /\ k \in DOMAIN new
        BY <2>5, <2>6, <4>1
      <4> QED BY <4>2 DEF Range
    <3> QED BY <2>2, <2>6, <3>1, <3>2 DEF Range
  <2> QED BY <2>1, <2>5, <2>10, <2>11 DEF IsRanking
<1> QED BY <1>1, <1>2

\* So do the promotions.
LEMMA PromoteNamedKeeps ==
  ASSUME NEW S, NEW order, IsRanking(order, S), NEW targets \in Seq(Symbol), Distinct(targets)
  PROVE  IsRanking(PromoteNamed(order, targets), S)
<1>1. /\ Among(targets, Range(order)) \in Seq(Symbol)
      /\ Range(Among(targets, Range(order))) = Range(targets) \cap Range(order)
      /\ Distinct(Among(targets, Range(order)))
  BY Parted
<1>2. /\ Without(order, Range(targets)) \in Seq(Symbol)
      /\ Range(Without(order, Range(targets))) = Range(order) \ Range(targets)
      /\ Distinct(Without(order, Range(targets)))
  BY Parted DEF IsRanking
<1>3. Range(Among(targets, Range(order))) \cap Range(Without(order, Range(targets))) = {}
  BY <1>1, <1>2
<1>4. /\ PromoteNamed(order, targets) \in Seq(Symbol)
      /\ Distinct(PromoteNamed(order, targets))
      /\ Range(PromoteNamed(order, targets))
           = Range(Among(targets, Range(order))) \cup Range(Without(order, Range(targets)))
  BY <1>1, <1>2, <1>3, JoinedDistinct DEF PromoteNamed
<1> QED BY <1>1, <1>2, <1>4 DEF IsRanking

\* What ranking has cut is appended.
LEMMA EnsuredAdds ==
  ASSUME NEW S, NEW order, IsRanking(order, S), NEW targets \in Seq(Symbol), Distinct(targets)
  PROVE  IsRanking(Ensured(order, targets), S \cup Range(targets))
<1>1. /\ Without(targets, Range(order)) \in Seq(Symbol)
      /\ Range(Without(targets, Range(order))) = Range(targets) \ Range(order)
      /\ Distinct(Without(targets, Range(order)))
  BY Parted
<1>2. Range(order) \cap Range(Without(targets, Range(order))) = {}
  BY <1>1
<1>3. /\ Ensured(order, targets) \in Seq(Symbol)
      /\ Distinct(Ensured(order, targets))
      /\ Range(Ensured(order, targets)) = Range(order) \cup Range(Without(targets, Range(order)))
  BY <1>1, <1>2, JoinedDistinct DEF Ensured, IsRanking
<1> QED BY <1>1, <1>3 DEF IsRanking

\* The first candidates of the modules are candidates, each once.
LEMMA FirstOfProperties ==
  ASSUME NEW S, NEW order, IsRanking(order, S), NEW M, NEW modules \in Seq(M)
  PROVE  /\ FirstOf(order, modules) \in Seq(Symbol)
         /\ Distinct(FirstOf(order, modules))
         /\ Range(FirstOf(order, modules)) \in SUBSET S
<1> DEFINE own(m) == {i \in DOMAIN order : ModuleOf[order[i]] = m}
           P == {k \in DOMAIN modules : /\ own(modules[k]) # {}
                                        /\ \A j \in 1 .. k - 1 : modules[j] # modules[k]}
           found == Kept(modules, P)
           first == [k \in DOMAIN found |-> order[Least(own(found[k]))]]
<1>1. FirstOf(order, modules) = first
  BY DEF FirstOf
<1>2. P \in SUBSET DOMAIN modules /\ DOMAIN modules = 1 .. Len(modules) /\ Len(modules) \in Nat
  BY LenProperties
<1>3. \A i, j \in P : modules[i] = modules[j] => i = j
  <2> SUFFICES ASSUME NEW i \in P, NEW j \in P, modules[i] = modules[j] PROVE i = j
    OBVIOUS
  <2>1. i \in 1 .. Len(modules) /\ j \in 1 .. Len(modules)
    BY <1>2
  <2>2. i \notin 1 .. j - 1 /\ j \notin 1 .. i - 1
    OBVIOUS
  <2> QED BY <1>2, <2>1, <2>2
<1>4. \A k \in P : own(modules[k]) # {}
  OBVIOUS
<1> HIDE DEF P
<1>5. found \in Seq(M) /\ Distinct(found) /\ Range(found) = {modules[k] : k \in P}
  BY <1>2, <1>3, KeptProperties
<1> HIDE DEF found
<1>6. DOMAIN found = 1 .. Len(found) /\ Len(found) \in Nat
  BY <1>5, LenProperties
<1>7. ASSUME NEW k \in DOMAIN found
      PROVE  /\ Least(own(found[k])) \in DOMAIN order
             /\ order[Least(own(found[k]))] \in S /\ order[Least(own(found[k]))] \in Symbol
             /\ ModuleOf[order[Least(own(found[k]))]] = found[k]
  <2>1. found[k] \in {modules[j] : j \in P}
    BY <1>5 DEF Range
  <2>2. own(found[k]) # {}
    BY <1>4, <2>1
  <2>3. own(found[k]) \in SUBSET Nat /\ own(found[k]) \in SUBSET DOMAIN order
    BY LenProperties DEF IsRanking
  <2>4. \A i \in own(found[k]) : ModuleOf[order[i]] = found[k]
    OBVIOUS
  <2> HIDE DEF own
  <2>5. Least(own(found[k])) \in own(found[k])
    BY <2>2, <2>3, LeastNatural
  <2>6. Least(own(found[k])) \in DOMAIN order
    BY <2>3, <2>5
  <2>7. order[Least(own(found[k]))] \in S
    BY <2>6 DEF IsRanking, Range
  <2>8. S \in SUBSET Symbol
    BY RangeOfSeq DEF IsRanking
  <2> QED BY <2>4, <2>5, <2>6, <2>7, <2>8
<1> HIDE DEF own
<1>8. DOMAIN first = 1 .. Len(found) /\ \A k \in 1 .. Len(found) : first[k] = order[Least(own(found[k]))]
  BY <1>6
<1>9. first \in Seq(Symbol)
  BY <1>6, <1>7
<1> HIDE DEF first
<1>10. Distinct(first)
  <2> SUFFICES ASSUME NEW i \in 1 .. Len(found), NEW j \in 1 .. Len(found), first[i] = first[j]
               PROVE  i = j
    BY <1>8 DEF Distinct
  <2>1. found[i] = found[j]
    <3>1. ModuleOf[first[i]] = found[i] /\ ModuleOf[first[j]] = found[j]
      BY <1>6, <1>7, <1>8
    <3> QED BY <3>1
  <2> QED BY <1>5, <1>6, <2>1 DEF Distinct
<1>11. Range(first) \in SUBSET S
  BY <1>6, <1>7, <1>8 DEF Range
<1> QED BY <1>1, <1>9, <1>10, <1>11

\* Importers are modules.
LEMMA ImportersType ==
  ASSUME NEW modules
  PROVE  Importers(modules) \in Seq(Range(Modules))
<1>1. Modules \in Seq(Range(Modules))
  BY SelectionAssumption
<1> QED BY <1>1, Parted DEF Importers

\* A promotion of modules moves symbols.
LEMMA PromoteModulesKeeps ==
  ASSUME NEW S, NEW order, IsRanking(order, S), NEW modules \in Seq(Range(Modules))
  PROVE  IsRanking(PromoteModules(order, modules), S)
<1> DEFINE first == FirstOf(order, modules \o Importers(modules))
<1>1. modules \o Importers(modules) \in Seq(Range(Modules))
  BY ImportersType, ConcatProperties
<1>2. first \in Seq(Symbol) /\ Distinct(first) /\ Range(first) \in SUBSET S
  <2> DEFINE both == modules \o Importers(modules)
  <2>1. both \in Seq(Range(Modules))
    BY <1>1
  <2> HIDE DEF both
  <2>2. /\ FirstOf(order, both) \in Seq(Symbol)
        /\ Distinct(FirstOf(order, both))
        /\ Range(FirstOf(order, both)) \in SUBSET S
    BY <2>1, FirstOfProperties, Zenon
  <2> QED BY <2>2 DEF both
<1>3. PromoteModules(order, modules) = first \o Without(order, Range(first))
  BY DEF PromoteModules
<1> HIDE DEF first
<1>4. /\ Without(order, Range(first)) \in Seq(Symbol)
      /\ Range(Without(order, Range(first))) = Range(order) \ Range(first)
      /\ Distinct(Without(order, Range(first)))
  BY Parted DEF IsRanking
<1>5. Range(first) \cap Range(Without(order, Range(first))) = {}
  BY <1>4
<1>6. /\ first \o Without(order, Range(first)) \in Seq(Symbol)
      /\ Distinct(first \o Without(order, Range(first)))
      /\ Range(first \o Without(order, Range(first))) = Range(first) \cup Range(Without(order, Range(first)))
  BY <1>2, <1>4, <1>5, JoinedDistinct
<1> QED BY <1>2, <1>3, <1>4, <1>6 DEF IsRanking

\* The helpers that are found are modules.
LEMMA HelpersType ==
  ASSUME NEW order \in Seq(Symbol), NEW terms
  PROVE  Helpers(order, terms) \in Seq(Range(Modules))
<1> DEFINE A == Seq(Range(Modules))
           window == Smaller(HelperWindow, Len(order))
           further(t, n) == t \o Among(Imports[ModuleOf[order[n]]], terms \ Range(t))
           step == [p \in A \X (1 .. window) |-> further(p[1], p[2])]
           IsFound(f) == f = [n \in 0 .. window |-> IF n = 0 THEN <<>> ELSE further(f[n - 1], n)]
<1>1. window \in Nat /\ window <= Len(order)
  BY SelectionAssumption, LenProperties DEF Smaller
<1>2. Helpers(order, terms) = (CHOOSE f : IsFound(f))[window]
  BY DEF Helpers
<1> HIDE DEF window
<1>3. ASSUME NEW t \in A, NEW n \in 1 .. window PROVE further(t, n) \in A
  <2>1. order[n] \in Symbol
    BY <1>1, ElementOfSeq, LenProperties
  <2>2. Imports[ModuleOf[order[n]]] \in A
    BY <2>1, SelectionAssumption
  <2>3. Among(Imports[ModuleOf[order[n]]], terms \ Range(t)) \in A
    BY <2>2, Parted
  <2> QED BY <2>3, ConcatProperties
<1> HIDE DEF further
<1>4. step \in [A \X (1 .. window) -> A]
  BY <1>3
<1>5. \A t \in A, n \in 1 .. window : step[<<t, n>>] = further(t, n)
  OBVIOUS
<1>6. <<>> \in A
  BY EmptySeq
<1> HIDE DEF step, A
<1>7. PICK f \in [0 .. window -> A] :
        f = [n \in 0 .. window |-> IF n = 0 THEN <<>> ELSE step[<<f[n - 1], n>>]]
  <2>1. \E f : IsRecursive(f, A, window, <<>>, step)
    BY <1>1, <1>4, <1>6, Recursion
  <2> QED BY <2>1 DEF IsRecursive
<1>8. IsFound(f)
  <2>1. ASSUME NEW n \in 0 .. window, n # 0 PROVE step[<<f[n - 1], n>>] = further(f[n - 1], n)
    <3>1. n - 1 \in 0 .. window /\ n \in 1 .. window
      BY <1>1, <2>1
    <3> QED BY <1>5, <3>1
  <2>2. \A n \in 0 .. window : f[n] = IF n = 0 THEN <<>> ELSE further(f[n - 1], n)
    BY <1>7, <2>1
  <2>3. f = [n \in 0 .. window |-> f[n]]
    OBVIOUS
  <2> QED BY <2>2, <2>3
<1> DEFINE g == CHOOSE h : IsFound(h)
<1>9. IsFound(g)
  BY <1>8
<1> HIDE DEF g
<1>10. g[0] = <<>> /\ \A n \in 1 .. window : g[n] = further(g[n - 1], n)
  BY <1>1, <1>9
<1> DEFINE N == {n \in Nat : n <= window => g[n] \in A}
<1>11. 0 \in N
  BY <1>6, <1>10
<1>12. \A n \in N : n + 1 \in N
  <2> SUFFICES ASSUME NEW n \in Nat, g[n] \in A, n + 1 <= window PROVE g[n + 1] \in A
    BY <1>1
  <2>1. n + 1 \in 1 .. window /\ (n + 1) - 1 = n
    BY <1>1
  <2> QED BY <1>3, <1>10, <2>1 DEF A
<1>13. N = Nat
  <2>1. N \in SUBSET Nat
    OBVIOUS
  <2> HIDE DEF N
  <2> QED BY <1>11, <1>12, <2>1, SetInduction
<1>14. g[window] \in A
  BY <1>1, <1>13
<1> QED BY <1>2, <1>14 DEF A, g

\* The passes of build() keep the candidates and add those the query ensures.
LEMMA PromotedKeeps ==
  ASSUME NEW S, NEW order, IsRanking(order, S), NEW words \in Queries
  PROVE  IsRanking(Promoted(order, words), S \cup Range(words.ensured))
<1> DEFINE T       == S \cup Range(words.ensured)
           named   == PromoteNamed(order, words.named)
           capped  == PromoteNamed(Ensured(named, words.ensured), words.ensured)
           located == IF words.files = <<>> THEN capped ELSE PromoteModules(capped, words.files)
           helped  == IF words.files = <<>>
                      THEN PromoteModules(located, Helpers(located, words.helpers)) ELSE located
<1>1. /\ words.named \in Seq(Symbol) /\ Distinct(words.named)
      /\ words.ensured \in Seq(Symbol) /\ Distinct(words.ensured)
      /\ words.again \in Seq(Symbol) /\ Distinct(words.again)
      /\ words.files \in Seq(Range(Modules))
  BY SelectionAssumption
<1>2. IsRanking(named, S)
  BY <1>1, PromoteNamedKeeps
<1> HIDE DEF named
<1>3. IsRanking(capped, T)
  <2>1. IsRanking(Ensured(named, words.ensured), T)
    BY <1>1, <1>2, EnsuredAdds
  <2> HIDE DEF T
  <2> QED BY <1>1, <2>1, PromoteNamedKeeps
<1> HIDE DEF capped, T
<1>4. IsRanking(located, T)
  BY <1>1, <1>3, PromoteModulesKeeps
<1> HIDE DEF located
<1>5. IsRanking(helped, T)
  <2>1. Helpers(located, words.helpers) \in Seq(Range(Modules))
    BY <1>4, HelpersType DEF IsRanking
  <2>2. IsRanking(PromoteModules(located, Helpers(located, words.helpers)), T)
    BY <1>4, <2>1, PromoteModulesKeeps
  <2> QED BY <1>4, <2>2
<1> HIDE DEF helped
<1>6. IsRanking(PromoteNamed(helped, words.again), T)
  BY <1>1, <1>5, PromoteNamedKeeps
<1>7. Promoted(order, words) = PromoteNamed(helped, words.again)
  BY DEF Promoted, named, capped, located, helped
<1> QED BY <1>6, <1>7 DEF T

\* The bonus adds no candidate.
LEMMA SameCandidates ==
  ASSUME NEW profile \in Matching, NEW modules
  PROVE  Candidates(profile, Bonused(profile, modules)) = Candidates(profile, {})
<1> DEFINE dirty == Bonused(profile, modules)
<1>1. ASSUME NEW s \in Symbol
      PROVE  Score(profile, dirty, s) >= MinScore <=> Score(profile, {}, s) >= MinScore
  <2>1. profile[s].score \in Nat /\ MinScore \in Nat /\ Weight \in Nat
    BY ScoreNat, SelectionAssumption
  <2>2. s \in dirty => profile[s].score >= MinScore
    BY DEF Bonused
  <2>3. Score(profile, {}, s) = profile[s].score
    BY <2>1 DEF Score
  <2>4. CASE s \in dirty
    <3>1. Score(profile, dirty, s) = profile[s].score + Weight
      BY <2>4 DEF Score
    <3> QED BY <2>1, <2>2, <2>3, <2>4, <3>1
  <2>5. CASE s \notin dirty
    <3>1. Score(profile, dirty, s) = profile[s].score + 0
      BY <2>5 DEF Score
    <3> QED BY <2>1, <2>3, <3>1
  <2> QED BY <2>4, <2>5
<1> QED BY <1>1 DEF Candidates

\* What the promotions are given, and what they and the guard leave.
LEMMA OrderIsRanking ==
  ASSUME NEW profile \in Matching, NEW words \in Queries, NEW modules
  PROVE  /\ IsRanking(Promoted(Guarded(profile, Bonused(profile, modules),
                        Sorted(profile, Bonused(profile, modules))), words),
                      Candidates(profile, {}) \cup Range(words.ensured))
         /\ IsRanking(Order(profile, words, modules),
                      Candidates(profile, {}) \cup Range(words.ensured))
<1> DEFINE dirty == Bonused(profile, modules)
           C == Candidates(profile, {})
           sorted == Sorted(profile, dirty)
           first == Guarded(profile, dirty, sorted)
           promoted == Promoted(first, words)
<1>1. IsRanking(sorted, C)
  BY SortedProperties, SameCandidates
<1> HIDE DEF sorted, C
<1>2. IsRanking(first, C)
  BY <1>1, GuardedKeeps
<1> HIDE DEF first
<1>3. IsRanking(promoted, C \cup Range(words.ensured))
  BY <1>2, PromotedKeeps
<1> HIDE DEF promoted
<1>4. IsRanking(Guarded(profile, dirty, promoted), C \cup Range(words.ensured))
  BY <1>3, GuardedKeeps
<1>5. Order(profile, words, modules) = Guarded(profile, dirty, promoted)
  BY DEF Order, promoted, first, sorted
<1> QED BY <1>3, <1>4, <1>5 DEF promoted, first, sorted, C

\* After the guard no symbol with the bonus has the last slot while one that
\* matched by its module, and has a slot on a clean tree, waits.
LEMMA GuardedSlots ==
  ASSUME NEW profile \in Matching, NEW modules, NEW S, NEW order, IsRanking(order, S),
         Candidates(profile, {}) \in SUBSET S,
         NEW s \in InSlots(Sorted(profile, {})),
         Len(Guarded(profile, Bonused(profile, modules), order)) >= Slots,
         s \notin InSlots(Guarded(profile, Bonused(profile, modules), order)),
         s \notin Bonused(profile, modules), profile[s].match = "module"
  PROVE  Guarded(profile, Bonused(profile, modules), order)[Slots] \notin Bonused(profile, modules)
<1> DEFINE dirty == Bonused(profile, modules)
           i == Least(Anchors(profile, dirty, order))
           C == Candidates(profile, {})
<1>1. Slots \in Nat /\ 1 <= Slots
  BY SelectionAssumption
<1>2. order \in Seq(Symbol) /\ Len(order) \in Nat /\ DOMAIN order = 1 .. Len(order) /\ Range(order) = S
  BY LenProperties DEF IsRanking
<1>3. CASE \/ dirty = {} \/ Len(order) < Slots \/ order[Slots] \notin dirty
           \/ Anchors(profile, dirty, order) = {}
  <2>1. Guarded(profile, dirty, order) = order
    BY <1>3 DEF Guarded
  <2> SUFFICES ASSUME Anchors(profile, dirty, order) = {} PROVE FALSE
    BY <1>1, <1>2, <1>3, <2>1
  <2>2. PICK p \in 1 .. Slots \cap DOMAIN Sorted(profile, {}) : s = Sorted(profile, {})[p]
    BY DEF InSlots
  <2>3. s \in C /\ Cardinality({t \in C : Outranks(profile, {}, t, s)}) = p - 1
    <3>1. /\ IsRanking(Sorted(profile, {}), C)
          /\ \A k \in DOMAIN Sorted(profile, {}) :
               Cardinality({t \in C : Outranks(profile, {}, t, Sorted(profile, {})[k])}) = k - 1
      BY SortedProperties
    <3>2. p \in DOMAIN Sorted(profile, {})
      BY <2>2
    <3> QED BY <2>2, <3>1, <3>2 DEF IsRanking, Range
  <2>4. PICK k \in 1 .. Len(order) : order[k] = s
    BY <1>2, <2>3 DEF Range
  <2>5. k \in Slots + 1 .. Len(order)
    <3>1. k \notin 1 .. Slots
      BY <1>2, <2>1, <2>4 DEF InSlots
    <3> QED BY <1>1, <1>2, <3>1
  <2>6. HeldSlot(profile, dirty, order, s)
    <3> DEFINE H == {t \in Range(order) \ {s} :
                       /\ t \in dirty => profile[t].score >= MinScore
                       /\ \/ profile[t].score > profile[s].score
                          \/ profile[t].score = profile[s].score /\ t < s}
               B == {t \in C : Outranks(profile, {}, t, s)}
    <3>1. ASSUME NEW t \in H PROVE t \in B
      <4>1. t \in Symbol /\ s \in Symbol
        BY <1>2, <2>3, RangeOfSeq DEF Candidates
      <4>2. profile[t].score \in Nat /\ profile[s].score \in Nat /\ MinScore \in Nat
        BY <4>1, ScoreNat, SelectionAssumption
      <4>3. Score(profile, {}, t) = profile[t].score /\ Score(profile, {}, s) = profile[s].score
        BY <4>2 DEF Score
      <4>4. profile[s].score >= MinScore
        BY <2>3, <4>3 DEF Candidates
      <4>5. \/ profile[t].score > profile[s].score
            \/ profile[t].score = profile[s].score /\ t < s
        BY <3>1
      <4>6. profile[t].score >= MinScore
        BY <4>2, <4>4, <4>5
      <4>7. t \in C
        BY <4>1, <4>3, <4>6 DEF Candidates
      <4>8. Outranks(profile, {}, t, s)
        BY <4>3, <4>5 DEF Outranks
      <4> QED BY <4>7, <4>8
    <3>2. B \in SUBSET Symbol /\ H \in SUBSET B
      BY <3>1 DEF Candidates
    <3>3. HeldSlot(profile, dirty, order, s) <=> Cardinality(H) < Slots
      BY DEF HeldSlot
    <3>4. Cardinality(B) = p - 1
      BY <2>3
    <3> HIDE DEF H, B
    <3>5. IsFiniteSet(B)
      BY <3>2, FS_Subset, SelectionAssumption
    <3>6. Cardinality(H) <= Cardinality(B) /\ Cardinality(H) \in Nat
      BY <3>2, <3>5, FS_Subset, FS_CardinalityType
    <3>7. p \in 1 .. Slots
      BY <2>2
    <3> QED BY <1>1, <3>3, <3>4, <3>6, <3>7
  <2>7. k \in Anchors(profile, dirty, order)
    BY <2>4, <2>5, <2>6 DEF Anchors
  <2> QED BY <2>7
<1>4. CASE ~ (\/ dirty = {} \/ Len(order) < Slots \/ order[Slots] \notin dirty
              \/ Anchors(profile, dirty, order) = {})
  <2>1. Guarded(profile, dirty, order) = InsertAt(RemoveAt(order, i), Slots, order[i])
    BY <1>4 DEF Guarded
  <2>2. i \in Anchors(profile, dirty, order)
    <3>1. Anchors(profile, dirty, order) \in SUBSET Nat
      BY <1>1, <1>2 DEF Anchors
    <3> QED BY <1>4, <3>1, LeastNatural
  <2> HIDE DEF i
  <2>3. i \in Nat /\ Slots < i /\ i <= Len(order) /\ order[i] \notin dirty
    BY <1>1, <1>2, <2>2 DEF Anchors
  <2>4. InsertAt(RemoveAt(order, i), Slots, order[i])[Slots] = order[i]
    <3>1. \A k \in 1 .. Len(order) :
            InsertAt(RemoveAt(order, i), Slots, order[i])[k] = order[From(Slots, i, k)]
      <4>1. order \in Seq(Symbol) /\ i \in Nat /\ Slots \in Nat /\ 1 <= Slots /\ Slots < i /\ i <= Len(order)
        BY <1>1, <1>2, <2>3
      <4> QED BY <4>1, MovedForward
    <3>2. Slots \in 1 .. Len(order) /\ From(Slots, i, Slots) = i
      BY <1>1, <1>2, <2>3 DEF From
    <3> HIDE DEF From
    <3> QED BY <3>1, <3>2
  <2> QED BY <2>1, <2>3, <2>4
<1> QED BY <1>3, <1>4

-----------------------------------------------------------------------------
(* Text and budget *)

\* What a symbol's text measures.
LEMMA LengthNat ==
  ASSUME NEW s \in Symbol
  PROVE  Length[s].names \in Nat /\ Length[s].doc \in Nat /\ Length[s].source \in Nat
BY SelectionAssumption

\* So does a preview, whatever is left of the shared budget.
LEMMA PreviewNat ==
  ASSUME NEW s \in Symbol, NEW share \in Int, NEW chars \in Nat \ {0}
  PROVE  Preview(s, share, chars) \in Nat
<1>1. Length[s].source \in Nat /\ Marker \in Nat
  BY LengthNat, SelectionAssumption
<1>2. ASSUME share > 0 PROVE share * chars \in Nat
  BY <1>2
<1> DEFINE p == share * chars
<1> HIDE DEF p
<1>3. share > 0 => (IF Length[s].source > p THEN p + Marker ELSE Length[s].source) \in Nat
  <2>1. share > 0 => p \in Nat
    BY <1>2 DEF p
  <2> QED BY <1>1, <2>1
<1> QED BY <1>3 DEF Preview, Excerpt, p

\* What is left is a number.
LEMMA LeftType ==
  ASSUME NEW order \in Seq(Symbol), NEW chars \in Nat \ {0}
  PROVE  Left(order, chars) \in [0 .. Len(order) -> Int]
<1> DEFINE m == Len(order)
           further(t, n) == t - Smaller(t, Preview(order[n], t, chars) \div chars)
           step == [p \in Int \X (1 .. m) |-> IF p[2] <= 1 THEN SupportTokens ELSE further(p[1], p[2])]
           IsLeft(f) == f = [n \in 0 .. m |-> IF n <= 1 THEN SupportTokens ELSE further(f[n - 1], n)]
<1>1. m \in Nat /\ SupportTokens \in Int
  BY SelectionAssumption, LenProperties
<1>2. Left(order, chars) = CHOOSE f : IsLeft(f)
  BY DEF Left
<1>3. ASSUME NEW t \in Int, NEW n \in 1 .. m PROVE further(t, n) \in Int
  <2>1. order[n] \in Symbol
    BY ElementOfSeq
  <2>2. Preview(order[n], t, chars) \in Nat
    BY <2>1, PreviewNat
  <2> HIDE DEF m
  <2>3. Preview(order[n], t, chars) \div chars \in Int
    BY <2>2
  <2> QED BY <2>3 DEF Smaller
<1> HIDE DEF m, further
<1>4. step \in [Int \X (1 .. m) -> Int]
  BY <1>1, <1>3
<1>5. \A t \in Int, n \in 1 .. m :
        step[<<t, n>>] = IF n <= 1 THEN SupportTokens ELSE further(t, n)
  OBVIOUS
<1> HIDE DEF step
<1>6. PICK f \in [0 .. m -> Int] :
        f = [n \in 0 .. m |-> IF n = 0 THEN SupportTokens ELSE step[<<f[n - 1], n>>]]
  <2>1. \E f : IsRecursive(f, Int, m, SupportTokens, step)
    BY <1>1, <1>4, Recursion
  <2> QED BY <2>1 DEF IsRecursive
<1>7. IsLeft(f)
  <2>1. ASSUME NEW n \in 0 .. m
        PROVE  f[n] = IF n <= 1 THEN SupportTokens ELSE further(f[n - 1], n)
    <3>1. CASE n = 0
      BY <1>6, <3>1
    <3>2. CASE n # 0
      <4>1. n - 1 \in 0 .. m /\ n \in 1 .. m
        BY <1>1, <3>2
      <4>2. f[n] = step[<<f[n - 1], n>>] /\ f[n - 1] \in Int
        BY <1>6, <3>2, <4>1
      <4> QED BY <1>5, <4>1, <4>2
    <3> QED BY <3>1, <3>2
  <2>2. f = [n \in 0 .. m |-> f[n]]
    OBVIOUS
  <2> QED BY <2>1, <2>2
<1> DEFINE g == CHOOSE h : IsLeft(h)
<1>8. IsLeft(g)
  BY <1>7
<1> HIDE DEF g
<1>9. g[0] = SupportTokens /\ DOMAIN g = 0 .. m
      /\ \A n \in 1 .. m : g[n] = IF n <= 1 THEN SupportTokens ELSE further(g[n - 1], n)
  BY <1>1, <1>8
<1> DEFINE N == {n \in Nat : n <= m => g[n] \in Int}
<1>10. 0 \in N
  BY <1>1, <1>9
<1>11. \A n \in N : n + 1 \in N
  <2> SUFFICES ASSUME NEW n \in Nat, g[n] \in Int, n + 1 <= m PROVE g[n + 1] \in Int
    BY <1>1
  <2>1. n + 1 \in 1 .. m /\ (n + 1) - 1 = n
    BY <1>1
  <2>2. g[n + 1] = IF n + 1 <= 1 THEN SupportTokens ELSE further(g[(n + 1) - 1], n + 1)
    BY <1>9, <2>1
  <2> QED BY <1>1, <1>3, <2>1, <2>2
<1>12. N = Nat
  <2>1. N \in SUBSET Nat
    OBVIOUS
  <2> HIDE DEF N
  <2> QED BY <1>10, <1>11, <2>1, SetInduction
<1>13. \A n \in 0 .. m : g[n] \in Int
  BY <1>1, <1>12
<1>14. g = [n \in 0 .. m |-> g[n]]
  BY <1>8
<1>15. g \in [0 .. m -> Int]
  BY <1>13, <1>14
<1> QED BY <1>2, <1>15 DEF g, m

\* Every candidate gets its text; the primary no preview.
LEMMA EnrichedProperties ==
  ASSUME NEW order \in Seq(Symbol), NEW chars \in Nat \ {0}
  PROVE  /\ Enriched(order, chars) \in Seq(Texts)
         /\ Len(Enriched(order, chars)) = Len(order)
         /\ \A i \in 1 .. Len(order) : Enriched(order, chars)[i].symbol = order[i]
         /\ 1 <= Len(order) => Enriched(order, chars)[1].preview = 0
<1> DEFINE m == Len(order)
           left == Left(order, chars)
           source(s) == Smaller(Length[s].source, PrimaryTokens * chars)
           text == Enriched(order, chars)
<1>1. m \in Nat /\ DOMAIN order = 1 .. m
  BY LenProperties
<1>2. \A i \in 1 .. m : order[i] \in Symbol
  BY ElementOfSeq
<1>3. text = [i \in 1 .. m |-> IF i = 1 THEN Text(order[i], source(order[i]), 0)
                               ELSE Text(order[i], 0, Preview(order[i], left[i - 1], chars))]
  BY <1>1 DEF Enriched
<1>4. left \in [0 .. m -> Int]
  BY LeftType
<1>5. ASSUME NEW s \in Symbol PROVE source(s) \in Nat
  <2>1. Length[s].source \in Nat /\ PrimaryTokens \in Nat
    BY LengthNat, SelectionAssumption
  <2>2. PrimaryTokens * chars \in Nat
    BY <2>1
  <2> QED BY <2>1, <2>2 DEF Smaller
<1> HIDE DEF m, left, source, text
<1>6. ASSUME NEW s \in Symbol, NEW a \in Nat, NEW b \in Nat
      PROVE  Text(s, a, b) \in Texts /\ Text(s, a, b).symbol = s /\ Text(s, a, b).preview = b
  BY LengthNat DEF Text, Texts
<1>7. ASSUME NEW i \in 1 .. m
      PROVE  text[i] \in Texts /\ text[i].symbol = order[i] /\ (i = 1 => text[i].preview = 0)
  <2>1. CASE i = 1
    <3>1. text[i] = Text(order[i], source(order[i]), 0)
      BY <1>3, <2>1
    <3>2. order[i] \in Symbol /\ source(order[i]) \in Nat /\ 0 \in Nat
      BY <1>2, <1>5
    <3> QED BY <1>6, <3>1, <3>2
  <2>2. CASE i # 1
    <3>1. text[i] = Text(order[i], 0, Preview(order[i], left[i - 1], chars))
      BY <1>3, <2>2
    <3>2. i - 1 \in 0 .. m
      BY <1>1
    <3>3. order[i] \in Symbol /\ left[i - 1] \in Int /\ 0 \in Nat
      BY <1>2, <1>4, <3>2
    <3>4. Preview(order[i], left[i - 1], chars) \in Nat
      BY <3>3, PreviewNat
    <3> QED BY <1>6, <2>2, <3>1, <3>3, <3>4
  <2> QED BY <2>1, <2>2
<1>8. text \in Seq(Texts) /\ Len(text) = m
  BY <1>1, <1>3, <1>7
<1>9. 1 <= m => 1 \in 1 .. m
  BY <1>1
<1> QED BY <1>7, <1>8, <1>9 DEF m, text

\* The characters of texts.
LEMMA CharsNat ==
  ASSUME NEW text \in Texts
  PROVE  Chars(text) \in Nat
BY DEF Texts, Chars

LEMMA TotalNat ==
  ASSUME NEW texts \in Seq(Texts)
  PROVE  /\ TotalChars(texts) \in Nat
         /\ Len(texts) = 0 => TotalChars(texts) = 0
         /\ Len(texts) = 1 => TotalChars(texts) = Chars(texts[1])
<1> DEFINE m == Len(texts)
           step == [p \in Nat \X (1 .. m) |-> p[1] + Chars(texts[p[2]])]
           IsTotal(f) == f = [n \in 0 .. m |-> IF n = 0 THEN 0 ELSE f[n - 1] + Chars(texts[n])]
<1>1. m \in Nat
  BY LenProperties
<1>2. TotalChars(texts) = (CHOOSE f : IsTotal(f))[m]
  BY DEF TotalChars
<1>3. ASSUME NEW n \in 1 .. m PROVE Chars(texts[n]) \in Nat
  <2>1. texts[n] \in Texts
    BY ElementOfSeq
  <2> QED BY <2>1, CharsNat
<1>e. m = Len(texts)
  OBVIOUS
<1> HIDE DEF m
<1>4. step \in [Nat \X (1 .. m) -> Nat]
  BY <1>1, <1>3
<1>5. \A t \in Nat, n \in 1 .. m : step[<<t, n>>] = t + Chars(texts[n])
  OBVIOUS
<1> HIDE DEF step
<1>6. PICK f \in [0 .. m -> Nat] :
        f = [n \in 0 .. m |-> IF n = 0 THEN 0 ELSE step[<<f[n - 1], n>>]]
  <2>1. \E f : IsRecursive(f, Nat, m, 0, step)
    BY <1>1, <1>4, Recursion
  <2> QED BY <2>1 DEF IsRecursive
<1>7. IsTotal(f)
  <2>1. ASSUME NEW n \in 0 .. m PROVE f[n] = IF n = 0 THEN 0 ELSE f[n - 1] + Chars(texts[n])
    <3>1. CASE n = 0
      BY <1>6, <3>1
    <3>2. CASE n # 0
      <4>1. n - 1 \in 0 .. m /\ n \in 1 .. m
        BY <1>1, <3>2
      <4>2. f[n] = step[<<f[n - 1], n>>] /\ f[n - 1] \in Nat
        BY <1>6, <3>2, <4>1
      <4> QED BY <1>5, <3>2, <4>1, <4>2
    <3> QED BY <3>1, <3>2
  <2>2. f = [n \in 0 .. m |-> f[n]]
    OBVIOUS
  <2> QED BY <2>1, <2>2
<1> DEFINE g == CHOOSE h : IsTotal(h)
<1>8. IsTotal(g)
  BY <1>7
<1> HIDE DEF g
<1>9. g[0] = 0 /\ \A n \in 1 .. m : g[n] = g[n - 1] + Chars(texts[n])
  BY <1>1, <1>8
<1> DEFINE N == {n \in Nat : n <= m => g[n] \in Nat}
<1>10. 0 \in N
  BY <1>1, <1>9
<1>11. \A n \in N : n + 1 \in N
  <2> SUFFICES ASSUME NEW n \in Nat, g[n] \in Nat, n + 1 <= m PROVE g[n + 1] \in Nat
    BY <1>1
  <2>1. n + 1 \in 1 .. m /\ (n + 1) - 1 = n
    BY <1>1
  <2>2. g[n + 1] = g[(n + 1) - 1] + Chars(texts[n + 1]) /\ Chars(texts[n + 1]) \in Nat
    BY <1>3, <1>9, <2>1
  <2> QED BY <2>1, <2>2
<1>12. N = Nat
  <2>1. N \in SUBSET Nat
    OBVIOUS
  <2> HIDE DEF N
  <2> QED BY <1>10, <1>11, <2>1, SetInduction
<1>13. g[m] \in Nat
  BY <1>1, <1>12
<1>14. m = 1 => g[m] = Chars(texts[1])
  <2> SUFFICES ASSUME m = 1 PROVE g[1] = Chars(texts[1])
    OBVIOUS
  <2>1. 1 \in 1 .. m /\ 1 - 1 = 0 /\ Chars(texts[1]) \in Nat
    BY <1>3
  <2>2. g[1] = g[1 - 1] + Chars(texts[1])
    BY <1>9, <2>1
  <2> QED BY <1>9, <2>1, <2>2
<1> QED BY <1>2, <1>9, <1>13, <1>14, <1>e DEF g

\* The modules of the first texts, up to MaxModules of them.
Shown(texts) ==
  {ModuleOf[texts[i].symbol] : i \in {j \in DOMAIN texts :
     Cardinality({ModuleOf[texts[k].symbol] : k \in 1 .. j - 1}) < MaxModules}}

\* The modules that are rendered with the first candidates depend on these
\* alone.
LEMMA SelectedAreShown ==
  ASSUME NEW order \in Seq(Symbol), NEW texts \in Seq(Texts), Len(texts) <= Len(order),
         \A i \in DOMAIN texts : texts[i].symbol = order[i]
  PROVE  SelectedModules(order) \cap Used(texts) = Shown(texts)
<1> DEFINE before(j) == {ModuleOf[order[k]] : k \in 1 .. j - 1}
<1>1. /\ Len(order) \in Nat /\ DOMAIN order = 1 .. Len(order)
      /\ Len(texts) \in Nat /\ DOMAIN texts = 1 .. Len(texts)
  BY LenProperties
<1>2. ASSUME NEW j \in 1 .. Len(texts)
      PROVE  {ModuleOf[texts[k].symbol] : k \in 1 .. j - 1} = before(j)
  <2>1. \A k \in 1 .. j - 1 : texts[k].symbol = order[k]
    BY <1>1
  <2> QED BY <2>1
<1>3. ASSUME NEW i \in Nat, NEW j \in Nat, i <= j
      PROVE  Cardinality(before(i)) \in Nat /\ Cardinality(before(j)) \in Nat
             /\ Cardinality(before(i)) <= Cardinality(before(j))
  <2> DEFINE f == [k \in 1 .. j - 1 |-> ModuleOf[order[k]]]
  <2>1. 1 \in Int /\ j - 1 \in Int
    OBVIOUS
  <2>2. IsFiniteSet(1 .. j - 1)
    BY <2>1, FS_Interval
  <2>4. f \in [1 .. j - 1 -> before(j)] /\ {f[k] : k \in 1 .. j - 1} = before(j)
    OBVIOUS
  <2> HIDE DEF f
  <2>6. Range(f) = before(j)
    BY <2>4 DEF Range
  <2> HIDE DEF before
  <2>5. IsFiniteSet(before(j))
    BY <2>2, <2>4, <2>6, ImageFinite, Zenon
  <2>3. before(i) \in SUBSET before(j)
    <3>1. 1 .. i - 1 \in SUBSET (1 .. j - 1)
      BY <1>3
    <3> QED BY <3>1 DEF before
  <2> HIDE DEF before
  <2> QED BY <2>5, <2>3, FS_Subset, FS_CardinalityType
<1> HIDE DEF before
<1>4. ASSUME NEW m \in SelectedModules(order), m \in Used(texts) PROVE m \in Shown(texts)
  <2>1. PICK j \in 1 .. Len(order) : m = ModuleOf[order[j]] /\ Cardinality(before(j)) < MaxModules
    BY <1>1 DEF SelectedModules, before
  <2>2. PICK i \in 1 .. Len(texts) : m = ModuleOf[texts[i].symbol]
    BY <1>1, <1>4 DEF Used
  <2>3. \E k \in 1 .. Len(texts) : m = ModuleOf[texts[k].symbol] /\ Cardinality(before(k)) < MaxModules
    <3>1. CASE i <= j
      <4>1. Cardinality(before(i)) < MaxModules
        BY <1>3, <2>1, <3>1, SelectionAssumption
      <4> QED BY <2>2, <4>1
    <3>2. CASE i > j
      <4>1. j \in 1 .. Len(texts)
        BY <1>1, <3>2
      <4> QED BY <1>1, <2>1, <4>1
    <3> QED BY <3>1, <3>2
  <2> QED BY <1>1, <1>2, <2>3 DEF Shown
<1>5. ASSUME NEW m \in Shown(texts) PROVE m \in SelectedModules(order) /\ m \in Used(texts)
  <2>1. PICK k \in 1 .. Len(texts) :
          m = ModuleOf[texts[k].symbol] /\ Cardinality(before(k)) < MaxModules
    BY <1>1, <1>2 DEF Shown
  <2>2. m = ModuleOf[order[k]] /\ k \in 1 .. Len(order)
    BY <1>1, <2>1
  <2> QED BY <1>1, <2>1, <2>2 DEF SelectedModules, Used, before
<1> QED BY <1>4, <1>5

\* They are finitely many.
LEMMA ShownFinite ==
  ASSUME NEW texts \in Seq(Texts)
  PROVE  IsFiniteSet(Shown(texts)) /\ Cardinality(Shown(texts)) \in Nat
<1> DEFINE J == {j \in DOMAIN texts :
                   Cardinality({ModuleOf[texts[k].symbol] : k \in 1 .. j - 1}) < MaxModules}
<1>1. J \in SUBSET (1 .. Len(texts)) /\ IsFiniteSet(1 .. Len(texts))
  <2>1. Len(texts) \in Nat /\ DOMAIN texts = 1 .. Len(texts)
    BY LenProperties
  <2>2. 1 \in Int /\ Len(texts) \in Int
    BY <2>1
  <2> QED BY <2>1, <2>2, FS_Interval
<1>2. Shown(texts) = {ModuleOf[texts[i].symbol] : i \in J}
  BY DEF Shown
<1> HIDE DEF J
<1>3. IsFiniteSet(J)
  BY <1>1, FS_Subset
<1>4. IsFiniteSet({ModuleOf[texts[i].symbol] : i \in J})
  <2> DEFINE T == {ModuleOf[texts[i].symbol] : i \in J}
             f == [i \in J |-> ModuleOf[texts[i].symbol]]
  <2>1. f \in [J -> T]
    OBVIOUS
  <2>2. Range(f) = T
    BY DEF Range
  <2> HIDE DEF f, T
  <2>3. IsFiniteSet(Range(f))
    BY <1>3, <2>1, ImageFinite, Zenon
  <2> QED BY <2>2, <2>3 DEF T
<1> QED BY <1>2, <1>4, FS_CardinalityType

\* The estimate of texts with these modules.
LEMMA EstimateNat ==
  ASSUME NEW texts \in Seq(Texts), NEW chars \in Nat \ {0}
  PROVE  Estimate(texts, Shown(texts), chars) \in Nat
<1>1. TotalChars(texts) \in Nat /\ Cardinality(Shown(texts)) \in Nat
  BY TotalNat, ShownFinite
<1>2. TotalChars(texts) + Cardinality(Shown(texts)) \in Nat
  BY <1>1
<1> QED BY <1>2 DEF Estimate

\* A quotient is at most the bound of what is divided.
LEMMA QuotientBound ==
  ASSUME NEW a \in Nat, NEW c \in Nat \ {0}, NEW b \in Nat, a <= b * c
  PROVE  a \div c <= b
<1> DEFINE q == a \div c
<1>1. q \in Nat /\ c * q <= a
  OBVIOUS
<1> HIDE DEF q
<1>2. ASSUME q > b PROVE FALSE
  <2>1. c * q >= c * (b + 1)
    BY <1>1, <1>2
  <2> QED BY <1>1, <2>1
<1>3. q <= b
  BY <1>1, <1>2
<1> QED BY <1>3 DEF q

\* A text that is cut fits, or is its names; it stays a text of its symbol.
LEMMA TrimmedFits ==
  ASSUME NEW text \in Texts, text.preview = 0, NEW modules, Cardinality(modules) \in Nat,
         NEW budget \in Budgets
  PROVE  /\ Trimmed(text, modules, budget) \in Texts
         /\ Trimmed(text, modules, budget).symbol = text.symbol
         /\ \/ Chars(Trimmed(text, modules, budget)) = Trimmed(text, modules, budget).names
            \/ Chars(Trimmed(text, modules, budget)) + Cardinality(modules)
                 <= budget.tokens * budget.chars
<1> DEFINE total == budget.tokens * budget.chars
           room == total - Slack - text.names - Cardinality(modules)
           free == IF room > 0 THEN room ELSE 0
           rest == IF free > text.source + text.preview
                   THEN free - text.source - text.preview ELSE 0
           cut == Trimmed(text, modules, budget)
<1>1. budget.tokens \in Nat /\ budget.chars \in Nat /\ Slack \in Nat
  BY SelectionAssumption
<1>2. total \in Nat
  BY <1>1
<1>3. text.symbol \in Symbol /\ text.names \in Nat /\ text.doc \in Nat /\ text.source \in Nat
  BY DEF Texts
<1>4. cut = IF text.source > free THEN [text EXCEPT !.source = free, !.preview = 0, !.doc = 0]
            ELSE [text EXCEPT !.doc = Smaller(@, rest)]
  BY DEF Trimmed
<1> HIDE DEF total, cut
<1>5. room \in Int /\ free \in Nat /\ (free > 0 => free = room)
  BY <1>1, <1>2, <1>3
<1> HIDE DEF free
<1>6. CASE text.source > free
  <2>1. cut = [text EXCEPT !.source = free, !.preview = 0, !.doc = 0]
    BY <1>4, <1>6
  <2>2. /\ cut \in Texts /\ cut.symbol = text.symbol /\ cut.names = text.names
        /\ cut.source = free /\ cut.preview = 0 /\ cut.doc = 0
    BY <1>5, <2>1 DEF Texts
  <2>3. Chars(cut) = text.names + free
    BY <1>3, <1>5, <2>2 DEF Chars
  <2>4. CASE free = 0
    BY <1>3, <2>2, <2>3, <2>4 DEF cut
  <2>5. CASE free > 0
    <3>1. Chars(cut) + Cardinality(modules) <= total
      BY <1>1, <1>2, <1>3, <1>5, <2>3, <2>5
    <3> QED BY <2>2, <3>1 DEF cut, total
  <2> QED BY <1>5, <2>4, <2>5
<1>7. CASE ~(text.source > free)
  <2>1. rest \in Nat /\ rest = free - text.source
    BY <1>3, <1>5, <1>7
  <2> HIDE DEF rest
  <2>2. cut = [text EXCEPT !.doc = Smaller(@, rest)]
    BY <1>4, <1>7
  <2>3. Smaller(text.doc, rest) \in Nat /\ Smaller(text.doc, rest) <= rest
    BY <1>3, <2>1 DEF Smaller
  <2>4. /\ cut \in Texts /\ cut.symbol = text.symbol /\ cut.names = text.names
        /\ cut.source = text.source /\ cut.preview = 0 /\ cut.doc = Smaller(text.doc, rest)
    BY <2>2, <2>3 DEF Texts
  <2>5. Chars(cut) = text.names + text.source + Smaller(text.doc, rest)
    BY <1>3, <2>3, <2>4 DEF Chars
  <2>6. CASE free = 0
    <3>1. text.source = 0 /\ Smaller(text.doc, rest) = 0
      BY <1>3, <1>7, <2>1, <2>3, <2>6
    <3>2. Chars(cut) = cut.names
      BY <1>3, <2>4, <2>5, <3>1
    <3> QED BY <2>4, <3>2 DEF cut
  <2>7. CASE free > 0
    <3>1. Chars(cut) + Cardinality(modules) <= total
      BY <1>1, <1>2, <1>3, <1>5, <2>1, <2>3, <2>5, <2>7
    <3> QED BY <2>4, <3>1 DEF cut, total
  <2> QED BY <1>5, <2>6, <2>7
<1> QED BY <1>6, <1>7

\* The first n of a sequence.
LEMMA PrefixProperties ==
  ASSUME NEW A, NEW s \in Seq(A), NEW n \in Nat, n <= Len(s)
  PROVE  /\ SubSeq(s, 1, n) \in Seq(A) /\ Len(SubSeq(s, 1, n)) = n
         /\ \A i \in 1 .. n : SubSeq(s, 1, n)[i] = s[i]
<1>1. PICK m \in Nat : Len(s) = m
  BY LenProperties
<1>2. n <= m
  BY <1>1
<1> QED BY <1>1, <1>2

\* Texts of the same symbols show the same modules.
LEMMA ShownBySymbols ==
  ASSUME NEW s \in Seq(Texts), NEW t \in Seq(Texts), Len(s) = Len(t),
         \A i \in 1 .. Len(s) : s[i].symbol = t[i].symbol
  PROVE  Shown(s) = Shown(t)
<1> DEFINE before(x, j) == {ModuleOf[x[k].symbol] : k \in 1 .. j - 1}
<1>1. DOMAIN s = 1 .. Len(s) /\ DOMAIN t = 1 .. Len(s) /\ Len(s) \in Nat
  BY LenProperties
<1>2. ASSUME NEW j \in 1 .. Len(s) PROVE before(s, j) = before(t, j)
  <2>1. \A k \in 1 .. j - 1 : s[k].symbol = t[k].symbol
    BY <1>1
  <2> QED BY <2>1
<1>3. /\ Shown(s) = {ModuleOf[s[i].symbol] : i \in {j \in 1 .. Len(s) : Cardinality(before(s, j)) < MaxModules}}
      /\ Shown(t) = {ModuleOf[t[i].symbol] : i \in {j \in 1 .. Len(s) : Cardinality(before(t, j)) < MaxModules}}
  BY <1>1 DEF Shown
<1> HIDE DEF before
<1>4. {j \in 1 .. Len(s) : Cardinality(before(s, j)) < MaxModules}
        = {j \in 1 .. Len(s) : Cardinality(before(t, j)) < MaxModules}
  BY <1>2
<1> QED BY <1>3, <1>4

\* What a rendering of a ranking is, and what the estimate says of it.
IsRendering(texts, order, budget) ==
  /\ texts \in Seq(Texts) /\ Len(texts) <= Len(order)
  /\ \A i \in DOMAIN texts : texts[i].symbol = order[i]
  /\ Len(order) # 0 => Len(texts) # 0
  /\ \/ Estimate(texts, Shown(texts), budget.chars) <= budget.tokens
     \/ Len(texts) = 1 /\ Chars(texts[1]) = texts[1].names

\* The tail is dropped until the rest fits; of one symbol the text is cut.
LEMMA RenderedProperties ==
  ASSUME NEW order \in Seq(Symbol), NEW budget \in Budgets
  PROVE  IsRendering(Rendered(order, budget), order, budget)
<1> DEFINE size == Smaller(MaxSymbols, Len(order))
           cut == SubSeq(order, 1, size)
           all == Enriched(cut, budget.chars)
           kept(n) == SubSeq(all, 1, n)
           modules(n) == SelectedModules(cut) \cap Used(kept(n))
           fits(n) == Estimate(kept(n), modules(n), budget.chars) <= budget.tokens
           fitting == {n \in 1 .. Len(all) : fits(n)}
           texts == Rendered(order, budget)
<1>1. budget.tokens \in Nat /\ budget.chars \in Nat \ {0} /\ MaxSymbols \in Nat \ {0}
  BY SelectionAssumption
<1>2. Len(order) \in Nat /\ DOMAIN order = 1 .. Len(order)
  BY LenProperties
<1>3. size \in Nat /\ size <= Len(order) /\ (Len(order) # 0 => size # 0)
  BY <1>1, <1>2 DEF Smaller
<1>4. texts = IF all = <<>> THEN <<>>
              ELSE IF fitting # {} THEN kept(CHOOSE n \in fitting : \A k \in fitting : k <= n)
              ELSE <<Trimmed(all[1], modules(1), budget)>>
  BY DEF Rendered, Enforced
<1> HIDE DEF texts, fitting, size
<1>5. cut \in Seq(Symbol) /\ Len(cut) = size /\ \A i \in 1 .. size : cut[i] = order[i]
  BY <1>3, PrefixProperties
<1> HIDE DEF cut
<1>6. /\ all \in Seq(Texts) /\ Len(all) = size
      /\ \A i \in 1 .. size : all[i].symbol = cut[i]
      /\ 1 <= size => all[1].preview = 0
  BY <1>1, <1>5, EnrichedProperties
<1> HIDE DEF all
<1>7. ASSUME NEW n \in 1 .. size
      PROVE  /\ kept(n) \in Seq(Texts) /\ Len(kept(n)) = n /\ DOMAIN kept(n) = 1 .. n
             /\ \A i \in 1 .. n : kept(n)[i] = all[i]
             /\ \A i \in 1 .. n : kept(n)[i].symbol = cut[i]
             /\ \A i \in 1 .. n : kept(n)[i].symbol = order[i]
  <2>1. n \in Nat /\ n <= Len(all)
    BY <1>3, <1>6
  <2>2. kept(n) \in Seq(Texts) /\ Len(kept(n)) = n /\ \A i \in 1 .. n : kept(n)[i] = all[i]
    BY <1>6, <2>1, PrefixProperties
  <2> HIDE DEF kept
  <2>3. \A i \in 1 .. n : i \in 1 .. size
    BY <1>3
  <2>4. DOMAIN kept(n) = 1 .. n
    BY <2>2, LenProperties
  <2> QED BY <1>5, <1>6, <2>2, <2>3, <2>4
<1> HIDE DEF kept
<1>8. ASSUME NEW n \in 1 .. size PROVE modules(n) = Shown(kept(n))
  <2>1. kept(n) \in Seq(Texts) /\ Len(kept(n)) <= Len(cut)
        /\ \A i \in DOMAIN kept(n) : kept(n)[i].symbol = cut[i]
    BY <1>3, <1>5, <1>7
  <2> QED BY <1>5, <2>1, SelectedAreShown
<1>9. CASE size = 0
  <2>1. all = <<>>
    BY <1>6, <1>9
  <2>2. texts = <<>> /\ Len(order) = 0
    BY <1>3, <1>4, <1>9, <2>1
  <2>3. <<>> \in Seq(Texts) /\ Len(<<>>) = 0 /\ DOMAIN <<>> = {}
    OBVIOUS
  <2>4. Estimate(<<>>, Shown(<<>>), budget.chars) <= budget.tokens
    <3>1. TotalChars(<<>>) = 0
      BY <2>3, TotalNat
    <3>2. Shown(<<>>) = {}
      BY DEF Shown
    <3>3. Cardinality({}) = 0
      BY FS_EmptySet
    <3>4. (0 + 0) \div budget.chars = 0
      BY <1>1
    <3>5. Estimate(<<>>, Shown(<<>>), budget.chars) = (0 + 0) \div budget.chars
      BY <3>1, <3>2, <3>3, Zenon DEF Estimate
    <3> QED BY <1>1, <3>4, <3>5
  <2> QED BY <1>2, <2>2, <2>3, <2>4 DEF IsRendering, texts
<1>10. CASE size # 0 /\ fitting # {}
  <2> DEFINE n == CHOOSE n \in fitting : \A k \in fitting : k <= n
  <2>1. fitting \in SUBSET (0 .. size)
    BY <1>3, <1>6 DEF fitting
  <2>2. \E m \in fitting : \A k \in fitting : k <= m
    BY <1>3, <1>10, <2>1, GreatestNatural
  <2>3. n \in fitting
    BY <2>2
  <2>4. texts = kept(n)
    <3>1. all # <<>>
      BY <1>6, <1>10
    <3> QED BY <1>4, <1>10, <3>1
  <2> HIDE DEF n
  <2>5. n \in 1 .. size /\ fits(n)
    BY <1>6, <2>3 DEF fitting
  <2>6. Estimate(kept(n), Shown(kept(n)), budget.chars) <= budget.tokens
    BY <1>8, <2>5
  <2>7. n <= Len(order) /\ n # 0
    BY <1>2, <1>3, <2>5
  <2> QED BY <1>7, <2>4, <2>5, <2>6, <2>7 DEF IsRendering, texts
<1>11. CASE size # 0 /\ fitting = {}
  <2> DEFINE text == Trimmed(all[1], modules(1), budget)
             c == Cardinality(modules(1))
  <2>1. 1 \in 1 .. size /\ 1 <= size
    BY <1>3, <1>11
  <2>2. texts = <<text>>
    <3>1. all # <<>>
      BY <1>6, <1>11
    <3> QED BY <1>4, <1>11, <3>1
  <2>3. all[1] \in Texts /\ all[1].preview = 0 /\ all[1].symbol = order[1]
    <3>1. all[1] \in Texts
      BY <1>6, <2>1, ElementOfSeq
    <3> QED BY <1>5, <1>6, <2>1, <3>1
  <2>4. c \in Nat
    BY <1>7, <1>8, <2>1, ShownFinite
  <2>5. /\ text \in Texts /\ text.symbol = order[1]
        /\ Chars(text) = text.names \/ Chars(text) + c <= budget.tokens * budget.chars
    BY <2>3, <2>4, TrimmedFits
  <2> HIDE DEF text
  <2>6. <<text>> \in Seq(Texts) /\ Len(<<text>>) = 1 /\ <<text>>[1] = text /\ DOMAIN <<text>> = {1}
    BY <2>5
  <2>7. Shown(<<text>>) = modules(1)
    <3>1. Len(kept(1)) = 1 /\ kept(1)[1].symbol = order[1] /\ kept(1) \in Seq(Texts)
      <4>1. 1 \in 1 .. 1
        OBVIOUS
      <4> QED BY <1>7, <2>1, <4>1, Zenon
    <3>2. \A i \in 1 .. Len(<<text>>) : <<text>>[i].symbol = kept(1)[i].symbol
      BY <2>5, <2>6, <3>1
    <3>3. Shown(<<text>>) = Shown(kept(1))
      BY <2>6, <3>1, <3>2, ShownBySymbols
    <3> QED BY <1>8, <2>1, <3>3
  <2>8. \/ Estimate(<<text>>, Shown(<<text>>), budget.chars) <= budget.tokens
        \/ Chars(text) = text.names
    <3> SUFFICES ASSUME Chars(text) + c <= budget.tokens * budget.chars
                 PROVE  Estimate(<<text>>, Shown(<<text>>), budget.chars) <= budget.tokens
      BY <2>5
    <3>1. TotalChars(<<text>>) = Chars(text) /\ Chars(text) \in Nat
      BY <2>5, <2>6, TotalNat, CharsNat
    <3>2. (Chars(text) + c) \div budget.chars <= budget.tokens
      <4>1. Chars(text) + c \in Nat
        BY <2>4, <3>1
      <4> HIDE DEF c
      <4> QED BY <1>1, <4>1, QuotientBound
    <3> QED BY <2>7, <3>1, <3>2 DEF Estimate
  <2>9. 1 <= Len(order)
    BY <1>2, <1>3, <2>1
  <2> QED BY <2>2, <2>5, <2>6, <2>8, <2>9 DEF IsRendering, texts
<1> QED BY <1>9, <1>10, <1>11

\* So the estimate that the package carries is the one the budget was checked
\* with.
LEMMA TokensProperties ==
  ASSUME NEW order \in Seq(Symbol), NEW texts, NEW budget \in Budgets,
         IsRendering(texts, order, budget)
  PROVE  /\ Tokens(order, texts, budget) = Estimate(texts, Shown(texts), budget.chars)
         /\ Tokens(order, texts, budget) \in Nat
<1>1. budget.chars \in Nat \ {0}
  BY SelectionAssumption
<1>2. SelectedModules(order) \cap Used(texts) = Shown(texts)
  BY SelectedAreShown DEF IsRendering
<1>3. Estimate(texts, Shown(texts), budget.chars) \in Nat
  BY <1>1, EstimateNat DEF IsRendering
<1> QED BY <1>2, <1>3 DEF Tokens

\* Leaving out nothing leaves the sequence.
LEMMA KeptAll ==
  ASSUME NEW A, NEW s \in Seq(A)
  PROVE  Kept(s, DOMAIN s) = s
<1>1. PICK n \in Nat : Len(s) = n
  BY LenProperties
<1>2. DOMAIN s = 1 .. n /\ s = [k \in 1 .. n |-> s[k]]
  BY <1>1, LenProperties
<1>3. Cardinality(1 .. n) = n
  BY FS_Interval
<1>4. ASSUME NEW i \in 1 .. n PROVE Cardinality({j \in 1 .. n : j < i}) = i - 1
  <2>1. {j \in 1 .. n : j < i} = 1 .. i - 1
    OBVIOUS
  <2>2. 1 \in Int /\ i - 1 \in Int
    OBVIOUS
  <2>3. Cardinality(1 .. i - 1) = IF 1 > i - 1 THEN 0 ELSE (i - 1) - 1 + 1
    BY <2>2, FS_Interval
  <2>4. (IF 1 > i - 1 THEN 0 ELSE (i - 1) - 1 + 1) = i - 1
    OBVIOUS
  <2> QED BY <2>1, <2>3, <2>4, Zenon
<1>5. ASSUME NEW k \in 1 .. n PROVE Place(1 .. n, k) = k
  <2> DEFINE place(i) == Cardinality({j \in 1 .. n : j < i})
  <2>1. \A i \in 1 .. n : place(i) = i - 1
    BY <1>4
  <2>2. Place(1 .. n, k) = CHOOSE i \in 1 .. n : place(i) = k - 1
    BY DEF Place
  <2> HIDE DEF place
  <2>3. \A i \in 1 .. n : place(i) = k - 1 <=> i = k
    BY <2>1
  <2> QED BY <2>2, <2>3
<1>6. Kept(s, 1 .. n) = [k \in 1 .. n |-> s[Place(1 .. n, k)]]
  BY <1>3 DEF Kept, Place
<1> QED BY <1>2, <1>5, <1>6

DifferentSymbols(texts) ==
  \A i, j \in DOMAIN texts : texts[i].symbol = texts[j].symbol => i = j

\* What was sent before is left out, never the primary; nothing else changes.
LEMMA UnsentProperties ==
  ASSUME NEW texts \in Seq(Texts), NEW known
  PROVE  /\ Unsent(texts, known) \in Seq(Texts)
         /\ Unsent(texts, known) = <<>> <=> texts = <<>>
         /\ DifferentSymbols(texts) =>
              Cardinality(Symbols(Unsent(texts, known))) = Len(Unsent(texts, known))
         /\ Unsent(texts, {}) = texts
<1> DEFINE P == {i \in DOMAIN texts : i = 1 \/ texts[i].symbol \notin known}
           c == Cardinality(P)
           w == Kept(texts, P)
<1>1. P \in SUBSET DOMAIN texts /\ DOMAIN texts = 1 .. Len(texts) /\ Len(texts) \in Nat
  BY LenProperties
<1>2. Unsent(texts, known) = w
  BY DEF Unsent
<1>3. 1 \in DOMAIN texts => 1 \in P
  OBVIOUS
<1>0. P \in SUBSET DOMAIN texts
  OBVIOUS
<1> HIDE DEF P
<1>4. c \in Nat /\ w \in Seq(Texts) /\ Len(w) = c
  BY <1>0, KeptPlaces, Zenon
<1>5. PICK at0 \in [1 .. c -> P] :
        /\ \A k \in 1 .. c : w[k] = texts[at0[k]]
        /\ \A k, m \in 1 .. c : at0[k] = at0[m] => k = m
        /\ \A i \in P : \E k \in 1 .. c : at0[k] = i
  BY <1>0, KeptPlaces
<1> HIDE DEF w, c
<1>6. w = <<>> <=> texts = <<>>
  <2>1. CASE texts = <<>>
    <3>1. P = {}
      BY <1>1, <2>1
    <3>2. ~(1 \in 1 .. c)
      BY <1>5, <3>1
    <3> QED BY <1>4, <2>1, <3>2
  <2>2. CASE texts # <<>>
    <3>1. 1 \in DOMAIN texts
      BY <1>1, <2>2, EmptySeq
    <3>2. \E k \in 1 .. c : at0[k] = 1
      BY <1>3, <1>5, <3>1
    <3> QED BY <1>4, <2>2, <3>2
  <2> QED BY <2>1, <2>2
<1>7. ASSUME DifferentSymbols(texts) PROVE Cardinality(Symbols(w)) = Len(w)
  <2> DEFINE f == [k \in 1 .. c |-> w[k].symbol]
             T == {w[k].symbol : k \in 1 .. c}
  <2>1. f \in [1 .. c -> T] /\ \A k \in 1 .. c : f[k] = w[k].symbol
    OBVIOUS
  <2>2. Range(f) = T
    BY DEF Range
  <2> HIDE DEF f
  <2>3. ASSUME NEW k \in 1 .. c, NEW m \in 1 .. c, f[k] = f[m] PROVE k = m
    <3>1. texts[at0[k]].symbol = texts[at0[m]].symbol
      <4>1. f[k] = w[k].symbol /\ f[m] = w[m].symbol /\ w[k] = texts[at0[k]] /\ w[m] = texts[at0[m]]
        BY <1>5, <2>1, Zenon
      <4> QED BY <2>3, <4>1, Zenon
    <3>2. at0[k] \in DOMAIN texts /\ at0[m] \in DOMAIN texts
      BY <1>1, <1>5
    <3>3. at0[k] = at0[m]
      BY <1>7, <3>1, <3>2 DEF DifferentSymbols
    <3> QED BY <1>5, <3>3
  <2>4. Symbols(w) = T
    <3>1. DOMAIN w = 1 .. c
      BY <1>4, LenProperties
    <3> QED BY <3>1 DEF Symbols
  <2> HIDE DEF T
  <2>5. IsFiniteSet(1 .. c) /\ Cardinality(1 .. c) = c
    <3>1. 1 \in Int /\ c \in Int
      BY <1>4
    <3> QED BY <1>4, <3>1, FS_Interval
  <2>6. Cardinality(Range(f)) = Cardinality(1 .. c)
    BY <2>1, <2>3, <2>5, ImageFinite
  <2> QED BY <1>4, <2>2, <2>4, <2>5, <2>6
<1>8. Unsent(texts, {}) = texts
  <2>1. {i \in DOMAIN texts : i = 1 \/ texts[i].symbol \notin {}} = DOMAIN texts
    OBVIOUS
  <2>2. Unsent(texts, {}) = Kept(texts, DOMAIN texts)
    BY <2>1, Zenon DEF Unsent
  <2> QED BY <2>2, KeptAll
<1> QED BY <1>2, <1>4, <1>6, <1>7, <1>8

-----------------------------------------------------------------------------
(* The request *)

\* What the record says of a request that was sent.
Recorded(built) ==
  IF rendered = <<>>
  THEN [NoRecord EXCEPT !.signal = changed.signal,
          !.status = IF changed.modules = {} THEN "none" ELSE "skipped_no_bonus"]
  ELSE Promotion(package, Baseline(asked.known), asked.compare, built)

\* What has been asked and read up to each step, and what follows from it.
AskedPart ==
  asked = [profile |-> asked.profile, words |-> asked.words, budget |-> asked.budget,
           known |-> asked.known, compare |-> asked.compare]

SignalPart ==
  /\ changed.signal # "ok" => changed.modules = {}
  /\ at = "idle" => changed.signal = "unread"
  /\ at \in {"ranked", "rendered", "sent"} => changed.signal # "unread"

RankedPart ==
  at \in {"ranked", "rendered", "sent"} =>
    /\ asked.profile \in Profiles /\ asked.words \in Queries
    /\ ranked = Order(asked.profile, asked.words, changed.modules)
    /\ bonuses = Cardinality(Bonused(asked.profile, changed.modules))

RenderedPart ==
  at \in {"rendered", "sent"} =>
    /\ asked.budget \in Budgets
    /\ rendered = Rendered(ranked, asked.budget)
    /\ tokens = Tokens(ranked, rendered, asked.budget)

SentPart ==
  at = "sent" =>
    /\ package = Unsent(rendered, asked.known)
    /\ asked.compare \in BOOLEAN
    /\ \E built \in {FALSE, bonuses > 0 /\ asked.compare} : record = Recorded(built)

DegradedPart ==
  at = "degraded" =>
    /\ package = <<>>
    /\ record = [NoRecord EXCEPT !.signal = IF changed.signal = "unread" THEN "unavailable"
                                            ELSE changed.signal]

SelectionInv ==
  TypeOK /\ AskedPart /\ SignalPart /\ RankedPart /\ RenderedPart /\ SentPart /\ DegradedPart

\* What follows of a ranking by Order.
LEMMA RankedFacts ==
  ASSUME NEW profile \in Profiles, NEW words \in Queries, NEW modules
  PROVE  /\ profile \in Matching
         /\ Order(profile, words, modules) \in Seq(Symbol)
         /\ Distinct(Order(profile, words, modules))
         /\ Range(Order(profile, words, modules)) = Range(Order(profile, words, {}))
         /\ Bonused(profile, modules) \in SUBSET Symbol
         /\ IsFiniteSet(Bonused(profile, modules))
         /\ Cardinality(Bonused(profile, modules)) \in 0 .. Cardinality(Symbol)
<1>1. profile \in Matching
  BY SelectionAssumption DEF Matching
<1>2. /\ IsRanking(Order(profile, words, modules), Candidates(profile, {}) \cup Range(words.ensured))
      /\ IsRanking(Order(profile, words, {}), Candidates(profile, {}) \cup Range(words.ensured))
  BY <1>1, OrderIsRanking
<1>3. Bonused(profile, modules) \in SUBSET Symbol
  BY DEF Bonused
<1>4. /\ IsFiniteSet(Bonused(profile, modules)) /\ IsFiniteSet(Symbol)
      /\ Cardinality(Bonused(profile, modules)) <= Cardinality(Symbol)
  BY <1>3, FS_Subset, SelectionAssumption
<1>5. Cardinality(Bonused(profile, modules)) \in Nat /\ Cardinality(Symbol) \in Nat
  BY <1>4, FS_CardinalityType
<1> QED BY <1>1, <1>2, <1>3, <1>4, <1>5 DEF IsRanking

\* A rendering of different symbols has different symbols.
LEMMA RenderingDiffers ==
  ASSUME NEW order \in Seq(Symbol), Distinct(order), NEW texts, NEW budget,
         IsRendering(texts, order, budget)
  PROVE  DifferentSymbols(texts)
<1>1. /\ DOMAIN texts = 1 .. Len(texts) /\ DOMAIN order = 1 .. Len(order)
      /\ Len(texts) \in Nat /\ Len(order) \in Nat /\ Len(texts) <= Len(order)
  BY LenProperties DEF IsRendering
<1>2. \A i \in DOMAIN texts : i \in DOMAIN order /\ texts[i].symbol = order[i]
  BY <1>1 DEF IsRendering
<1> QED BY <1>2 DEF DifferentSymbols, Distinct

\* At the start nothing has been asked.
LEMMA InitSelection == Init => SelectionInv
<1> SUFFICES ASSUME Init PROVE SelectionInv
  OBVIOUS
<1>1. TypeOK
  <2>1. <<>> \in Seq(Symbol) /\ <<>> \in Seq(Texts) /\ Len(<<>>) = 0 /\ DOMAIN <<>> = {}
    OBVIOUS
  <2>2. Range(<<>>) = {} /\ Symbols(<<>>) = {} /\ Cardinality({}) = 0
    BY <2>1, FS_EmptySet DEF Range, Symbols
  <2>3. 0 \in 0 .. Cardinality(Symbol)
    BY FS_CardinalityType, SelectionAssumption
  <2>4. record.status = "none"
    BY DEF Init, NoRecord
  <2> QED BY <2>1, <2>2, <2>3, <2>4 DEF Init, TypeOK
<1>2. AskedPart
  BY DEF Init, AskedPart, NotAsked
<1> QED BY <1>1, <1>2 DEF Init, SelectionInv, SignalPart, RankedPart, RenderedPart, SentPart, DegradedPart

\* Ranking.
LEMMA RankKeeps ==
  ASSUME SelectionInv, NEW profile \in Profiles, NEW words \in Queries, Rank(profile, words)
  PROVE  SelectionInv'
<1>1. PICK signal \in {"off", "ok", "unavailable"}, modules \in SUBSET Range(Modules) :
        ReadChangedSignal(signal, modules)
  BY DEF Rank
<1>2. changed'.signal = signal /\ changed'.modules = IF signal = "ok" THEN modules ELSE {}
  BY <1>1 DEF ReadChangedSignal
<1>3. asked' = [profile |-> profile, words |-> words, budget |-> asked.budget,
                known |-> asked.known, compare |-> asked.compare]
  BY DEF Rank, SelectionInv, AskedPart
<1>4. /\ at' = "ranked" /\ ranked' = Order(profile, words, changed'.modules)
      /\ bonuses' = Cardinality(Bonused(profile, changed'.modules))
      /\ rendered' = rendered /\ tokens' = tokens /\ package' = package /\ record' = record
  BY DEF Rank
<1>5. TypeOK'
  <2>1. ranked' \in Seq(Symbol) /\ Cardinality(Range(ranked')) = Len(ranked')
    BY <1>4, RankedFacts, DistinctSize
  <2>2. bonuses' \in 0 .. Cardinality(Symbol)
    BY <1>4, RankedFacts
  <2> QED BY <1>4, <2>1, <2>2 DEF SelectionInv, TypeOK, Symbols
<1>6. AskedPart' /\ SignalPart'
  BY <1>2, <1>3, <1>4 DEF AskedPart, SignalPart
<1>7. RankedPart'
  BY <1>3, <1>4 DEF RankedPart
<1> QED BY <1>4, <1>5, <1>6, <1>7 DEF SelectionInv, RenderedPart, SentPart, DegradedPart

\* Rendering.
LEMMA RenderKeeps ==
  ASSUME SelectionInv, NEW budget \in Budgets, Render(budget)
  PROVE  SelectionInv'
<1>1. asked' = [profile |-> asked.profile, words |-> asked.words, budget |-> budget,
                known |-> asked.known, compare |-> asked.compare]
  BY DEF Render, SelectionInv, AskedPart
<1>2. /\ at = "ranked" /\ at' = "rendered" /\ rendered' = Rendered(ranked, budget)
      /\ tokens' = Tokens(ranked, rendered', budget)
      /\ changed' = changed /\ ranked' = ranked /\ bonuses' = bonuses
      /\ package' = package /\ record' = record
  BY DEF Render
<1>3. TypeOK'
  <2>1. IsRendering(rendered', ranked, budget)
    BY <1>2, RenderedProperties DEF SelectionInv, TypeOK
  <2>2. tokens' \in Nat
    BY <1>2, <2>1, TokensProperties DEF SelectionInv, TypeOK
  <2> QED BY <1>2, <2>1, <2>2 DEF SelectionInv, TypeOK, Symbols, IsRendering
<1>4. AskedPart' /\ SignalPart'
  BY <1>1, <1>2 DEF AskedPart, SignalPart, SelectionInv
<1>5. RankedPart'
  BY <1>1, <1>2 DEF SelectionInv, RankedPart
<1>6. RenderedPart'
  BY <1>1, <1>2 DEF RenderedPart
<1> QED BY <1>2, <1>3, <1>4, <1>5, <1>6 DEF SelectionInv, SentPart, DegradedPart

\* Sending.
LEMMA SendKeeps ==
  ASSUME SelectionInv, NEW known \in Memories, NEW compare \in BOOLEAN, Send(known, compare)
  PROVE  SelectionInv'
<1>1. asked' = [profile |-> asked.profile, words |-> asked.words, budget |-> asked.budget,
                known |-> known, compare |-> compare]
  BY DEF Send, SelectionInv, AskedPart
<1>2. /\ at = "rendered" /\ at' = "sent" /\ package' = Unsent(rendered, known)
      /\ changed' = changed /\ ranked' = ranked /\ bonuses' = bonuses
      /\ rendered' = rendered /\ tokens' = tokens
  BY DEF Send
<1>3. /\ asked.profile \in Profiles /\ asked.words \in Queries /\ asked.budget \in Budgets
      /\ ranked = Order(asked.profile, asked.words, changed.modules)
      /\ rendered = Rendered(ranked, asked.budget)
  BY <1>2 DEF SelectionInv, RankedPart, RenderedPart
<1>4. package' \in Seq(Texts) /\ Cardinality(Symbols(package')) = Len(package')
  <2>1. ranked \in Seq(Symbol) /\ Distinct(ranked)
    BY <1>3, RankedFacts
  <2>2. IsRendering(rendered, ranked, asked.budget)
    BY <1>3, <2>1, RenderedProperties
  <2>3. rendered \in Seq(Texts) /\ DifferentSymbols(rendered)
    BY <2>1, <2>2, RenderingDiffers DEF IsRendering
  <2> QED BY <1>2, <2>3, UnsentProperties
<1>5. \E built \in {FALSE, bonuses > 0 /\ compare} :
        record' = IF rendered = <<>>
                  THEN [NoRecord EXCEPT !.signal = changed.signal,
                          !.status = IF changed.modules = {} THEN "none" ELSE "skipped_no_bonus"]
                  ELSE Promotion(package', Baseline(known), compare, built)
  BY DEF Send
<1>6. record'.status \in {"none", "built", "skipped_no_bonus", "not_sampled", "failed"}
  BY <1>5 DEF NoRecord, Promotion, Status
<1>7. TypeOK'
  BY <1>2, <1>4, <1>6 DEF SelectionInv, TypeOK, Symbols
<1>8. AskedPart' /\ SignalPart'
  BY <1>1, <1>2 DEF AskedPart, SignalPart, SelectionInv
<1>9. RankedPart' /\ RenderedPart'
  BY <1>1, <1>2 DEF SelectionInv, RankedPart, RenderedPart
<1>10. SentPart'
  <2>1. asked'.profile = asked.profile /\ asked'.words = asked.words /\ asked'.budget = asked.budget
        /\ asked'.known = known /\ asked'.compare = compare
    BY <1>1
  <2>2. Baseline(asked.known)' = Baseline(known)
    BY <2>1, Zenon DEF Baseline
  <2>3. ASSUME NEW built
        PROVE  Promotion(package, Baseline(asked.known), asked.compare, built)'
                 = Promotion(package', Baseline(known), compare, built)
    BY <1>2, <2>1, <2>2 DEF Promotion, Status
  <2>4. \E built \in {FALSE, bonuses > 0 /\ compare} : record' = Recorded(built)'
    BY <1>2, <1>5, <2>3 DEF Recorded
  <2> QED BY <1>2, <2>1, <2>4 DEF SentPart
<1> QED BY <1>2, <1>7, <1>8, <1>9, <1>10 DEF SelectionInv, DegradedPart

\* Degrading.
LEMMA DegradeKeeps ==
  ASSUME SelectionInv, Degrade
  PROVE  SelectionInv'
<1>1. /\ at \in {"idle", "ranked", "rendered"} /\ at' = "degraded" /\ package' = <<>>
      /\ record' = [NoRecord EXCEPT !.signal = IF at = "idle" THEN "unavailable" ELSE changed.signal]
      /\ asked' = asked /\ changed' = changed /\ ranked' = ranked /\ bonuses' = bonuses
      /\ rendered' = rendered /\ tokens' = tokens
  BY DEF Degrade
<1>2. TypeOK'
  <2>1. <<>> \in Seq(Texts) /\ Len(<<>>) = 0 /\ DOMAIN <<>> = {}
    OBVIOUS
  <2>2. Symbols(<<>>) = {} /\ Cardinality({}) = 0
    BY <2>1, FS_EmptySet DEF Symbols
  <2>3. record'.status = "none"
    BY <1>1 DEF NoRecord
  <2> QED BY <1>1, <2>1, <2>2, <2>3 DEF SelectionInv, TypeOK, Symbols
<1>3. AskedPart' /\ SignalPart'
  BY <1>1 DEF AskedPart, SignalPart, SelectionInv
<1>4. DegradedPart'
  BY <1>1 DEF SelectionInv, SignalPart, DegradedPart
<1> QED BY <1>1, <1>2, <1>3, <1>4 DEF SelectionInv, RankedPart, RenderedPart, SentPart

LEMMA StutterKeeps ==
  ASSUME SelectionInv, UNCHANGED vars
  PROVE  SelectionInv'
<1>1. /\ at' = at /\ asked' = asked /\ changed' = changed /\ ranked' = ranked
      /\ bonuses' = bonuses /\ rendered' = rendered /\ tokens' = tokens
      /\ package' = package /\ record' = record
  BY DEF vars
<1>2. TypeOK'
  BY <1>1 DEF SelectionInv, TypeOK, Symbols
<1>3. AskedPart' /\ SignalPart' /\ RankedPart' /\ RenderedPart' /\ DegradedPart'
  BY <1>1 DEF SelectionInv, AskedPart, SignalPart, RankedPart, RenderedPart, DegradedPart
<1>4. SentPart'
  <2>1. Baseline(asked.known)' = Baseline(asked.known)
    BY <1>1, Zenon DEF Baseline
  <2>2. ASSUME NEW built PROVE Recorded(built)' = Recorded(built)
    BY <1>1, <2>1 DEF Recorded, Promotion, Status
  <2> QED BY <1>1, <2>2 DEF SelectionInv, SentPart
<1> QED BY <1>2, <1>3, <1>4 DEF SelectionInv

LEMMA SelectionInvariant == Spec => []SelectionInv
<1>1. SelectionInv /\ [Next]_vars => SelectionInv'
  BY RankKeeps, RenderKeeps, SendKeeps, DegradeKeeps, StutterKeeps DEF Next
<1> QED BY <1>1, InitSelection, PTL DEF Spec

\* The candidates and the package name every symbol once, whatever the
\* promotions and the guard do to the order.
THEOREM SelectionIsTyped == Spec => []TypeOK
<1>1. SelectionInv => TypeOK
  BY DEF SelectionInv
<1> QED BY <1>1, SelectionInvariant, PTL

\* The bonus of modified files never takes the last content slot from a
\* module that the question pointed at.
THEOREM SlotsAreGuarded == Spec => []GuardHolds
<1>1. SelectionInv => GuardHolds
  <2> SUFFICES ASSUME SelectionInv, at = "ranked", Len(ranked) >= Slots,
                      NEW s \in InSlots(Sorted(asked.profile, {}))
                                  \ (InSlots(ranked) \cup Bonused(asked.profile, changed.modules)),
                      asked.profile[s].match = "module"
               PROVE  ranked[Slots] \notin Bonused(asked.profile, changed.modules)
    BY DEF GuardHolds
  <2> DEFINE profile == asked.profile
             words == asked.words
             modules == changed.modules
             dirty == Bonused(profile, modules)
             order == Promoted(Guarded(profile, dirty, Sorted(profile, dirty)), words)
             S == Candidates(profile, {}) \cup Range(words.ensured)
  <2>1. profile \in Profiles /\ words \in Queries /\ ranked = Order(profile, words, modules)
    BY DEF SelectionInv, RankedPart
  <2>2. profile \in Matching
    BY <2>1, RankedFacts
  <2>3. IsRanking(order, S) /\ Candidates(profile, {}) \in SUBSET S
    BY <2>1, <2>2, OrderIsRanking
  <2>4. ranked = Guarded(profile, dirty, order)
    BY <2>1 DEF Order
  <2> HIDE DEF order, S
  <2>5. /\ s \in InSlots(Sorted(profile, {})) /\ s \notin dirty /\ profile[s].match = "module"
        /\ Len(Guarded(profile, dirty, order)) >= Slots
        /\ s \notin InSlots(Guarded(profile, dirty, order))
    BY <2>4
  <2>6. Guarded(profile, dirty, order)[Slots] \notin dirty
    BY <2>2, <2>3, <2>5, GuardedSlots
  <2> QED BY <2>4, <2>6
<1> QED BY <1>1, SelectionInvariant, PTL

\* What is rendered fits the budget, or is one symbol reduced to its names,
\* and only the tail of the ranking is dropped.
THEOREM BudgetIsKept == Spec => []BudgetHolds
<1>1. SelectionInv => BudgetHolds
  <2> SUFFICES ASSUME SelectionInv, at = "rendered" PROVE BudgetHolds
    BY DEF BudgetHolds
  <2>1. /\ asked.budget \in Budgets /\ rendered = Rendered(ranked, asked.budget)
        /\ tokens = Tokens(ranked, rendered, asked.budget) /\ ranked \in Seq(Symbol)
    BY DEF SelectionInv, RenderedPart, TypeOK
  <2>2. IsRendering(rendered, ranked, asked.budget)
    BY <2>1, RenderedProperties
  <2>3. tokens = Estimate(rendered, Shown(rendered), asked.budget.chars)
    BY <2>1, <2>2, TokensProperties
  <2>4. ranked # <<>> => rendered # <<>>
    <3>1. ranked # <<>> => Len(ranked) # 0
      BY <2>1, EmptySeq
    <3>2. Len(rendered) # 0 => rendered # <<>>
      OBVIOUS
    <3> QED BY <2>2, <3>1, <3>2 DEF IsRendering
  <2> QED BY <2>2, <2>3, <2>4 DEF BudgetHolds, IsRendering
<1> QED BY <1>1, SelectionInvariant, PTL

\* What was sent, beside what the clean tree would have sent.
LEMMA CleanComparison ==
  ASSUME SelectionInv, at = "sent"
  PROVE  LET clean == Baseline(asked.known)
             dirty == Bonused(asked.profile, changed.modules)
         IN  /\ package = <<>> <=> rendered = <<>>
             /\ package = <<>> <=> clean.texts = <<>>
             /\ package \in Seq(Texts) /\ clean.texts \in Seq(Texts)
             /\ IsFiniteSet(dirty) /\ IsFiniteSet(Symbols(package))
             /\ bonuses = Cardinality(dirty)
             /\ changed.modules = {} => dirty = {}
             /\ dirty = {} => package = clean.texts
             /\ asked.known = {} /\ package = clean.texts
                  => clean = [texts |-> package, tokens |-> tokens]
<1> DEFINE profile == asked.profile
           words == asked.words
           budget == asked.budget
           known == asked.known
           modules == changed.modules
           dirty == Bonused(profile, modules)
           order0 == Order(profile, words, {})
           texts0 == Rendered(order0, budget)
           clean == Baseline(known)
<1>1. /\ profile \in Profiles /\ words \in Queries /\ budget \in Budgets
      /\ ranked = Order(profile, words, modules) /\ bonuses = Cardinality(dirty)
      /\ rendered = Rendered(ranked, budget) /\ tokens = Tokens(ranked, rendered, budget)
      /\ package = Unsent(rendered, known)
  BY DEF SelectionInv, RankedPart, RenderedPart, SentPart
<1>2. /\ clean.texts = Unsent(texts0, known) /\ clean.tokens = Tokens(order0, texts0, budget)
      /\ clean = [texts |-> clean.texts, tokens |-> clean.tokens]
  BY DEF Baseline
<1>3. /\ ranked \in Seq(Symbol) /\ Distinct(ranked) /\ Range(ranked) = Range(order0)
      /\ IsFiniteSet(dirty)
  BY <1>1, RankedFacts
<1>4. order0 \in Seq(Symbol)
  BY <1>1, RankedFacts
<1>5. IsRendering(rendered, ranked, budget) /\ IsRendering(texts0, order0, budget)
  BY <1>1, <1>3, <1>4, RenderedProperties
<1>6. Bonused(profile, {}) = {}
  BY DEF Bonused
<1>7. modules = {} => dirty = {}
  BY DEF Bonused
<1>8. dirty = {} => ranked = order0
  BY <1>1, <1>6 DEF Order
<1> HIDE DEF order0, texts0, clean, dirty
<1>9. dirty = {} => rendered = texts0
  BY <1>1, <1>8 DEF texts0
<1>10. dirty = {} => package = clean.texts
  BY <1>1, <1>2, <1>9
<1>11. rendered = <<>> <=> texts0 = <<>>
  <2>1. /\ Len(ranked) \in Nat /\ DOMAIN ranked = 1 .. Len(ranked)
        /\ Len(order0) \in Nat /\ DOMAIN order0 = 1 .. Len(order0)
    BY <1>3, <1>4, LenProperties
  <2>2. Len(ranked) = 0 <=> Len(order0) = 0
    <3>1. ASSUME NEW order \in Seq(Symbol) PROVE Len(order) = 0 <=> Range(order) = {}
      <4>1. Len(order) \in Nat /\ DOMAIN order = 1 .. Len(order)
        BY LenProperties
      <4>2. CASE Len(order) = 0
        <5>1. DOMAIN order = {}
          BY <4>1, <4>2
        <5> QED BY <4>2, <5>1 DEF Range
      <4>3. CASE Len(order) # 0
        <5>1. 1 \in DOMAIN order
          BY <4>1, <4>3
        <5> QED BY <4>3, <5>1 DEF Range
      <4> QED BY <4>2, <4>3
    <3> QED BY <1>3, <1>4, <3>1
  <2>3. ASSUME NEW texts, NEW order, Len(order) \in Nat, IsRendering(texts, order, budget)
        PROVE  texts = <<>> <=> Len(order) = 0
    <3>1. texts \in Seq(Texts) /\ Len(texts) <= Len(order) /\ (Len(order) # 0 => Len(texts) # 0)
      BY <2>3 DEF IsRendering
    <3>2. Len(texts) = 0 <=> texts = <<>>
      BY <3>1, EmptySeq
    <3>3. Len(texts) \in Nat
      BY <3>1, LenProperties
    <3> QED BY <2>3, <3>1, <3>2, <3>3
  <2> QED BY <1>5, <2>1, <2>2, <2>3
<1>12. rendered \in Seq(Texts) /\ texts0 \in Seq(Texts)
  BY <1>5 DEF IsRendering
<1>13. /\ package \in Seq(Texts) /\ clean.texts \in Seq(Texts)
       /\ package = <<>> <=> rendered = <<>>
       /\ clean.texts = <<>> <=> texts0 = <<>>
  BY <1>1, <1>2, <1>12, UnsentProperties
<1>14. IsFiniteSet(Symbols(package))
  <2>1. Symbols(package) \in SUBSET Symbol
    <3>1. package \in Seq(Texts) /\ DOMAIN package = 1 .. Len(package)
      BY <1>13, LenProperties
    <3>2. ASSUME NEW i \in DOMAIN package PROVE package[i].symbol \in Symbol
      <4>1. package[i] \in Texts
        BY <3>1, ElementOfSeq
      <4> QED BY <4>1 DEF Texts
    <3> QED BY <3>2 DEF Symbols
  <2> QED BY <2>1, FS_Subset, SelectionAssumption
<1>15. ASSUME known = {}, package = clean.texts
       PROVE  clean = [texts |-> package, tokens |-> tokens]
  <2>1. rendered = package /\ texts0 = clean.texts
    BY <1>1, <1>2, <1>12, <1>15, UnsentProperties
  <2>2. rendered = texts0
    BY <1>15, <2>1
  <2>3. tokens = Estimate(rendered, Shown(rendered), budget.chars)
    BY <1>1, <1>3, <1>5, TokensProperties
  <2>4. clean.tokens = Estimate(texts0, Shown(texts0), budget.chars)
    BY <1>1, <1>2, <1>4, <1>5, TokensProperties
  <2> QED BY <1>2, <1>15, <2>2, <2>3, <2>4
<1> QED BY <1>1, <1>3, <1>7, <1>10, <1>11, <1>13, <1>14, <1>15 DEF clean, dirty

\* What the record says of the comparison of a request that was sent.
LEMMA RecordedFields ==
  ASSUME SelectionInv, at = "sent"
  PROVE  LET clean == Baseline(asked.known)
             dirty == Bonused(asked.profile, changed.modules)
         IN  /\ record.signal = changed.signal
             /\ \/ /\ record.status = "built" /\ changed.signal = "ok" /\ rendered # <<>>
                   /\ record.selected = Cardinality(Symbols(package) \cap dirty)
                   /\ record.primary = (Head(package).symbol # Head(clean.texts).symbol)
                   /\ record.promoted = Cardinality(Symbols(package) \ Symbols(clean.texts))
                   /\ record.differs = (clean # [texts |-> package, tokens |-> tokens])
                \/ /\ record.status \in {"none", "skipped_no_bonus"} /\ package = clean.texts
                   /\ record.status = "skipped_no_bonus" => dirty = {} \/ package = <<>>
                   /\ record.primary = FALSE /\ record.promoted = 0 /\ record.differs = FALSE
                   /\ package = <<>> => record.selected = 0
                   /\ dirty = {} => record.selected = 0
                \/ /\ record.status \in {"failed", "not_sampled"} /\ package # <<>>
                   /\ record.primary = FALSE /\ record.promoted = 0 /\ record.differs = FALSE
<1> DEFINE dirty == Bonused(asked.profile, changed.modules)
           clean == Baseline(asked.known)
<1>1. /\ package = <<>> <=> rendered = <<>>
      /\ package = <<>> <=> clean.texts = <<>>
      /\ IsFiniteSet(dirty) /\ bonuses = Cardinality(dirty)
      /\ changed.modules = {} => dirty = {}
      /\ dirty = {} => package = clean.texts
  BY CleanComparison
<1>2. PICK built \in {FALSE, bonuses > 0 /\ asked.compare} : record = Recorded(built)
  BY DEF SelectionInv, SentPart
<1>3. /\ changed.signal # "ok" => changed.modules = {}
      /\ asked.compare \in BOOLEAN /\ Cardinality({}) = 0
  BY FS_EmptySet DEF SelectionInv, SignalPart, SentPart
<1>4. bonuses = 0 <=> dirty = {}
  BY <1>1, FS_EmptySet
<1>5. CASE rendered = <<>>
  <2>1. record = [NoRecord EXCEPT !.signal = changed.signal,
                   !.status = IF changed.modules = {} THEN "none" ELSE "skipped_no_bonus"]
    BY <1>2, <1>5 DEF Recorded
  <2>2. /\ record.signal = changed.signal /\ record.status \in {"none", "skipped_no_bonus"}
        /\ record.primary = FALSE /\ record.promoted = 0 /\ record.differs = FALSE
        /\ record.selected = 0
    BY <2>1 DEF NoRecord
  <2> QED BY <1>1, <1>5, <2>2
<1>6. CASE rendered # <<>>
  <2> DEFINE r == Promotion(package, clean, asked.compare, built)
  <2>1. record = r
    BY <1>2, <1>6 DEF Recorded
  <2>2. /\ r.signal = changed.signal /\ r.status = Status(asked.compare, built)
        /\ r.selected = Cardinality(Symbols(package) \cap dirty)
        /\ r.primary = (built /\ Head(package).symbol # Head(clean.texts).symbol)
        /\ r.promoted = IF built THEN Cardinality(Symbols(package) \ Symbols(clean.texts)) ELSE 0
        /\ r.differs = (built /\ clean # [texts |-> package, tokens |-> tokens])
    BY DEF Promotion
  <2> HIDE DEF r, clean, dirty
  <2>3. CASE built
    <3>1. bonuses > 0
      BY <1>2, <2>3
    <3>2. bonuses # 0
      BY <3>1
    <3>3. changed.modules # {} /\ changed.signal = "ok"
      BY <1>1, <1>3, <1>4, <3>2
    <3>4. r.status = "built"
      BY <2>2, <2>3, <3>3 DEF Status
    <3> QED BY <1>6, <2>1, <2>2, <2>3, <3>3, <3>4 DEF clean, dirty
  <2>4. CASE ~built
    <3>1. /\ r.primary = FALSE /\ r.promoted = 0 /\ r.differs = FALSE
      BY <2>2, <2>4
    <3>2. dirty = {} => r.selected = 0
      BY <1>3, <2>2
    <3>3. CASE changed.modules = {}
      <4>1. r.status = "none"
        BY <2>2, <3>3 DEF Status
      <4> QED BY <1>1, <1>6, <2>1, <2>2, <3>1, <3>2, <3>3, <4>1 DEF clean, dirty
    <3>4. CASE changed.modules # {} /\ bonuses = 0
      <4>1. r.status = "skipped_no_bonus" /\ dirty = {}
        BY <1>4, <2>2, <2>4, <3>4 DEF Status
      <4> QED BY <1>1, <1>6, <2>1, <2>2, <3>1, <3>2, <4>1 DEF clean, dirty
    <3>5. CASE changed.modules # {} /\ bonuses # 0
      <4>1. r.status \in {"failed", "not_sampled"}
        BY <2>2, <2>4, <3>5 DEF Status
      <4> QED BY <1>1, <1>6, <2>1, <2>2, <3>1, <4>1 DEF clean, dirty
    <3> QED BY <3>3, <3>4, <3>5
  <2> QED BY <1>2, <1>3, <2>3, <2>4
<1> QED BY <1>5, <1>6

\* What is recorded and reported of a request is true of what was sent: the
\* counts are those of the comparison with the clean tree, a difference is
\* missed by no record and no verdict, and a failure is recorded as one.
THEOREM RecordsAreTrue == Spec => []RecordIsTrue
<1>1. SelectionInv /\ at = "sent" => RecordIsTrue
  <2> SUFFICES ASSUME SelectionInv, at = "sent" PROVE RecordIsTrue
    OBVIOUS
  <2> DEFINE dirty == Bonused(asked.profile, changed.modules)
             clean == Baseline(asked.known)
             both == Symbols(package) \cap dirty
             gained == Symbols(package) \ Symbols(clean.texts)
  <2>1. /\ package = <<>> <=> clean.texts = <<>>
        /\ package \in Seq(Texts) /\ clean.texts \in Seq(Texts)
        /\ IsFiniteSet(Symbols(package))
        /\ asked.known = {} /\ package = clean.texts
             => clean = [texts |-> package, tokens |-> tokens]
        /\ package = <<>> <=> rendered = <<>>
    BY CleanComparison
  <2>2. changed.signal # "unread"
    BY DEF SelectionInv, SignalPart
  <2>3. package # <<>> => Head(package) = package[1] /\ Head(clean.texts) = clean.texts[1]
    BY <2>1
  <2>4. Cardinality({}) = 0 /\ (both = {} <=> Cardinality(both) = 0) /\ (gained = {} <=> Cardinality(gained) = 0)
    <3>1. IsFiniteSet(both) /\ IsFiniteSet(gained)
      BY <2>1, FS_Subset
    <3> QED BY <3>1, FS_EmptySet
  <2>5. package = clean.texts => gained = {}
    OBVIOUS
  <2>6. clean = [texts |-> package, tokens |-> tokens] => package = clean.texts
    OBVIOUS
  <2>7. record.signal = changed.signal
    BY RecordedFields
  <2>8. CASE /\ record.status = "built" /\ changed.signal = "ok" /\ rendered # <<>>
             /\ record.selected = Cardinality(both)
             /\ record.primary = (Head(package).symbol # Head(clean.texts).symbol)
             /\ record.promoted = Cardinality(gained)
             /\ record.differs = (clean # [texts |-> package, tokens |-> tokens])
    <3> HIDE DEF both, gained, clean, dirty
    <3>1. package # <<>>
      BY <2>1, <2>8
    <3>2. ReadingIsTrue
      BY <2>1, <2>3, <2>6, <2>8, <3>1, Zenon DEF ReadingIsTrue, clean, gained
    <3>3. RecordIsHonest
      BY <2>2, <2>7, <3>1 DEF RecordIsHonest
    <3>4. package # clean.texts => record.differs
      BY <2>6, <2>8
    <3>5. VerdictsAreTrue
      <4>1. package # clean.texts => Proved(record)
        BY <2>7, <2>8, <3>4 DEF Proved, Usable, Measured
      <4>2. Inert(record) => package = clean.texts /\ both # {}
        <5>1. Inert(record) => record.selected # 0 /\ ~record.differs
          BY <2>4 DEF Inert
        <5> QED BY <2>4, <2>8, <3>4, <5>1
      <4>3. ProvedPrimary(record) => package[1].symbol # clean.texts[1].symbol
        BY <2>3, <2>8, <3>1 DEF ProvedPrimary
      <4>4. ProvedMembership(record) => gained # {}
        <5>1. ProvedMembership(record) => record.promoted # 0
          BY DEF ProvedMembership
        <5> QED BY <2>4, <2>8, <5>1
      <4> QED BY <4>1, <4>2, <4>3, <4>4, Zenon DEF VerdictsAreTrue, clean, both, gained, dirty
    <3> QED BY <3>2, <3>3, <3>5 DEF RecordIsTrue
  <2>9. CASE /\ record.status \in {"none", "skipped_no_bonus"} /\ package = clean.texts
             /\ record.status = "skipped_no_bonus" => dirty = {} \/ package = <<>>
             /\ record.primary = FALSE /\ record.promoted = 0 /\ record.differs = FALSE
             /\ package = <<>> => record.selected = 0
             /\ dirty = {} => record.selected = 0
    <3> HIDE DEF both, gained, clean, dirty
    <3>1. ReadingIsTrue
      <4>1. record.promoted = Cardinality(gained)
        BY <2>4, <2>5, <2>9
      <4>2. record.primary = (package # <<>> /\ package[1].symbol # clean.texts[1].symbol)
        BY <2>9
      <4> QED BY <2>9, <4>1, <4>2, Zenon DEF ReadingIsTrue, clean, gained
    <3>2. RecordIsHonest
      BY <2>2, <2>7, <2>9 DEF RecordIsHonest
    <3>3. VerdictsAreTrue
      <4>1. ~Proved(record) /\ ~ProvedPrimary(record) /\ ~ProvedMembership(record)
        BY <2>9 DEF Proved, ProvedPrimary, ProvedMembership
      <4>2. ~Inert(record)
        <5> SUFFICES ASSUME Inert(record) PROVE FALSE
          OBVIOUS
        <5>1. record.status = "skipped_no_bonus"
          BY <2>9 DEF Inert, Usable, Measured
        <5>2. record.selected = 0
          BY <2>9, <5>1
        <5> QED BY <5>2 DEF Inert
      <4> QED BY <2>9, <4>1, <4>2, Zenon DEF VerdictsAreTrue, clean
    <3> QED BY <3>1, <3>2, <3>3 DEF RecordIsTrue
  <2>10. CASE /\ record.status \in {"failed", "not_sampled"} /\ package # <<>>
              /\ record.primary = FALSE /\ record.promoted = 0 /\ record.differs = FALSE
    <3> HIDE DEF both, gained, clean, dirty
    <3>1. ReadingIsTrue
      BY <2>10 DEF ReadingIsTrue
    <3>2. RecordIsHonest
      BY <2>2, <2>7, <2>10 DEF RecordIsHonest
    <3>3. VerdictsAreTrue
      <4>1. ~Proved(record) /\ ~ProvedPrimary(record) /\ ~ProvedMembership(record) /\ ~Inert(record)
        BY <2>10 DEF Proved, ProvedPrimary, ProvedMembership, Inert, Usable, Measured
      <4>2. Unmeasured(record)
        BY <2>10 DEF Unmeasured, Measured
      <4> QED BY <4>1, <4>2, Zenon DEF VerdictsAreTrue
    <3> QED BY <3>1, <3>2, <3>3 DEF RecordIsTrue
  <2> QED BY <2>8, <2>9, <2>10, RecordedFields
<1>2. SelectionInv /\ at # "sent" => RecordIsTrue
  <2> SUFFICES ASSUME SelectionInv, at # "sent" PROVE RecordIsTrue
    OBVIOUS
  <2>1. RecordIsHonest
    BY DEF SelectionInv, DegradedPart, RecordIsHonest, NoRecord
  <2> QED BY <2>1 DEF RecordIsTrue, ReadingIsTrue, VerdictsAreTrue
<1>3. SelectionInv => RecordIsTrue
  BY <1>1, <1>2
<1> QED BY <1>3, SelectionInvariant, PTL
=============================================================================
