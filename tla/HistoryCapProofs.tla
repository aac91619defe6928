--------------------------- MODULE HistoryCapProofs ---------------------------
(***************************************************************************)
(* What the cap never drops and never splits, for every alphabet, every    *)
(* setting and conversations of every length.                              *)
(***************************************************************************)
EXTENDS HistoryCap, FiniteSetTheorems, WellFoundedInduction, TLAPS

-----------------------------------------------------------------------------
(* Naturals and sums over finite sets *)

\* A nonempty set of naturals has a least one.
LEMMA LeastNatural ==
  ASSUME NEW M \in SUBSET Nat, M # {}
  PROVE  \E n \in M : \A m \in M : n <= m
<1> DEFINE R == {p \in Nat \X Nat : p[1] < p[2]}
<1>1. IsWellFoundedOn(R, Nat)
  <2>1. R = OpToRel(<, Nat)
    BY DEF OpToRel
  <2> QED BY <2>1, NatLessThanWellFounded
<1>2. PICK n \in M : \A m \in M : ~(<<m, n>> \in R)
  <2> HIDE DEF R
  <2> QED BY <1>1, WFMin
<1>3. ASSUME NEW m \in M PROVE n <= m
  <2>1. ~(m < n)
    BY <1>2
  <2> QED BY <2>1
<1> QED BY <1>3

\* A set of naturals with 0 and every successor is all of them.
LEMMA SetInduction ==
  ASSUME NEW N \in SUBSET Nat, 0 \in N, \A n \in N : n + 1 \in N
  PROVE  N = Nat
<1> DEFINE M == Nat \ N
<1> SUFFICES ASSUME M # {} PROVE FALSE
  OBVIOUS
<1>1. PICK n \in M : \A m \in M : n <= m
  <2>1. M \in SUBSET Nat
    OBVIOUS
  <2> HIDE DEF M
  <2> QED BY <2>1, LeastNatural
<1>2. n # 0 /\ n - 1 \in Nat
  OBVIOUS
<1>3. n - 1 \in N
  <2>1. ~(n <= n - 1)
    BY <1>2
  <2> QED BY <1>1, <1>2, <2>1
<1>4. (n - 1) + 1 \in N
  BY <1>3
<1> QED BY <1>4

\* f gives every subset of S the sum of its sizes, added in the order CHOOSE takes them.
First(s) == CHOOSE x \in s : TRUE
IsSum(f, ms, S) ==
    f = [s \in SUBSET S |-> IF s = {} THEN 0 ELSE ms[First(s)].size + f[s \ {First(s)}]]

\* A size is the sum of its definition.
LEMMA SizeOfIsSum ==
  ASSUME NEW ms, NEW S
  PROVE  SizeOf(ms, S) = (CHOOSE f : IsSum(f, ms, S))[S]
BY DEF SizeOf, MapThenSumSet, MapThenFoldSet, IsSum, First

Sized(ms, S) == \A i \in S : ms[i].size \in Nat

\* The subsets of at most n elements.
Small(S, n) == {s \in SUBSET S : Cardinality(s) <= n}

IsSmallSum(f, ms, S, n) ==
    /\ f \in [Small(S, n) -> Nat]
    /\ \A s \in Small(S, n) :
          f[s] = IF s = {} THEN 0 ELSE ms[First(s)].size + f[s \ {First(s)}]

\* A finite set less its first position is smaller by one.
LEMMA OneLess ==
  ASSUME NEW S, IsFiniteSet(S), NEW s \in SUBSET S, s # {}
  PROVE  /\ First(s) \in s /\ IsFiniteSet(s)
         /\ Cardinality(s) \in Nat
         /\ s \ {First(s)} \in SUBSET S
         /\ IsFiniteSet(s \ {First(s)})
         /\ Cardinality(s \ {First(s)}) = Cardinality(s) - 1
<1>1. First(s) \in s
  BY DEF First
<1>2. IsFiniteSet(s)
  BY FS_Subset
<1> QED BY <1>1, <1>2, FS_RemoveElement, FS_CardinalityType

\* A set of no position is empty.
LEMMA SmallestIsEmpty ==
  ASSUME NEW S, IsFiniteSet(S), NEW s \in Small(S, 0)
  PROVE  s = {}
<1>1. s \in SUBSET S /\ Cardinality(s) <= 0
  BY DEF Small
<1>2. IsFiniteSet(s)
  BY <1>1, FS_Subset
<1>3. Cardinality(s) = 0
  BY <1>1, <1>2, FS_CardinalityType
<1> QED BY <1>2, <1>3, FS_EmptySet

\* Size by size, the sum exists on the sets of at most n positions.
LEMMA SmallSumExists ==
  ASSUME NEW ms, NEW S, IsFiniteSet(S), Sized(ms, S), NEW n \in Nat
  PROVE  \E f : IsSmallSum(f, ms, S, n)
<1> DEFINE N == {m \in Nat : \E f : IsSmallSum(f, ms, S, m)}
<1>1. 0 \in N
  <2>1. Small(S, 0) = {{}}
    <3>1. \A s \in Small(S, 0) : s = {}
      BY SmallestIsEmpty
    <3>2. {} \in Small(S, 0)
      BY FS_EmptySet DEF Small
    <3> QED BY <3>1, <3>2
  <2>2. IsSmallSum([s \in {{}} |-> 0], ms, S, 0)
    BY <2>1 DEF IsSmallSum
  <2>3. \E f : IsSmallSum(f, ms, S, 0)
    BY <2>2
  <2> QED BY <2>3
<1>2. \A m \in N : m + 1 \in N
  <2> SUFFICES ASSUME NEW m \in Nat, NEW f, IsSmallSum(f, ms, S, m)
               PROVE  \E g : IsSmallSum(g, ms, S, m + 1)
    OBVIOUS
  <2> DEFINE g == [s \in Small(S, m + 1) |->
                     IF s = {} THEN 0 ELSE ms[First(s)].size + f[s \ {First(s)}]]
  <2>1. ASSUME NEW s \in Small(S, m + 1), s # {}
        PROVE  /\ s \ {First(s)} \in Small(S, m) /\ s \ {First(s)} \in Small(S, m + 1)
               /\ ms[First(s)].size \in Nat
    <3>1. s \in SUBSET S /\ Cardinality(s) <= m + 1
      BY DEF Small
    <3>2. Cardinality(s \ {First(s)}) = Cardinality(s) - 1 /\ Cardinality(s) \in Nat
            /\ s \ {First(s)} \in SUBSET S
          /\ First(s) \in s
      BY <3>1, <2>1, OneLess
    <3>3. Cardinality(s \ {First(s)}) <= m /\ Cardinality(s \ {First(s)}) <= m + 1
      BY <3>1, <3>2
    <3> QED BY <3>1, <3>2, <3>3 DEF Small, Sized
  <2>2. g \in [Small(S, m + 1) -> Nat]
    <3> SUFFICES ASSUME NEW s \in Small(S, m + 1)
                 PROVE  (IF s = {} THEN 0 ELSE ms[First(s)].size + f[s \ {First(s)}]) \in Nat
      OBVIOUS
    <3> QED BY <2>1 DEF IsSmallSum
  <2>3. \A s \in Small(S, m) : s \in Small(S, m + 1) /\ g[s] = f[s]
    <3> SUFFICES ASSUME NEW s \in Small(S, m) PROVE s \in Small(S, m + 1) /\ g[s] = f[s]
      OBVIOUS
    <3>1. IsFiniteSet(s) /\ Cardinality(s) \in Nat
      BY FS_Subset, FS_CardinalityType DEF Small
    <3>2. s \in Small(S, m + 1)
      BY <3>1 DEF Small
    <3> QED BY <3>2 DEF IsSmallSum
  <2>4. \A s \in Small(S, m + 1) :
          g[s] = IF s = {} THEN 0 ELSE ms[First(s)].size + g[s \ {First(s)}]
    <3> SUFFICES ASSUME NEW s \in Small(S, m + 1)
                 PROVE  g[s] = IF s = {} THEN 0 ELSE ms[First(s)].size + g[s \ {First(s)}]
      OBVIOUS
    <3>1. g[s] = IF s = {} THEN 0 ELSE ms[First(s)].size + f[s \ {First(s)}]
      OBVIOUS
    <3>2. s # {} => g[s \ {First(s)}] = f[s \ {First(s)}]
      <4> HIDE DEF g
      <4> QED BY <2>1, <2>3
    <3> QED BY <3>1, <3>2
  <2> HIDE DEF g
  <2>5. IsSmallSum(g, ms, S, m + 1)
    BY <2>2, <2>4 DEF IsSmallSum
  <2> QED BY <2>5
<1>3. N = Nat
  <2> HIDE DEF N
  <2>1. N \in SUBSET Nat
    BY DEF N
  <2> QED BY <1>1, <1>2, <2>1, SetInduction
<1> QED BY <1>3

\* So a finite set has a sum, a natural one.
LEMMA SumExists ==
  ASSUME NEW ms, NEW S, IsFiniteSet(S), Sized(ms, S)
  PROVE  \E f : IsSum(f, ms, S) /\ f \in [SUBSET S -> Nat]
<1>1. Cardinality(S) \in Nat
  BY FS_CardinalityType
<1>2. PICK f : IsSmallSum(f, ms, S, Cardinality(S))
  BY <1>1, SmallSumExists
<1>3. Small(S, Cardinality(S)) = SUBSET S
  BY FS_Subset DEF Small
<1>4. f \in [SUBSET S -> Nat]
  BY <1>2, <1>3 DEF IsSmallSum
<1>5. \A s \in SUBSET S : f[s] = IF s = {} THEN 0 ELSE ms[First(s)].size + f[s \ {First(s)}]
  BY <1>2, <1>3 DEF IsSmallSum
<1>6. IsSum(f, ms, S)
  BY <1>4, <1>5 DEF IsSum
<1> QED BY <1>4, <1>6

\* Where two conversations agree on the sizes of T, so do the sums over it.
LEMMA SumUnique ==
  ASSUME NEW ms, NEW ns, NEW S, NEW T \in SUBSET S, IsFiniteSet(S),
         \A i \in T : ms[i].size = ns[i].size,
         NEW f, IsSum(f, ms, S), NEW g, IsSum(g, ns, T)
  PROVE  f[T] = g[T]
<1> DEFINE N == {n \in Nat : \A s \in Small(T, n) : f[s] = g[s]}
<1>0. /\ \A s \in SUBSET S : f[s] = IF s = {} THEN 0 ELSE ms[First(s)].size + f[s \ {First(s)}]
      /\ \A s \in SUBSET T : g[s] = IF s = {} THEN 0 ELSE ns[First(s)].size + g[s \ {First(s)}]
  BY DEF IsSum
<1>1. IsFiniteSet(T) /\ Cardinality(T) \in Nat
  BY FS_Subset, FS_CardinalityType
<1>2. ASSUME NEW s \in SUBSET T, s # {}
      PROVE  /\ First(s) \in T /\ s \ {First(s)} \in SUBSET T /\ s \in SUBSET S
             /\ Cardinality(s) \in Nat /\ Cardinality(s \ {First(s)}) = Cardinality(s) - 1
             /\ Cardinality(s \ {First(s)}) \in Nat
  <2>1. First(s) \in s /\ IsFiniteSet(s \ {First(s)})
    BY <1>1, <1>2, OneLess
  <2> QED BY <1>1, <1>2, <2>1, OneLess, FS_CardinalityType
<1>3. 0 \in N
  <2>1. \A s \in Small(T, 0) : s = {}
    BY <1>1, SmallestIsEmpty
  <2>2. f[{}] = 0 /\ g[{}] = 0
    BY <1>0
  <2> QED BY <2>1, <2>2
<1>4. \A n \in N : n + 1 \in N
  <2> SUFFICES ASSUME NEW n \in N, NEW s \in Small(T, n + 1) PROVE f[s] = g[s]
    OBVIOUS
  <2>1. s \in SUBSET T /\ Cardinality(s) <= n + 1 /\ n \in Nat
    BY DEF Small
  <2>2. CASE s = {}
    BY <2>2, <1>0
  <2>3. CASE s # {}
    <3>1. s \ {First(s)} \in Small(T, n)
      <4>1. Cardinality(s \ {First(s)}) <= n
        BY <2>1, <2>3, <1>2
      <4> QED BY <4>1, <2>1, <2>3, <1>2 DEF Small
    <3>2. f[s \ {First(s)}] = g[s \ {First(s)}]
      BY <3>1
    <3>3. f[s] = ms[First(s)].size + f[s \ {First(s)}] /\ g[s] = ns[First(s)].size + g[s \ {First(s)}]
      BY <1>0, <1>2, <2>1, <2>3
    <3> QED BY <3>2, <3>3, <1>2, <2>1, <2>3
  <2> QED BY <2>2, <2>3
<1>5. N = Nat
  <2> HIDE DEF N
  <2>1. N \in SUBSET Nat
    BY DEF N
  <2> QED BY <1>3, <1>4, <2>1, SetInduction
<1>6. T \in Small(T, Cardinality(T))
  BY <1>1 DEF Small
<1> QED BY <1>1, <1>5, <1>6

\* So it exists on all of them, and is a natural number.
LEMMA SizeOfIsASum ==
  ASSUME NEW ms, NEW S, IsFiniteSet(S), Sized(ms, S)
  PROVE  \E f : IsSum(f, ms, S) /\ f \in [SUBSET S -> Nat] /\ SizeOf(ms, S) = f[S]
<1> DEFINE f == CHOOSE f : IsSum(f, ms, S)
<1>1. \E g : IsSum(g, ms, S)
  BY SumExists
<1>2. IsSum(f, ms, S)
  BY <1>1
<1>3. SizeOf(ms, S) = f[S]
  BY SizeOfIsSum
<1> HIDE DEF f
<1>4. PICK g : IsSum(g, ms, S) /\ g \in [SUBSET S -> Nat]
  BY SumExists
<1>5. ASSUME NEW s \in SUBSET S PROVE f[s] \in Nat
  <2>1. IsFiniteSet(s) /\ Sized(ms, s)
    BY FS_Subset DEF Sized
  <2>2. PICK h : IsSum(h, ms, s) /\ h \in [SUBSET s -> Nat]
    BY <2>1, SumExists
  <2>3. f[s] = h[s]
    BY <1>2, <2>2, SumUnique
  <2> QED BY <2>2, <2>3
<1>6. f \in [SUBSET S -> Nat]
  <2>1. f = [s \in SUBSET S |-> f[s]]
    BY <1>2 DEF IsSum
  <2> QED BY <1>5, <2>1
<1> QED BY <1>2, <1>3, <1>6

\* A size is a natural number.
LEMMA SizeOfNat ==
  ASSUME NEW ms, NEW S, IsFiniteSet(S), Sized(ms, S)
  PROVE  SizeOf(ms, S) \in Nat
<1>1. PICK f : f \in [SUBSET S -> Nat] /\ SizeOf(ms, S) = f[S]
  BY SizeOfIsASum
<1>2. S \in SUBSET S
  OBVIOUS
<1> QED BY <1>1, <1>2

\* Nothing has no size.
LEMMA SizeOfEmpty ==
  ASSUME NEW ms
  PROVE  SizeOf(ms, {}) = 0
<1>1. IsFiniteSet({}) /\ Sized(ms, {})
  BY FS_EmptySet DEF Sized
<1>2. PICK f : IsSum(f, ms, {}) /\ SizeOf(ms, {}) = f[{}]
  BY <1>1, SizeOfIsASum
<1> QED BY <1>2 DEF IsSum

\* Messages of the same sizes have the same size together.
LEMMA SizeOfAgrees ==
  ASSUME NEW ms, NEW ns, NEW S, IsFiniteSet(S), Sized(ms, S),
         \A i \in S : ms[i].size = ns[i].size
  PROVE  SizeOf(ms, S) = SizeOf(ns, S)
<1>1. Sized(ns, S)
  BY DEF Sized
<1>2. PICK f : IsSum(f, ms, S) /\ SizeOf(ms, S) = f[S]
  BY SizeOfIsASum
<1>3. PICK g : IsSum(g, ns, S) /\ SizeOf(ns, S) = g[S]
  BY <1>1, SizeOfIsASum
<1> QED BY <1>2, <1>3, SumUnique

\* A size is that of the first position and of the others.
LEMMA SizeOfFirst ==
  ASSUME NEW ms, NEW S, IsFiniteSet(S), Sized(ms, S), S # {}
  PROVE  SizeOf(ms, S) = ms[First(S)].size + SizeOf(ms, S \ {First(S)})
<1> DEFINE T == S \ {First(S)}
<1>1. IsFiniteSet(T) /\ Sized(ms, T) /\ T \in SUBSET S
  BY OneLess DEF Sized
<1>2. PICK f : IsSum(f, ms, S) /\ SizeOf(ms, S) = f[S]
  BY SizeOfIsASum
<1>3. PICK g : IsSum(g, ms, T) /\ SizeOf(ms, T) = g[T]
  <2> HIDE DEF T
  <2> QED BY <1>1, SizeOfIsASum
<1>4. f[T] = g[T]
  <2> HIDE DEF T
  <2> QED BY <1>1, <1>2, <1>3, SumUnique
<1>5. f[S] = ms[First(S)].size + f[T]
  BY <1>2 DEF IsSum
<1> QED BY <1>2, <1>3, <1>4, <1>5

\* The order does not matter.
LEMMA SizeOfRemove ==
  ASSUME NEW ms, NEW S, IsFiniteSet(S), Sized(ms, S), NEW x \in S
  PROVE  SizeOf(ms, S) = ms[x].size + SizeOf(ms, S \ {x})
<1> DEFINE N == {n \in Nat : \A s \in Small(S, n) : \A y \in s :
                               SizeOf(ms, s) = ms[y].size + SizeOf(ms, s \ {y})}
<1>1. IsFiniteSet(S) /\ Cardinality(S) \in Nat
  BY FS_CardinalityType
<1>2. ASSUME NEW s \in SUBSET S
      PROVE  IsFiniteSet(s) /\ Sized(ms, s) /\ Cardinality(s) \in Nat /\ SizeOf(ms, s) \in Nat
  <2>1. IsFiniteSet(s) /\ Sized(ms, s)
    BY FS_Subset DEF Sized
  <2> QED BY <2>1, FS_CardinalityType, SizeOfNat
<1>3. 0 \in N
  <2>1. \A s \in Small(S, 0) : s = {}
    BY SmallestIsEmpty
  <2> QED BY <2>1
<1>4. \A n \in N : n + 1 \in N
  <2> SUFFICES ASSUME NEW n \in N, NEW s \in Small(S, n + 1), NEW y \in s
               PROVE  SizeOf(ms, s) = ms[y].size + SizeOf(ms, s \ {y})
    OBVIOUS
  <2>1. s \in SUBSET S /\ Cardinality(s) <= n + 1 /\ n \in Nat /\ s # {}
    BY DEF Small
  <2> DEFINE c == First(s)
             t == s \ {c}
             u == s \ {y}
  <2>2. c \in s
    BY <2>1 DEF First
  <2>3. SizeOf(ms, s) = ms[c].size + SizeOf(ms, t)
    BY <2>1, <1>2, SizeOfFirst
  <2>4. CASE y = c
    BY <2>3, <2>4
  <2>5. CASE y # c
    <3> HIDE DEF c
    <3>1. y \in t /\ c \in u /\ t \ {y} = u \ {c}
      BY <2>2, <2>5
    <3>2. t \in Small(S, n) /\ u \in Small(S, n)
      <4>1. t \in SUBSET S /\ u \in SUBSET S
        BY <2>1
      <4>2. Cardinality(t) = Cardinality(s) - 1 /\ Cardinality(u) = Cardinality(s) - 1
        BY <2>1, <2>2, <1>2, FS_RemoveElement
      <4>3. Cardinality(t) <= n /\ Cardinality(u) <= n
        BY <4>2, <2>1, <1>2
      <4> QED BY <4>1, <4>3 DEF Small
    <3> HIDE DEF t, u
    <3>3. SizeOf(ms, t) = ms[y].size + SizeOf(ms, t \ {y})
          /\ SizeOf(ms, u) = ms[c].size + SizeOf(ms, u \ {c})
      BY <3>1, <3>2
    <3>4. SizeOf(ms, t \ {y}) \in Nat /\ ms[y].size \in Nat /\ ms[c].size \in Nat
      <4>1. y \in S /\ c \in S
        BY <2>1, <2>2
      <4>2. t \ {y} \in SUBSET S
        BY <3>2 DEF Small
      <4> QED BY <4>1, <4>2, <1>2 DEF Sized
    <3>5. SizeOf(ms, s) = ms[y].size + SizeOf(ms, u)
      <4> DEFINE rest == SizeOf(ms, t \ {y})
      <4>1. SizeOf(ms, u \ {c}) = rest
        BY <3>1, Zenon
      <4>2. SizeOf(ms, t) = ms[y].size + rest /\ SizeOf(ms, u) = ms[c].size + rest /\ rest \in Nat
        BY <4>1, <3>3, <3>4
      <4> HIDE DEF rest
      <4> QED BY <4>2, <2>3, <3>4
    <3> QED BY <3>5 DEF u
  <2> QED BY <2>4, <2>5
<1>5. N = Nat
  <2> HIDE DEF N
  <2>1. N \in SUBSET Nat
    BY DEF N
  <2> QED BY <1>3, <1>4, <2>1, SetInduction
<1>6. S \in Small(S, Cardinality(S))
  BY <1>1 DEF Small
<1> QED BY <1>1, <1>5, <1>6

\* Fewer messages are no larger.
LEMMA SizeOfMonotone ==
  ASSUME NEW ms, NEW S, IsFiniteSet(S), Sized(ms, S), NEW T \in SUBSET S
  PROVE  SizeOf(ms, T) <= SizeOf(ms, S)
<1> DEFINE N == {n \in Nat : \A s \in Small(S, n) : T \subseteq s => SizeOf(ms, T) <= SizeOf(ms, s)}
<1>1. Cardinality(S) \in Nat
  BY FS_CardinalityType
<1>2. ASSUME NEW s \in SUBSET S
      PROVE  IsFiniteSet(s) /\ Sized(ms, s) /\ Cardinality(s) \in Nat /\ SizeOf(ms, s) \in Nat
  <2>1. IsFiniteSet(s) /\ Sized(ms, s)
    BY FS_Subset DEF Sized
  <2> QED BY <2>1, FS_CardinalityType, SizeOfNat
<1>3. 0 \in N
  <2>1. \A s \in Small(S, 0) : s = {}
    BY SmallestIsEmpty
  <2>2. SizeOf(ms, T) \in Nat
    BY <1>2
  <2>3. ASSUME NEW s \in Small(S, 0), T \subseteq s PROVE SizeOf(ms, T) <= SizeOf(ms, s)
    <3>1. s = {} /\ T = {}
      BY <2>1, <2>3
    <3> QED BY <3>1, <2>2
  <2> QED BY <2>3
<1>4. \A n \in N : n + 1 \in N
  <2> SUFFICES ASSUME NEW n \in N, NEW s \in Small(S, n + 1), T \subseteq s
               PROVE  SizeOf(ms, T) <= SizeOf(ms, s)
    OBVIOUS
  <2>1. s \in SUBSET S /\ Cardinality(s) <= n + 1 /\ n \in Nat
    BY DEF Small
  <2>2. CASE s = T
    BY <2>2, <1>2
  <2>3. CASE s # T
    <3>1. PICK x \in s : x \notin T
      BY <2>3
    <3> DEFINE t == s \ {x}
    <3>2. T \subseteq t /\ t \in SUBSET S
      BY <3>1, <2>1
    <3>3. Cardinality(t) = Cardinality(s) - 1
      BY <2>1, <1>2, FS_RemoveElement
    <3>4. t \in Small(S, n)
      <4>1. Cardinality(t) <= n
        BY <3>3, <2>1, <1>2
      <4> QED BY <4>1, <3>2 DEF Small
    <3>5. SizeOf(ms, s) = ms[x].size + SizeOf(ms, t)
      BY <2>1, <1>2, SizeOfRemove
    <3> HIDE DEF t
    <3>6. SizeOf(ms, T) <= SizeOf(ms, t)
      BY <3>2, <3>4
    <3>7. ms[x].size \in Nat /\ SizeOf(ms, t) \in Nat /\ SizeOf(ms, T) \in Nat
      BY <1>2, <2>1, <3>2 DEF Sized
    <3> QED BY <3>5, <3>6, <3>7
  <2> QED BY <2>2, <2>3
<1>5. N = Nat
  <2> HIDE DEF N
  <2>1. N \in SUBSET Nat
    BY DEF N
  <2> QED BY <1>3, <1>4, <2>1, SetInduction
<1>6. S \in Small(S, Cardinality(S))
  BY <1>1 DEF Small
<1> QED BY <1>1, <1>5, <1>6
\* A nonempty set of positions has a greatest one.
LEMMA MaxProperties ==
  ASSUME NEW n \in Nat, NEW S \in SUBSET (0..n), S # {}
  PROVE  Max(S) \in S /\ \A i \in S : i <= Max(S)
<1> DEFINE Above(i) == {j \in S : j > i}
           T == {Above(i) : i \in S}
<1>0. S \subseteq Int
  OBVIOUS
<1>1. IsFiniteSet(S)
  <2>1. IsFiniteSet(0..n)
    <3>1. 0 \in Int /\ n \in Int
      OBVIOUS
    <3> QED BY ONLY <3>1, FS_Interval
  <2> QED BY ONLY <2>1, S \in SUBSET (0..n), FS_Subset
<1>2. \A i \in S : Above(i) \in FiniteSubsetsOf(S)
  <2> TAKE i \in S
  <2>1. Above(i) \in SUBSET S
    OBVIOUS
  <2> HIDE DEF Above
  <2>2. IsFiniteSet(Above(i))
    BY <1>1, <2>1, FS_Subset
  <2> QED BY <2>1, <2>2 DEF FiniteSubsetsOf
<1>3. T \subseteq FiniteSubsetsOf(S) /\ T # {}
  <2> HIDE DEF Above
  <2> QED BY <1>2
<1>4. PICK t \in T : \A u \in T : ~(<<u, t>> \in StrictSubsetOrdering(S))
  <2> HIDE DEF T
  <2> QED BY <1>3, FS_StrictSubsetOrderingWellFounded, WFMin
<1>5. PICK i \in S : t = Above(i)
  OBVIOUS
<1>6. ASSUME NEW j \in S, j > i
      PROVE  FALSE
  <2>1. Above(j) \subseteq Above(i) /\ j \in Above(i) /\ j \notin Above(j)
    <3>1. \A k \in S : k > j => k > i
      BY <1>0, <1>6
    <3>2. ~(j > j)
      BY <1>0
    <3> QED BY <3>1, <3>2, <1>6, Zenon
  <2>2. Above(i) \in SUBSET S /\ Above(j) \in SUBSET S /\ Above(j) \in T
    OBVIOUS
  <2> HIDE DEF Above
  <2> QED BY <2>1, <2>2, <1>4, <1>5 DEF StrictSubsetOrdering
<1>7. \A j \in S : i >= j
  BY <1>6
<1>8. Max(S) \in S /\ \A j \in S : Max(S) >= j
  BY <1>7 DEF Max
<1> QED BY <1>8

\* The last user message of a conversation that has one is a user message.
LEMMA LastUserIsUser ==
  ASSUME NEW ms \in Seq(Message), HasUser(ms)
  PROVE  LastUser(ms) \in Positions(ms) /\ ms[LastUser(ms)].role = "user"
<1>1. HasRole(ms, "user") \in SUBSET (0..Len(ms)) /\ Len(ms) \in Nat
  BY DEF HasRole, Positions
<1>2. Max(HasRole(ms, "user")) \in HasRole(ms, "user")
  BY <1>1, MaxProperties DEF HasUser
<1> QED BY <1>2 DEF LastUser, HasUser, HasRole, Positions

\* A union of classes separates no call from its result.
LEMMA ClassesAreClosed ==
  ASSUME NEW ms \in Seq(Message), NEW C \in SUBSET Groups(ms),
         NEW i \in Positions(ms), NEW j \in Positions(ms), Linked(ms, i, j)
  PROVE  i \in UNION C <=> j \in UNION C
<1> DEFINE closed == {S \in SUBSET Exchanged(ms) : Closed(ms, S)}
           Class(k) == {p \in Exchanged(ms) : \A S \in closed : k \in S => p \in S}
<1>1. \A S \in closed : i \in S <=> j \in S
  BY DEF Closed, Linked, HasRole
<1>2. i \in Exchanged(ms) /\ j \in Exchanged(ms)
  BY DEF Linked, HasRole, Exchanged
<1>3. \A k \in Exchanged(ms) : i \in Class(k) <=> j \in Class(k)
  <2> HIDE DEF closed
  <2> QED BY <1>1, <1>2
<1>4. \A g \in C : \/ \E k \in Exchanged(ms) : g = Class(k)
                   \/ \E k \in Positions(ms) \ Exchanged(ms) : g = {k}
  BY DEF Groups
<1>5. \A g \in C : i \in g <=> j \in g
  <2> HIDE DEF closed, Class
  <2> QED BY <1>2, <1>3, <1>4
<1> QED
  BY <1>5

\* A class holds positions of the conversation.
LEMMA GroupsAreOfPositions ==
  ASSUME NEW ms \in Seq(Message), NEW C \in SUBSET Groups(ms)
  PROVE  UNION C \subseteq Positions(ms)
<1>1. Exchanged(ms) \subseteq Positions(ms)
  BY DEF Exchanged, HasRole
<1>2. \A g \in Groups(ms) : g \subseteq Positions(ms)
  <2> SUFFICES ASSUME NEW g \in Groups(ms) PROVE g \subseteq Positions(ms)
    OBVIOUS
  <2>1. g \subseteq Exchanged(ms) \/ \E k \in Positions(ms) : g = {k}
    BY DEF Groups
  <2> QED BY <1>1, <2>1
<1> QED BY <1>2

\* A sequence has as many positions as it is long.
LEMMA PositionsAreFinite ==
  ASSUME NEW ms \in Seq(Message)
  PROVE  IsFiniteSet(Positions(ms)) /\ Cardinality(Positions(ms)) = Len(ms)
<1>1. Len(ms) \in Nat
  OBVIOUS
<1> DEFINE n == Len(ms)
<1>2. IsFiniteSet(1..n) /\ Cardinality(1..n) = IF 1 > n THEN 0 ELSE n - 1 + 1
  <2> HIDE DEF n
  <2> QED BY SMTT(30), <1>1, FS_Interval DEF n
<1> QED BY <1>1, <1>2 DEF Positions

\* One capping keeps system messages and the current turn, adds nothing, and
\* splits no exchange.
LEMMA CapHistoryKeeps ==
  ASSUME NEW ms \in Seq(Message), NEW budget, HasUser(ms)
  PROVE  /\ CapHistory(ms, budget) \subseteq Positions(ms)
         /\ HasRole(ms, "system") \subseteq CapHistory(ms, budget)
         /\ LastUser(ms) \in CapHistory(ms, budget)
         /\ Closed(ms, CapHistory(ms, budget))
<1> DEFINE K == KeptGroups(ms, budget)
           kept1 == HasRole(ms, "system") \cup {LastUser(ms)} \cup UNION K
<1>1. LastUser(ms) \in Positions(ms) /\ ms[LastUser(ms)].role = "user"
  BY LastUserIsUser
<1>2. HasRole(ms, "system") \subseteq Positions(ms)
  BY DEF HasRole
<1>3. K \in SUBSET Groups(ms)
  BY DEF KeptGroups, Candidates
<1>4. UNION K \subseteq Positions(ms)
  BY <1>3, GroupsAreOfPositions
<1>5. Closed(ms, Positions(ms))
  BY DEF Closed, HasRole
<1>6. Closed(ms, kept1)
  <2> SUFFICES ASSUME NEW j \in HasRole(ms, "tool"), NEW i \in HasRole(ms, "assistant"),
                      Linked(ms, i, j)
               PROVE  i \in kept1 <=> j \in kept1
    BY DEF Closed
  <2>1. i \in Positions(ms) /\ j \in Positions(ms)
        /\ ms[i].role = "assistant" /\ ms[j].role = "tool"
    BY DEF HasRole
  <2>2. i \in UNION K <=> j \in UNION K
    <3> HIDE DEF K
    <3> QED BY <2>1, <1>3, ClassesAreClosed
  <2>3. i \notin HasRole(ms, "system") /\ j \notin HasRole(ms, "system")
    BY <2>1 DEF HasRole
  <2>4. i # LastUser(ms) /\ j # LastUser(ms)
    BY <2>1, <1>1
  <2> QED BY <2>2, <2>3, <2>4
<1>7. CapHistory(ms, budget) = Positions(ms) \/ CapHistory(ms, budget) = kept1
  BY DEF CapHistory
<1> HIDE DEF K, kept1
<1>8. CASE CapHistory(ms, budget) = Positions(ms)
  BY <1>8, <1>1, <1>2, <1>5
<1>9. CASE CapHistory(ms, budget) = kept1
  BY <1>9, <1>1, <1>2, <1>4, <1>6 DEF kept1
<1> QED BY <1>7, <1>8, <1>9

-----------------------------------------------------------------------------
(* The budget *)

\* Messages have sizes, whichever of them are taken.
LEMMA MessagesAreSized ==
  ASSUME NEW ms \in Seq(Message), NEW S \in SUBSET Positions(ms)
  PROVE  IsFiniteSet(S) /\ Sized(ms, S) /\ SizeOf(ms, S) \in Nat
<1>1. IsFiniteSet(S)
  BY PositionsAreFinite, FS_Subset
<1>2. Sized(ms, S)
  <2> SUFFICES ASSUME NEW i \in S PROVE ms[i].size \in Nat
    BY DEF Sized
  <2>1. ms[i] \in Message
    BY DEF Positions
  <2> QED BY <2>1 DEF Message
<1> QED BY <1>1, <1>2, SizeOfNat

\* Fewer messages are no larger.
LEMMA FewerFit ==
  ASSUME NEW ms \in Seq(Message), NEW S \in SUBSET Positions(ms), NEW T \in SUBSET S
  PROVE  SizeOf(ms, T) <= SizeOf(ms, S)
BY MessagesAreSized, SizeOfMonotone

\* The larger of two integers.
LEMMA LargerOfTwo ==
  ASSUME NEW a \in Int, NEW b \in Int
  PROVE  Max({a, b}) = IF a >= b THEN a ELSE b
<1> DEFINE m == IF a >= b THEN a ELSE b
<1>1. m \in {a, b} /\ \A y \in {a, b} : m >= y
  OBVIOUS
<1>2. \A x \in {a, b} : (\A y \in {a, b} : x >= y) => x = m
  OBVIOUS
<1> HIDE DEF m
<1>3. Max({a, b}) = m
  BY <1>1, <1>2 DEF Max
<1> QED BY <1>3 DEF m

\* A budget is a natural number.
LEMMA BudgetIsNatural ==
  ASSUME NEW s \in Setting
  PROVE  Budget(s) \in Nat
<1> USE HistoryCapAssumption
<1> DEFINE window == IF s.window > 0 THEN s.window ELSE DefaultWindow
           generation == IF s.generation > 0 THEN s.generation ELSE DefaultGeneration
           left == window - generation - Reserve
<1>1. left \in Int /\ s.override \in Nat
  BY DEF Setting
<1>2. Budget(s) = IF s.override > 0 THEN s.override
                  ELSE IF ~s.resolved THEN NoBudget ELSE Max({NoBudget, left})
  BY DEF Budget
<1> HIDE DEF left
<1>3. Max({NoBudget, left}) \in Nat
  <2>1. NoBudget \in Int
    BY DEF NoBudget
  <2>2. Max({NoBudget, left}) = IF NoBudget >= left THEN NoBudget ELSE left
    BY <1>1, <2>1, LargerOfTwo
  <2> QED BY <1>1, <2>2 DEF NoBudget
<1> QED BY <1>1, <1>2, <1>3 DEF NoBudget

\* A class is not empty, and lies in the conversation.
LEMMA GroupIsOfPositions ==
  ASSUME NEW ms \in Seq(Message), NEW g \in Groups(ms)
  PROVE  /\ g # {} /\ g \in SUBSET Positions(ms)
         /\ Max(g) \in g /\ Max(g) \in Nat /\ \A i \in g : i <= Max(g)
<1>1. g \subseteq Positions(ms)
  <2>1. {g} \in SUBSET Groups(ms)
    OBVIOUS
  <2>2. UNION {g} \subseteq Positions(ms)
    BY <2>1, GroupsAreOfPositions
  <2> QED BY <2>2
<1>2. g # {}
  <2> DEFINE closed == {S \in SUBSET Exchanged(ms) : Closed(ms, S)}
             Class(k) == {p \in Exchanged(ms) : \A S \in closed : k \in S => p \in S}
  <2>1. \/ \E k \in Exchanged(ms) : g = Class(k)
        \/ \E k \in Positions(ms) \ Exchanged(ms) : g = {k}
    BY DEF Groups
  <2>2. \A k \in Exchanged(ms) : k \in Class(k)
    OBVIOUS
  <2> HIDE DEF Class
  <2> QED BY <2>1, <2>2
<1>3. g \in SUBSET (0..Len(ms)) /\ Len(ms) \in Nat
  BY <1>1 DEF Positions
<1>4. Max(g) \in g /\ \A i \in g : i <= Max(g)
  BY <1>2, <1>3, MaxProperties
<1>5. Max(g) \in Nat
  <2>1. Max(g) \in 0..Len(ms)
    BY <1>3, <1>4, Zenon
  <2> QED BY <2>1
<1> QED BY <1>1, <1>2, <1>4, <1>5

\* What the walk keeps fits the budget.
LEMMA KeptGroupsFit ==
  ASSUME NEW ms \in Seq(Message), NEW budget \in Nat
  PROVE  SizeOf(ms, UNION KeptGroups(ms, budget)) <= budget
<1> DEFINE K == KeptGroups(ms, budget)
<1>0. K \in SUBSET Candidates(ms) /\ Candidates(ms) \in SUBSET Groups(ms)
  BY DEF KeptGroups, Candidates
<1>1. CASE K = {}
  <2>1. UNION K = {}
    BY <1>1
  <2>2. SizeOf(ms, UNION K) = 0
    BY <2>1, SizeOfEmpty, Zenon
  <2> QED BY <2>2
<1>2. CASE K # {}
  <2> DEFINE M == {Max(g) : g \in K}
  <2> HIDE DEF K
  <2>1. M \in SUBSET Nat /\ M # {}
    BY <1>0, <1>2, GroupIsOfPositions
  <2>2. PICK n \in M : \A m \in M : n <= m
    <3> HIDE DEF M
    <3> QED BY <2>1, LeastNatural
  <2>3. PICK g \in K : n = Max(g)
    OBVIOUS
  <2> DEFINE newer == {h \in Candidates(ms) : Max(h) >= Max(g)}
  <2>4. SizeOf(ms, UNION newer) <= budget
    BY <2>3 DEF K, KeptGroups
  <2>5. \A h \in K : Max(h) >= Max(g)
    <3> SUFFICES ASSUME NEW h \in K PROVE Max(h) >= Max(g)
      OBVIOUS
    <3>1. Max(g) <= Max(h)
      BY <2>2, <2>3
    <3>2. Max(g) \in Nat /\ Max(h) \in Nat
      BY <1>0, GroupIsOfPositions
    <3> QED BY <3>1, <3>2
  <2>6. UNION K \subseteq UNION newer
    BY <1>0, <2>5
  <2>7. UNION newer \subseteq Positions(ms)
    <3>1. newer \in SUBSET Groups(ms)
      BY <1>0
    <3> HIDE DEF newer
    <3> QED BY <3>1, GroupsAreOfPositions
  <2> HIDE DEF newer
  <2>8. SizeOf(ms, UNION K) <= SizeOf(ms, UNION newer)
    BY <2>6, <2>7, FewerFit
  <2>9. SizeOf(ms, UNION K) \in Nat /\ SizeOf(ms, UNION newer) \in Nat
    BY <2>6, <2>7, MessagesAreSized
  <2> QED BY <2>4, <2>8, <2>9 DEF K
<1> QED BY <1>1, <1>2

\* A position that is counted is in a candidate.
LEMMA CountedIsCandidate ==
  ASSUME NEW ms \in Seq(Message), NEW i \in Counted(ms)
  PROVE  \E g \in Candidates(ms) : i \in g
<1> DEFINE closed == {S \in SUBSET Exchanged(ms) : Closed(ms, S)}
           Class(k) == {p \in Exchanged(ms) : \A S \in closed : k \in S => p \in S}
<1>1. i \in Positions(ms) /\ i \notin HasRole(ms, "system") /\ i # LastUser(ms)
  BY DEF Counted
<1>2. \E g \in Groups(ms) : i \in g
  <2>1. CASE i \in Exchanged(ms)
    <3>1. i \in Class(i)
      BY <2>1
    <3>2. Class(i) \in Groups(ms)
      BY <2>1 DEF Groups
    <3> QED BY <3>1, <3>2
  <2>2. CASE i \notin Exchanged(ms)
    BY <1>1, <2>2 DEF Groups
  <2> QED BY <2>1, <2>2
<1> QED BY <1>1, <1>2 DEF Candidates

\* The last user message of a conversation without one is the position before
\* the trailing assistants, if any.
LEMMA LastUserIsInRange ==
  ASSUME NEW ms \in Seq(Message)
  PROVE  /\ LastUser(ms) \in 0..Len(ms)
         /\ ~HasUser(ms) => \A i \in Positions(ms) : i > LastUser(ms) => ms[i].role = "assistant"
<1>1. CASE HasUser(ms)
  BY <1>1, LastUserIsUser DEF Positions
<1>2. CASE ~HasUser(ms)
  <2> DEFINE S == {0} \cup (Positions(ms) \ HasRole(ms, "assistant"))
  <2>1. S \in SUBSET (0..Len(ms)) /\ S # {} /\ Len(ms) \in Nat
    BY DEF Positions
  <2>2. LastUser(ms) = Max(S)
    BY <1>2 DEF LastUser, HasUser
  <2> HIDE DEF S
  <2>3. Max(S) \in S /\ \A i \in S : i <= Max(S)
    BY <2>1, MaxProperties
  <2>4. ASSUME NEW i \in Positions(ms), i > LastUser(ms) PROVE ms[i].role = "assistant"
    <3>1. ~(i <= Max(S))
      <4>1. Max(S) \in 0..Len(ms)
        BY <2>1, <2>3, Zenon
      <4>2. i \in Nat
        BY DEF Positions
      <4> QED BY <4>1, <4>2, <2>2, <2>4
    <3>2. i \notin S
      BY <3>1, <2>3
    <3> QED BY <3>2 DEF S, HasRole
  <2>5. LastUser(ms) \in 0..Len(ms)
    BY <2>1, <2>2, <2>3, Zenon
  <2> QED BY <2>4, <2>5
<1> QED BY <1>1, <1>2

\* What a capping forwards beyond system messages and the current turn fits.
LEMMA CapHistoryFits ==
  ASSUME NEW ms \in Seq(Message), NEW budget \in Nat
  PROVE  /\ CapHistory(ms, budget) \subseteq 0..Len(ms)
         /\ SizeOf(ms, (CapHistory(ms, budget) \ {0}) \cap Counted(ms)) <= budget
<1> DEFINE kept1 == (CapHistory(ms, budget) \ {0}) \cap Counted(ms)
           U == UNION KeptGroups(ms, budget)
<1>1. U \subseteq Positions(ms)
  <2>1. KeptGroups(ms, budget) \in SUBSET Groups(ms)
    BY DEF KeptGroups, Candidates
  <2> QED BY <2>1, GroupsAreOfPositions
<1>2. Counted(ms) \in SUBSET Positions(ms)
  BY DEF Counted
<1>3. LastUser(ms) \in 0..Len(ms) /\ Positions(ms) \subseteq 0..Len(ms)
        /\ HasRole(ms, "system") \subseteq 0..Len(ms)
  BY LastUserIsInRange DEF Positions, HasRole
<1>4. CASE CapHistory(ms, budget) = HasRole(ms, "system") \cup {LastUser(ms)} \cup U
  <2>1. kept1 \subseteq U
    BY <1>4 DEF Counted
  <2>2. SizeOf(ms, U) <= budget /\ SizeOf(ms, U) \in Nat
    BY KeptGroupsFit, <1>1, MessagesAreSized
  <2> HIDE DEF kept1, U
  <2>3. SizeOf(ms, kept1) <= SizeOf(ms, U) /\ SizeOf(ms, kept1) \in Nat
    BY <2>1, <1>1, FewerFit, MessagesAreSized
  <2>4. SizeOf(ms, kept1) <= budget
    BY <2>2, <2>3
  <2>5. CapHistory(ms, budget) \subseteq 0..Len(ms)
    BY <1>1, <1>3, <1>4
  <2> QED BY <2>4, <2>5 DEF kept1
<1>5. CASE /\ CapHistory(ms, budget) = Positions(ms)
           /\ \/ Positions(ms) \subseteq HasRole(ms, "system")
              \/ Candidates(ms) = {}
              \/ Fits(ms, budget)
  <2>1. kept1 \subseteq Counted(ms)
    OBVIOUS
  <2>2. SizeOf(ms, Counted(ms)) <= budget
    <3>1. CASE Fits(ms, budget)
      BY <3>1 DEF Fits
    <3>2. CASE Counted(ms) = {}
      BY <3>2, SizeOfEmpty
    <3>3. CASE Positions(ms) \subseteq HasRole(ms, "system")
      BY <3>2, <3>3 DEF Counted
    <3>4. CASE Candidates(ms) = {}
      BY <3>2, <3>4, CountedIsCandidate
    <3> QED BY <1>5, <3>1, <3>3, <3>4
  <2> HIDE DEF kept1
  <2>3. SizeOf(ms, kept1) <= SizeOf(ms, Counted(ms))
    BY <2>1, <1>2, FewerFit
  <2>4. SizeOf(ms, kept1) \in Nat /\ SizeOf(ms, Counted(ms)) \in Nat
    BY <2>1, <1>2, MessagesAreSized
  <2>5. SizeOf(ms, kept1) <= budget
    BY <2>2, <2>3, <2>4
  <2> QED BY <2>5, <1>3, <1>5 DEF kept1
<1> QED BY <1>4, <1>5 DEF CapHistory

\* A set that separates no call from its result separates no class.
LEMMA ClosedSetsKeepClasses ==
  ASSUME NEW ms \in Seq(Message), NEW S \in SUBSET Positions(ms), Closed(ms, S),
         NEW g \in Groups(ms)
  PROVE  g \subseteq S \/ g \cap S = {}
<1> DEFINE closed == {T \in SUBSET Exchanged(ms) : Closed(ms, T)}
           Class(k) == {p \in Exchanged(ms) : \A T \in closed : k \in T => p \in T}
           within == S \cap Exchanged(ms)
           without == Exchanged(ms) \ S
<1>1. within \in closed /\ without \in closed
  BY DEF Closed, Exchanged
<1>2. \A k \in Exchanged(ms) : Class(k) \subseteq within \/ Class(k) \subseteq without
  <2> SUFFICES ASSUME NEW k \in Exchanged(ms)
               PROVE  Class(k) \subseteq within \/ Class(k) \subseteq without
    OBVIOUS
  <2>1. k \in within \/ k \in without
    OBVIOUS
  <2> HIDE DEF closed, within, without
  <2> QED BY <1>1, <2>1
<1>3. \/ \E k \in Exchanged(ms) : g = Class(k)
      \/ \E k \in Positions(ms) \ Exchanged(ms) : g = {k}
  BY DEF Groups
<1> HIDE DEF Class
<1> QED BY <1>2, <1>3

\* Candidates hold no system message and no user message that is protected.
LEMMA CandidatesAreCounted ==
  ASSUME NEW ms \in Seq(Message), HasUser(ms), NEW C \in SUBSET Candidates(ms)
  PROVE  UNION C \subseteq Counted(ms)
<1>1. LastUser(ms) \notin Exchanged(ms) /\ Exchanged(ms) \subseteq Positions(ms)
  BY LastUserIsUser DEF Exchanged, HasRole
<1>2. \A i \in Exchanged(ms) : i \notin HasRole(ms, "system")
  BY DEF Exchanged, HasRole
<1>3. Exchanged(ms) \subseteq Counted(ms)
  BY <1>1, <1>2 DEF Counted
<1>4. ASSUME NEW g \in C PROVE g \subseteq Counted(ms)
  <2>1. /\ \E i \in g : i \notin HasRole(ms, "system") /\ i # LastUser(ms)
        /\ g \subseteq Exchanged(ms) \/ \E k \in Positions(ms) : g = {k}
    BY DEF Candidates, Groups
  <2> QED BY <2>1, <1>3 DEF Counted
<1> QED BY <1>4

\* The newest messages are kept as far back as they fit and split nothing.
LEMMA CapHistoryKeepsNewest ==
  ASSUME NEW ms \in Seq(Message), NEW budget \in Nat, HasUser(ms), NEW k \in Positions(ms),
         Closed(ms, Suffix(ms, k)), SizeOf(ms, Suffix(ms, k) \cap Counted(ms)) <= budget
  PROVE  Suffix(ms, k) \subseteq CapHistory(ms, budget)
<1> DEFINE suffix == Suffix(ms, k)
<1>1. suffix \in SUBSET Positions(ms)
  BY DEF Suffix, Positions
<1>2. CASE CapHistory(ms, budget) = Positions(ms)
  BY <1>1, <1>2
<1>3. CASE CapHistory(ms, budget) =
             HasRole(ms, "system") \cup {LastUser(ms)} \cup UNION KeptGroups(ms, budget)
  <2> SUFFICES ASSUME NEW i \in suffix, i \in Counted(ms)
               PROVE  i \in UNION KeptGroups(ms, budget)
    BY <1>1, <1>3 DEF Counted
  <2>1. PICK g \in Candidates(ms) : i \in g
    BY CountedIsCandidate
  <2> DEFINE newer == {h \in Candidates(ms) : Max(h) >= Max(g)}
  <2>2. newer \in SUBSET Candidates(ms) /\ Candidates(ms) \subseteq Groups(ms)
    BY DEF Candidates
  <2>3. g \subseteq suffix
    <3> HIDE DEF suffix
    <3>1. Closed(ms, suffix)
      BY DEF suffix
    <3> QED BY <1>1, <2>1, <2>2, <3>1, ClosedSetsKeepClasses
  <2>4. ASSUME NEW h \in newer PROVE h \subseteq suffix
    <3>1. Max(g) \in suffix /\ Max(h) \in h /\ Max(h) >= Max(g) /\ Max(h) \in Positions(ms)
      BY <2>2, <2>3, GroupIsOfPositions
    <3>2. Max(h) \in suffix
      BY <3>1 DEF Suffix, Positions
    <3> HIDE DEF suffix
    <3>3. Closed(ms, suffix)
      BY DEF suffix
    <3> QED BY <1>1, <2>2, <3>1, <3>2, <3>3, ClosedSetsKeepClasses
  <2>5. UNION newer \subseteq suffix \cap Counted(ms)
    <3>1. UNION newer \subseteq Counted(ms)
      <4> HIDE DEF newer
      <4> QED BY <2>2, CandidatesAreCounted
    <3> QED BY <2>4, <3>1
  <2>6. SizeOf(ms, UNION newer) <= budget
    <3> DEFINE S == suffix \cap Counted(ms)
    <3>1. SizeOf(ms, S) <= budget
      OBVIOUS
    <3> HIDE DEF newer, suffix
    <3>2. S \in SUBSET Positions(ms) /\ UNION newer \in SUBSET S
      BY <1>1, <2>5
    <3> HIDE DEF S
    <3>3. SizeOf(ms, UNION newer) <= SizeOf(ms, S)
      BY <3>2, FewerFit
    <3>4. SizeOf(ms, UNION newer) \in Nat /\ SizeOf(ms, S) \in Nat
      BY <3>2, MessagesAreSized
    <3> QED BY <3>1, <3>3, <3>4
  <2>7. g \in KeptGroups(ms, budget)
    BY <2>6 DEF KeptGroups
  <2> QED BY <2>1, <2>7
<1> QED BY <1>2, <1>3 DEF CapHistory

\* The count of what was dropped is never negative, not even where the current
\* turn is no message at all.
LEMMA CapHistoryAddsNothing ==
  ASSUME NEW ms \in Seq(Message), NEW budget \in Nat
  PROVE  /\ IsFiniteSet(CapHistory(ms, budget))
         /\ Len(ms) - Cardinality(CapHistory(ms, budget)) \in Nat
<1> DEFINE C == CapHistory(ms, budget)
           P == Positions(ms)
<1>1. IsFiniteSet(P) /\ Cardinality(P) = Len(ms) /\ Len(ms) \in Nat
  BY PositionsAreFinite
<1>2. ASSUME NEW S \in SUBSET P
      PROVE  IsFiniteSet(S) /\ Cardinality(S) \in Nat /\ Cardinality(S) <= Len(ms)
             /\ (S # P => Cardinality(S) < Len(ms))
  <2> HIDE DEF P
  <2> QED BY <1>1, FS_Subset, FS_CardinalityType
<1>3. CASE C \subseteq P
  <2> HIDE DEF C, P
  <2>1. IsFiniteSet(C) /\ Cardinality(C) \in Nat /\ Cardinality(C) <= Len(ms)
    BY <1>2, <1>3
  <2> QED BY <1>1, <2>1 DEF C
<1>4. CASE ~(C \subseteq P)
  <2> DEFINE U == UNION KeptGroups(ms, budget)
  <2>1. U \subseteq P
    <3>1. KeptGroups(ms, budget) \in SUBSET Groups(ms)
      BY DEF KeptGroups, Candidates
    <3> QED BY <3>1, GroupsAreOfPositions
  <2>2. C = HasRole(ms, "system") \cup {LastUser(ms)} \cup U /\ ~Fits(ms, budget)
    BY <1>4 DEF CapHistory
  <2>3. HasRole(ms, "system") \subseteq P
    BY DEF HasRole
  <2>4. LastUser(ms) = 0 /\ ~HasUser(ms)
    <3>1. LastUser(ms) \notin P
      BY <1>4, <2>1, <2>2, <2>3
    <3>2. LastUser(ms) \in 0..Len(ms)
      BY LastUserIsInRange
    <3>3. ~HasUser(ms)
      BY <3>1, LastUserIsUser
    <3> QED BY <3>1, <3>2, <3>3, <1>1 DEF Positions
  <2>5. \A i \in P : ms[i].role = "assistant"
    <3>1. \A i \in P : i > 0
      BY DEF Positions
    <3> QED BY <2>4, <3>1, LastUserIsInRange
  <2>6. HasRole(ms, "system") = {} /\ Counted(ms) = P
    <3>1. 0 \notin P
      BY DEF Positions
    <3> QED BY <2>4, <2>5, <3>1 DEF HasRole, Counted
  <2>7. U # P
    <3>1. SizeOf(ms, U) <= budget
      BY KeptGroupsFit
    <3>2. ~(SizeOf(ms, P) <= budget)
      BY <2>2, <2>6 DEF Fits
    <3> QED BY <3>1, <3>2, Zenon
  <2>8. C = U \cup {0}
    BY <2>2, <2>4, <2>6
  <2> HIDE DEF C, U, P
  <2>9. IsFiniteSet(U) /\ Cardinality(U) \in Nat /\ Cardinality(U) < Len(ms) /\ 0 \notin U
    BY <1>2, <2>1, <2>7 DEF P, Positions
  <2>10. IsFiniteSet(C) /\ Cardinality(C) = Cardinality(U) + 1
    BY <2>8, <2>9, FS_AddElement
  <2> QED BY <1>1, <2>9, <2>10 DEF C
<1> QED BY <1>3, <1>4

-----------------------------------------------------------------------------
\* The conversation, as far as the properties below need its type.
Shape ==
    /\ messages \in Seq(Message)
    /\ asked \in 0..Len(messages)

\* The shape holds at the start.
LEMMA InitialShape == Init => Shape
<1> SUFFICES ASSUME Init PROVE Shape
  OBVIOUS
<1> QED BY DEF Init, Shape

\* Every step keeps it.
LEMMA ShapeKept == Shape /\ [Next]_vars => Shape'
<1> USE HistoryCapAssumption
<1> SUFFICES ASSUME Shape, [Next]_vars PROVE Shape'
  OBVIOUS
<1>1. CASE Say
  BY <1>1 DEF Say, Shape
<1>2. CASE Request
  BY <1>2 DEF Request, Shape
<1>3. CASE UNCHANGED vars
  BY <1>3 DEF vars, Shape
<1> QED BY <1>1, <1>2, <1>3 DEF Next

\* What the last request carried does not change while the client goes on.
LEMMA SayKeepsSent ==
  ASSUME Shape, Say
  PROVE  Sent' = Sent
<1> USE HistoryCapAssumption
<1>1. PICK m \in Alphabet : messages' = Append(messages, m)
  BY DEF Say
<1>2. \A i \in 1..asked : messages'[i] = messages[i]
  BY <1>1 DEF Shape
<1>3. asked' = asked /\ Len(messages') = Len(messages) + 1
  BY <1>1 DEF Say, Shape
<1> QED BY <1>1, <1>2, <1>3 DEF Sent, Shape, Say

\* A request sends what the client has, all of it.
LEMMA RequestSendsAll ==
  ASSUME Shape, Request
  PROVE  Sent' = messages
BY DEF Sent, Shape, Request

\* What a request forwards, whatever its budget.
LEMMA RequestKeeps ==
  ASSUME Shape, Request, HasUser(messages)
  PROVE  /\ kept' \subseteq Positions(messages)
         /\ HasRole(messages, "system") \subseteq kept'
         /\ LastUser(messages) \in kept'
         /\ Closed(messages, kept')
         /\ dropped' = Len(messages) - Cardinality(kept')
<1>1. messages \in Seq(Message)
  BY DEF Shape
<1>2. CASE Budget(setting) = NoBudget
  <2>1. kept' = Positions(messages) /\ dropped' = 0
    BY <1>2 DEF Request
  <2>2. Closed(messages, Positions(messages)) /\ HasRole(messages, "system") \subseteq Positions(messages)
    BY DEF Closed, HasRole
  <2>3. Cardinality(Positions(messages)) = Len(messages)
    BY <1>1, PositionsAreFinite
  <2>4. LastUser(messages) \in Positions(messages)
    BY <1>1, LastUserIsUser
  <2> QED BY <2>1, <2>2, <2>3, <2>4, <1>1
<1>3. CASE Budget(setting) # NoBudget
  <2>1. /\ kept' = CapHistory(messages, Budget(setting))
        /\ dropped' = Len(messages) - Cardinality(kept')
    BY <1>3 DEF Request
  <2> QED BY <2>1, <1>1, CapHistoryKeeps
<1> QED BY <1>2, <1>3

-----------------------------------------------------------------------------
\* Rule 4 holds in every conversation with a user message, for every alphabet,
\* every budget and identifiers used again in any way.
THEOREM ExchangesStayWhole == Spec => []CallsTravelWithResults
<1>1. Init => CallsTravelWithResults
  BY DEF Init, CallsTravelWithResults, HasUser, HasRole, Positions, Sent
<1>2. Shape /\ CallsTravelWithResults /\ [Next]_vars => CallsTravelWithResults'
  <2> SUFFICES ASSUME Shape, CallsTravelWithResults, [Next]_vars
               PROVE  CallsTravelWithResults'
    OBVIOUS
  <2>1. CASE Say
    BY <2>1, SayKeepsSent DEF Say, CallsTravelWithResults
  <2>2. CASE Request
    BY <2>2, RequestSendsAll, RequestKeeps DEF CallsTravelWithResults
  <2>3. CASE UNCHANGED vars
    BY <2>3 DEF vars, CallsTravelWithResults, Sent
  <2> QED BY <2>1, <2>2, <2>3 DEF Next
<1> QED BY <1>1, <1>2, InitialShape, ShapeKept, PTL DEF Spec

\* Rules 1 and 2, and the count of what was dropped, for every conversation.
THEOREM TurnSurvives == Spec => []TurnIsKept
<1>1. Init => TurnIsKept
  BY DEF Init, TurnIsKept, HasUser, HasRole, Positions, Sent
<1>2. Shape /\ TurnIsKept /\ [Next]_vars => TurnIsKept'
  <2> SUFFICES ASSUME Shape, TurnIsKept, [Next]_vars
               PROVE  TurnIsKept'
    OBVIOUS
  <2>1. CASE Say
    BY <2>1, SayKeepsSent DEF Say, TurnIsKept
  <2>2. CASE Request
    <3>1. Sent' = messages /\ Len(messages) \in Nat
      BY <2>2, RequestSendsAll DEF Shape
    <3>2. HasRole(messages, "system") \subseteq kept'
      BY <2>2 DEF Request, CapHistory, HasRole
    <3>3. ASSUME HasUser(messages)
          PROVE  LastUser(messages) \in kept' /\ dropped' = Cardinality(Positions(messages) \ kept')
      <4>1. /\ kept' \subseteq Positions(messages)
            /\ LastUser(messages) \in kept'
            /\ dropped' = Len(messages) - Cardinality(kept')
        BY <3>3, <2>2, RequestKeeps
      <4>2. IsFiniteSet(Positions(messages)) /\ Cardinality(Positions(messages)) = Len(messages)
        BY PositionsAreFinite DEF Shape
      <4> DEFINE P == Positions(messages)
                 K == kept'
      <4>3. P \cap K = K
        BY <4>1
      <4>4. Cardinality(P \ K) = Cardinality(P) - Cardinality(P \cap K)
        <5> HIDE DEF P, K
        <5> QED BY <4>2, FS_Difference DEF P
      <4> QED BY <4>1, <4>2, <4>3, <4>4
    <3> QED BY <3>1, <3>2, <3>3 DEF TurnIsKept
  <2>3. CASE UNCHANGED vars
    BY <2>3 DEF vars, TurnIsKept, Sent
  <2> QED BY <2>1, <2>2, <2>3 DEF Next
<1> QED BY <1>1, <1>2, InitialShape, ShapeKept, PTL DEF Spec

-----------------------------------------------------------------------------
(* The invariant: what the last request forwarded is what its messages call for *)

Forwarded(ms) ==
    IF Budget(setting) = NoBudget THEN Positions(ms) ELSE CapHistory(ms, Budget(setting))

SizeOfCurrent(ms) ==
    CapCurrent(ms, IF Budget(setting) = NoBudget THEN SizeOf(ms, Positions(ms)) ELSE Budget(setting))

CapInv ==
    /\ messages \in Seq(Message)
    /\ setting \in Settings
    /\ asked \in 0..Len(messages)
    /\ kept = Forwarded(Sent)
    /\ dropped = Len(Sent) - Cardinality(kept)
    /\ current = SizeOfCurrent(Sent)

\* What was asked is a beginning of what the client has.
LEMMA SentIsAPrefix ==
  ASSUME messages \in Seq(Message), asked \in 0..Len(messages)
  PROVE  /\ Sent \in Seq(Message) /\ Len(Sent) = asked
         /\ \A i \in 1..asked : Sent[i] = messages[i]
BY DEF Sent

\* The invariant holds at the start.
LEMMA InitialCapInv == Init => CapInv
<1> SUFFICES ASSUME Init PROVE CapInv
  OBVIOUS
<1>1. messages = << >> /\ asked = 0 /\ Sent = << >> /\ Positions(Sent) = {}
  BY DEF Init, Sent, Positions
<1>2. Forwarded(Sent) = {}
  BY <1>1 DEF Forwarded, CapHistory
<1>3. SizeOfCurrent(Sent) = 0
  BY <1>1 DEF SizeOfCurrent, CapCurrent, HasRole
<1>4. Cardinality({}) = 0
  BY FS_EmptySet
<1> QED BY <1>1, <1>2, <1>3, <1>4 DEF Init, CapInv

\* Every step keeps it.
LEMMA CapInvKept == CapInv /\ [Next]_vars => CapInv'
<1> USE HistoryCapAssumption
<1> SUFFICES ASSUME CapInv, [Next]_vars PROVE CapInv'
  OBVIOUS
<1>0. Shape /\ Shape'
  BY ShapeKept DEF CapInv, Shape
<1>1. CASE Say
  <2>1. Sent' = Sent
    BY <1>0, <1>1, SayKeepsSent
  <2>2. setting' = setting /\ kept' = kept /\ dropped' = dropped /\ current' = current
    BY <1>1 DEF Say
  <2> QED BY <1>0, <2>1, <2>2 DEF CapInv, Shape, Forwarded, SizeOfCurrent
<1>2. CASE Request
  <2>1. Sent' = messages /\ setting' = setting
    BY <1>0, <1>2, RequestSendsAll DEF Request
  <2>2. kept' = Forwarded(messages) /\ current' = SizeOfCurrent(messages)
    BY <1>2 DEF Request, Forwarded, SizeOfCurrent
  <2>3. dropped' = Len(messages) - Cardinality(kept')
    <3>1. CASE Budget(setting) = NoBudget
      <4>1. Cardinality(Positions(messages)) = Len(messages) /\ Len(messages) \in Nat
        BY <1>0, PositionsAreFinite DEF Shape
      <4> QED BY <1>2, <3>1, <4>1 DEF Request
    <3>2. CASE Budget(setting) # NoBudget
      BY <1>2, <3>2 DEF Request
    <3> QED BY <3>1, <3>2
  <2> QED BY <1>0, <2>1, <2>2, <2>3 DEF CapInv, Shape, Forwarded, SizeOfCurrent
<1>3. CASE UNCHANGED vars
  BY <1>3 DEF vars, CapInv, Sent, Forwarded, SizeOfCurrent
<1> QED BY <1>1, <1>2, <1>3 DEF Next

\* What the current message may take is a natural number, and no more than the
\* budget and the marker.
LEMMA CurrentIsNatural ==
  ASSUME NEW ms \in Seq(Message), NEW budget \in Nat
  PROVE  /\ CapCurrent(ms, budget) \in Nat
         /\ HasUser(ms) /\ ms[LastUser(ms)].envelope
              => CapCurrent(ms, budget) <= Max({budget, Marker})
<1> USE HistoryCapAssumption
<1>1. CASE ~HasUser(ms)
  BY <1>1 DEF CapCurrent, HasUser
<1>2. CASE HasUser(ms)
  <2> DEFINE m == ms[LastUser(ms)]
  <2>1. m \in Message
    BY <1>2, LastUserIsUser DEF Positions
  <2>2. CapCurrent(ms, budget) = IF m.envelope THEN Truncated(m.size, budget) ELSE m.size
    BY <1>2 DEF CapCurrent, HasUser, LastUser
  <2>3. m.size \in Nat
    BY <2>1 DEF Message
  <2> HIDE DEF m
  <2>4. Max({budget, Marker}) = IF budget >= Marker THEN budget ELSE Marker
    BY LargerOfTwo
  <2> QED BY <1>2, <2>2, <2>3, <2>4 DEF Truncated, m
<1> QED BY <1>1, <1>2

\* The model is typed: what a request forwards are positions of what it carried
\* (or 0), and the count of what it left out is never negative.
THEOREM CapIsTyped == Spec => []TypeOK
<1>1. CapInv => TypeOK
  <2> USE HistoryCapAssumption
  <2> SUFFICES ASSUME CapInv PROVE TypeOK
    OBVIOUS
  <2>1. Sent \in Seq(Message) /\ Len(Sent) = asked /\ Budget(setting) \in Nat
    BY SentIsAPrefix, BudgetIsNatural DEF CapInv
  <2>2. kept \subseteq 0..asked /\ dropped \in Nat
    <3>1. CASE Budget(setting) = NoBudget
      <4>1. kept = Positions(Sent) /\ dropped = Len(Sent) - Cardinality(kept)
        BY <3>1 DEF CapInv, Forwarded
      <4>2. Cardinality(Positions(Sent)) = Len(Sent) /\ Len(Sent) \in Nat
        BY <2>1, PositionsAreFinite
      <4> QED BY <2>1, <4>1, <4>2 DEF Positions
    <3>2. CASE Budget(setting) # NoBudget
      <4>1. kept = CapHistory(Sent, Budget(setting)) /\ dropped = Len(Sent) - Cardinality(kept)
        BY <3>2 DEF CapInv, Forwarded
      <4> QED BY <2>1, <4>1, CapHistoryFits, CapHistoryAddsNothing
    <3> QED BY <3>1, <3>2
  <2>3. current \in Nat
    <3>1. SizeOf(Sent, Positions(Sent)) \in Nat
      BY <2>1, MessagesAreSized
    <3> QED BY <2>1, <3>1, CurrentIsNatural DEF CapInv, SizeOfCurrent
  <2> QED BY <2>2, <2>3 DEF CapInv, TypeOK
<1> QED BY <1>1, InitialCapInv, CapInvKept, PTL DEF Spec

\* The budget is kept and used: beside system messages and the current turn no
\* more is forwarded than fits it, and every newest part of the conversation
\* that fits and splits no exchange is forwarded, for every alphabet and budget.
THEOREM NewestAreKept == Spec => []KeepsTheNewest
<1>1. CapInv => KeepsTheNewest
  <2> USE HistoryCapAssumption
  <2> SUFFICES ASSUME CapInv PROVE KeepsTheNewest
    OBVIOUS
  <2>1. Sent \in Seq(Message) /\ Len(Sent) = asked /\ Budget(setting) \in Nat
    BY SentIsAPrefix, BudgetIsNatural DEF CapInv
  <2>2. ASSUME Budget(setting) # NoBudget
        PROVE  kept = CapHistory(Sent, Budget(setting)) /\ current = CapCurrent(Sent, Budget(setting))
    BY <2>2 DEF CapInv, Forwarded, SizeOfCurrent
  <2>3. WithinBudget
    BY <2>1, <2>2, CapHistoryFits, CurrentIsNatural DEF WithinBudget
  <2>4. NewestThatFit
    <3> SUFFICES ASSUME NEW k \in Positions(Sent), Closed(Sent, Suffix(Sent, k)), HasUser(Sent),
                        SizeOf(Sent, Suffix(Sent, k) \cap Counted(Sent)) <= Budget(setting)
                 PROVE  Suffix(Sent, k) \subseteq kept
      BY DEF NewestThatFit
    <3>1. CASE Budget(setting) = NoBudget
      BY <3>1 DEF CapInv, Forwarded, Suffix, Positions
    <3>2. CASE Budget(setting) # NoBudget
      BY <3>2, <2>1, <2>2, CapHistoryKeepsNewest
    <3> QED BY <3>1, <3>2
  <2> QED BY <2>3, <2>4 DEF KeepsTheNewest
<1> QED BY <1>1, InitialCapInv, CapInvKept, PTL DEF Spec

-----------------------------------------------------------------------------
(* A conversation and what it was before *)

\* ss is what ms was when it had n messages, and no newer result answers a call
\* in it.
Extends(ms, ss, n) ==
    /\ ms \in Seq(Message) /\ ss \in Seq(Message)
    /\ n \in 0..Len(ms) /\ Len(ss) = n
    /\ \A i \in 1..n : ss[i] = ms[i]
    /\ \A i \in 1..n, j \in (n + 1)..Len(ms) : ~Linked(ms, i, j)

\* What an extension has of positions and of roles.
LEMMA ExtendsShape ==
  ASSUME NEW ms, NEW ss, NEW n, Extends(ms, ss, n)
  PROVE  /\ n \in Nat /\ Len(ms) \in Nat
         /\ Positions(ss) = 1..n /\ Positions(ss) \subseteq Positions(ms)
         /\ \A role \in Roles : HasRole(ss, role) = HasRole(ms, role) \cap (1..n)
         /\ Exchanged(ss) = Exchanged(ms) \cap (1..n)
         /\ \A i, j \in 1..n : Linked(ss, i, j) <=> Linked(ms, i, j)
<1>1. n \in Nat /\ Len(ms) \in Nat /\ Positions(ss) = 1..n /\ Positions(ss) \subseteq Positions(ms)
  BY DEF Extends, Positions
<1>2. ASSUME NEW role \in Roles PROVE HasRole(ss, role) = HasRole(ms, role) \cap (1..n)
  BY <1>1 DEF Extends, HasRole
<1>3. Exchanged(ss) = Exchanged(ms) \cap (1..n)
  BY <1>2 DEF Exchanged, Roles
<1>4. \A i, j \in 1..n : Linked(ss, i, j) <=> Linked(ms, i, j)
  BY DEF Extends, Linked
<1> QED BY <1>1, <1>2, <1>3, <1>4

\* The last user message is a new one, or the one it was.
LEMMA LastUserMovesOn ==
  ASSUME NEW ms, NEW ss, NEW n, Extends(ms, ss, n)
  PROVE  LastUser(ms) > n \/ LastUser(ms) = LastUser(ss)
<1> DEFINE T(cs) == IF HasUser(cs) THEN HasRole(cs, "user")
                    ELSE {0} \cup (Positions(cs) \ HasRole(cs, "assistant"))
<1>1. ASSUME NEW cs \in Seq(Message)
      PROVE  /\ T(cs) \in SUBSET (0..Len(cs)) /\ LastUser(cs) \in T(cs)
             /\ \A i \in T(cs) : i <= LastUser(cs)
  <2>1. T(cs) \in SUBSET (0..Len(cs)) /\ T(cs) # {} /\ Len(cs) \in Nat
    BY SMTT(30) DEF HasUser, HasRole, Positions
  <2>2. LastUser(cs) = Max(T(cs))
    BY DEF LastUser, HasUser
  <2> HIDE DEF T
  <2> QED BY <2>1, <2>2, MaxProperties
<1>2. ms \in Seq(Message) /\ ss \in Seq(Message) /\ Len(ss) = n /\ n \in Nat /\ Len(ms) \in Nat
  BY ExtendsShape DEF Extends
<1>3. SUFFICES ASSUME ~(LastUser(ms) > n) PROVE LastUser(ms) = LastUser(ss)
  OBVIOUS
<1>4. LastUser(ms) \in 0..n /\ LastUser(ss) \in 0..n
  <2>1. LastUser(ms) \in 0..Len(ms) /\ LastUser(ss) \in 0..Len(ss)
    BY <1>2, LastUserIsInRange
  <2> QED BY <2>1, <1>2, <1>3
<1>5. T(ss) = T(ms) \cap (0..n)
  <2>1. /\ HasRole(ss, "user") = HasRole(ms, "user") \cap (1..n)
        /\ HasRole(ss, "assistant") = HasRole(ms, "assistant") \cap (1..n)
        /\ Positions(ss) = Positions(ms) \cap (1..n)
    BY ExtendsShape DEF Roles
  <2>2. HasRole(ms, "user") \subseteq Positions(ms) /\ 0 \notin Positions(ms)
    BY DEF HasRole, Positions
  <2>3. 0..n = {0} \cup (1..n)
    BY <1>2
  <2>4. CASE HasUser(ms)
    <3>1. LastUser(ms) \in HasRole(ms, "user") /\ LastUser(ms) \in Positions(ms)
      BY <1>2, <2>4, LastUserIsUser DEF HasRole
    <3>2. HasUser(ss)
      BY <1>4, <2>1, <2>2, <2>3, <3>1 DEF HasUser
    <3> QED BY <2>1, <2>2, <2>3, <2>4, <3>2
  <2>5. CASE ~HasUser(ms)
    <3>1. ~HasUser(ss)
      BY <2>1, <2>5 DEF HasUser
    <3> QED BY <2>1, <2>3, <2>5, <3>1
  <2> QED BY <2>4, <2>5
<1> HIDE DEF T
<1>6. LastUser(ms) \in T(ss) /\ LastUser(ss) \in T(ms)
  BY <1>1, <1>2, <1>4, <1>5
<1>7. LastUser(ms) <= LastUser(ss) /\ LastUser(ss) <= LastUser(ms)
  BY <1>1, <1>2, <1>6
<1> QED BY <1>4, <1>7

\* The classes of the earlier conversation are classes of the later one, which
\* has no other with a message of it.
LEMMA ClassesMoveOn ==
  ASSUME NEW ms, NEW ss, NEW n, Extends(ms, ss, n)
  PROVE  /\ Groups(ss) \subseteq Groups(ms)
         /\ \A g \in Groups(ms) : g \cap (1..n) # {} => g \in Groups(ss)
<1> DEFINE closed(cs) == {S \in SUBSET Exchanged(cs) : Closed(cs, S)}
           Class(cs, k) == {p \in Exchanged(cs) : \A S \in closed(cs) : k \in S => p \in S}
           newer == Exchanged(ms) \ (1..n)
<1>0. /\ n \in Nat /\ Len(ms) \in Nat
      /\ Positions(ss) = 1..n /\ Positions(ss) \subseteq Positions(ms)
      /\ Exchanged(ss) = Exchanged(ms) \cap (1..n)
      /\ \A i, j \in 1..n : Linked(ss, i, j) <=> Linked(ms, i, j)
  BY ExtendsShape
<1>1. \A role \in Roles : HasRole(ss, role) = HasRole(ms, role) \cap (1..n)
  BY ExtendsShape
<1>2. \A i, j \in Positions(ms) : Linked(ms, i, j) => (i \in 1..n <=> j \in 1..n)
  <2> SUFFICES ASSUME NEW i \in Positions(ms), NEW j \in Positions(ms), Linked(ms, i, j)
               PROVE  i \in 1..n <=> j \in 1..n
    OBVIOUS
  <2>1. i < j /\ i \in 1..Len(ms) /\ j \in 1..Len(ms)
    BY DEF Linked, Positions
  <2>2. ~(i \in 1..n /\ j \in (n + 1)..Len(ms))
    BY DEF Extends
  <2> QED BY <1>0, <2>1, <2>2
<1>3. closed(ss) \subseteq closed(ms)
  <2> SUFFICES ASSUME NEW S \in SUBSET Exchanged(ss), Closed(ss, S)
               PROVE  S \in SUBSET Exchanged(ms) /\ Closed(ms, S)
    OBVIOUS
  <2>1. S \subseteq Exchanged(ms) /\ S \subseteq 1..n
    BY <1>0
  <2>2. ASSUME NEW j \in HasRole(ms, "tool"), NEW i \in HasRole(ms, "assistant"), Linked(ms, i, j)
        PROVE  i \in S <=> j \in S
    <3>1. i \in Positions(ms) /\ j \in Positions(ms)
      BY DEF HasRole
    <3>2. CASE i \in 1..n
      <4>1. i \in HasRole(ss, "assistant") /\ j \in HasRole(ss, "tool") /\ Linked(ss, i, j)
        BY <1>0, <1>1, <1>2, <2>2, <3>1, <3>2 DEF Roles
      <4> QED BY <4>1 DEF Closed
    <3>3. CASE i \notin 1..n
      BY <1>2, <2>1, <2>2, <3>1, <3>3
    <3> QED BY <3>2, <3>3
  <2> QED BY <2>1, <2>2 DEF Closed
<1>4. \A S \in closed(ms) : S \cap (1..n) \in closed(ss)
  <2> SUFFICES ASSUME NEW S \in SUBSET Exchanged(ms), Closed(ms, S)
               PROVE  S \cap (1..n) \in SUBSET Exchanged(ss) /\ Closed(ss, S \cap (1..n))
    OBVIOUS
  <2>1. ASSUME NEW j \in HasRole(ss, "tool"), NEW i \in HasRole(ss, "assistant"), Linked(ss, i, j)
        PROVE  i \in S <=> j \in S
    <3>1. i \in HasRole(ms, "assistant") /\ j \in HasRole(ms, "tool") /\ i \in 1..n /\ j \in 1..n
      BY <1>1 DEF Roles
    <3>2. Linked(ms, i, j)
      BY <1>0, <2>1, <3>1
    <3> QED BY <3>1, <3>2 DEF Closed
  <2>2. \A i \in HasRole(ss, "tool") \cup HasRole(ss, "assistant") : i \in 1..n
    BY <1>1 DEF Roles
  <2> QED BY <1>0, <2>1, <2>2 DEF Closed
<1>5. newer \in closed(ms)
  <2>1. ASSUME NEW j \in HasRole(ms, "tool"), NEW i \in HasRole(ms, "assistant"), Linked(ms, i, j)
        PROVE  i \in newer <=> j \in newer
    <3>1. i \in Positions(ms) /\ j \in Positions(ms) /\ i \in Exchanged(ms) /\ j \in Exchanged(ms)
      BY DEF HasRole, Exchanged
    <3> QED BY <1>2, <2>1, <3>1
  <2> QED BY <2>1 DEF Closed
<1>6. Exchanged(ss) \in closed(ss)
  BY DEF Closed, Exchanged
<1> HIDE DEF closed
<1>7. \A k \in Exchanged(ss) : Class(ss, k) = Class(ms, k)
  <2> SUFFICES ASSUME NEW k \in Exchanged(ss), NEW p
               PROVE  p \in Class(ss, k) <=> p \in Class(ms, k)
    OBVIOUS
  <2>1. ASSUME p \in Class(ms, k) PROVE p \in Class(ss, k)
    <3>1. p \in Exchanged(ss)
      BY <1>3, <1>6, <2>1
    <3> QED BY <1>3, <2>1, <3>1
  <2>2. ASSUME p \in Class(ss, k) PROVE p \in Class(ms, k)
    <3>1. p \in Exchanged(ms)
      BY <1>0, <2>2
    <3>2. ASSUME NEW S \in closed(ms), k \in S PROVE p \in S
      <4>1. k \in S \cap (1..n) /\ S \cap (1..n) \in closed(ss)
        BY <1>0, <1>4, <3>2
      <4> QED BY <2>2, <4>1
    <3> QED BY <3>1, <3>2
  <2> QED BY <2>1, <2>2
<1>8. \A k \in newer : Class(ms, k) \subseteq newer
  BY <1>5
<1>9. \A cs : Groups(cs) = {Class(cs, k) : k \in Exchanged(cs)} \cup {{k} : k \in Positions(cs) \ Exchanged(cs)}
  BY DEF Groups, closed
<1> HIDE DEF Class
<1>10. ASSUME NEW g \in Groups(ss) PROVE g \in Groups(ms)
  <2>1. CASE \E k \in Exchanged(ss) : g = Class(ss, k)
    <3>1. PICK k \in Exchanged(ss) : g = Class(ss, k)
      BY <2>1
    <3>2. g = Class(ms, k) /\ k \in Exchanged(ms)
      BY <1>0, <1>7, <3>1
    <3> QED BY <1>9, <3>2
  <2>2. CASE \E k \in Positions(ss) \ Exchanged(ss) : g = {k}
    <3>1. PICK k \in Positions(ss) \ Exchanged(ss) : g = {k}
      BY <2>2
    <3>2. k \in Positions(ms) \ Exchanged(ms)
      BY <1>0
    <3> QED BY <1>9, <3>1, <3>2
  <2> QED BY <1>9, <2>1, <2>2
<1>11. ASSUME NEW g \in Groups(ms), NEW i \in g, i \in 1..n PROVE g \in Groups(ss)
  <2>1. CASE \E k \in Exchanged(ms) : g = Class(ms, k)
    <3>1. PICK k \in Exchanged(ms) : g = Class(ms, k)
      BY <2>1
    <3>2. k \in Exchanged(ss)
      BY <1>0, <1>8, <1>11, <3>1
    <3>3. g = Class(ss, k)
      BY <1>7, <3>1, <3>2
    <3> QED BY <1>9, <3>2, <3>3
  <2>2. CASE \E k \in Positions(ms) \ Exchanged(ms) : g = {k}
    <3>1. g = {i} /\ i \in Positions(ss) \ Exchanged(ss)
      BY <1>0, <1>11, <2>2
    <3> QED BY <1>9, <3>1
  <2> QED BY <1>9, <2>1, <2>2
<1> QED BY <1>10, <1>11

\* What one capping drops, the next drops.
LEMMA CapHistoryMovesOn ==
  ASSUME NEW ms, NEW ss, NEW n, Extends(ms, ss, n), NEW budget \in Nat
  PROVE  CapHistory(ms, budget) \cap (1..n) \subseteq CapHistory(ss, budget)
<1>0. /\ ms \in Seq(Message) /\ ss \in Seq(Message) /\ n \in Nat
      /\ Positions(ss) = 1..n /\ Positions(ss) \subseteq Positions(ms)
      /\ HasRole(ss, "system") = HasRole(ms, "system") \cap (1..n)
  BY ExtendsShape DEF Extends, Roles
<1>1. LastUser(ms) \notin 1..n \/ LastUser(ms) = LastUser(ss)
  BY <1>0, LastUserMovesOn
<1>2. Groups(ss) \subseteq Groups(ms) /\ \A g \in Groups(ms) : g \cap (1..n) # {} => g \in Groups(ss)
  BY ClassesMoveOn
<1>3. \A g \in Groups(ss) : g \subseteq 1..n
  BY <1>0, GroupIsOfPositions
<1>4. Candidates(ss) \subseteq Candidates(ms)
  <2> SUFFICES ASSUME NEW g \in Groups(ss), NEW i \in g, i \notin HasRole(ss, "system"), i # LastUser(ss)
               PROVE  i \notin HasRole(ms, "system") /\ i # LastUser(ms)
    BY <1>2 DEF Candidates
  <2>1. i \in 1..n
    BY <1>3
  <2> QED BY <1>0, <1>1, <2>1
<1>5. Counted(ss) \subseteq Counted(ms) /\ Counted(ms) \subseteq Positions(ms) /\ Counted(ss) \subseteq 1..n
  BY <1>0, <1>1 DEF Counted
<1>6. ASSUME NEW S \in SUBSET (1..n), NEW T \in SUBSET Positions(ms), S \subseteq T, SizeOf(ms, T) <= budget
      PROVE  SizeOf(ss, S) <= budget
  <2>1. S \in SUBSET Positions(ss) /\ S \in SUBSET Positions(ms) /\ S \in SUBSET T
    BY <1>0, <1>6
  <2>2. IsFiniteSet(S) /\ Sized(ss, S) /\ SizeOf(ss, S) \in Nat
    BY <1>0, <2>1, MessagesAreSized
  <2>3. \A i \in S : ss[i].size = ms[i].size
    BY DEF Extends
  <2>4. SizeOf(ss, S) = SizeOf(ms, S)
    BY <2>2, <2>3, SizeOfAgrees
  <2>5. SizeOf(ms, S) <= SizeOf(ms, T)
    BY <1>0, <2>1, FewerFit
  <2>6. SizeOf(ms, T) \in Nat
    BY <1>0, MessagesAreSized
  <2> QED BY <1>6, <2>2, <2>4, <2>5, <2>6
<1>7. CASE CapHistory(ss, budget) = Positions(ss)
  BY <1>0, <1>7
<1>8. CASE CapHistory(ss, budget) # Positions(ss)
  <2>1. /\ ~(Positions(ss) \subseteq HasRole(ss, "system")) /\ ~Fits(ss, budget) /\ Candidates(ss) # {}
        /\ CapHistory(ss, budget) =
             HasRole(ss, "system") \cup {LastUser(ss)} \cup UNION KeptGroups(ss, budget)
    BY <1>8 DEF CapHistory
  <2>2. ~(Positions(ms) \subseteq HasRole(ms, "system"))
    BY <1>0, <2>1
  <2>3. ~Fits(ms, budget)
    BY <1>5, <1>6, <2>1 DEF Fits
  <2>4. Candidates(ms) # {}
    BY <1>4, <2>1
  <2>5. CapHistory(ms, budget) =
          HasRole(ms, "system") \cup {LastUser(ms)} \cup UNION KeptGroups(ms, budget)
    BY <2>2, <2>3, <2>4 DEF CapHistory
  <2>6. ASSUME NEW i \in 1..n, NEW g \in KeptGroups(ms, budget), i \in g,
               i \notin HasRole(ss, "system"), i # LastUser(ss)
        PROVE  g \in KeptGroups(ss, budget)
    <3> DEFINE late == {h \in Candidates(ms) : Max(h) >= Max(g)}
               early == {h \in Candidates(ss) : Max(h) >= Max(g)}
    <3>1. g \in Groups(ms) /\ SizeOf(ms, UNION late) <= budget
      BY DEF KeptGroups, Candidates
    <3>2. g \in Candidates(ss)
      BY <1>2, <2>6, <3>1 DEF Candidates
    <3>3. UNION early \subseteq UNION late
      BY <1>4
    <3>4. UNION early \subseteq 1..n
      BY <1>3 DEF Candidates
    <3>5. UNION late \subseteq Positions(ms)
      <4>1. late \in SUBSET Groups(ms)
        BY DEF Candidates
      <4> HIDE DEF late
      <4> QED BY <1>0, <4>1, GroupsAreOfPositions
    <3>6. SizeOf(ss, UNION early) <= budget
      <4> HIDE DEF late, early
      <4> QED BY <1>6, <3>1, <3>3, <3>4, <3>5
    <3> QED BY <3>2, <3>6 DEF KeptGroups
  <2> SUFFICES ASSUME NEW i \in 1..n, i \in CapHistory(ms, budget),
                      i \notin HasRole(ss, "system"), i # LastUser(ss)
               PROVE  i \in UNION KeptGroups(ss, budget)
    BY <2>1
  <2>7. i \in UNION KeptGroups(ms, budget)
    BY <1>0, <1>1, <2>5
  <2> QED BY <2>6, <2>7
<1> QED BY <1>7, <1>8

\* What one turn dropped no later turn brings back, for every alphabet and
\* budget, unless a late result joins the exchange it answers.
THEOREM DroppedStays == Spec => DroppedStaysDropped
<1>1. CapInv /\ [Next]_vars => [asked' # asked /\ ~LateAnswer => kept' \cap 1..asked \subseteq kept]_vars
  <2> USE HistoryCapAssumption
  <2> SUFFICES ASSUME CapInv, Next, asked' # asked, ~LateAnswer
               PROVE  kept' \cap 1..asked \subseteq kept
    BY DEF vars
  <2>1. CASE Say
    BY <2>1 DEF Say
  <2>2. CASE Request
    <3>1. /\ messages \in Seq(Message) /\ asked \in 0..Len(messages) /\ Budget(setting) \in Nat
          /\ kept = Forwarded(Sent)
      BY BudgetIsNatural DEF CapInv
    <3>2. Sent \in Seq(Message) /\ Len(Sent) = asked /\ \A i \in 1..asked : Sent[i] = messages[i]
      BY <3>1, SentIsAPrefix
    <3>3. kept' = Forwarded(messages)
      BY <2>2 DEF Request, Forwarded
    <3>4. CASE Budget(setting) = NoBudget
      BY <3>1, <3>2, <3>4 DEF Forwarded, Positions
    <3>5. CASE Budget(setting) # NoBudget
      <4>1. Extends(messages, Sent, asked)
        BY <3>1, <3>2 DEF Extends, LateAnswer
      <4>2. CapHistory(messages, Budget(setting)) \cap (1..asked) \subseteq CapHistory(Sent, Budget(setting))
        BY <3>1, <4>1, CapHistoryMovesOn
      <4> QED BY <3>1, <3>3, <3>5, <4>2 DEF Forwarded
    <3> QED BY <3>4, <3>5
  <2> QED BY <2>1, <2>2 DEF Next
<1> QED BY <1>1, InitialCapInv, CapInvKept, PTL DEF Spec, DroppedStaysDropped
=============================================================================
