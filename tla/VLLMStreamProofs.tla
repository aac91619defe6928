--------------------------- MODULE VLLMStreamProofs ---------------------------
(***************************************************************************)
(* What a stream tells, for all texts a chunk may carry, every decision    *)
(* limit and streams of every length.                                      *)
(***************************************************************************)
EXTENDS VLLMStream, WellFoundedInduction, TLAPS

-----------------------------------------------------------------------------
(* Naturals *)

\* A nonempty set of naturals has a least one.
LEMMA LeastNatural ==
  ASSUME NEW M \in SUBSET Nat, M # {}
  PROVE  \E n \in M : \A m \in M : n <= m
<1> DEFINE R == {p \in Nat \X Nat : p[1] < p[2]}
<1>1. IsWellFoundedOn(R, Nat)
  <2>1. R = OpToRel(<, Nat)
    BY DEF OpToRel
  <2> QED BY <2>1, NatLessThanWellFounded
<1>2. PICK n \in M : \A m \in M : ~(<<m, n>> \in R)
  <2> HIDE DEF R
  <2> QED BY <1>1, WFMin
<1>3. ASSUME NEW m \in M PROVE n <= m
  <2>1. ~(m < n)
    BY <1>2
  <2> QED BY <2>1
<1> QED BY <1>3

\* A set of naturals with 0 and every successor is all of them.
LEMMA SetInduction ==
  ASSUME NEW N \in SUBSET Nat, 0 \in N, \A n \in N : n + 1 \in N
  PROVE  N = Nat
<1> DEFINE M == Nat \ N
<1> SUFFICES ASSUME M # {} PROVE FALSE
  OBVIOUS
<1>1. PICK n \in M : \A m \in M : n <= m
  <2>1. M \in SUBSET Nat
    OBVIOUS
  <2> HIDE DEF M
  <2> QED BY <2>1, LeastNatural
<1>2. n # 0 /\ n - 1 \in Nat
  OBVIOUS
<1>3. n - 1 \in N
  <2>1. ~(n <= n - 1)
    BY <1>2
  <2> QED BY <1>1, <1>2, <2>1
<1>4. (n - 1) + 1 \in N
  BY <1>3
<1> QED BY <1>4

\* A nonempty set of naturals up to n has a greatest one.
LEMMA MaxProperties ==
  ASSUME NEW n \in Nat, NEW S \in SUBSET (0..n), S # {}
  PROVE  Max(S) \in S /\ \A i \in S : i <= Max(S)
<1> DEFINE M == {n - i : i \in S}
<1>0. \A i \in S : i \in Nat /\ i <= n /\ n - i \in Nat
  OBVIOUS
<1>1. M \in SUBSET Nat /\ M # {}
  BY <1>0, Zenon
<1>2. PICK m \in M : \A l \in M : m <= l
  <2> HIDE DEF M
  <2> QED BY <1>1, LeastNatural
<1>3. PICK i \in S : m = n - i
  OBVIOUS
<1>4. ASSUME NEW j \in S PROVE i >= j
  <2>1. n - j \in M
    OBVIOUS
  <2>2. n - i <= n - j
    BY <1>2, <1>3, <2>1
  <2> QED BY <1>0, <2>2
<1>5. Max(S) \in S /\ \A j \in S : Max(S) >= j
  BY <1>4 DEF Max
<1>6. \A j \in S : j \in Nat
  OBVIOUS
<1> QED BY <1>5, <1>6

-----------------------------------------------------------------------------
(* Concatenation *)

\* f concatenates what s has at every set of positions up to n.
IsConcat(f, s, n) ==
    f = [S \in SUBSET (1..n) |-> IF S = {} THEN << >> ELSE f[S \ {Max(S)}] \o s[Max(S)]]

\* What comes one after another is the fold of its definition.
LEMMA ConcatIsFold ==
  ASSUME NEW T, NEW s \in Seq(T)
  PROVE  Concat(s) = (CHOOSE f : IsConcat(f, s, Len(s)))[1..Len(s)]
<1>1. DOMAIN s = 1..Len(s)
  OBVIOUS
<1> QED BY <1>1, Zenon DEF Concat, FoldLeft, MapThenFoldSet, IsConcat

\* The last position of a set is one of its own, and the others come before.
LEMMA LastPosition ==
  ASSUME NEW m \in Nat, NEW S \in SUBSET (1..m), S # {}
  PROVE  /\ Max(S) \in 1..m /\ Max(S) \in S
         /\ S \ {Max(S)} \in SUBSET (1..(Max(S) - 1))
         /\ m \in S => Max(S) = m
<1>1. S \in SUBSET (0..m)
  OBVIOUS
<1>2. Max(S) \in S /\ \A i \in S : i <= Max(S)
  BY <1>1, MaxProperties
<1>3. Max(S) \in 1..m
  BY <1>2, Zenon
<1>4. ASSUME NEW i \in S, i # Max(S) PROVE i \in 1..(Max(S) - 1)
  <2>1. i <= Max(S) /\ i \in 1..m
    BY <1>2
  <2> QED BY <2>1, <1>3, <1>4
<1>5. m \in S => Max(S) = m
  BY <1>2, <1>3
<1> QED BY <1>2, <1>3, <1>4, <1>5

\* Step by step, the fold exists on the first n positions.
LEMMA ConcatExists ==
  ASSUME NEW T, NEW s \in Seq(Seq(T)), NEW n \in 0..Len(s)
  PROVE  \E f : IsConcat(f, s, n) /\ f \in [SUBSET (1..n) -> Seq(T)]
<1> DEFINE Fold(f, m) ==
             /\ f \in [SUBSET (1..m) -> Seq(T)]
             /\ \A S \in SUBSET (1..m) :
                  f[S] = IF S = {} THEN << >> ELSE f[S \ {Max(S)}] \o s[Max(S)]
           N == {m \in Nat : m <= Len(s) => \E f : Fold(f, m)}
<1>1. 0 \in N
  <2> DEFINE f == [S \in SUBSET (1..0) |-> << >>]
  <2>1. SUBSET (1..0) = {{}}
    OBVIOUS
  <2>2. << >> \in Seq(T)
    OBVIOUS
  <2>3. Fold(f, 0)
    BY <2>1, <2>2
  <2> HIDE DEF Fold, f
  <2>4. \E g : Fold(g, 0)
    BY <2>3
  <2> QED BY <2>4
<1>2. ASSUME NEW m \in N PROVE m + 1 \in N
  <2> HIDE DEF Fold
  <2> SUFFICES ASSUME m + 1 <= Len(s) PROVE \E g : Fold(g, m + 1)
    OBVIOUS
  <2>0. m \in Nat /\ m <= Len(s) /\ m + 1 \in 1..Len(s)
    OBVIOUS
  <2>1. PICK f : Fold(f, m)
    BY <2>0
  <2> USE DEF Fold
  <2>2. s[m + 1] \in Seq(T)
    BY <2>0
  <2> DEFINE g == [S \in SUBSET (1..(m + 1)) |->
                     IF m + 1 \in S THEN f[S \ {m + 1}] \o s[m + 1] ELSE f[S]]
  <2>3. ASSUME NEW S \in SUBSET (1..(m + 1))
        PROVE  (IF m + 1 \in S THEN S \ {m + 1} ELSE S) \in SUBSET (1..m)
    BY <2>0
  <2>4. g \in [SUBSET (1..(m + 1)) -> Seq(T)]
    <3> SUFFICES ASSUME NEW S \in SUBSET (1..(m + 1))
                 PROVE  (IF m + 1 \in S THEN f[S \ {m + 1}] \o s[m + 1] ELSE f[S]) \in Seq(T)
      OBVIOUS
    <3> QED BY <2>1, <2>2, <2>3
  <2>5. \A S \in SUBSET (1..m) : S \in SUBSET (1..(m + 1)) /\ g[S] = f[S]
    BY <2>0
  <2>6. ASSUME NEW S \in SUBSET (1..(m + 1))
        PROVE  g[S] = IF S = {} THEN << >> ELSE g[S \ {Max(S)}] \o s[Max(S)]
    <3>1. CASE m + 1 \in S
      <4>1. Max(S) = m + 1
        BY <2>0, <3>1, LastPosition
      <4>2. S \ {m + 1} \in SUBSET (1..m)
        BY <2>3, <3>1
      <4>3. g[S \ {m + 1}] = f[S \ {m + 1}]
        BY <2>5, <4>2
      <4> QED BY <3>1, <4>1, <4>3
    <3>2. CASE m + 1 \notin S
      <4>1. S \in SUBSET (1..m)
        BY <2>3, <3>2
      <4>2. g[S] = f[S] /\ g[S \ {Max(S)}] = f[S \ {Max(S)}]
        BY <2>5, <4>1
      <4> QED BY <2>1, <4>1, <4>2
    <3> QED BY <3>1, <3>2
  <2>7. Fold(g, m + 1)
    BY <2>4, <2>6
  <2> HIDE DEF Fold, g
  <2> QED BY <2>7
<1>3. N = Nat
  <2> HIDE DEF Fold
  <2>1. N \in SUBSET Nat
    OBVIOUS
  <2> HIDE DEF N
  <2> QED BY <1>1, <1>2, <2>1, SetInduction
<1>4. PICK f : Fold(f, n)
  <2> HIDE DEF Fold
  <2>1. n \in Nat /\ n <= Len(s)
    OBVIOUS
  <2> QED BY <1>3, <2>1
<1>5. IsConcat(f, s, n)
  BY <1>4 DEF IsConcat
<1> QED BY <1>4, <1>5

\* Sequences that agree up to m are concatenated to the same up to m.
LEMMA ConcatUnique ==
  ASSUME NEW T, NEW s \in Seq(Seq(T)), NEW t \in Seq(Seq(T)), NEW n \in Nat, NEW m \in 0..n,
         \A i \in 1..m : s[i] = t[i],
         NEW f, IsConcat(f, s, n), NEW g, IsConcat(g, t, m)
  PROVE  f[1..m] = g[1..m]
<1> DEFINE N == {l \in Nat : l <= m => \A S \in SUBSET (1..l) : f[S] = g[S]}
<1>0. /\ \A S \in SUBSET (1..n) : f[S] = IF S = {} THEN << >> ELSE f[S \ {Max(S)}] \o s[Max(S)]
      /\ \A S \in SUBSET (1..m) : g[S] = IF S = {} THEN << >> ELSE g[S \ {Max(S)}] \o t[Max(S)]
  BY DEF IsConcat
<1>1. 0 \in N
  <2>1. SUBSET (1..0) = {{}}
    OBVIOUS
  <2>2. f[{}] = g[{}]
    BY <1>0
  <2> QED BY <2>1, <2>2
<1>2. ASSUME NEW l \in N PROVE l + 1 \in N
  <2>0. l \in Nat /\ l + 1 \in Nat
    OBVIOUS
  <2> SUFFICES ASSUME l + 1 <= m, NEW S \in SUBSET (1..(l + 1)) PROVE f[S] = g[S]
    BY <2>0
  <2>1. l \in Nat /\ l <= m /\ S \in SUBSET (1..m) /\ S \in SUBSET (1..n)
    OBVIOUS
  <2>2. CASE S = {}
    BY <1>0, <2>1, <2>2
  <2>3. CASE S # {}
    <3>1. Max(S) \in 1..(l + 1) /\ S \ {Max(S)} \in SUBSET (1..(Max(S) - 1))
      BY <2>1, <2>3, LastPosition
    <3>2. S \ {Max(S)} \in SUBSET (1..l) /\ Max(S) \in 1..m
      BY <2>1, <3>1
    <3>3. f[S \ {Max(S)}] = g[S \ {Max(S)}] /\ s[Max(S)] = t[Max(S)]
      BY <2>1, <3>2
    <3> QED BY <1>0, <2>1, <2>3, <3>3
  <2> QED BY <2>2, <2>3
<1>3. N = Nat
  <2>1. N \in SUBSET Nat
    OBVIOUS
  <2> HIDE DEF N
  <2> QED BY <1>1, <1>2, <2>1, SetInduction
<1>4. m \in Nat /\ m <= m /\ 1..m \in SUBSET (1..m)
  OBVIOUS
<1>5. m \in N
  BY <1>3, <1>4, Zenon
<1> QED BY <1>4, <1>5, Zenon

\* So it exists on all of them.
LEMMA ConcatHasFold ==
  ASSUME NEW T, NEW s \in Seq(Seq(T))
  PROVE  \E f : IsConcat(f, s, Len(s)) /\ Concat(s) = f[1..Len(s)]
<1> DEFINE f == CHOOSE f : IsConcat(f, s, Len(s))
<1>1. \E g : IsConcat(g, s, Len(s))
  <2>1. Len(s) \in 0..Len(s)
    OBVIOUS
  <2> QED BY <2>1, ConcatExists
<1>2. IsConcat(f, s, Len(s))
  BY <1>1
<1>3. Concat(s) = f[1..Len(s)]
  BY ConcatIsFold
<1> QED BY <1>2, <1>3

\* Pieces one after another are a sequence of what they are made of.
LEMMA ConcatType ==
  ASSUME NEW T, NEW s \in Seq(Seq(T))
  PROVE  Concat(s) \in Seq(T)
<1>1. PICK f : IsConcat(f, s, Len(s)) /\ Concat(s) = f[1..Len(s)]
  BY ConcatHasFold
<1>2. Len(s) \in Nat /\ Len(s) \in 0..Len(s)
  OBVIOUS
<1>3. PICK g : IsConcat(g, s, Len(s)) /\ g \in [SUBSET (1..Len(s)) -> Seq(T)]
  BY <1>2, ConcatExists
<1>4. f[1..Len(s)] = g[1..Len(s)]
  <2> DEFINE n == Len(s)
  <2>1. n \in Nat /\ n \in 0..n /\ \A i \in 1..n : s[i] = s[i]
    BY <1>2
  <2>2. IsConcat(f, s, n) /\ IsConcat(g, s, n)
    BY <1>1, <1>3
  <2> HIDE DEF n
  <2>3. f[1..n] = g[1..n]
    BY <1>1, <2>1, <2>2, ConcatUnique
  <2> QED BY <2>3 DEF n
<1>5. g[1..Len(s)] \in Seq(T)
  BY <1>3
<1> QED BY <1>1, <1>4, <1>5

\* Of nothing, nothing comes.
LEMMA ConcatEmpty == Concat(<< >>) = << >>
<1>1. << >> \in Seq(Seq({})) /\ Len(<< >>) = 0
  OBVIOUS
<1>2. PICK f : IsConcat(f, << >>, 0) /\ Concat(<< >>) = f[1..0]
  BY <1>1, ConcatHasFold
<1>3. 1..0 = {}
  OBVIOUS
<1> QED BY <1>2, <1>3 DEF IsConcat

\* A sequence is concatenated from what comes before its last element.
LEMMA ConcatLast ==
  ASSUME NEW T, NEW s \in Seq(Seq(T)), NEW t \in Seq(Seq(T)), NEW n \in Nat, NEW k \in Nat,
         k = n + 1, Len(s) = n, Len(t) = k, \A i \in 1..n : t[i] = s[i]
  PROVE  Concat(t) = Concat(s) \o t[k]
<1>1. PICK f : IsConcat(f, t, k) /\ Concat(t) = f[1..k]
  BY ConcatHasFold
<1>2. PICK g : IsConcat(g, s, n) /\ Concat(s) = g[1..n]
  BY ConcatHasFold
<1>3. n \in 0..k /\ k \in 1..k /\ 1..k \in SUBSET (1..k)
  OBVIOUS
<1>4. f[1..n] = g[1..n]
  BY <1>1, <1>2, <1>3, ConcatUnique
<1>5. Max(1..k) = k
  BY <1>3, LastPosition
<1>6. (1..k) \ {k} = 1..n
  OBVIOUS
<1>7. f[1..k] = f[1..n] \o t[k]
  <2>1. f[1..k] = f[(1..k) \ {Max(1..k)}] \o t[Max(1..k)]
    BY <1>1, <1>3 DEF IsConcat
  <2> QED BY <1>5, <1>6, <2>1, Zenon
<1> QED BY <1>1, <1>2, <1>4, <1>7, Zenon

\* One piece more comes last.
LEMMA ConcatAppend ==
  ASSUME NEW T, NEW s \in Seq(Seq(T)), NEW e \in Seq(T)
  PROVE  Concat(Append(s, e)) = Concat(s) \o e
<1>1. /\ Append(s, e) \in Seq(Seq(T)) /\ Len(s) \in Nat /\ Len(s) + 1 \in Nat
      /\ Len(Append(s, e)) = Len(s) + 1 /\ Append(s, e)[Len(s) + 1] = e
      /\ \A i \in 1..Len(s) : Append(s, e)[i] = s[i]
  OBVIOUS
<1>2. Concat(Append(s, e)) = Concat(s) \o Append(s, e)[Len(s) + 1]
  BY <1>1, ConcatLast
<1> QED BY <1>1, <1>2

-----------------------------------------------------------------------------
(* What is held back and what is passed on, for any lines *)

Events(n) == [at : 0..n, text : Seq(Symbols)]

\* A sequence over a set is one over a larger set.
LEMMA SeqGrows ==
  ASSUME NEW S, NEW T, S \subseteq T, NEW s \in Seq(S)
  PROVE  s \in Seq(T)
OBVIOUS

\* A sequence is one over any set its elements are in.
LEMMA SeqNarrows ==
  ASSUME NEW S, NEW T, NEW s \in Seq(S), \A k \in 1..Len(s) : s[k] \in T
  PROVE  s \in Seq(T)
OBVIOUS

\* The elements of a sequence over a set are in it.
LEMMA Elements ==
  ASSUME NEW T, NEW s \in Seq(T)
  PROVE  Len(s) \in Nat /\ \A k \in 1..Len(s) : s[k] \in T
OBVIOUS

\* What appending does, element by element.
LEMMA Appended ==
  ASSUME NEW T, NEW s \in Seq(T), NEW e \in T
  PROVE  /\ Append(s, e) \in Seq(T) /\ Len(s) \in Nat /\ Len(Append(s, e)) = Len(s) + 1
         /\ Append(s, e)[Len(s) + 1] = e
         /\ \A k \in 1..Len(s) : Append(s, e)[k] = s[k]
OBVIOUS

\* What joining does, element by element.
LEMMA Joined ==
  ASSUME NEW T, NEW s \in Seq(T), NEW t \in Seq(T)
  PROVE  /\ s \o t \in Seq(T) /\ Len(s) \in Nat /\ Len(t) \in Nat /\ Len(s \o t) = Len(s) + Len(t)
         /\ \A k \in 1..Len(s) : (s \o t)[k] = s[k]
         /\ \A k \in 1..Len(t) : (s \o t)[Len(s) + k] = t[k]
OBVIOUS

\* What was said of n lines is said of one more.
LEMMA EventsGrow ==
  ASSUME NEW n \in Nat, NEW s \in Seq(Events(n))
  PROVE  s \in Seq(Events(n + 1))
<1>1. Events(n) \subseteq Events(n + 1)
  BY DEF Events
<1> QED BY <1>1, SeqGrows

\* Every line is passed on or held back, once.
Covered(lines, out, held) ==
    /\ Len(out) + Len(held) = Len(lines)
    /\ \A i \in 1..Len(lines) : \/ \E k \in 1..Len(out) : out[k].at = i
                                \/ \E k \in 1..Len(held) : held[k] = i

Overtakes(lines, i, j) == lines[i].kind = "other" /\ lines[j].kind = "content"

InOrder(lines, out) ==
    \A k, l \in 1..Len(out) :
        k < l /\ out[k].at > out[l].at /\ out[l].at # 0 => Overtakes(lines, out[k].at, out[l].at)

\* Only what may overtake it has been passed on before what is held back.
Follows(lines, out, held) ==
    \A k \in 1..Len(out), a \in 1..Len(held) :
        out[k].at > held[a] => Overtakes(lines, out[k].at, held[a])

Increasing(held) == \A a, b \in 1..Len(held) : a < b => held[a] < held[b]

Held(lines, out, held) ==
    /\ lines \in Seq(Line) /\ out \in Seq(Events(Len(lines))) /\ held \in Seq(1..Len(lines))
    /\ Covered(lines, out, held) /\ InOrder(lines, out)
    /\ Follows(lines, out, held) /\ Increasing(held)

\* A line that arrives can be held back.
LEMMA HeldArrives ==
  ASSUME NEW lines, NEW out, NEW held, Held(lines, out, held), NEW line \in Line
  PROVE  Held(Append(lines, line), out, Append(held, Len(lines) + 1))
<1> DEFINE n == Len(lines)
           more == Append(lines, line)
           wait == Append(held, n + 1)
<1>1. /\ lines \in Seq(Line) /\ out \in Seq(Events(n)) /\ held \in Seq(1..n) /\ n \in Nat
      /\ Covered(lines, out, held) /\ InOrder(lines, out)
      /\ Follows(lines, out, held) /\ Increasing(held)
  BY DEF Held
<1>2. /\ more \in Seq(Line) /\ Len(more) = n + 1
      /\ \A i \in 1..n : more[i] = lines[i]
      /\ wait \in Seq(1..(n + 1)) /\ Len(wait) = Len(held) + 1 /\ Len(held) \in Nat
      /\ wait[Len(held) + 1] = n + 1 /\ \A a \in 1..Len(held) : wait[a] = held[a] /\ held[a] \in 1..n
  BY <1>1
<1>3. /\ Len(out) \in Nat /\ \A k \in 1..Len(out) : out[k].at \in 0..n
      /\ out \in Seq(Events(n + 1))
  <2>1. Len(out) \in Nat /\ \A k \in 1..Len(out) : out[k] \in Events(n)
    BY <1>1
  <2>2. out \in Seq(Events(n + 1))
    <3> HIDE DEF n
    <3> QED BY <1>1, EventsGrow
  <2> QED BY <2>1, <2>2 DEF Events
<1>0. Len(out) + Len(held) = n
  BY <1>1 DEF Covered
<1> HIDE DEF n, more, wait
<1>4. Covered(more, out, wait)
  <2>1. Len(out) + Len(wait) = Len(more)
    BY <1>0, <1>2, <1>3
  <2>2. ASSUME NEW i \in 1..(n + 1)
        PROVE  (\E k \in 1..Len(out) : out[k].at = i) \/ (\E k \in 1..Len(wait) : wait[k] = i)
    <3>1. CASE i = n + 1
      <4>1. Len(held) + 1 \in 1..Len(wait) /\ wait[Len(held) + 1] = i
        BY <1>2, <3>1
      <4> QED BY <4>1
    <3>2. CASE i # n + 1
      <4>1. i \in 1..n
        BY <1>1, <3>2
      <4>2. (\E k \in 1..Len(out) : out[k].at = i) \/ (\E k \in 1..Len(held) : held[k] = i)
        BY <1>1, <4>1 DEF Covered, n
      <4>3. \A k \in 1..Len(held) : k \in 1..Len(wait) /\ wait[k] = held[k]
        BY <1>2
      <4> QED BY <4>2, <4>3
    <3> QED BY <3>1, <3>2
  <2> QED BY <1>2, <2>1, <2>2 DEF Covered
<1>5. InOrder(more, out)
  <2> SUFFICES ASSUME NEW k \in 1..Len(out), NEW l \in 1..Len(out),
                      k < l, out[k].at > out[l].at, out[l].at # 0
               PROVE  Overtakes(more, out[k].at, out[l].at)
    BY DEF InOrder
  <2>1. Overtakes(lines, out[k].at, out[l].at)
    BY <1>1 DEF InOrder
  <2>2. out[k].at \in 1..n /\ out[l].at \in 1..n
    BY <1>1, <1>3
  <2> QED BY <1>2, <2>1, <2>2 DEF Overtakes
<1>6. Follows(more, out, wait)
  <2> SUFFICES ASSUME NEW k \in 1..Len(out), NEW a \in 1..Len(wait), out[k].at > wait[a]
               PROVE  Overtakes(more, out[k].at, wait[a])
    BY DEF Follows
  <2>1. a # Len(held) + 1
    BY <1>1, <1>2, <1>3
  <2>2. a \in 1..Len(held) /\ wait[a] = held[a] /\ held[a] \in 1..n /\ out[k].at \in 0..n
    BY <1>2, <1>3, <2>1
  <2>3. Overtakes(lines, out[k].at, held[a])
    BY <1>1, <2>2 DEF Follows
  <2>4. out[k].at \in 1..n
    BY SMTT(30), <1>1, <2>2
  <2> QED BY <1>2, <2>2, <2>3, <2>4 DEF Overtakes
<1>7. Increasing(wait)
  <2> SUFFICES ASSUME NEW a \in 1..Len(wait), NEW b \in 1..Len(wait), a < b
               PROVE  wait[a] < wait[b]
    BY DEF Increasing
  <2>1. a \in 1..Len(held) /\ wait[a] = held[a] /\ held[a] \in 1..n
    BY <1>2
  <2>2. CASE b = Len(held) + 1
    <3>1. wait[b] = n + 1 /\ n \in Nat
      BY <1>1, <1>2, <2>2
    <3> QED BY <2>1, <3>1
  <2>3. CASE b # Len(held) + 1
    <3>1. b \in 1..Len(held)
      <4>1. Len(wait) = Len(held) + 1 /\ Len(held) \in Nat
        BY <1>2
      <4> QED BY <2>3, <4>1
    <3>2. wait[b] = held[b]
      BY <1>2, <3>1
    <3> QED BY <1>1, <2>1, <3>1, <3>2 DEF Increasing
  <2> QED BY <2>2, <2>3
<1> QED BY <1>2, <1>3, <1>4, <1>5, <1>6, <1>7 DEF Held, n, more, wait

\* What is held back can be passed on, in the order it came.
LEMMA HeldYields ==
  ASSUME NEW lines, NEW out, NEW held, Held(lines, out, held),
         NEW more \in Seq(Events(Len(lines))), Len(more) = Len(held),
         \A k \in 1..Len(held) : more[k].at = held[k]
  PROVE  Held(lines, out \o more, << >>)
<1> DEFINE n == Len(lines)
           new == out \o more
<1>1. /\ lines \in Seq(Line) /\ out \in Seq(Events(n)) /\ held \in Seq(1..n) /\ n \in Nat
      /\ Covered(lines, out, held) /\ InOrder(lines, out)
      /\ Follows(lines, out, held) /\ Increasing(held)
  BY DEF Held
<1>2. /\ Len(out) \in Nat /\ Len(held) \in Nat /\ Len(more) = Len(held)
      /\ \A k \in 1..Len(out) : out[k] \in Events(n)
      /\ \A k \in 1..Len(held) : more[k].at = held[k] /\ held[k] \in 1..n
  BY <1>1, Elements
<1>8. more \in Seq(Events(n))
  OBVIOUS
<1>3. /\ new \in Seq(Events(n)) /\ Len(new) = Len(out) + Len(held)
      /\ \A k \in 1..Len(out) : new[k] = out[k]
      /\ \A k \in 1..Len(held) : new[Len(out) + k] = more[k]
  <2> HIDE DEF n
  <2>1. /\ out \o more \in Seq(Events(n)) /\ Len(out \o more) = Len(out) + Len(more)
        /\ \A k \in 1..Len(out) : (out \o more)[k] = out[k]
        /\ \A k \in 1..Len(more) : (out \o more)[Len(out) + k] = more[k]
    <3>1. out \in Seq(Events(n)) /\ more \in Seq(Events(n))
      BY <1>1, <1>8
    <3>2. out \o more \in Seq(Events(n))
      BY <3>1, Joined
    <3>3. Len(out \o more) = Len(out) + Len(more)
      BY <3>1, Joined
    <3>4. \A k \in 1..Len(out) : (out \o more)[k] = out[k]
      BY <3>1, Joined
    <3>5. \A k \in 1..Len(more) : (out \o more)[Len(out) + k] = more[k]
      BY <3>1, Joined
    <3> QED BY <3>2, <3>3, <3>4, <3>5
  <2>2. Len(more) = Len(held) /\ new = out \o more
    BY <1>2
  <2> HIDE DEF new
  <2> QED BY <2>1, <2>2, Zenon
<1>4. ASSUME NEW k \in 1..Len(new)
      PROVE  \/ k \in 1..Len(out) /\ new[k].at = out[k].at /\ out[k].at \in 0..n
             \/ /\ k - Len(out) \in 1..Len(held) /\ new[k].at = held[k - Len(out)]
                  /\ held[k - Len(out)] \in 1..n
                /\ k > Len(out)
  <2>1. CASE k <= Len(out)
    BY <1>2, <1>3, <2>1 DEF Events
  <2>2. CASE k > Len(out)
    <3>1. k - Len(out) \in 1..Len(held) /\ k = Len(out) + (k - Len(out))
      BY <1>2, <1>3, <2>2
    <3>2. new[Len(out) + (k - Len(out))] = more[k - Len(out)]
      BY <1>3, <3>1
    <3> QED BY <1>2, <2>2, <3>1, <3>2
  <2> QED BY <1>2, <1>3, <2>1, <2>2
<1> HIDE DEF n, new
<1>5. Covered(lines, new, << >>)
  <2>1. Len(new) + Len(<< >>) = n
    BY <1>1, <1>2, <1>3 DEF Covered, n
  <2>2. ASSUME NEW i \in 1..n PROVE \E k \in 1..Len(new) : new[k].at = i
    <3>1. CASE \E k \in 1..Len(out) : out[k].at = i
      <4>1. \A k \in 1..Len(out) : k \in 1..Len(new) /\ new[k] = out[k]
        BY <1>2, <1>3
      <4> QED BY <3>1, <4>1
    <3>2. CASE \E k \in 1..Len(held) : held[k] = i
      <4>1. PICK k \in 1..Len(held) : held[k] = i
        BY <3>2
      <4>2. Len(out) + k \in 1..Len(new)
        BY <1>2, <1>3
      <4>3. new[Len(out) + k].at = i
        BY <1>2, <1>3, <4>1
      <4> QED BY <4>2, <4>3
    <3> QED BY <1>1, <3>1, <3>2 DEF Covered, n
  <2> QED BY <2>1, <2>2 DEF Covered, n
<1>6. InOrder(lines, new)
  <2> SUFFICES ASSUME NEW k \in 1..Len(new), NEW l \in 1..Len(new),
                      k < l, new[k].at > new[l].at, new[l].at # 0
               PROVE  Overtakes(lines, new[k].at, new[l].at)
    BY DEF InOrder
  <2>1. CASE l \in 1..Len(out)
    <3>1. k \in 1..Len(out)
      BY <1>2, <2>1
    <3>2. new[k].at = out[k].at /\ new[l].at = out[l].at
      BY <1>3, <2>1, <3>1
    <3> QED BY <1>1, <2>1, <3>1, <3>2 DEF InOrder
  <2>2. CASE l \notin 1..Len(out)
    <3>1. l - Len(out) \in 1..Len(held) /\ new[l].at = held[l - Len(out)] /\ l > Len(out)
          /\ held[l - Len(out)] \in 1..n
      BY <1>4, <2>2
    <3>2. CASE k \in 1..Len(out)
      <4>1. new[k].at = out[k].at
        BY <1>3, <3>2
      <4> QED BY <1>1, <3>1, <3>2, <4>1 DEF Follows
    <3>3. CASE k \notin 1..Len(out)
      <4>1. k - Len(out) \in 1..Len(held) /\ new[k].at = held[k - Len(out)] /\ held[k - Len(out)] \in 1..n
        BY <1>4, <3>3
      <4>2. k - Len(out) < l - Len(out)
        BY <1>2, <1>3
      <4>3. held[k - Len(out)] < held[l - Len(out)]
        BY <1>1, <3>1, <4>1, <4>2 DEF Increasing
      <4> QED BY SMTT(30), <1>1, <3>1, <4>1, <4>3
    <3> QED BY <3>2, <3>3
  <2> QED BY <2>1, <2>2
<1>7. Follows(lines, new, << >>) /\ Increasing(<< >>) /\ << >> \in Seq(1..n)
  BY DEF Follows, Increasing
<1> QED BY <1>1, <1>3, <1>5, <1>6, <1>7 DEF Held, n, new

\* What carries no content may overtake what is held back, if that is content.
LEMMA OtherOvertakes ==
  ASSUME NEW lines, NEW out, NEW held, Held(lines, out, held),
         \A a \in 1..Len(held) : lines[held[a]].kind = "content",
         NEW line \in Line, line.kind = "other"
  PROVE  Held(Append(lines, line), Append(out, [at |-> Len(lines) + 1, text |-> line.text]), held)
<1> DEFINE n == Len(lines)
           more == Append(lines, line)
           new == Append(out, [at |-> n + 1, text |-> line.text])
<1>1. /\ lines \in Seq(Line) /\ out \in Seq(Events(n)) /\ held \in Seq(1..n) /\ n \in Nat
      /\ Covered(lines, out, held) /\ InOrder(lines, out)
      /\ Follows(lines, out, held) /\ Increasing(held)
  BY DEF Held
<1>2. /\ more \in Seq(Line) /\ Len(more) = n + 1 /\ more[n + 1] = line
      /\ \A i \in 1..n : more[i] = lines[i]
      /\ held \in Seq(1..(n + 1)) /\ Len(held) \in Nat /\ \A a \in 1..Len(held) : held[a] \in 1..n
  BY <1>1
<1>3. /\ Len(out) \in Nat /\ \A k \in 1..Len(out) : out[k].at \in 0..n
  <2>1. Len(out) \in Nat /\ \A k \in 1..Len(out) : out[k] \in Events(n)
    BY <1>1, Elements
  <2> QED BY <2>1 DEF Events
<1>4. /\ new \in Seq(Events(n + 1)) /\ Len(new) = Len(out) + 1
      /\ new[Len(out) + 1].at = n + 1
      /\ \A k \in 1..Len(out) : new[k] = out[k]
  <2> DEFINE event == [at |-> n + 1, text |-> line.text]
  <2>1. event \in Events(n + 1) /\ event.at = n + 1
    BY <1>1 DEF Events, Line
  <2> HIDE DEF n, event
  <2>2. out \in Seq(Events(n + 1))
    BY <1>1, EventsGrow
  <2>3. /\ Append(out, event) \in Seq(Events(n + 1)) /\ Len(Append(out, event)) = Len(out) + 1
        /\ Append(out, event)[Len(out) + 1] = event
        /\ \A k \in 1..Len(out) : Append(out, event)[k] = out[k]
    BY <2>1, <2>2, Appended
  <2>4. new = Append(out, event)
    BY DEF event
  <2> QED BY <2>1, <2>3, <2>4
<1>0. Len(out) + Len(held) = n
  BY <1>1 DEF Covered
<1>8. /\ n \in Nat /\ Len(more) = n + 1 /\ Len(held) \in Nat /\ Len(out) \in Nat
      /\ Len(new) = Len(out) + 1
  BY <1>1, <1>2, <1>3, <1>4
<1> HIDE DEF n, more, new
<1>5. Covered(more, new, held)
  <2>1. Len(new) + Len(held) = Len(more)
    BY <1>0, <1>8
  <2>2. ASSUME NEW i \in 1..(n + 1)
        PROVE  (\E k \in 1..Len(new) : new[k].at = i) \/ (\E k \in 1..Len(held) : held[k] = i)
    <3>1. CASE i = n + 1
      <4>1. Len(out) + 1 \in 1..Len(new) /\ new[Len(out) + 1].at = i
        BY <1>3, <1>4, <3>1
      <4> QED BY <4>1
    <3>2. CASE i # n + 1
      <4>1. i \in 1..n
        BY <1>1, <3>2
      <4>2. (\E k \in 1..Len(out) : out[k].at = i) \/ (\E k \in 1..Len(held) : held[k] = i)
        BY <1>1, <4>1 DEF Covered, n
      <4>3. \A k \in 1..Len(out) : k \in 1..Len(new) /\ new[k].at = out[k].at
        BY <1>3, <1>4
      <4> QED BY <4>2, <4>3
    <3> QED BY <3>1, <3>2
  <2> QED BY <1>2, <2>1, <2>2 DEF Covered
<1>6. InOrder(more, new)
  <2> SUFFICES ASSUME NEW k \in 1..Len(new), NEW l \in 1..Len(new),
                      k < l, new[k].at > new[l].at, new[l].at # 0
               PROVE  Overtakes(more, new[k].at, new[l].at)
    BY DEF InOrder
  <2>1. k \in 1..Len(out)
    BY <1>8
  <2>6. new[k].at = out[k].at /\ out[k].at \in 0..n
    BY <1>3, <1>4, <2>1
  <2>2. l # Len(out) + 1
    BY <1>4, <1>8, <2>6
  <2>7. l \in 1..Len(out)
    BY <1>8, <2>2
  <2>3. new[l].at = out[l].at /\ out[l].at \in 0..n
    BY <1>3, <1>4, <2>7
  <2>4. Overtakes(lines, out[k].at, out[l].at)
    BY <1>1, <2>1, <2>6, <2>7, <2>3 DEF InOrder
  <2>5. out[k].at \in 1..n /\ out[l].at \in 1..n
    BY <1>8, <2>6, <2>3
  <2> QED BY <1>2, <2>6, <2>3, <2>4, <2>5 DEF Overtakes
<1>7. Follows(more, new, held)
  <2> SUFFICES ASSUME NEW k \in 1..Len(new), NEW a \in 1..Len(held), new[k].at > held[a]
               PROVE  Overtakes(more, new[k].at, held[a])
    BY DEF Follows
  <2>1. held[a] \in 1..n /\ more[held[a]] = lines[held[a]]
    BY <1>2
  <2>2. CASE k = Len(out) + 1
    <3>1. more[new[k].at].kind = "other"
      BY <1>2, <1>4, <2>2
    <3> QED BY <2>1, <3>1 DEF Overtakes
  <2>3. CASE k # Len(out) + 1
    <3>4. k \in 1..Len(out)
      BY <1>8, <2>3
    <3>1. new[k].at = out[k].at /\ out[k].at \in 0..n
      BY <1>3, <1>4, <3>4
    <3>2. Overtakes(lines, out[k].at, held[a])
      BY <1>1, <3>1, <3>4 DEF Follows
    <3>3. out[k].at \in 1..n
      BY <1>8, <2>1, <3>1
    <3> QED BY <1>2, <2>1, <3>1, <3>2, <3>3 DEF Overtakes
  <2> QED BY <2>2, <2>3
<1> QED BY <1>1, <1>2, <1>4, <1>5, <1>6, <1>7 DEF Held, n, more, new

\* Joining three in either order is the same.
LEMMA JoinedThrice ==
  ASSUME NEW T, NEW s \in Seq(T), NEW t \in Seq(T), NEW u \in Seq(T)
  PROVE  (s \o t) \o u = s \o (t \o u)
OBVIOUS

\* Joining one element is appending it.
LEMMA AppendedJoined ==
  ASSUME NEW T, NEW s \in Seq(T), NEW e \in T
  PROVE  s \o <<e>> = Append(s, e)
OBVIOUS

\* Joining and then appending is joining what is appended to.
LEMMA JoinedAppended ==
  ASSUME NEW T, NEW s \in Seq(T), NEW t \in Seq(T), NEW e \in T
  PROVE  (s \o t) \o <<e>> = s \o Append(t, e)
<1>1. Append(t, e) = t \o <<e>> /\ <<e>> \in Seq(T)
  OBVIOUS
<1> QED BY <1>1, JoinedThrice

\* What is held back goes out whole: every line once, in its order, with its
\* text.
LEMMA FlushedKeeps ==
  ASSUME NEW lines \in Seq(Line), NEW chunks \in Seq(1..Len(lines))
  PROVE  /\ Flushed(lines, chunks) \in Seq(Events(Len(lines)))
         /\ Len(Flushed(lines, chunks)) = Len(chunks)
         /\ \A k \in 1..Len(chunks) : Flushed(lines, chunks)[k] = Event(lines, chunks[k])
<1>1. Len(chunks) \in Nat
  OBVIOUS
<1>2. ASSUME NEW k \in 1..Len(chunks) PROVE Event(lines, chunks[k]) \in Events(Len(lines))
  <2>1. chunks[k] \in 1..Len(lines) /\ Len(lines) \in Nat
    OBVIOUS
  <2>2. lines[chunks[k]] \in Line
    BY <2>1
  <2>3. lines[chunks[k]].text \in Seq(Symbols)
    BY <2>2 DEF Line
  <2> QED BY <2>1, <2>3 DEF Event, Events
<1> QED BY <1>1, <1>2 DEF Flushed

\* A stream whose empty block is cut keeps every line, in its order.
LEMMA SanitizedKeeps ==
  ASSUME NEW n \in Nat, NEW chunks \in Seq(1..n), NEW t \in Seq(Symbols)
  PROVE  /\ Sanitized(chunks, t) \in Seq(Events(n))
         /\ Len(Sanitized(chunks, t)) = Len(chunks)
         /\ \A k \in 1..Len(chunks) :
               /\ Sanitized(chunks, t)[k].at = chunks[k]
               /\ Sanitized(chunks, t)[k].text = IF k = 1 THEN t ELSE << >>
<1>1. Len(chunks) \in Nat
  OBVIOUS
<1>2. ASSUME NEW k \in 1..Len(chunks)
      PROVE  [at |-> chunks[k], text |-> IF k = 1 THEN t ELSE << >>] \in Events(n)
  <2>1. chunks[k] \in 0..n /\ (IF k = 1 THEN t ELSE << >>) \in Seq(Symbols)
    OBVIOUS
  <2> QED BY <2>1 DEF Events
<1> QED BY <1>1, <1>2 DEF Sanitized

-----------------------------------------------------------------------------
(* The empty block *)

\* The longest of the empty blocks is one of them.
LEMMA LongestBlock ==
  ASSUME NEW t \in Seq(Symbols), EmptyBlocks(t) # {}
  PROVE  /\ Longest(EmptyBlocks(t)) \in EmptyBlocks(t) /\ Longest(EmptyBlocks(t)) \in 1..Len(t)
         /\ \A n \in EmptyBlocks(t) : n <= Longest(EmptyBlocks(t))
<1>1. Len(t) \in Nat
  OBVIOUS
<1>2. Len(Open \o Close) = 4
  BY DEF Open, Close
<1>3. EmptyBlocks(t) \in SUBSET (0..Len(t)) /\ EmptyBlocks(t) \in SUBSET (1..Len(t))
  BY <1>1, <1>2 DEF EmptyBlocks
<1>4. Longest(EmptyBlocks(t)) = Max(EmptyBlocks(t))
  BY Zenon DEF Longest, Max
<1> DEFINE S == EmptyBlocks(t)
<1>5. Max(S) \in S /\ \A i \in S : i <= Max(S)
  <2>1. S \in SUBSET (0..Len(t)) /\ S # {}
    BY <1>3
  <2> HIDE DEF S
  <2> QED BY <1>1, <2>1, MaxProperties
<1> QED BY <1>3, <1>4, <1>5

\* Stripping leaves a text.
LEMMA StripType ==
  ASSUME NEW t \in Seq(Symbols)
  PROVE  Strip(t) \in Seq(Symbols)
<1>1. CASE EmptyBlocks(t) = {}
  BY <1>1 DEF Strip
<1>2. CASE EmptyBlocks(t) # {}
  <2> DEFINE n == Longest(EmptyBlocks(t))
  <2>1. n \in 1..Len(t)
    BY <1>2, LongestBlock
  <2>2. Strip(t) = SubSeq(t, n + 1, Len(t))
    BY <1>2 DEF Strip
  <2> HIDE DEF n
  <2> QED BY <2>1, <2>2
<1> QED BY <1>1, <1>2

-----------------------------------------------------------------------------
(* What a stream holds back *)

\* Until a stream fails, every line received was passed on or is held back, in
\* order, and only content is held back. A stream that ends holds back nothing.
HeldInv ==
    /\ TypeOK
    /\ state # "failed" => Held(input, output, pending)
    /\ \A a \in 1..Len(pending) : input[pending[a]].kind = "content"
    /\ state = "ended" => pending = << >>
    /\ InOrder(input, output)
    /\ OnlyPrefixWaits

\* The invariant holds at the start.
LEMMA HeldInit == Init => HeldInv
<1> SUFFICES ASSUME Init PROVE HeldInv
  OBVIOUS
<1>1. /\ input = << >> /\ output = << >> /\ pending = << >> /\ text = << >> /\ decided = FALSE
      /\ state = "connecting"
  BY DEF Init
<1>2. Held(input, output, pending)
  BY <1>1 DEF Held, Covered, InOrder, Follows, Increasing
<1>3. TypeOK
  <2>1. input \in Seq(Line) /\ output \in Seq([at : 0..Len(input), text : Seq(Symbols)])
    BY <1>1
  <2>2. pending \in Seq(1..Len(input)) /\ text \in Seq(Symbols)
    BY <1>1
  <2> QED BY <1>1, <2>1, <2>2 DEF TypeOK
<1> QED BY <1>1, <1>2, <1>3 DEF HeldInv, Held, OnlyPrefixWaits

\* What a line that arrives adds to the lines before it.
LEMMA Received1 ==
  ASSUME TypeOK, NEW line \in Line, input' = Append(input, line)
  PROVE  /\ input' \in Seq(Line) /\ Len(input) \in Nat /\ Len(input') = Len(input) + 1
         /\ input'[Len(input) + 1] = line
         /\ \A i \in 1..Len(input) : input'[i] = input[i]
         /\ pending \in Seq(1..Len(input')) /\ Append(pending, Len(input')) \in Seq(1..Len(input'))
<1>1. input \in Seq(Line) /\ pending \in Seq(1..Len(input))
  BY DEF TypeOK
<1>2. /\ input' \in Seq(Line) /\ Len(input) \in Nat /\ Len(input') = Len(input) + 1
      /\ input'[Len(input) + 1] = line
      /\ \A i \in 1..Len(input) : input'[i] = input[i]
  BY <1>1
<1>3. pending \in Seq(1..Len(input')) /\ Append(pending, Len(input')) \in Seq(1..Len(input'))
  BY <1>1, <1>2
<1> QED BY <1>2, <1>3

\* A step keeps HeldInv if it keeps what is said of the three sequences and
\* of the rest.
LEMMA HeldStands ==
  ASSUME Held(input', output', pending'), text' \in Seq(Symbols), decided' \in BOOLEAN,
         state' \in {"connecting", "open", "ended", "failed", "raised"},
         decided' => pending' = << >>,
         \A a \in 1..Len(pending') : input'[pending'[a]].kind = "content",
         state' = "ended" => pending' = << >>,
         OnlyPrefixWaits'
  PROVE  HeldInv'
<1>1. TypeOK'
  BY DEF TypeOK, Held, Events
<1> QED BY <1>1 DEF HeldInv, Held

\* Two of the three sequences change, or none: what is said of text.
LEMMA WaitsAsBefore ==
  ASSUME HeldInv, UNCHANGED text, pending' = << >> \/ UNCHANGED pending
  PROVE  OnlyPrefixWaits'
BY DEF HeldInv, OnlyPrefixWaits

\* Connecting, opening and raising keep it: they send nothing.
LEMMA HeldStays ==
  ASSUME HeldInv, UNCHANGED <<input, output, pending, text, decided>>,
         state' \in {"connecting", "open", "raised"} \/ UNCHANGED state, state # "failed" \/ UNCHANGED state
  PROVE  HeldInv'
<1>1. TypeOK'
  BY DEF HeldInv, TypeOK
<1>2. OnlyPrefixWaits'
  BY WaitsAsBefore
<1> QED BY <1>1, <1>2 DEF HeldInv

\* A failure keeps it.
LEMMA HeldFails ==
  ASSUME HeldInv, Fail
  PROVE  HeldInv'
<1> DEFINE event == [at |-> 0, text |-> << >>]
           n == Len(input)
<1>1. /\ state' = "failed" /\ output' = Append(output, event)
      /\ UNCHANGED <<input, pending, text, decided>>
  BY DEF Fail
<1>2. /\ TypeOK /\ InOrder(input, output) /\ n \in Nat /\ output \in Seq(Events(n))
      /\ event \in Events(n) /\ event.at = 0
  BY DEF HeldInv, TypeOK, Events
<1> HIDE DEF n, event
<1>3. /\ Append(output, event) \in Seq(Events(n)) /\ Len(output) \in Nat
      /\ Len(Append(output, event)) = Len(output) + 1
      /\ Append(output, event)[Len(output) + 1] = event
      /\ \A k \in 1..Len(output) : Append(output, event)[k] = output[k]
  BY <1>2, Appended
<1>4. TypeOK'
  <2>1. output' \in Seq([at : 0..Len(input'), text : Seq(Symbols)])
    BY <1>1, <1>3 DEF Events, n
  <2> QED BY <1>1, <1>2, <2>1 DEF TypeOK
<1>5. InOrder(input', output')
  <2> SUFFICES ASSUME NEW k \in 1..Len(output'), NEW l \in 1..Len(output'), k < l,
                      output'[k].at > output'[l].at, output'[l].at # 0
               PROVE  Overtakes(input', output'[k].at, output'[l].at)
    BY DEF InOrder
  <2>1. l # Len(output) + 1
    BY <1>1, <1>2, <1>3
  <2>2. Len(output') = Len(output) + 1 /\ Len(output) \in Nat
    BY <1>1, <1>3
  <2>3. k \in 1..Len(output) /\ l \in 1..Len(output)
    BY <2>1, <2>2
  <2>4. output'[k] = output[k] /\ output'[l] = output[l]
    BY <1>1, <1>3, <2>3
  <2> QED BY <1>1, <1>2, <2>3, <2>4 DEF InOrder
<1>6. OnlyPrefixWaits'
  BY <1>1, WaitsAsBefore
<1> QED BY <1>1, <1>4, <1>5, <1>6 DEF HeldInv

\* The end of the stream keeps it: what was held back goes out.
LEMMA HeldEnds ==
  ASSUME HeldInv, End
  PROVE  HeldInv'
<1> DEFINE more == Flushed(input, pending)
<1>1. /\ state = "open" /\ state' = "ended" /\ output' = output \o more /\ pending' = << >>
      /\ UNCHANGED <<input, text, decided>>
  BY DEF End
<1>2. /\ Held(input, output, pending) /\ input \in Seq(Line) /\ pending \in Seq(1..Len(input))
      /\ text \in Seq(Symbols) /\ decided \in BOOLEAN
  BY <1>1 DEF HeldInv, TypeOK
<1>3. /\ more \in Seq(Events(Len(input))) /\ Len(more) = Len(pending)
      /\ \A k \in 1..Len(pending) : more[k] = Event(input, pending[k])
  BY <1>2, FlushedKeeps
<1>4. \A k \in 1..Len(pending) : more[k].at = pending[k]
  <2> HIDE DEF more
  <2> SUFFICES ASSUME NEW k \in 1..Len(pending) PROVE more[k].at = pending[k]
    OBVIOUS
  <2>1. Event(input, pending[k]).at = pending[k]
    BY DEF Event
  <2> QED BY <1>3, <2>1
<1> HIDE DEF more
<1>5. Held(input, output \o more, << >>)
  BY <1>2, <1>3, <1>4, HeldYields
<1>6. OnlyPrefixWaits'
  BY <1>1, WaitsAsBefore
<1>7. Len(<< >>) = 0
  OBVIOUS
<1>8. Held(input', output', pending')
  BY <1>1, <1>5
<1> QED BY <1>1, <1>2, <1>6, <1>7, <1>8, HeldStands

\* A line that is no chunk keeps it.
LEMMA HeldOther ==
  ASSUME HeldInv, Other
  PROVE  HeldInv'
<1> DEFINE line == [kind |-> "other", text |-> << >>]
<1>1. /\ state = "open" /\ input' = Append(input, line)
      /\ output' = Append(output, Event(input', Len(input')))
      /\ UNCHANGED <<pending, text, decided, state>>
  BY DEF Other, Receive
<1>2. line \in Line /\ line.kind = "other"
  BY DEF Line
<1>3. /\ TypeOK /\ Held(input, output, pending) /\ text \in Seq(Symbols) /\ decided \in BOOLEAN
      /\ decided => pending = << >>
      /\ \A a \in 1..Len(pending) : input[pending[a]].kind = "content"
  BY <1>1 DEF HeldInv, TypeOK
<1> HIDE DEF line
<1>4. /\ Len(input') = Len(input) + 1 /\ input'[Len(input) + 1] = line
      /\ \A i \in 1..Len(input) : input'[i] = input[i]
  BY <1>1, <1>2, <1>3, Received1
<1>5. Event(input', Len(input')) = [at |-> Len(input) + 1, text |-> line.text]
  BY <1>4 DEF Event
<1>6. Held(input', output', pending')
  <2>1. Held(Append(input, line), Append(output, [at |-> Len(input) + 1, text |-> line.text]), pending)
    BY <1>2, <1>3, OtherOvertakes
  <2> QED BY <1>1, <1>5, <2>1
<1>7. \A a \in 1..Len(pending) : pending[a] \in 1..Len(input)
  BY <1>3 DEF TypeOK
<1>8. \A a \in 1..Len(pending') : input'[pending'[a]].kind = "content"
  BY <1>1, <1>3, <1>4, <1>7
<1>9. OnlyPrefixWaits'
  BY <1>1, WaitsAsBefore
<1> QED BY <1>1, <1>3, <1>6, <1>8, <1>9, HeldStands

\* A line arrives and all that waits, that line last, is passed on.
LEMMA HeldLeaves ==
  ASSUME HeldInv, state = "open", NEW line \in Line, input' = Append(input, line),
         NEW more \in Seq(Events(Len(input'))), Len(more) = Len(pending) + 1,
         \A k \in 1..(Len(pending) + 1) : more[k].at = Append(pending, Len(input'))[k]
  PROVE  Held(input', output \o more, << >>)
<1> DEFINE wait == Append(pending, Len(input'))
<1>1. TypeOK /\ Held(input, output, pending)
  BY DEF HeldInv
<1>2. Len(input') = Len(input) + 1 /\ wait \in Seq(1..Len(input')) /\ Len(wait) = Len(pending) + 1
  <2>1. pending \in Seq(1..Len(input))
    BY <1>1 DEF TypeOK
  <2> QED BY <1>1, <2>1, Received1
<1>3. Held(input', output, wait)
  <2>1. Held(Append(input, line), output, Append(pending, Len(input) + 1))
    BY <1>1, HeldArrives
  <2> QED BY <1>2, <2>1
<1> HIDE DEF wait
<1>4. Len(more) = Len(wait) /\ \A k \in 1..Len(wait) : more[k].at = wait[k]
  BY <1>2 DEF wait
<1> QED BY <1>3, <1>4, HeldYields

\* A line that does not parse keeps it.
LEMMA HeldRaw ==
  ASSUME HeldInv, Raw
  PROVE  HeldInv'
<1>1. PICK kind \in {"raw", "done"} : Receive(kind, << >>)
  BY DEF Raw
<1> DEFINE line == [kind |-> kind, text |-> << >>]
           first == Flushed(input', pending)
           last == Event(input', Len(input'))
<1>2. /\ state = "open" /\ input' = Append(input, line) /\ output' = (output \o first) \o <<last>>
      /\ pending' = << >> /\ UNCHANGED <<text, decided, state>>
  BY <1>1 DEF Raw, Receive
<1>3. line \in Line
  BY DEF Line
<1>4. /\ TypeOK /\ text \in Seq(Symbols) /\ decided \in BOOLEAN /\ pending \in Seq(1..Len(input))
      /\ output \in Seq(Events(Len(input)))
  BY DEF HeldInv, TypeOK, Events
<1> DEFINE n == Len(input)
<1> HIDE DEF line
<1>5. /\ input' \in Seq(Line) /\ Len(input') = n + 1 /\ n \in Nat /\ pending \in Seq(1..Len(input'))
  BY <1>2, <1>3, <1>4, Received1
<1>6. /\ first \in Seq(Events(n + 1)) /\ Len(first) = Len(pending) /\ Len(pending) \in Nat
      /\ \A k \in 1..Len(pending) : first[k] = Event(input', pending[k])
  BY <1>4, <1>5, FlushedKeeps
<1>7. last \in Events(n + 1) /\ last.at = n + 1
  <2>1. input'[n + 1] \in Line
    BY <1>5
  <2> QED BY <1>5, <2>1 DEF Event, Events, Line
<1>8. \A k \in 1..Len(pending) : first[k].at = pending[k]
  <2> HIDE DEF first, last
  <2> SUFFICES ASSUME NEW k \in 1..Len(pending) PROVE first[k].at = pending[k]
    OBVIOUS
  <2>1. Event(input', pending[k]).at = pending[k]
    BY DEF Event
  <2> QED BY <1>6, <2>1
<1> DEFINE more == Append(first, last)
<1> HIDE DEF first, last
<1>9. /\ more \in Seq(Events(n + 1)) /\ Len(more) = Len(pending) + 1 /\ more[Len(pending) + 1] = last
      /\ \A k \in 1..Len(pending) : more[k] = first[k]
  <2> HIDE DEF n
  <2> QED BY <1>6, <1>7, Appended
<1>10. \A k \in 1..(Len(pending) + 1) : more[k].at = Append(pending, Len(input'))[k]
  <2> HIDE DEF more
  <2> SUFFICES ASSUME NEW k \in 1..(Len(pending) + 1)
               PROVE  more[k].at = Append(pending, Len(input'))[k]
    OBVIOUS
  <2>1. CASE k = Len(pending) + 1
    <3>1. Append(pending, Len(input'))[k] = n + 1
      BY <1>4, <1>5, <2>1
    <3> QED BY <1>7, <1>9, <2>1, <3>1
  <2>2. CASE k # Len(pending) + 1
    <3>1. k \in 1..Len(pending)
      BY <1>6, <2>2
    <3>2. Append(pending, Len(input'))[k] = pending[k]
      BY <1>4, <3>1
    <3> QED BY <1>8, <1>9, <3>1, <3>2
  <2> QED BY <2>1, <2>2
<1>11. Held(input', output \o more, << >>)
  <2>1. more \in Seq(Events(Len(input')))
    BY <1>5, <1>9
  <2> HIDE DEF more, n
  <2> QED BY <1>2, <1>3, <1>9, <1>10, <2>1, HeldLeaves
<1>12. output' = output \o more
  <2> DEFINE E == Events(n + 1)
  <2>1. output \in Seq(E)
    BY <1>4, <1>5, EventsGrow
  <2>2. first \in Seq(E) /\ last \in E
    BY <1>6, <1>7
  <2> HIDE DEF E, n
  <2>3. (output \o first) \o <<last>> = output \o Append(first, last)
    BY <2>1, <2>2, JoinedAppended
  <2> QED BY <1>2, <2>3
<1>13. Held(input', output', pending')
  <2> HIDE DEF more
  <2> QED BY <1>2, <1>11, <1>12
<1>14. OnlyPrefixWaits'
  BY <1>2, WaitsAsBefore
<1>15. Len(<< >>) = 0
  OBVIOUS
<1> QED BY <1>2, <1>4, <1>13, <1>14, <1>15, HeldStands

\* A chunk after the decision keeps it: it goes out as it is.
LEMMA HeldDecided ==
  ASSUME HeldInv, Decided
  PROVE  HeldInv'
<1>1. PICK t \in Contents : Receive("content", t)
  BY DEF Decided
<1> DEFINE line == [kind |-> "content", text |-> t]
           last == Event(input', Len(input'))
<1>2. /\ state = "open" /\ input' = Append(input, line) /\ output' = Append(output, last)
      /\ decided /\ UNCHANGED <<pending, text, decided, state>>
  BY <1>1 DEF Decided, Receive
<1>3. line \in Line
  BY VLLMStreamAssumption DEF Line
<1>4. /\ TypeOK /\ text \in Seq(Symbols) /\ decided \in BOOLEAN /\ pending = << >>
      /\ output \in Seq(Events(Len(input)))
  BY <1>2 DEF HeldInv, TypeOK, Events
<1> DEFINE n == Len(input)
<1> HIDE DEF line
<1>5. input' \in Seq(Line) /\ Len(input') = n + 1 /\ n \in Nat
  BY <1>2, <1>3, <1>4, Received1
<1>6. last \in Events(n + 1) /\ last.at = n + 1
  <2>1. input'[n + 1] \in Line
    BY <1>5
  <2> QED BY <1>5, <2>1 DEF Event, Events, Line
<1> HIDE DEF last
<1>7. <<last>> \in Seq(Events(Len(input'))) /\ Len(<<last>>) = Len(pending) + 1 /\ <<last>>[1] = last
  BY <1>4, <1>5, <1>6
<1>8. \A k \in 1..(Len(pending) + 1) : <<last>>[k].at = Append(pending, Len(input'))[k]
  <2>1. 1..(Len(pending) + 1) = {1} /\ Append(pending, Len(input'))[1] = n + 1
    BY <1>4, <1>5
  <2> QED BY <1>6, <2>1
<1>9. Held(input', output \o <<last>>, << >>)
  BY <1>2, <1>3, <1>7, <1>8, HeldLeaves
<1>10. output' = output \o <<last>>
  <2> DEFINE E == Events(n + 1)
  <2>1. output \in Seq(E) /\ last \in E
    BY <1>4, <1>5, <1>6, EventsGrow
  <2> HIDE DEF E, n
  <2>2. output \o <<last>> = Append(output, last)
    BY <2>1, AppendedJoined
  <2> QED BY <1>2, <2>2
<1>11. Held(input', output', pending')
  BY <1>2, <1>4, <1>9, <1>10
<1>12. OnlyPrefixWaits'
  BY <1>2, WaitsAsBefore
<1>13. Len(pending') = 0 /\ pending' = << >>
  BY <1>2, <1>4
<1> QED BY <1>2, <1>4, <1>11, <1>12, <1>13, HeldStands

\* A chunk held back keeps it.
LEMMA HeldHolds ==
  ASSUME HeldInv, Hold
  PROVE  HeldInv'
<1>1. PICK t \in Contents : /\ ~ShouldDecide(text \o t) /\ Receive("content", t)
                            /\ pending' = Append(pending, Len(input')) /\ text' = text \o t
  BY DEF Hold
<1> DEFINE line == [kind |-> "content", text |-> t]
<1>2. /\ state = "open" /\ input' = Append(input, line) /\ ~decided
      /\ UNCHANGED <<output, decided, state>>
  BY <1>1 DEF Hold, Receive
<1>3. line \in Line /\ line.kind = "content" /\ t \in Seq(Symbols)
  BY VLLMStreamAssumption DEF Line
<1>4. /\ TypeOK /\ text \in Seq(Symbols) /\ decided \in BOOLEAN /\ pending \in Seq(1..Len(input))
      /\ Held(input, output, pending)
      /\ \A a \in 1..Len(pending) : input[pending[a]].kind = "content"
  BY <1>2 DEF HeldInv, TypeOK
<1> HIDE DEF line
<1>5. /\ Len(input') = Len(input) + 1 /\ Len(input) \in Nat /\ input'[Len(input) + 1] = line
      /\ \A i \in 1..Len(input) : input'[i] = input[i]
  BY <1>2, <1>3, <1>4, Received1
<1>6. Held(input', output', pending')
  <2>1. Held(Append(input, line), output, Append(pending, Len(input) + 1))
    BY <1>3, <1>4, HeldArrives
  <2> QED BY <1>1, <1>2, <1>5, <2>1
<1>7. text' \in Seq(Symbols)
  BY <1>1, <1>3, <1>4
<1>8. ASSUME NEW a \in 1..Len(pending') PROVE input'[pending'[a]].kind = "content"
  <2>1. CASE a = Len(pending) + 1
    <3>1. pending'[a] = Len(input) + 1
      BY <1>1, <1>4, <1>5, <2>1
    <3> QED BY <1>3, <1>5, <3>1
  <2>2. CASE a # Len(pending) + 1
    <3>1. Len(pending') = Len(pending) + 1 /\ Len(pending) \in Nat
      BY <1>1, <1>4
    <3>2. a \in 1..Len(pending)
      BY <2>2, <3>1
    <3>3. pending'[a] = pending[a] /\ pending[a] \in 1..Len(input)
      BY <1>1, <1>4, <3>2
    <3> QED BY <1>4, <1>5, <3>2, <3>3
  <2> QED BY <2>1, <2>2
<1>9. OnlyPrefixWaits'
  <2>1. ~(Len(text') >= DecisionLimit) /\ MayOpen(text') /\ EmptyBlocks(text') = {}
    BY <1>1 DEF ShouldDecide
  <2>2. Len(text') < DecisionLimit
    BY <1>7, <2>1, VLLMStreamAssumption
  <2> QED BY <2>1, <2>2 DEF OnlyPrefixWaits
<1> QED BY <1>2, <1>4, <1>6, <1>7, <1>8, <1>9, HeldStands

\* Deciding keeps it: what was held back goes out, cut or not.
LEMMA HeldDecides ==
  ASSUME HeldInv, Decide
  PROVE  HeldInv'
<1> DEFINE wait == Append(pending, Len(input'))
           more == IF Strip(text') # text' THEN Sanitized(wait, Strip(text')) ELSE Flushed(input', wait)
<1>1. PICK t \in Contents : /\ Receive("content", t) /\ text' = text \o t /\ output' = output \o more
  BY DEF Decide
<1> DEFINE line == [kind |-> "content", text |-> t]
<1>2. /\ state = "open" /\ input' = Append(input, line) /\ pending' = << >> /\ decided' = TRUE
      /\ UNCHANGED state
  BY <1>1 DEF Decide, Receive
<1>3. line \in Line /\ t \in Seq(Symbols)
  BY VLLMStreamAssumption DEF Line
<1>4. TypeOK /\ text \in Seq(Symbols) /\ pending \in Seq(1..Len(input))
  BY DEF HeldInv, TypeOK
<1>5. text' \in Seq(Symbols) /\ Strip(text') \in Seq(Symbols)
  <2>1. text' \in Seq(Symbols)
    BY <1>1, <1>3, <1>4
  <2> QED BY <2>1, StripType
<1> HIDE DEF line
<1>6. /\ input' \in Seq(Line) /\ Len(input') \in Nat /\ wait \in Seq(1..Len(input'))
  BY <1>2, <1>3, <1>4, Received1
<1>7. Len(wait) = Len(pending) + 1
  BY <1>4
<1> HIDE DEF wait
<1>8. /\ more \in Seq(Events(Len(input'))) /\ Len(more) = Len(wait)
      /\ \A k \in 1..Len(wait) : more[k].at = wait[k]
  <2>1. CASE Strip(text') # text'
    <3>1. more = Sanitized(wait, Strip(text'))
      BY <2>1
    <3>2. /\ Sanitized(wait, Strip(text')) \in Seq(Events(Len(input')))
          /\ Len(Sanitized(wait, Strip(text'))) = Len(wait)
          /\ \A k \in 1..Len(wait) :
               Sanitized(wait, Strip(text'))[k].at = wait[k]
      BY <1>5, <1>6, SanitizedKeeps
    <3> HIDE DEF more
    <3> QED BY <3>1, <3>2
  <2>2. CASE Strip(text') = text'
    <3>1. more = Flushed(input', wait)
      BY <2>2
    <3>2. /\ Flushed(input', wait) \in Seq(Events(Len(input'))) /\ Len(Flushed(input', wait)) = Len(wait)
          /\ \A k \in 1..Len(wait) : Flushed(input', wait)[k] = Event(input', wait[k])
      BY <1>6, FlushedKeeps
    <3>3. \A k \in 1..Len(wait) : Event(input', wait[k]).at = wait[k]
      BY DEF Event
    <3> HIDE DEF more
    <3> QED BY <3>1, <3>2, <3>3
  <2> QED BY <2>1, <2>2
<1> HIDE DEF more
<1>9. Held(input', output \o more, << >>)
  BY <1>2, <1>3, <1>7, <1>8, HeldLeaves DEF wait
<1>10. Held(input', output', pending')
  BY <1>1, <1>2, <1>9
<1>11. Len(pending') = 0
  BY <1>2
<1>12. OnlyPrefixWaits'
  BY <1>2 DEF OnlyPrefixWaits
<1> QED BY <1>2, <1>5, <1>10, <1>11, <1>12, HeldStands

\* Every step keeps the invariant.
LEMMA HeldNext == HeldInv /\ [Next]_vars => HeldInv'
<1> SUFFICES ASSUME HeldInv, [Next]_vars PROVE HeldInv'
  OBVIOUS
<1>1. CASE Connect
  BY <1>1, HeldStays DEF Connect
<1>2. CASE HttpError
  BY <1>2, HeldStays DEF HttpError
<1>3. CASE Fail
  BY <1>3, HeldFails
<1>4. CASE Raw
  BY <1>4, HeldRaw
<1>5. CASE Other
  BY <1>5, HeldOther
<1>6. CASE Decided
  BY <1>6, HeldDecided
<1>7. CASE Hold
  BY <1>7, HeldHolds
<1>8. CASE Decide
  BY <1>8, HeldDecides
<1>9. CASE End
  BY <1>9, HeldEnds
<1>10. CASE UNCHANGED vars
  BY <1>10, HeldStays DEF vars
<1> QED BY <1>1, <1>2, <1>3, <1>4, <1>5, <1>6, <1>7, <1>8, <1>9, <1>10 DEF Next

-----------------------------------------------------------------------------
\* What is held back is passed on once and in order: every line of a stream that
\* ends is yielded exactly once, content never overtakes content, and only an
\* undecided prefix waits (stream_chat_completion, flush_pending).
THEOREM HeldBackIsNotLost == Spec => []NothingIsLost
<1>1. Init => HeldInv
  BY HeldInit
<1>2. HeldInv /\ [Next]_vars => HeldInv'
  BY HeldNext
<1>3. HeldInv => NothingIsLost
  <2> SUFFICES ASSUME HeldInv PROVE NothingIsLost
    OBVIOUS
  <2>1. TypeOK /\ OnlyPrefixWaits
    BY DEF HeldInv
  <2>2. ContentInOrder
    BY DEF HeldInv, InOrder, Overtakes, ContentInOrder
  <2>3. EveryLineOnce
    <3> SUFFICES ASSUME state = "ended"
                 PROVE  /\ Len(output) = Len(input)
                        /\ \A i \in 1..Len(input) : \E k \in 1..Len(output) : output[k].at = i
      BY DEF EveryLineOnce
    <3>1. Held(input, output, pending) /\ pending = << >>
      BY DEF HeldInv
    <3>2. Len(pending) = 0 /\ Len(output) \in Nat /\ Len(input) \in Nat
      BY <3>1 DEF Held
    <3> QED BY <3>1, <3>2 DEF Held, Covered
  <2> QED BY <2>1, <2>2, <2>3 DEF NothingIsLost
<1> QED BY <1>1, <1>2, <1>3, PTL DEF Spec

-----------------------------------------------------------------------------
(* Texts joined *)

Splits(u, m, T) == \E v \in Seq(T), e \in T : Len(v) = m /\ u = Append(v, e)

\* A sequence is what comes before its last element, and that.
LEMMA SplitLast ==
  ASSUME NEW T, NEW m \in Nat, NEW u \in Seq(T), Len(u) = m + 1
  PROVE  Splits(u, m, T)
<1> DEFINE v == SubSeq(u, 1, m)
           e == u[m + 1]
<1>1. v \in Seq(T) /\ e \in T /\ Len(v) = m /\ u = Append(v, e)
  OBVIOUS
<1> HIDE DEF v
<1> QED BY <1>1 DEF Splits

Appends(J, T) == \A v \in J, e \in T : Append(v, e) \in J

\* A set of sequences with the empty one and all that is appended is all of them.
LEMMA AppendInduction ==
  ASSUME NEW T, NEW J \in SUBSET Seq(T), << >> \in J, Appends(J, T)
  PROVE  J = Seq(T)
<1> DEFINE Q(m) == \A u \in Seq(T) : Len(u) = m => u \in J
           N == {m \in Nat : Q(m)}
<1>1. Q(0)
  <2> SUFFICES ASSUME NEW u \in Seq(T), Len(u) = 0 PROVE u \in J
    OBVIOUS
  <2>1. u = << >>
    OBVIOUS
  <2> QED BY <2>1
<1>2. ASSUME NEW m \in Nat, Q(m) PROVE Q(m + 1)
  <2> SUFFICES ASSUME NEW u \in Seq(T), Len(u) = m + 1 PROVE u \in J
    OBVIOUS
  <2>1. PICK v \in Seq(T), e \in T : Len(v) = m /\ u = Append(v, e)
    <3> HIDE DEF Q, N
    <3>1. Splits(u, m, T)
      BY SplitLast
    <3> QED BY <3>1 DEF Splits
  <2> QED BY <1>2, <2>1 DEF Appends
<1> HIDE DEF Q
<1>3. N = Nat
  <2>1. N \in SUBSET Nat /\ 0 \in N /\ \A m \in N : m + 1 \in N
    BY <1>1, <1>2
  <2> HIDE DEF N
  <2> QED BY <2>1, SetInduction
<1>4. \A u \in Seq(T) : u \in J
  <2> SUFFICES ASSUME NEW u \in Seq(T) PROVE u \in J
    OBVIOUS
  <2>1. Len(u) \in Nat
    OBVIOUS
  <2>2. Q(Len(u))
    BY <1>3, <2>1
  <2> QED BY <2>2 DEF Q
<1> QED BY <1>4

IsJoined(s, u) == Concat(s \o u) = Concat(s) \o Concat(u)

\* Joining pieces and then one more is joining the longer sequence.
LEMMA JoinedGrows ==
  ASSUME NEW T, NEW s \in Seq(Seq(T)), NEW v \in Seq(Seq(T)), NEW e \in Seq(T), IsJoined(s, v)
  PROVE  IsJoined(s, Append(v, e))
<1>1. Concat(s) \in Seq(T) /\ Concat(v) \in Seq(T)
  BY ConcatType
<1>2. Concat(Append(v, e)) = Concat(v) \o e
  BY ConcatAppend
<1>3. s \o v \in Seq(Seq(T)) /\ s \o Append(v, e) = Append(s \o v, e)
  OBVIOUS
<1>4. Concat(Append(s \o v, e)) = Concat(s \o v) \o e
  BY <1>3, ConcatAppend
<1>5. \A a, b \in Seq(T) : (a \o b) \o e = a \o (b \o e)
  OBVIOUS
<1>6. (Concat(s) \o Concat(v)) \o e = Concat(s) \o (Concat(v) \o e)
  BY <1>1, <1>5
<1> QED BY <1>2, <1>3, <1>4, <1>6 DEF IsJoined

\* What comes of two sequences of pieces is what comes of each, joined.
LEMMA ConcatJoined ==
  ASSUME NEW T, NEW s \in Seq(Seq(T)), NEW t \in Seq(Seq(T))
  PROVE  Concat(s \o t) = Concat(s) \o Concat(t)
<1> DEFINE J == {v \in Seq(Seq(T)) : IsJoined(s, v)}
<1>1. << >> \in J
  <2>1. s \o << >> = s /\ << >> \in Seq(Seq(T))
    OBVIOUS
  <2>2. Concat(s) \in Seq(T)
    BY ConcatType
  <2>3. Concat(s) \o << >> = Concat(s)
    BY <2>2
  <2> QED BY <2>1, <2>3, ConcatEmpty DEF IsJoined
<1>2. ASSUME NEW v \in J, NEW e \in Seq(T) PROVE Append(v, e) \in J
  <2>1. v \in Seq(Seq(T)) /\ IsJoined(s, v)
    OBVIOUS
  <2>2. Append(v, e) \in Seq(Seq(T))
    BY <2>1
  <2> QED BY <2>1, <2>2, JoinedGrows
<1>3. J \in SUBSET Seq(Seq(T))
  OBVIOUS
<1> HIDE DEF J
<1>4. J = Seq(Seq(T))
  <2>1. Appends(J, Seq(T))
    BY <1>2, Zenon DEF Appends
  <2> QED BY <1>1, <1>3, <2>1, AppendInduction
<1>5. t \in J
  BY <1>4
<1> QED BY <1>5 DEF J, IsJoined

\* Only the first of the texts says something.
OnlyFirst(u) == \A k \in 2..Len(u) : u[k] = << >>

\* Something appended is not nothing.
LEMMA AppendedIsSome ==
  ASSUME NEW T, NEW s \in Seq(T), NEW e \in T
  PROVE  Append(s, e) \in Seq(T) /\ Append(s, e) # << >>
<1> DEFINE more == Append(s, e)
<1>1. more \in Seq(T) /\ Len(s) \in Nat /\ Len(more) = Len(s) + 1
  OBVIOUS
<1>2. Len(<< >>) = 0
  OBVIOUS
<1> HIDE DEF more
<1>3. more # << >>
  BY <1>1, <1>2
<1> QED BY <1>1, <1>3 DEF more

\* Empty pieces after the first change nothing.
LEMMA FirstStays ==
  ASSUME NEW T, NEW v \in Seq(Seq(T)), NEW e \in Seq(T), OnlyFirst(Append(v, e)),
         OnlyFirst(v) => Concat(v) = IF v = << >> THEN << >> ELSE v[1]
  PROVE  Concat(Append(v, e)) = Append(v, e)[1]
<1>1. Concat(Append(v, e)) = Concat(v) \o e
  BY ConcatAppend
<1>2. CASE v = << >>
  <2>1. Append(v, e)[1] = e /\ << >> \o e = e
    BY <1>2
  <2> QED BY <1>1, <1>2, <2>1, ConcatEmpty
<1>3. CASE v # << >>
  <2>1. /\ Len(v) \in Nat \ {0} /\ Len(Append(v, e)) = Len(v) + 1
        /\ \A k \in 1..Len(v) : Append(v, e)[k] = v[k]
        /\ Append(v, e)[Len(v) + 1] = e
    BY <1>3
  <2>2. OnlyFirst(v) /\ e = << >> /\ Append(v, e)[1] = v[1]
    BY <2>1 DEF OnlyFirst
  <2>3. Concat(v) \in Seq(T)
    BY ConcatType
  <2>4. Concat(v) \o << >> = Concat(v)
    BY <2>3
  <2> QED BY <1>1, <1>3, <2>2, <2>4
<1> QED BY <1>2, <1>3

\* Of pieces all empty but the first, the first comes.
LEMMA ConcatFirst ==
  ASSUME NEW T, NEW t \in Seq(Seq(T)), t # << >>, OnlyFirst(t)
  PROVE  Concat(t) = t[1]
<1> DEFINE J == {v \in Seq(Seq(T)) : OnlyFirst(v) => Concat(v) = IF v = << >> THEN << >> ELSE v[1]}
<1>1. << >> \in J
  <2>1. << >> \in Seq(Seq(T))
    OBVIOUS
  <2> QED BY <2>1, ConcatEmpty
<1>2. ASSUME NEW v \in J, NEW e \in Seq(T) PROVE Append(v, e) \in J
  <2>1. v \in Seq(Seq(T)) /\ (OnlyFirst(v) => Concat(v) = IF v = << >> THEN << >> ELSE v[1])
    OBVIOUS
  <2>2. Append(v, e) \in Seq(Seq(T)) /\ Append(v, e) # << >>
    <3> HIDE DEF J
    <3> QED BY <2>1, AppendedIsSome
  <2>3. OnlyFirst(Append(v, e)) => Concat(Append(v, e)) = Append(v, e)[1]
    BY <2>1, FirstStays
  <2> QED BY <2>2, <2>3
<1>3. J \in SUBSET Seq(Seq(T))
  OBVIOUS
<1>4. J = Seq(Seq(T))
  <2> HIDE DEF J
  <2>1. Appends(J, Seq(T))
    BY <1>2, Zenon DEF Appends
  <2> QED BY <1>1, <1>3, <2>1, AppendInduction
<1>5. t \in J
  <2> HIDE DEF J
  <2> QED BY <1>4
<1> QED BY <1>5

\* A sequence that agrees with two, one after the other, is their join.
LEMMA JoinIs ==
  ASSUME NEW T, NEW a \in Seq(T), NEW b \in Seq(T), NEW c \in Seq(T), Len(c) = Len(a) + Len(b),
         \A k \in 1..Len(a) : c[k] = a[k], \A k \in 1..Len(b) : c[Len(a) + k] = b[k]
  PROVE  c = a \o b
OBVIOUS

Texts(ss) == [k \in 1..Len(ss) |-> ss[k].text]

\* The texts of what is sent, one by one.
LEMMA TextsOfEvents ==
  ASSUME NEW n \in Nat, NEW ss \in Seq(Events(n))
  PROVE  /\ Texts(ss) \in Seq(Seq(Symbols)) /\ Len(Texts(ss)) = Len(ss)
         /\ \A k \in 1..Len(ss) : Texts(ss)[k] = ss[k].text
<1>1. Len(ss) \in Nat /\ \A k \in 1..Len(ss) : ss[k] \in Events(n)
  BY Elements
<1>2. \A k \in 1..Len(ss) : ss[k].text \in Seq(Symbols)
  BY <1>1 DEF Events
<1> QED BY <1>1, <1>2 DEF Texts

\* The texts of what is received, one by one.
LEMMA TextsOfLines ==
  ASSUME NEW ss \in Seq(Line)
  PROVE  /\ Texts(ss) \in Seq(Seq(Symbols)) /\ Len(Texts(ss)) = Len(ss)
         /\ \A k \in 1..Len(ss) : Texts(ss)[k] = ss[k].text
<1>1. Len(ss) \in Nat /\ \A k \in 1..Len(ss) : ss[k] \in Line
  BY Elements
<1>2. \A k \in 1..Len(ss) : ss[k].text \in Seq(Symbols)
  BY <1>1 DEF Line
<1> QED BY <1>1, <1>2 DEF Texts

\* A line adds its text to what has been received.
LEMMA ReceivedGrows ==
  ASSUME NEW lines \in Seq(Line), NEW line \in Line
  PROVE  Concat(Texts(Append(lines, line))) = Concat(Texts(lines)) \o line.text
<1> DEFINE more == Append(lines, line)
<1>1. /\ more \in Seq(Line) /\ Len(lines) \in Nat /\ Len(more) = Len(lines) + 1
      /\ more[Len(lines) + 1] = line /\ \A k \in 1..Len(lines) : more[k] = lines[k]
  BY Appended
<1> HIDE DEF more
<1>2. /\ Texts(lines) \in Seq(Seq(Symbols)) /\ Len(Texts(lines)) = Len(lines)
      /\ \A k \in 1..Len(lines) : Texts(lines)[k] = lines[k].text
  BY TextsOfLines
<1>3. /\ Texts(more) \in Seq(Seq(Symbols)) /\ Len(Texts(more)) = Len(more)
      /\ \A k \in 1..Len(more) : Texts(more)[k] = more[k].text
  BY <1>1, TextsOfLines
<1> DEFINE n == Len(lines)
           k == n + 1
<1>4. n \in Nat /\ k \in Nat /\ k = n + 1 /\ Len(Texts(lines)) = n /\ Len(Texts(more)) = k
  BY <1>1, <1>2, <1>3
<1>5. \A i \in 1..n : Texts(more)[i] = Texts(lines)[i]
  <2> SUFFICES ASSUME NEW i \in 1..n PROVE Texts(more)[i] = Texts(lines)[i]
    OBVIOUS
  <2>1. i \in 1..Len(more)
    BY <1>1
  <2> QED BY <1>1, <1>2, <1>3, <2>1
<1>6. Texts(more)[k] = line.text
  BY <1>1, <1>3
<1> HIDE DEF n, k
<1>7. Concat(Texts(more)) = Concat(Texts(lines)) \o Texts(more)[k]
  <2> DEFINE a == Texts(lines)
             b == Texts(more)
  <2>1. /\ a \in Seq(Seq(Symbols)) /\ b \in Seq(Seq(Symbols)) /\ Len(a) = n /\ Len(b) = k
        /\ \A i \in 1..n : b[i] = a[i]
    BY <1>2, <1>3, <1>4, <1>5
  <2> HIDE DEF a, b
  <2>2. Concat(b) = Concat(a) \o b[k]
    BY <1>4, <2>1, ConcatLast
  <2> QED BY <2>2 DEF a, b
<1> QED BY <1>6, <1>7 DEF more

\* Events passed on add their texts to what has been told.
LEMMA ToldGrows ==
  ASSUME NEW n \in Nat, NEW out \in Seq(Events(n)), NEW more \in Seq(Events(n))
  PROVE  Concat(Texts(out \o more)) = Concat(Texts(out)) \o Concat(Texts(more))
<1> DEFINE new == out \o more
           E == Events(n)
<1>1. out \in Seq(E) /\ more \in Seq(E)
  OBVIOUS
<1> HIDE DEF E
<1>2. /\ new \in Seq(E) /\ Len(out) \in Nat /\ Len(more) \in Nat /\ Len(new) = Len(out) + Len(more)
      /\ \A k \in 1..Len(out) : new[k] = out[k]
      /\ \A k \in 1..Len(more) : new[Len(out) + k] = more[k]
  BY <1>1, Joined
<1> HIDE DEF new
<1>3. /\ Texts(out) \in Seq(Seq(Symbols)) /\ Len(Texts(out)) = Len(out)
      /\ \A k \in 1..Len(out) : Texts(out)[k] = out[k].text
      /\ Texts(more) \in Seq(Seq(Symbols)) /\ Len(Texts(more)) = Len(more)
      /\ \A k \in 1..Len(more) : Texts(more)[k] = more[k].text
      /\ Texts(new) \in Seq(Seq(Symbols)) /\ Len(Texts(new)) = Len(new)
      /\ \A k \in 1..Len(new) : Texts(new)[k] = new[k].text
  BY <1>2, TextsOfEvents DEF E
<1>4. Texts(new) = Texts(out) \o Texts(more)
  <2>1. \A k \in 1..Len(Texts(out)) : Texts(new)[k] = Texts(out)[k]
    <3> SUFFICES ASSUME NEW k \in 1..Len(out) PROVE Texts(new)[k] = Texts(out)[k]
      BY <1>3
    <3>1. k \in 1..Len(new)
      BY <1>2
    <3> QED BY <1>2, <1>3, <3>1
  <2>2. \A k \in 1..Len(Texts(more)) : Texts(new)[Len(Texts(out)) + k] = Texts(more)[k]
    <3> SUFFICES ASSUME NEW k \in 1..Len(more) PROVE Texts(new)[Len(out) + k] = Texts(more)[k]
      BY <1>3
    <3>1. Len(out) + k \in 1..Len(new)
      BY <1>2
    <3> QED BY <1>2, <1>3, <3>1
  <2>3. Len(Texts(new)) = Len(Texts(out)) + Len(Texts(more))
    BY <1>2, <1>3
  <2> QED BY <1>3, <2>1, <2>2, <2>3, JoinIs
<1>5. Concat(Texts(out) \o Texts(more)) = Concat(Texts(out)) \o Concat(Texts(more))
  BY <1>3, ConcatJoined
<1> QED BY <1>4, <1>5 DEF new

-----------------------------------------------------------------------------
(* The shape of an empty block *)

BlockAt(t, n, p) ==
    /\ n \in 4..Len(t) /\ p \in 0..(n - 4)
    /\ t[1] = "<thi" /\ t[2] = "nk>"
    /\ \A i \in 3..(2 + p) : t[i] = Space
    /\ t[3 + p] = "</thi" /\ t[4 + p] = "nk>"
    /\ \A i \in (5 + p)..n : t[i] = Space

\* Spaces are spaces.
LEMMA SpacesType ==
  ASSUME NEW n \in Nat
  PROVE  Spaces(n) \in Seq(Symbols) /\ Len(Spaces(n)) = n /\ \A i \in 1..n : Spaces(n)[i] = Space
BY DEF Spaces, Symbols, Space

IsJoin(u, s, t) ==
    /\ Len(s) \in Nat /\ Len(t) \in Nat /\ Len(u) = Len(s) + Len(t)
    /\ \A i \in 1..Len(s) : u[i] = s[i]
    /\ \A i \in 1..Len(t) : u[Len(s) + i] = t[i]

\* A join agrees with its parts, symbol by symbol.
LEMMA JoinedIsJoin ==
  ASSUME NEW s \in Seq(Symbols), NEW t \in Seq(Symbols)
  PROVE  s \o t \in Seq(Symbols) /\ IsJoin(s \o t, s, t)
<1>1. \A T : \A a, b \in Seq(T) : a \o b \in Seq(T) /\ IsJoin(a \o b, a, b)
  BY Joined DEF IsJoin
<1> QED BY <1>1

IsBlock(w, p, q) ==
    /\ w[1] = "<thi" /\ w[2] = "nk>"
    /\ \A i \in 3..(2 + p) : w[i] = Space
    /\ w[3 + p] = "</thi" /\ w[4 + p] = "nk>"
    /\ \A i \in (5 + p)..(p + q + 4) : w[i] = Space

\* The opening, spaces, the closing and spaces are a block.
LEMMA WholeBlock ==
  ASSUME NEW p \in Nat, NEW q \in Nat, NEW w, w = ((Open \o Spaces(p)) \o Close) \o Spaces(q)
  PROVE  IsBlock(w, p, q)
<1>1. /\ Open \in Seq(Symbols) /\ Len(Open) = 2 /\ Open[1] = "<thi" /\ Open[2] = "nk>"
      /\ Close \in Seq(Symbols) /\ Len(Close) = 2 /\ Close[1] = "</thi" /\ Close[2] = "nk>"
  BY DEF Open, Close, Symbols
<1>2. /\ Spaces(p) \in Seq(Symbols) /\ Len(Spaces(p)) = p /\ \A i \in 1..p : Spaces(p)[i] = Space
      /\ Spaces(q) \in Seq(Symbols) /\ Len(Spaces(q)) = q /\ \A i \in 1..q : Spaces(q)[i] = Space
  BY SpacesType
<1> DEFINE a == Open \o Spaces(p)
           b == a \o Close
<1>3. /\ a \in Seq(Symbols) /\ Len(a) = 2 + p /\ \A i \in 1..2 : a[i] = Open[i]
      /\ \A i \in 1..p : a[2 + i] = Spaces(p)[i]
  <2>1. a \in Seq(Symbols) /\ IsJoin(a, Open, Spaces(p))
    BY <1>1, <1>2, JoinedIsJoin
  <2> HIDE DEF a
  <2> QED BY <1>1, <1>2, <2>1 DEF IsJoin
<1> HIDE DEF a
<1>4. /\ b \in Seq(Symbols) /\ Len(b) = 4 + p /\ \A i \in 1..(2 + p) : b[i] = a[i]
      /\ \A i \in 1..2 : b[(2 + p) + i] = Close[i]
  <2>1. b \in Seq(Symbols) /\ IsJoin(b, a, Close)
    BY <1>1, <1>3, JoinedIsJoin
  <2> HIDE DEF b
  <2> QED BY <1>1, <1>3, <2>1 DEF IsJoin
<1> HIDE DEF b
<1>5. /\ w \in Seq(Symbols) /\ Len(w) = (4 + p) + q /\ \A i \in 1..(4 + p) : w[i] = b[i]
      /\ \A i \in 1..q : w[(4 + p) + i] = Spaces(q)[i]
  <2>1. w = b \o Spaces(q)
    BY DEF a, b
  <2>2. w \in Seq(Symbols) /\ IsJoin(w, b, Spaces(q))
    BY <1>2, <1>4, <2>1, JoinedIsJoin
  <2> QED BY <1>2, <1>4, <2>2 DEF IsJoin
<1>6. w[1] = "<thi" /\ w[2] = "nk>"
  <2>1. 1 \in 1..2 /\ 2 \in 1..2 /\ 1 \in 1..(2 + p) /\ 2 \in 1..(2 + p) /\ 1 \in 1..(4 + p) /\ 2 \in 1..(4 + p)
    OBVIOUS
  <2> QED BY <1>1, <1>3, <1>4, <1>5, <2>1
<1>7. ASSUME NEW i \in 3..(2 + p) PROVE w[i] = Space
  <2>1. i - 2 \in 1..p /\ i = 2 + (i - 2) /\ i \in 1..(2 + p) /\ i \in 1..(4 + p)
    OBVIOUS
  <2>2. a[2 + (i - 2)] = Space
    BY <1>2, <1>3, <2>1
  <2> QED BY <1>4, <1>5, <2>1, <2>2
<1>8. w[3 + p] = "</thi" /\ w[4 + p] = "nk>"
  <2>1. /\ 3 + p \in 1..(4 + p) /\ 4 + p \in 1..(4 + p) /\ 1 \in 1..2 /\ 2 \in 1..2
        /\ 3 + p = (2 + p) + 1 /\ 4 + p = (2 + p) + 2
    OBVIOUS
  <2> QED BY ZenonT(30), <1>1, <1>4, <1>5, <2>1
<1>9. ASSUME NEW i \in (5 + p)..(p + q + 4) PROVE w[i] = Space
  <2> DEFINE k == i - (4 + p)
  <2>1. k \in 1..q /\ i = (4 + p) + k
    OBVIOUS
  <2> HIDE DEF k
  <2> QED BY <1>2, <1>5, <2>1
<1> QED BY <1>6, <1>7, <1>8, <1>9, Zenon DEF IsBlock

\* An empty block is one of some number of spaces.
LEMMA BlockShape ==
  ASSUME NEW t \in Seq(Symbols), NEW n \in EmptyBlocks(t)
  PROVE  \E p : BlockAt(t, n, p)
<1>1. Len(Open \o Close) = 4 /\ Len(t) \in Nat
  BY DEF Open, Close
<1>2. n \in 4..Len(t)
  BY <1>1 DEF EmptyBlocks
<1>3. PICK p \in 0..(n - 4) : SubSeq(t, 1, n) = ((Open \o Spaces(p)) \o Close) \o Spaces(n - p - 4)
  BY <1>1 DEF EmptyBlocks
<1> DEFINE w == SubSeq(t, 1, n)
           q == n - p - 4
<1>4. p \in Nat /\ q \in Nat /\ p + q + 4 = n
  BY <1>2
<1>5. \A i \in 1..n : w[i] = t[i]
  BY <1>1, <1>2
<1>6. w = ((Open \o Spaces(p)) \o Close) \o Spaces(q)
  BY <1>3
<1> HIDE DEF w, q
<1>7. /\ w[1] = "<thi" /\ w[2] = "nk>"
      /\ \A i \in 3..(2 + p) : w[i] = Space
      /\ w[3 + p] = "</thi" /\ w[4 + p] = "nk>"
      /\ \A i \in (5 + p)..n : w[i] = Space
  <2>1. IsBlock(w, p, q)
    BY <1>4, <1>6, WholeBlock
  <2> QED BY <1>4, <2>1 DEF IsBlock
<1>8. /\ 1 \in 1..n /\ 2 \in 1..n /\ 3 + p \in 1..n /\ 4 + p \in 1..n
      /\ \A i \in 3..(2 + p) : i \in 1..n
      /\ \A i \in (5 + p)..n : i \in 1..n
  BY <1>2, <1>4
<1>9. BlockAt(t, n, p)
  BY <1>2, <1>5, <1>7, <1>8 DEF BlockAt
<1> QED BY <1>9

\* Between the ends of two empty blocks of a text are only spaces.
LEMMA BlocksDifferBySpaces ==
  ASSUME NEW t \in Seq(Symbols), NEW n \in EmptyBlocks(t), NEW m \in EmptyBlocks(t), n <= m
  PROVE  \A i \in (n + 1)..m : t[i] = Space
<1>1. PICK p : BlockAt(t, n, p)
  BY BlockShape
<1>2. PICK q : BlockAt(t, m, q)
  BY BlockShape
<1>3. n \in Nat /\ m \in Nat /\ p \in Nat /\ q \in Nat /\ p + 4 <= n /\ q + 4 <= m /\ Len(t) \in Nat
  BY <1>1, <1>2 DEF BlockAt
<1>4. Space # "</thi" /\ "nk>" # "</thi"
  BY DEF Space
<1>5. p = q
  <2>1. CASE p < q
    <3>1. 3 + p \in 3..(2 + q)
      BY <1>3, <2>1
    <3> QED BY <1>1, <1>2, <1>4, <3>1 DEF BlockAt
  <2>2. CASE q < p
    <3>1. 3 + q \in 3..(2 + p)
      BY <1>3, <2>2
    <3> QED BY <1>1, <1>2, <1>4, <3>1 DEF BlockAt
  <2> QED BY <1>3, <2>1, <2>2
<1>6. ASSUME NEW i \in (n + 1)..m PROVE t[i] = Space
  <2>1. i \in (5 + q)..m
    BY <1>3, <1>5
  <2> QED BY <1>2, <2>1 DEF BlockAt
<1> QED BY <1>6

-----------------------------------------------------------------------------
(* Without the spaces it starts with *)

\* The end of a sequence after n elements, element by element.
LEMMA Ending ==
  ASSUME NEW T, NEW t \in Seq(T), NEW n \in 0..Len(t)
  PROVE  /\ SubSeq(t, n + 1, Len(t)) \in Seq(T) /\ Len(t) \in Nat
         /\ Len(SubSeq(t, n + 1, Len(t))) = Len(t) - n
         /\ \A i \in 1..(Len(t) - n) : SubSeq(t, n + 1, Len(t))[i] = t[n + i]
OBVIOUS

\* The end of an end is an end of the whole.
LEMMA TailOfTail ==
  ASSUME NEW T, NEW t \in Seq(T), NEW n \in 0..Len(t), NEW k \in (n + 1)..Len(t),
         NEW a \in Seq(T), Len(a) = Len(t) - n, \A i \in 1..(Len(t) - n) : a[i] = t[n + i]
  PROVE  SubSeq(a, k - n, Len(a)) = SubSeq(t, k, Len(t))
<1> DEFINE l == k - n
           u == SubSeq(a, l, Len(a))
           v == SubSeq(t, k, Len(t))
<1>1. n \in Nat /\ k \in Nat /\ Len(t) \in Nat /\ l \in 1..Len(a) /\ k \in 1..Len(t) /\ Len(a) \in Nat
  OBVIOUS
<1>2. u \in Seq(T) /\ Len(u) = Len(a) - l + 1 /\ \A i \in 1..(Len(a) - l + 1) : u[i] = a[l + i - 1]
  <2> HIDE DEF l
  <2> QED BY <1>1
<1>3. v \in Seq(T) /\ Len(v) = Len(t) - k + 1 /\ \A i \in 1..(Len(t) - k + 1) : v[i] = t[k + i - 1]
  BY <1>1
<1>4. Len(a) - l + 1 = Len(t) - k + 1
  BY <1>1
<1>5. ASSUME NEW i \in 1..(Len(t) - k + 1) PROVE a[l + i - 1] = t[k + i - 1]
  <2>1. l + i - 1 \in 1..(Len(t) - n) /\ n + (l + i - 1) = k + i - 1
    BY <1>1
  <2> QED BY <2>1
<1> HIDE DEF u, v, l
<1>6. Len(u) = Len(v) /\ \A i \in 1..Len(u) : u[i] = v[i]
  BY SMTT(30), <1>2, <1>3, <1>4, <1>5
<1>7. u = v
  BY <1>2, <1>3, <1>6
<1> QED BY <1>7 DEF u, v, l

\* Trimming leaves nothing of spaces.
LEMMA TrimmedBlank ==
  ASSUME NEW t \in Seq(Symbols), NEW n \in 0..Len(t), \A i \in (n + 1)..Len(t) : t[i] = Space
  PROVE  Trimmed(SubSeq(t, n + 1, Len(t))) = << >>
<1> DEFINE a == SubSeq(t, n + 1, Len(t))
<1>1. /\ Len(t) \in Nat /\ Len(a) = Len(t) - n
      /\ \A i \in 1..(Len(t) - n) : a[i] = t[n + i]
  BY Ending
<1> HIDE DEF a
<1>2. \A i \in 1..Len(a) : a[i] = Space
  BY <1>1
<1>3. {i \in 1..Len(a) : a[i] # Space} = {}
  BY <1>2
<1>4. Trimmed(a) = << >>
  BY <1>3 DEF Trimmed
<1> QED BY <1>4 DEF a

\* Trimming cuts the spaces up to the first symbol that is none.
LEMMA TrimmedTail ==
  ASSUME NEW t \in Seq(Symbols), NEW n \in 0..Len(t), NEW k \in (n + 1)..Len(t), t[k] # Space,
         \A i \in (n + 1)..(k - 1) : t[i] = Space
  PROVE  Trimmed(SubSeq(t, n + 1, Len(t))) = SubSeq(t, k, Len(t))
<1> DEFINE a == SubSeq(t, n + 1, Len(t))
           starts == {i \in 1..Len(a) : a[i] # Space}
           l == k - n
<1>1. /\ a \in Seq(Symbols) /\ Len(t) \in Nat /\ Len(a) = Len(t) - n
      /\ \A i \in 1..(Len(t) - n) : a[i] = t[n + i]
  BY Ending
<1>2. SubSeq(a, l, Len(a)) = SubSeq(t, k, Len(t))
  <2> HIDE DEF a
  <2> QED BY <1>1, TailOfTail
<1> HIDE DEF a
<1>3. l \in starts
  BY <1>1
<1>4. ASSUME NEW i \in starts PROVE l <= i
  <2>1. i \in 1..(Len(t) - n) /\ a[i] # Space
    BY <1>1
  <2>2. ~(n + i \in (n + 1)..(k - 1))
    BY <1>1, <2>1
  <2> QED BY <1>1, <2>1, <2>2
<1>5. (CHOOSE i \in starts : \A j \in starts : i <= j) = l
  <2>1. \A i \in starts : (\A j \in starts : i <= j) => i = l
    <3> SUFFICES ASSUME NEW i \in starts, \A j \in starts : i <= j PROVE i = l
      OBVIOUS
    <3>1. i <= l /\ l <= i
      BY <1>3, <1>4
    <3>2. i \in Nat /\ l \in Nat
      BY <1>1, <1>3
    <3> HIDE DEF l
    <3> QED BY <3>1, <3>2
  <2>2. \A j \in starts : l <= j
    BY <1>4
  <2> HIDE DEF starts, l
  <2> QED BY <1>3, <2>1, <2>2
<1>6. starts # {}
  BY <1>3
<1>7. Trimmed(a) = SubSeq(a, l, Len(a))
  <2>1. Trimmed(a) = IF starts = {} THEN << >>
                     ELSE SubSeq(a, CHOOSE i \in starts : \A j \in starts : i <= j, Len(a))
    BY DEF Trimmed
  <2> HIDE DEF starts, l
  <2> QED BY <1>5, <1>6, <2>1
<1> QED BY <1>2, <1>7 DEF a

\* Spaces between make no difference.
LEMMA TrimmedAgrees ==
  ASSUME NEW t \in Seq(Symbols), NEW n \in 0..Len(t), NEW m \in 0..Len(t), n <= m,
         \A i \in (n + 1)..m : t[i] = Space
  PROVE  Trimmed(SubSeq(t, n + 1, Len(t))) = Trimmed(SubSeq(t, m + 1, Len(t)))
<1> DEFINE K == {k \in (m + 1)..Len(t) : t[k] # Space}
<1>0. Len(t) \in Nat /\ n \in Nat /\ m \in Nat
  OBVIOUS
<1>1. CASE K = {}
  <2>1. \A i \in (m + 1)..Len(t) : t[i] = Space
    BY <1>1
  <2>2. \A i \in (n + 1)..Len(t) : t[i] = Space
    BY <1>0, <2>1
  <2> QED BY <2>1, <2>2, TrimmedBlank
<1>2. CASE K # {}
  <2>1. PICK k \in K : \A i \in K : k <= i
    <3>1. K \in SUBSET Nat
      BY <1>0
    <3> HIDE DEF K
    <3> QED BY <1>2, <3>1, LeastNatural
  <2>2. k \in (m + 1)..Len(t) /\ t[k] # Space /\ k \in (n + 1)..Len(t)
    BY <1>0
  <2>3. ASSUME NEW i \in (m + 1)..(k - 1) PROVE t[i] = Space
    <3>1. ~(k <= i) /\ i \in (m + 1)..Len(t)
      BY <1>0, <2>2
    <3> QED BY <2>1, <3>1
  <2>4. \A i \in (n + 1)..(k - 1) : t[i] = Space
    BY <1>0, <2>2, <2>3
  <2>5. Trimmed(SubSeq(t, m + 1, Len(t))) = SubSeq(t, k, Len(t))
    BY <2>2, <2>3, TrimmedTail
  <2>6. Trimmed(SubSeq(t, n + 1, Len(t))) = SubSeq(t, k, Len(t))
    BY <2>2, <2>4, TrimmedTail
  <2> QED BY <2>5, <2>6
<1> QED BY <1>1, <1>2

-----------------------------------------------------------------------------
(* What is told of a text that is received in two parts *)

\* The end of a sequence goes on when the sequence does.
LEMMA TailJoined ==
  ASSUME NEW T, NEW s \in Seq(T), NEW u \in Seq(T), NEW n \in 0..Len(s)
  PROVE  SubSeq(s, n + 1, Len(s)) \o u = SubSeq(s \o u, n + 1, Len(s \o u))
<1> DEFINE a == SubSeq(s, n + 1, Len(s))
           w == s \o u
           b == SubSeq(w, n + 1, Len(w))
<1>1. /\ Len(s) \in Nat /\ Len(u) \in Nat /\ w \in Seq(T) /\ Len(w) = Len(s) + Len(u)
      /\ \A i \in 1..Len(s) : w[i] = s[i]
      /\ \A i \in 1..Len(u) : w[Len(s) + i] = u[i]
  BY Joined
<1>2. a \in Seq(T) /\ Len(a) = Len(s) - n /\ \A i \in 1..(Len(s) - n) : a[i] = s[n + i]
  BY Ending
<1> HIDE DEF w, a
<1>3. b \in Seq(T) /\ Len(b) = Len(w) - n /\ \A i \in 1..(Len(w) - n) : b[i] = w[n + i]
  <2>1. n \in 0..Len(w)
    BY <1>1
  <2> QED BY <1>1, <2>1, Ending
<1> HIDE DEF b
<1>4. Len(b) = Len(a) + Len(u)
  BY <1>1, <1>2, <1>3
<1>5. ASSUME NEW i \in 1..Len(a) PROVE b[i] = a[i]
  <2>1. i \in 1..(Len(s) - n) /\ i \in 1..(Len(w) - n) /\ n + i \in 1..Len(s)
    BY <1>1, <1>2
  <2> QED BY <1>1, <1>2, <1>3, <2>1
<1>6. ASSUME NEW i \in 1..Len(u) PROVE b[Len(a) + i] = u[i]
  <2>1. Len(a) + i \in 1..(Len(w) - n) /\ n + (Len(a) + i) = Len(s) + i
    BY <1>1, <1>2
  <2>2. b[Len(a) + i] = w[n + (Len(a) + i)]
    BY <1>3, <2>1
  <2>3. w[Len(s) + i] = u[i]
    BY <1>1
  <2> QED BY <2>1, <2>2, <2>3
<1>7. b = a \o u
  BY <1>2, <1>3, <1>4, <1>5, <1>6, JoinIs
<1> QED BY <1>7 DEF a, b, w

\* Its beginning stays.
LEMMA HeadJoined ==
  ASSUME NEW T, NEW s \in Seq(T), NEW u \in Seq(T), NEW n \in 0..Len(s)
  PROVE  SubSeq(s \o u, 1, n) = SubSeq(s, 1, n) /\ Len(s \o u) = Len(s) + Len(u)
OBVIOUS

\* Whether a text begins with a block of n symbols does not depend on what
\* follows.
LEMMA BlocksStay ==
  ASSUME NEW s \in Seq(Symbols), NEW u \in Seq(Symbols), NEW n \in 0..Len(s)
  PROVE  n \in EmptyBlocks(s) <=> n \in EmptyBlocks(s \o u)
<1>1. Len(Open \o Close) = 4
  BY DEF Open, Close
<1>2. SubSeq(s \o u, 1, n) = SubSeq(s, 1, n) /\ Len(s \o u) = Len(s) + Len(u)
  BY HeadJoined
<1>3. Len(s) \in Nat /\ Len(u) \in Nat
  OBVIOUS
<1>4. n \in 4..Len(s) <=> n \in 4..Len(s \o u)
  BY <1>2, <1>3
<1> QED BY <1>1, <1>2, <1>4 DEF EmptyBlocks

\* An empty block that is cut out early says no more than one that is cut out whole.
LEMMA CutEarly ==
  ASSUME NEW s \in Seq(Symbols), NEW u \in Seq(Symbols), EmptyBlocks(s) # {}
  PROVE  Trimmed(Strip(s) \o u) = Trimmed(Strip(s \o u))
<1> DEFINE t == s \o u
           n == Longest(EmptyBlocks(s))
           m == Longest(EmptyBlocks(t))
<1>1. t \in Seq(Symbols) /\ Len(t) = Len(s) + Len(u) /\ Len(s) \in Nat /\ Len(u) \in Nat
  OBVIOUS
<1>2. n \in EmptyBlocks(s) /\ n \in 1..Len(s)
  BY LongestBlock
<1>3. n \in EmptyBlocks(t)
  <2>1. n \in 0..Len(s)
    BY <1>2
  <2> HIDE DEF n
  <2> QED BY <1>2, <2>1, BlocksStay
<1>4. Strip(s) = SubSeq(s, n + 1, Len(s)) /\ Strip(t) = SubSeq(t, m + 1, Len(t))
  BY <1>3 DEF Strip
<1>5. Strip(s) \o u = SubSeq(t, n + 1, Len(t))
  <2>1. n \in 0..Len(s)
    BY <1>2
  <2> HIDE DEF n
  <2>2. SubSeq(s, n + 1, Len(s)) \o u = SubSeq(s \o u, n + 1, Len(s \o u))
    BY <2>1, TailJoined
  <2> QED BY <1>4, <2>2
<1> HIDE DEF t
<1>6. m \in EmptyBlocks(t) /\ m \in 1..Len(t) /\ n <= m
  BY <1>1, <1>3, LongestBlock
<1> HIDE DEF n, m
<1>7. \A i \in (n + 1)..m : t[i] = Space
  BY <1>1, <1>3, <1>6, BlocksDifferBySpaces
<1>8. n \in 0..Len(t) /\ m \in 0..Len(t)
  BY <1>1, <1>2, <1>6
<1>9. Trimmed(SubSeq(t, n + 1, Len(t))) = Trimmed(SubSeq(t, m + 1, Len(t)))
  BY <1>1, <1>6, <1>7, <1>8, TrimmedAgrees
<1> QED BY <1>4, <1>5, <1>9 DEF t

\* What is decided not to start with an empty block does not, unless the block is
\* longer than the limit.
LEMMA DecidedRight ==
  ASSUME NEW s \in Seq(Symbols), NEW u \in Seq(Symbols), EmptyBlocks(s) = {}, ShouldDecide(s),
         EmptyBlocks(s \o u) # {} => ShortBlock(s \o u)
  PROVE  EmptyBlocks(s \o u) = {}
<1> DEFINE t == s \o u
<1> SUFFICES ASSUME EmptyBlocks(t) # {} PROVE FALSE
  OBVIOUS
<1>1. /\ t \in Seq(Symbols) /\ Len(t) = Len(s) + Len(u) /\ Len(s) \in Nat /\ Len(u) \in Nat
      /\ \A i \in 1..Len(s) : t[i] = s[i]
  BY Joined
<1>2. PICK n \in EmptyBlocks(t) : n <= DecisionLimit
  BY DEF ShortBlock
<1> HIDE DEF t
<1>3. PICK p : BlockAt(t, n, p)
  BY <1>1, BlockShape
<1>4. n \in 4..Len(t) /\ p \in 0..(n - 4) /\ n \in Nat /\ p \in Nat
  BY <1>3 DEF BlockAt
<1>5. ~(n <= Len(s))
  <2> SUFFICES ASSUME n <= Len(s) PROVE FALSE
    OBVIOUS
  <2>1. n \in 0..Len(s)
    BY <1>1, <1>4
  <2>2. n \in EmptyBlocks(s)
    BY <2>1, BlocksStay DEF t
  <2> QED BY <2>2
<1>6. ~(Len(s) >= DecisionLimit)
  BY <1>1, <1>2, <1>4, <1>5, VLLMStreamAssumption
<1>7. /\ Open = <<"<thi", "nk>">> /\ Len(Open) = 2 /\ Open[1] = "<thi" /\ Open[2] = "nk>"
      /\ Close = <<"</thi", "nk>">> /\ Len(Close) = 2 /\ Close[1] = "</thi" /\ Close[2] = "nk>"
      /\ Open \in Seq(Symbols) /\ Close \in Seq(Symbols)
  BY DEF Open, Close, Symbols
<1>8. MayOpen(s)
  <2>1. CASE Len(s) <= 2
    <3>1. \A i \in 1..Len(s) : s[i] = Open[i]
      <4>1. t[1] = Open[1] /\ t[2] = Open[2]
        BY <1>3, <1>7 DEF BlockAt
      <4>2. ASSUME NEW i \in 1..Len(s) PROVE s[i] = Open[i]
        <5>1. (i = 1 \/ i = 2) /\ s[i] = t[i]
          BY <1>1, <2>1
        <5> QED BY <4>1, <5>1
      <4> QED BY <4>2
    <3>2. IsPrefix(s, Open)
      <4>1. SubSeq(s, 1, Len(s)) = SubSeq(Open, 1, Len(s))
        BY <1>1, <1>7, <2>1, <3>1
      <4> QED BY <1>7, <2>1, <4>1 DEF IsPrefix
    <3> QED BY <3>2 DEF MayOpen
  <2>2. CASE Len(s) > 2
    <3>1. s[1] = Open[1] /\ s[2] = Open[2]
      <4>1. t[1] = Open[1] /\ t[2] = Open[2]
        BY <1>3, <1>7 DEF BlockAt
      <4>2. s[1] = t[1] /\ s[2] = t[2]
        <5>1. 1 \in 1..Len(s) /\ 2 \in 1..Len(s)
          BY <1>1, <2>2
        <5> QED BY <1>1, <5>1
      <4> QED BY <4>1, <4>2
    <3>2. SubSeq(Open, 1, 2) = SubSeq(s, 1, 2)
      BY <1>1, <1>7, <2>2, <3>1
    <3>3. IsPrefix(Open, s)
      BY <1>1, <1>7, <2>2, <3>2 DEF IsPrefix
    <3> QED BY <3>3 DEF MayOpen
  <2> QED BY <1>1, <2>1, <2>2
<1>9. ~NonemptyBlock(s)
  <2> SUFFICES ASSUME NonemptyBlock(s) PROVE FALSE
    OBVIOUS
  <2>1. PICK k \in 2..(Len(s) - 2) :
          /\ SubSeq(s, k + 1, k + 2) = Close
          /\ \E m \in 3..k : s[m] # Space
    BY <1>7 DEF NonemptyBlock
  <2>2. PICK m \in 3..k : s[m] # Space
    BY <2>1
  <2>3. k \in Nat /\ k + 1 \in 1..Len(s) /\ k + 2 \in 1..Len(s) /\ m \in 1..Len(s)
    BY <1>1
  <2>4. s[k + 1] = "</thi"
    <3>1. SubSeq(s, k + 1, k + 2)[1] = s[k + 1]
      BY <2>3
    <3> QED BY <1>7, <2>1, <3>1
  <2>5. t[k + 1] = "</thi" /\ t[m] # Space
    BY <1>1, <2>2, <2>3, <2>4
  <2>6. k + 1 <= n /\ k + 1 >= 3
    BY <1>1, <1>4, <1>5, <2>3
  <2>7. Space # "</thi"
    BY DEF Space
  <2>8. k + 1 = 3 + p
    <3>1. ~(k + 1 \in 3..(2 + p)) /\ ~(k + 1 \in (5 + p)..n) /\ k + 1 # 4 + p
      BY <1>3, <2>5, <2>7 DEF BlockAt
    <3> QED BY <1>4, <2>3, <2>6, <3>1
  <2>9. m \in 3..(2 + p)
    BY <1>4, <2>3, <2>8
  <2> QED BY <1>3, <2>5, <2>9 DEF BlockAt
<1> QED BY <1>6, <1>8, <1>9 DEF ShouldDecide

-----------------------------------------------------------------------------
(* What has been told *)

\* The texts that wait.
Waits(lines, held) == Concat(Texts(Flushed(lines, held)))

\* A prefix was flushed before it was decided.
PrefixFlushed == \E i \in 1..Len(input) : FlushesPrefix(i)

\* Before the decision, what was told and what is held back are all that was
\* received, and what was told then was flushed; afterwards, what was told is
\* what was received without the block that was cut out of its beginning.
Says ==
    /\ ~decided =>
         /\ text = Received /\ ~ShouldDecide(text)
         /\ IF state = "ended" THEN Told = text
            ELSE Told \o Waits(input, pending) = text /\ (Told = << >> \/ PrefixFlushed)
    /\ decided =>
         /\ ShouldDecide(text)
         /\ \E rest \in Seq(Symbols) : Received = text \o rest /\ Told = Strip(text) \o rest

SaysInv == HeldInv /\ (ToldTwice \/ Says)

\* What was received and what was told are the texts of both sides.
LEMMA ReceivedIs == Received = Concat(Texts(input)) /\ Told = Concat(Texts(output))
BY DEF Received, Told, Texts

\* They are so after a step.
LEMMA ReceivedIsNext == Received' = Concat(Texts(input')) /\ Told' = Concat(Texts(output'))
BY DEF Received, Told, Texts

\* One event more tells its text last.
LEMMA ToldOne ==
  ASSUME NEW n \in Nat, NEW out \in Seq(Events(n)), NEW event \in Events(n)
  PROVE  Concat(Texts(Append(out, event))) = Concat(Texts(out)) \o event.text
<1> DEFINE more == Append(out, event)
           E == Events(n)
<1>1. out \in Seq(E) /\ event \in E
  OBVIOUS
<1> HIDE DEF E
<1>2. /\ more \in Seq(E) /\ Len(out) \in Nat /\ Len(more) = Len(out) + 1
      /\ more[Len(out) + 1] = event /\ \A k \in 1..Len(out) : more[k] = out[k]
  BY <1>1, Appended
<1> HIDE DEF more
<1>3. /\ Texts(out) \in Seq(Seq(Symbols)) /\ Len(Texts(out)) = Len(out)
      /\ \A k \in 1..Len(out) : Texts(out)[k] = out[k].text
      /\ Texts(more) \in Seq(Seq(Symbols)) /\ Len(Texts(more)) = Len(more)
      /\ \A k \in 1..Len(more) : Texts(more)[k] = more[k].text
  BY <1>2, TextsOfEvents DEF E
<1> DEFINE l == Len(out)
           k == l + 1
           a == Texts(out)
           b == Texts(more)
<1>4. l \in Nat /\ k \in Nat /\ k = l + 1 /\ Len(a) = l /\ Len(b) = k
  BY <1>2, <1>3
<1>5. \A i \in 1..l : b[i] = a[i]
  <2> SUFFICES ASSUME NEW i \in 1..l PROVE b[i] = a[i]
    OBVIOUS
  <2>1. i \in 1..Len(more)
    BY <1>2
  <2> QED BY <1>2, <1>3, <2>1
<1>6. b[k] = event.text
  BY <1>2, <1>3
<1>7. a \in Seq(Seq(Symbols)) /\ b \in Seq(Seq(Symbols))
  BY <1>3
<1> HIDE DEF l, k, a, b
<1>8. Concat(b) = Concat(a) \o b[k]
  BY <1>4, <1>5, <1>7, ConcatLast
<1> QED BY <1>6, <1>8 DEF a, b, more

\* What was received, told and held back are texts.
LEMMA ToldType ==
  ASSUME HeldInv
  PROVE  Told \in Seq(Symbols) /\ Received \in Seq(Symbols) /\ text \in Seq(Symbols)
<1>1. Len(input) \in Nat /\ input \in Seq(Line) /\ output \in Seq(Events(Len(input))) /\ text \in Seq(Symbols)
  BY DEF HeldInv, TypeOK, Events
<1>2. Texts(input) \in Seq(Seq(Symbols)) /\ Texts(output) \in Seq(Seq(Symbols))
  BY <1>1, TextsOfLines, TextsOfEvents
<1> QED BY <1>1, <1>2, ConcatType, ReceivedIs

\* The invariant holds at the start.
LEMMA SaysInit == Init => SaysInv
<1> SUFFICES ASSUME Init PROVE SaysInv
  OBVIOUS
<1>1. /\ input = << >> /\ output = << >> /\ pending = << >> /\ text = << >> /\ decided = FALSE
      /\ state = "connecting"
  BY DEF Init
<1>2. Texts(<< >>) = << >> /\ Flushed(input, << >>) = << >>
  BY DEF Texts, Flushed
<1>3. Received = << >> /\ Told = << >> /\ Waits(input, pending) = << >>
  BY <1>1, <1>2, ReceivedIs, ConcatEmpty DEF Waits
<1>4. ~ShouldDecide(text)
  <2>1. /\ Len(Open) = 2 /\ Len(Close) = 2 /\ Len(Open \o Close) = 4 /\ Len(<< >>) = 0
        /\ Open \in Seq(Symbols) /\ << >> \in Seq(Symbols)
    BY DEF Open, Close, Symbols
  <2>2. EmptyBlocks(<< >>) = {}
    BY <2>1 DEF EmptyBlocks
  <2>3. IsPrefix(<< >>, Open) /\ ~IsPrefix(Open, << >>)
    BY <2>1 DEF IsPrefix
  <2>4. ~NonemptyBlock(<< >>) /\ MayOpen(<< >>)
    BY <2>3 DEF NonemptyBlock, MayOpen
  <2>5. ~(Len(<< >>) >= DecisionLimit)
    BY <2>1, VLLMStreamAssumption
  <2> QED BY <1>1, <2>2, <2>4, <2>5 DEF ShouldDecide
<1>5. Told \o Waits(input, pending) = << >>
  BY <1>3
<1> QED BY <1>1, <1>3, <1>4, <1>5, HeldInit DEF SaysInv, Says

\* What was heard with a line is heard with it for good, and a prefix once
\* flushed stays flushed.
LEMMA HeardStays ==
  ASSUME TypeOK, NEW line \in Line, input' = Append(input, line)
  PROVE  /\ \A i \in 1..Len(input) : FlushesPrefix(i)' = FlushesPrefix(i)
         /\ ToldTwice => ToldTwice'
         /\ PrefixFlushed => PrefixFlushed'
         /\ PrefixFlushed /\ line.kind = "content" => ToldTwice'
<1> DEFINE n == Len(input)
<1>1. /\ n \in Nat /\ Len(input') = n + 1 /\ input'[n + 1] = line
      /\ \A i \in 1..n : input'[i] = input[i]
  BY Received1
<1>2. ASSUME NEW i \in 1..n PROVE FlushesPrefix(i)' = FlushesPrefix(i)
  <2>1. [k \in 1..i |-> input'[k].text] = [k \in 1..i |-> input[k].text]
    BY <1>1
  <2>2. Heard(i)' = Heard(i) /\ input'[i] = input[i]
    BY <1>1, <2>1 DEF Heard
  <2> QED BY <2>2 DEF FlushesPrefix
<1>4. ASSUME PrefixFlushed PROVE PrefixFlushed' /\ (line.kind = "content" => ToldTwice')
  <2>1. PICK i \in 1..n : FlushesPrefix(i)
    BY <1>4 DEF PrefixFlushed
  <2>2. FlushesPrefix(i)' /\ i \in 1..Len(input') /\ n + 1 \in 1..Len(input') /\ i < n + 1
    BY <1>1, <1>2, <2>1
  <2> QED BY <1>1, <2>2 DEF PrefixFlushed, ToldTwice
<1>5. ASSUME ToldTwice PROVE ToldTwice'
  <2>1. PICK i \in 1..n, j \in 1..n : i < j /\ FlushesPrefix(i) /\ input[j].kind = "content"
    BY <1>5 DEF ToldTwice
  <2>2. FlushesPrefix(i)' /\ i \in 1..Len(input') /\ j \in 1..Len(input') /\ input'[j].kind = "content"
    BY <1>1, <1>2, <2>1
  <2> QED BY <2>1, <2>2 DEF ToldTwice
<1> QED BY <1>2, <1>4, <1>5

\* They stay what they are while nothing is received.
LEMMA HeardRests ==
  ASSUME UNCHANGED input
  PROVE  ToldTwice' = ToldTwice /\ PrefixFlushed' = PrefixFlushed /\ Received' = Received
BY DEF ToldTwice, PrefixFlushed, FlushesPrefix, Heard, Received

\* What waits says the same when other lines follow.
LEMMA WaitsStays ==
  ASSUME TypeOK, NEW line \in Line, input' = Append(input, line)
  PROVE  Flushed(input', pending) = Flushed(input, pending)
<1>1. /\ \A i \in 1..Len(input) : input'[i] = input[i]
      /\ \A k \in 1..Len(pending) : pending[k] \in 1..Len(input)
  <2>1. pending \in Seq(1..Len(input))
    BY DEF TypeOK
  <2> QED BY <2>1, Received1
<1>2. \A k \in 1..Len(pending) : Event(input', pending[k]) = Event(input, pending[k])
  BY <1>1 DEF Event
<1> QED BY <1>2 DEF Flushed

\* A line that is held back waits too.
LEMMA WaitsGrows ==
  ASSUME TypeOK, NEW line \in Line, input' = Append(input, line)
  PROVE  Waits(input', Append(pending, Len(input'))) = Waits(input, pending) \o line.text
<1> DEFINE first == Flushed(input, pending)
           last == Event(input', Len(input'))
           wait == Append(pending, Len(input'))
           all == Flushed(input', wait)
           n == Len(input)
<1>1. /\ input' \in Seq(Line) /\ n \in Nat /\ Len(input') = n + 1 /\ input'[n + 1] = line
      /\ wait \in Seq(1..Len(input')) /\ pending \in Seq(1..Len(input'))
  BY Received1
<1>2. /\ first \in Seq(Events(n + 1)) /\ Len(first) = Len(pending) /\ Len(pending) \in Nat
      /\ \A k \in 1..Len(pending) : first[k] = Event(input', pending[k])
  <2>1. first = Flushed(input', pending)
    BY WaitsStays
  <2>2. Len(pending) \in Nat
    BY <1>1
  <2> QED BY ZenonT(30), <1>1, <2>1, <2>2, FlushedKeeps
<1>3. last \in Events(n + 1) /\ last.text = line.text
  BY <1>1 DEF Event, Events, Line
<1>4. /\ Len(wait) = Len(pending) + 1 /\ wait[Len(pending) + 1] = Len(input')
      /\ \A k \in 1..Len(pending) : wait[k] = pending[k]
  BY <1>1
<1>5. /\ all \in Seq(Events(n + 1)) /\ Len(all) = Len(wait)
      /\ \A k \in 1..Len(wait) : all[k] = Event(input', wait[k])
  BY <1>1, FlushedKeeps
<1> HIDE DEF first, last, wait, all
<1>6. all = Append(first, last)
  <2> DEFINE E == Events(n + 1)
             more == Append(first, last)
  <2>1. all \in Seq(E) /\ first \in Seq(E) /\ last \in E
    BY <1>2, <1>3, <1>5
  <2> HIDE DEF E
  <2>2. /\ more \in Seq(E) /\ Len(more) = Len(first) + 1 /\ more[Len(first) + 1] = last
        /\ \A k \in 1..Len(first) : more[k] = first[k]
    BY <2>1, Appended
  <2> HIDE DEF more
  <2>3. Len(more) = Len(all) /\ Len(all) = Len(pending) + 1
    BY <1>2, <1>4, <1>5, <2>2
  <2>4. ASSUME NEW k \in 1..Len(all) PROVE all[k] = more[k]
    <3>1. CASE k = Len(pending) + 1
      <4>1. all[k] = last
        BY <1>4, <1>5, <3>1 DEF last
      <4> QED BY <1>2, <2>2, <3>1, <4>1
    <3>2. CASE k # Len(pending) + 1
      <4>1. k \in 1..Len(pending)
        BY <1>2, <2>3, <3>2
      <4>2. all[k] = Event(input', pending[k])
        BY <1>4, <1>5, <4>1
      <4> QED BY <1>2, <2>2, <4>1, <4>2
    <3> QED BY <3>1, <3>2
  <2>5. all = more
    BY <2>1, <2>2, <2>3, <2>4
  <2> QED BY <2>5 DEF more
<1>7. Concat(Texts(Append(first, last))) = Concat(Texts(first)) \o last.text
  <2>1. n + 1 \in Nat
    BY <1>1
  <2> HIDE DEF n
  <2> QED BY <1>2, <1>3, <2>1, ToldOne
<1> QED BY <1>3, <1>6, <1>7 DEF Waits, first, all, wait

\* What is held back are texts.
LEMMA WaitsAreTexts ==
  ASSUME HeldInv
  PROVE  Waits(input, pending) \in Seq(Symbols) /\ << >> \o Waits(input, pending) = Waits(input, pending)
<1>1. input \in Seq(Line) /\ pending \in Seq(1..Len(input)) /\ Len(input) \in Nat
  BY DEF HeldInv, TypeOK
<1>2. Flushed(input, pending) \in Seq(Events(Len(input)))
  BY <1>1, FlushedKeeps
<1>3. Texts(Flushed(input, pending)) \in Seq(Seq(Symbols))
  BY <1>1, <1>2, TextsOfEvents
<1>4. Waits(input, pending) \in Seq(Symbols)
  BY <1>3, ConcatType DEF Waits
<1> QED BY <1>4

\* A step that receives and tells nothing keeps it.
LEMMA SaysStays ==
  ASSUME SaysInv, HeldInv', UNCHANGED <<input, pending, text, decided>>, Told' = Told,
         state # "ended", state' # "ended"
  PROVE  SaysInv'
<1>1. ToldTwice' = ToldTwice /\ PrefixFlushed' = PrefixFlushed /\ Received' = Received
  BY HeardRests
<1>2. Waits(input, pending)' = Waits(input, pending)
  BY DEF Waits, Flushed, Event, Texts
<1> QED BY <1>1, <1>2 DEF SaysInv, Says

\* A failure keeps it.
LEMMA SaysFails ==
  ASSUME SaysInv, HeldInv', Fail
  PROVE  SaysInv'
<1> DEFINE event == [at |-> 0, text |-> << >>]
           n == Len(input)
<1>1. /\ state' = "failed" /\ output' = Append(output, event) /\ state # "ended"
      /\ UNCHANGED <<input, pending, text, decided>>
  BY DEF Fail
<1>2. n \in Nat /\ output \in Seq(Events(n)) /\ event \in Events(n) /\ event.text = << >>
  BY DEF SaysInv, HeldInv, TypeOK, Events
<1> HIDE DEF event, n
<1>3. Concat(Texts(Append(output, event))) = Concat(Texts(output)) \o event.text
  BY <1>2, ToldOne
<1>4. Told \in Seq(Symbols)
  BY ToldType DEF SaysInv
<1>5. Told' = Told \o << >> /\ Told \o << >> = Told
  BY <1>1, <1>2, <1>3, <1>4, ReceivedIs, ReceivedIsNext
<1> QED BY <1>1, <1>5, SaysStays

\* The end of the stream keeps it: a text too short to decide is stripped or
\* told.
LEMMA SaysEnds ==
  ASSUME SaysInv, HeldInv', End
  PROVE  SaysInv'
<1> DEFINE more == Flushed(input, pending)
           n == Len(input)
<1>1. /\ state = "open" /\ state' = "ended" /\ output' = output \o more /\ pending' = << >>
      /\ UNCHANGED <<input, text, decided>>
  BY DEF End
<1>2. /\ input \in Seq(Line) /\ pending \in Seq(1..n) /\ n \in Nat /\ output \in Seq(Events(n))
      /\ decided => pending = << >>
  BY DEF SaysInv, HeldInv, TypeOK, Events
<1>3. more \in Seq(Events(n))
  BY <1>2, FlushedKeeps
<1>4. Told' = Told \o Waits(input, pending)
  <2> HIDE DEF n, more
  <2>1. Concat(Texts(output \o more)) = Concat(Texts(output)) \o Concat(Texts(more))
    BY <1>2, <1>3, ToldGrows
  <2> QED BY <1>1, <2>1, ReceivedIs, ReceivedIsNext DEF Waits, more
<1>5. Told \in Seq(Symbols) /\ text \in Seq(Symbols) /\ Received' = Received /\ ToldTwice' = ToldTwice
  BY <1>1, ToldType, HeardRests DEF SaysInv
<1>6. SUFFICES ASSUME Says PROVE Says'
  BY <1>5 DEF SaysInv
<1>7. CASE ~decided
  <2>1. Told' = text
    BY <1>1, <1>4, <1>6, <1>7 DEF Says
  <2> QED BY <1>1, <1>5, <1>6, <1>7, <2>1 DEF Says
<1>8. CASE decided
  <2>1. Flushed(input, << >>) = << >> /\ Texts(<< >>) = << >>
    BY DEF Flushed, Texts
  <2>2. Waits(input, pending) = << >>
    BY <1>2, <1>8, <2>1, ConcatEmpty DEF Waits
  <2>3. Told' = Told
    BY <1>4, <1>5, <2>2
  <2> QED BY <1>1, <1>5, <1>6, <1>8, <2>3 DEF Says
<1> QED BY <1>7, <1>8

\* A line that arrives adds its text to what is received; passed on at once, to
\* what is told.
LEMMA BothGrow ==
  ASSUME HeldInv, NEW line \in Line, input' = Append(input, line)
  PROVE  /\ Received' = Received \o line.text
         /\ output' = Append(output, Event(input', Len(input'))) => Told' = Told \o line.text
<1> DEFINE n == Len(input)
           last == Event(input', Len(input'))
<1>1. /\ TypeOK /\ input \in Seq(Line) /\ n \in Nat /\ output \in Seq(Events(n))
  BY DEF HeldInv, TypeOK, Events
<1>2. input' \in Seq(Line) /\ Len(input') = n + 1 /\ input'[n + 1] = line
  BY <1>1, Received1
<1>3. last \in Events(n + 1) /\ last.text = line.text
  BY <1>1, <1>2 DEF Event, Events, Line
<1>4. Received' = Received \o line.text
  BY <1>1, ReceivedGrows, ReceivedIs, ReceivedIsNext
<1>5. output \in Seq(Events(n + 1)) /\ n + 1 \in Nat
  <2> HIDE DEF n
  <2> QED BY <1>1, EventsGrow
<1> HIDE DEF n, last
<1>6. Concat(Texts(Append(output, last))) = Concat(Texts(output)) \o last.text
  BY <1>3, <1>5, ToldOne
<1> QED BY <1>3, <1>4, <1>6, ReceivedIs, ReceivedIsNext DEF last

\* A line that is no chunk keeps it.
LEMMA SaysOther ==
  ASSUME SaysInv, HeldInv', Other
  PROVE  SaysInv'
<1> DEFINE line == [kind |-> "other", text |-> << >>]
<1>1. /\ state = "open" /\ input' = Append(input, line)
      /\ output' = Append(output, Event(input', Len(input')))
      /\ UNCHANGED <<pending, text, decided, state>>
  BY DEF Other, Receive
<1>2. line \in Line /\ line.text = << >>
  BY DEF Line
<1>3. HeldInv /\ TypeOK
  BY DEF SaysInv, HeldInv
<1> HIDE DEF line
<1>4. Received' = Received \o << >> /\ Told' = Told \o << >>
  BY <1>1, <1>2, <1>3, BothGrow
<1>5. Received' = Received /\ Told' = Told
  BY <1>3, <1>4, ToldType
<1>6. Waits(input, pending)' = Waits(input, pending)
  BY <1>1, <1>2, <1>3, WaitsStays DEF Waits
<1>7. (ToldTwice => ToldTwice') /\ (PrefixFlushed => PrefixFlushed')
  BY <1>1, <1>2, <1>3, HeardStays
<1> QED BY <1>1, <1>5, <1>6, <1>7 DEF SaysInv, Says

\* A chunk after the decision keeps it.
LEMMA SaysDecided ==
  ASSUME SaysInv, HeldInv', Decided
  PROVE  SaysInv'
<1>1. PICK t \in Contents : Receive("content", t)
  BY DEF Decided
<1> DEFINE line == [kind |-> "content", text |-> t]
<1>2. /\ input' = Append(input, line) /\ output' = Append(output, Event(input', Len(input')))
      /\ decided /\ UNCHANGED <<text, decided>>
  BY <1>1 DEF Decided, Receive
<1>3. line \in Line /\ line.text = t /\ t \in Seq(Symbols)
  BY VLLMStreamAssumption DEF Line
<1>4. HeldInv /\ TypeOK
  BY DEF SaysInv, HeldInv
<1> HIDE DEF line
<1>5. Received' = Received \o t /\ Told' = Told \o t
  BY <1>2, <1>3, <1>4, BothGrow
<1>6. ToldTwice => ToldTwice'
  BY <1>2, <1>3, <1>4, HeardStays
<1>7. SUFFICES ASSUME Says PROVE Says'
  BY <1>6 DEF SaysInv
<1>8. PICK rest \in Seq(Symbols) : Received = text \o rest /\ Told = Strip(text) \o rest
  BY <1>2, <1>7 DEF Says
<1>9. text \in Seq(Symbols) /\ Strip(text) \in Seq(Symbols)
  BY <1>4, ToldType, StripType
<1>10. /\ rest \o t \in Seq(Symbols) /\ (text \o rest) \o t = text \o (rest \o t)
       /\ (Strip(text) \o rest) \o t = Strip(text) \o (rest \o t)
  <2>1. \A a \in Seq(Symbols) : (a \o rest) \o t = a \o (rest \o t)
    BY <1>3, JoinedThrice
  <2>2. rest \o t \in Seq(Symbols)
    BY <1>3
  <2> QED BY <1>9, <2>1, <2>2
<1>11. Received' = text' \o (rest \o t) /\ Told' = Strip(text') \o (rest \o t)
  BY <1>2, <1>5, <1>8, <1>10
<1>12. \E r \in Seq(Symbols) : Received' = text' \o r /\ Told' = Strip(text') \o r
  BY <1>10, <1>11
<1>13. ShouldDecide(text') /\ decided'
  BY <1>2, <1>7 DEF Says
<1> QED BY <1>12, <1>13 DEF Says

\* A chunk held back keeps it: no block can have been missed yet.
LEMMA SaysHolds ==
  ASSUME SaysInv, HeldInv', Hold
  PROVE  SaysInv'
<1>1. PICK t \in Contents : /\ ~ShouldDecide(text \o t) /\ Receive("content", t)
                            /\ pending' = Append(pending, Len(input')) /\ text' = text \o t
  BY DEF Hold
<1> DEFINE line == [kind |-> "content", text |-> t]
<1>2. /\ state = "open" /\ input' = Append(input, line) /\ ~decided
      /\ UNCHANGED <<output, decided, state>>
  BY <1>1 DEF Hold, Receive
<1>3. line \in Line /\ line.text = t /\ line.kind = "content"
  BY VLLMStreamAssumption DEF Line
<1>4. HeldInv /\ TypeOK
  BY DEF SaysInv, HeldInv
<1> HIDE DEF line
<1>5. Received' = Received \o t /\ Told' = Told
  <2>1. Told' = Told
    BY <1>2 DEF Told
  <2> QED BY <1>2, <1>3, <1>4, <2>1, BothGrow
<1>6. (ToldTwice => ToldTwice') /\ (PrefixFlushed => ToldTwice')
  BY <1>2, <1>3, <1>4, HeardStays
<1>7. SUFFICES ASSUME Says, ~PrefixFlushed PROVE Says'
  BY <1>6 DEF SaysInv
<1>8. Waits(input', pending') = Waits(input, pending) \o t
  BY <1>1, <1>2, <1>3, <1>4, WaitsGrows
<1>9. Received = text /\ Told = << >> /\ << >> \o Waits(input, pending) = text
  BY <1>2, <1>7 DEF Says
<1>10. Waits(input, pending) = text
  BY <1>3, <1>4, <1>9, WaitsAreTexts
<1>11. text' \in Seq(Symbols)
  BY DEF HeldInv, TypeOK
<1>12. Told' \o Waits(input', pending') = text'
  BY <1>1, <1>5, <1>8, <1>9, <1>10, <1>11
<1> QED BY <1>1, <1>2, <1>5, <1>9, <1>12 DEF Says

\* Deciding keeps it: the block cut is the longest there will be.
LEMMA SaysDecides ==
  ASSUME SaysInv, HeldInv', Decide
  PROVE  SaysInv'
<1> DEFINE wait == Append(pending, Len(input'))
           more == IF Strip(text') # text' THEN Sanitized(wait, Strip(text')) ELSE Flushed(input', wait)
<1>1. PICK t \in Contents : /\ ShouldDecide(text \o t) /\ Receive("content", t) /\ text' = text \o t
                            /\ output' = output \o more
  BY DEF Decide
<1> DEFINE line == [kind |-> "content", text |-> t]
           n == Len(input)
<1>2. /\ state = "open" /\ input' = Append(input, line) /\ ~decided /\ decided' = TRUE
  BY <1>1 DEF Decide, Receive
<1>3. line \in Line /\ line.text = t /\ t \in Seq(Symbols) /\ line.kind = "content"
  BY VLLMStreamAssumption DEF Line
<1>4. HeldInv /\ TypeOK /\ n \in Nat /\ output \in Seq(Events(n)) /\ pending \in Seq(1..n)
  BY DEF SaysInv, HeldInv, TypeOK, Events
<1> HIDE DEF line
<1>5. (ToldTwice => ToldTwice') /\ (PrefixFlushed => ToldTwice')
  BY <1>2, <1>3, <1>4, HeardStays
<1>6. SUFFICES ASSUME Says, ~PrefixFlushed PROVE Says'
  BY <1>5 DEF SaysInv
<1>7. Received = text /\ Waits(input, pending) = text /\ Told = << >>
  <2>1. Received = text /\ Told = << >> /\ << >> \o Waits(input, pending) = text
    BY <1>2, <1>6 DEF Says
  <2> QED BY <1>4, <2>1, WaitsAreTexts
<1>8. Received' = text' /\ Waits(input', wait) = text'
  <2>1. Received' = Received \o t
    BY <1>2, <1>3, <1>4, BothGrow
  <2>2. Waits(input', wait) = Waits(input, pending) \o t
    BY <1>2, <1>3, <1>4, WaitsGrows
  <2> QED BY <1>1, <1>7, <2>1, <2>2
<1>9. text' \in Seq(Symbols) /\ Strip(text') \in Seq(Symbols)
  <2>1. text' \in Seq(Symbols)
    BY DEF HeldInv, TypeOK
  <2> QED BY <2>1, StripType
<1>10. /\ input' \in Seq(Line) /\ Len(input') = n + 1 /\ n + 1 \in Nat /\ wait \in Seq(1..(n + 1))
       /\ Len(wait) = Len(pending) + 1 /\ Len(pending) \in Nat
  <2>1. input' \in Seq(Line) /\ Len(input') = n + 1 /\ wait \in Seq(1..Len(input'))
    BY <1>2, <1>3, <1>4, Received1
  <2> QED BY <1>4, <2>1
<1> HIDE DEF wait
<1>11. more \in Seq(Events(n + 1)) /\ Concat(Texts(more)) = Strip(text')
  <2>1. CASE Strip(text') # text'
    <3> DEFINE s == Sanitized(wait, Strip(text'))
    <3>1. more = s
      BY <2>1
    <3> HIDE DEF more
    <3>2. /\ s \in Seq(Events(n + 1)) /\ Len(s) = Len(wait)
          /\ \A k \in 1..Len(wait) : s[k].text = IF k = 1 THEN Strip(text') ELSE << >>
      <4> HIDE DEF n
      <4> QED BY <1>9, <1>10, SanitizedKeeps
    <3> HIDE DEF s
    <3>3. /\ Texts(s) \in Seq(Seq(Symbols)) /\ Len(Texts(s)) = Len(s)
          /\ \A k \in 1..Len(s) : Texts(s)[k] = s[k].text
      <4> HIDE DEF n
      <4> QED BY <1>10, <3>2, TextsOfEvents
    <3> DEFINE u == Texts(s)
    <3>4. u \in Seq(Seq(Symbols)) /\ Len(u) \in Nat /\ Len(u) >= 1 /\ 1 \in 1..Len(u)
      BY <1>10, <3>2, <3>3
    <3>5. u[1] = Strip(text') /\ OnlyFirst(u)
      <4>1. u[1] = Strip(text')
        BY <3>2, <3>3, <3>4
      <4>2. ASSUME NEW k \in 2..Len(u) PROVE u[k] = << >>
        <5>1. k \in 1..Len(s) /\ k # 1 /\ k \in 1..Len(wait)
          BY <3>2, <3>3
        <5> QED BY <3>2, <3>3, <5>1
      <4> HIDE DEF u
      <4> QED BY <4>1, <4>2 DEF OnlyFirst
    <3> HIDE DEF u
    <3>6. u # << >>
      <4>1. Len(<< >>) = 0
        OBVIOUS
      <4> QED BY <3>4, <4>1
    <3>7. Concat(u) = Strip(text')
      BY <3>4, <3>5, <3>6, ConcatFirst
    <3> QED BY <3>1, <3>2, <3>7 DEF u
  <2>2. CASE Strip(text') = text'
    <3>1. more = Flushed(input', wait)
      BY <2>2
    <3> HIDE DEF more
    <3>2. Flushed(input', wait) \in Seq(Events(n + 1))
      BY <1>10, FlushedKeeps
    <3> QED BY <1>8, <2>2, <3>1, <3>2 DEF Waits
  <2> QED BY <2>1, <2>2
<1> HIDE DEF more
<1>12. Told' = Strip(text')
  <2>1. output \in Seq(Events(n + 1))
    <3> HIDE DEF n
    <3> QED BY <1>4, EventsGrow
  <2> HIDE DEF n
  <2>2. Concat(Texts(output \o more)) = Concat(Texts(output)) \o Concat(Texts(more))
    BY <1>10, <1>11, <2>1, ToldGrows
  <2>3. Told' = << >> \o Strip(text')
    BY <1>1, <1>7, <1>11, <2>2, ReceivedIs, ReceivedIsNext
  <2> QED BY <1>9, <2>3
<1>13. << >> \in Seq(Symbols) /\ text' \o << >> = text' /\ Strip(text') \o << >> = Strip(text')
  BY <1>9
<1>14. \E r \in Seq(Symbols) : Received' = text' \o r /\ Told' = Strip(text') \o r
  BY <1>8, <1>12, <1>13
<1>15. ShouldDecide(text')
  BY <1>1
<1> QED BY <1>2, <1>14, <1>15 DEF Says

\* A line that does not parse keeps it: what it flushes is told.
LEMMA SaysRaw ==
  ASSUME SaysInv, HeldInv', Raw
  PROVE  SaysInv'
<1>1. PICK kind \in {"raw", "done"} : Receive(kind, << >>)
  BY DEF Raw
<1> DEFINE line == [kind |-> kind, text |-> << >>]
           n == Len(input)
           wait == Flushed(input', pending)
           last == Event(input', Len(input'))
<1>2. /\ state = "open" /\ input' = Append(input, line) /\ output' = (output \o wait) \o <<last>>
      /\ pending' = << >> /\ UNCHANGED <<text, decided, state>>
  BY <1>1 DEF Raw, Receive
<1>3. line \in Line /\ line.kind \in {"raw", "done"} /\ line.text = << >>
  BY DEF Line
<1>4. /\ HeldInv /\ TypeOK /\ n \in Nat /\ output \in Seq(Events(n))
      /\ input \in Seq(Line) /\ (decided => pending = << >>)
  BY DEF SaysInv, HeldInv, TypeOK, Events
<1> HIDE DEF line
<1>5. /\ input' \in Seq(Line) /\ Len(input') = n + 1 /\ input'[n + 1] = line /\ n + 1 \in Nat
      /\ pending \in Seq(1..Len(input'))
  BY <1>2, <1>3, <1>4, Received1
<1>6. last \in Events(n + 1) /\ last.text = << >>
  BY <1>3, <1>4, <1>5 DEF Event, Events, Line
<1>7. wait \in Seq(Events(n + 1)) /\ output \in Seq(Events(n + 1))
  <2>1. wait \in Seq(Events(n + 1))
    BY <1>5, FlushedKeeps
  <2> HIDE DEF n
  <2> QED BY <1>4, <2>1, EventsGrow
<1>8. Waits(input', pending) = Waits(input, pending) /\ Waits(input, pending) = Concat(Texts(wait))
  BY <1>2, <1>3, <1>4, WaitsStays DEF Waits
<1>9. Told' = (Told \o Waits(input, pending)) \o << >>
  <2> DEFINE both == output \o wait
             E == Events(n + 1)
  <2>1. both \in Seq(E) /\ (output \o wait) \o <<last>> = Append(both, last)
    <3>1. output \in Seq(E) /\ wait \in Seq(E) /\ last \in E
      BY <1>6, <1>7
    <3> HIDE DEF E, wait, last
    <3>2. both \in Seq(E)
      BY <3>1
    <3> HIDE DEF both
    <3>3. both \o <<last>> = Append(both, last)
      BY <3>1, <3>2
    <3> QED BY <3>2, <3>3 DEF both
  <2>2. Concat(Texts(both)) = Concat(Texts(output)) \o Concat(Texts(wait))
    <3> HIDE DEF n, wait, last
    <3> QED BY <1>5, <1>7, ToldGrows
  <2>3. Concat(Texts(Append(both, last))) = Concat(Texts(both)) \o last.text
    <3> HIDE DEF n, wait, last, both
    <3> QED BY <1>5, <1>6, <2>1, ToldOne
  <2> HIDE DEF both, wait, last, n
  <2> QED BY <1>2, <1>6, <1>8, <2>1, <2>2, <2>3, ReceivedIs, ReceivedIsNext
<1>10. Told \in Seq(Symbols) /\ Waits(input, pending) \in Seq(Symbols) /\ text \in Seq(Symbols)
  BY <1>4, ToldType, WaitsAreTexts
<1>11. Told' = Told \o Waits(input, pending) /\ Received' = Received
  <2>1. Received' = Received \o << >>
    BY <1>2, <1>3, <1>4, BothGrow
  <2>2. Received \in Seq(Symbols)
    BY <1>4, ToldType
  <2>3. Received' = Received
    BY <2>1, <2>2
  <2>4. Told \o Waits(input, pending) \in Seq(Symbols)
    BY <1>10
  <2> QED BY <1>9, <2>3, <2>4
<1>12. Waits(input', << >>) = << >>
  <2>1. Flushed(input', << >>) = << >> /\ Texts(<< >>) = << >>
    BY DEF Flushed, Texts
  <2> QED BY <2>1, ConcatEmpty DEF Waits
<1>13. /\ ToldTwice => ToldTwice'
       /\ PrefixFlushed => PrefixFlushed'
  BY <1>2, <1>3, <1>4, HeardStays
<1>14. SUFFICES ASSUME Says PROVE Says'
  BY <1>13 DEF SaysInv
<1>15. CASE ~decided
  <2>1. text = Received /\ ~ShouldDecide(text) /\ Told \o Waits(input, pending) = text
    BY <1>2, <1>14, <1>15 DEF Says
  <2>2. Told' = text /\ Told' \o << >> = text
    BY <1>10, <1>11, <2>1
  <2>3. text = << >> \/ PrefixFlushed'
    <3> SUFFICES ASSUME text # << >> PROVE PrefixFlushed'
      OBVIOUS
    <3>1. \A i : i = n + 1 => FlushesPrefix(i)'
      <4> SUFFICES ASSUME NEW i, i = n + 1 PROVE FlushesPrefix(i)'
        OBVIOUS
      <4>1. Heard(i)' = text
        BY <1>5, <1>11, <2>1 DEF Heard, Received
      <4>2. input'[i].kind \in {"raw", "done"}
        BY <1>3, <1>5
      <4>3. ShouldDecide(Heard(i))' = ShouldDecide(Heard(i)')
        BY DEF ShouldDecide, EmptyBlocks, NonemptyBlock, MayOpen
      <4> QED BY <2>1, <4>1, <4>2, <4>3 DEF FlushesPrefix
    <3>2. \E i \in 1..Len(input') : i = n + 1
      BY <1>4, <1>5
    <3> QED BY <3>1, <3>2 DEF PrefixFlushed
  <2> QED BY <1>2, <1>11, <1>12, <1>15, <2>1, <2>2, <2>3 DEF Says
<1>16. CASE decided
  <2>1. Waits(input, pending) = << >>
    <3>1. Flushed(input, << >>) = << >> /\ Texts(<< >>) = << >>
      BY DEF Flushed, Texts
    <3> QED BY <1>4, <1>16, <3>1, ConcatEmpty DEF Waits
  <2>2. Told' = Told
    BY <1>10, <1>11, <2>1
  <2> QED BY <1>2, <1>11, <1>14, <1>16, <2>2 DEF Says
<1> QED BY <1>15, <1>16

\* A streamed answer says what the answer says in one piece, however it is cut
\* into chunks (_should_decide_stream_prefix, _sanitize_pending_stream_chunks).
THEOREM ChunksSayTheSame == Spec => []StreamSaysTheSame
<1>1. Init => SaysInv
  BY SaysInit
<1>2. SaysInv /\ [Next]_vars => SaysInv'
  <2> SUFFICES ASSUME SaysInv, [Next]_vars PROVE SaysInv'
    OBVIOUS
  <2>0. HeldInv'
    BY HeldNext DEF SaysInv
  <2>1. CASE Connect \/ HttpError
    <3>1. /\ UNCHANGED <<input, pending, text, decided>> /\ Told' = Told /\ state # "ended" /\ state' # "ended"
      BY <2>1 DEF Connect, HttpError, Told
    <3> QED BY <2>0, <3>1, SaysStays
  <2>2. CASE Fail
    BY <2>0, <2>2, SaysFails
  <2>3. CASE Raw
    BY <2>0, <2>3, SaysRaw
  <2>4. CASE Other
    BY <2>0, <2>4, SaysOther
  <2>5. CASE Decided
    BY <2>0, <2>5, SaysDecided
  <2>6. CASE Hold
    BY <2>0, <2>6, SaysHolds
  <2>7. CASE Decide
    BY <2>0, <2>7, SaysDecides
  <2>8. CASE End
    BY <2>0, <2>8, SaysEnds
  <2>9. CASE UNCHANGED vars
    <3>1. /\ UNCHANGED <<input, pending, text, decided, state>> /\ Told' = Told
          /\ Waits(input, pending)' = Waits(input, pending)
      BY <2>9 DEF vars, Told, Waits, Flushed, Event, Texts
    <3>2. ToldTwice' = ToldTwice /\ PrefixFlushed' = PrefixFlushed /\ Received' = Received
      BY <3>1, HeardRests
    <3> QED BY <2>0, <3>1, <3>2 DEF SaysInv, Says
  <2> QED BY <2>1, <2>2, <2>3, <2>4, <2>5, <2>6, <2>7, <2>8, <2>9 DEF Next
<1>3. SaysInv => StreamSaysTheSame
  <2> SUFFICES ASSUME SaysInv, state = "ended", ~ToldTwice, EmptyBlocks(Received) # {} => ShortBlock(Received)
               PROVE  Trimmed(Told) = Trimmed(Strip(Received))
    BY DEF StreamSaysTheSame
  <2>1. Says /\ Received \in Seq(Symbols) /\ text \in Seq(Symbols)
    BY ToldType DEF SaysInv
  <2>2. CASE ~decided
    BY <2>1, <2>2 DEF Says, Strip, ShouldDecide
  <2>3. CASE decided
    <3>1. PICK rest \in Seq(Symbols) : Received = text \o rest /\ Told = Strip(text) \o rest
      BY <2>1, <2>3 DEF Says
    <3>2. CASE EmptyBlocks(text) # {}
      BY <2>1, <3>1, <3>2, CutEarly
    <3>3. CASE EmptyBlocks(text) = {}
      <4>1. ShouldDecide(text)
        BY <2>1, <2>3 DEF Says
      <4>2. EmptyBlocks(Received) = {}
        BY <2>1, <3>1, <3>3, <4>1, DecidedRight
      <4> QED BY <3>1, <3>3, <4>2 DEF Strip
    <3> QED BY <3>2, <3>3
  <2> QED BY <2>2, <2>3
<1> QED BY <1>1, <1>2, <1>3, PTL DEF Spec
=============================================================================
