------------------------- MODULE SentSymbolsProofs -------------------------
(* Theorems about delta context injection, for every set of symbols, user   *)
(* texts and every cache size.                                             *)
EXTENDS SentSymbols, SequenceTheorems, TLAPS

\* Moving a key to the end keeps the other keys, once each.
LEMMA MoveToEndProperties ==
  ASSUME NEW Key, NEW s \in Seq(Key), Distinct(s), NEW key \in Key
  PROVE  /\ MoveToEnd(s, key) \in Seq(Key)
         /\ Distinct(MoveToEnd(s, key))
         /\ Range(MoveToEnd(s, key)) = Range(s) \cup {key}
         /\ Len(MoveToEnd(s, key)) = IF key \in Range(s) THEN Len(s) ELSE Len(s) + 1
<1>1. CASE key \notin Range(s)
  BY <1>1 DEF MoveToEnd, WithoutKey, Distinct, Range
<1>2. CASE key \in Range(s)
  <2> DEFINE at == CHOOSE i \in DOMAIN s : s[i] = key
             w == [i \in 1 .. Len(s) - 1 |-> IF i < at THEN s[i] ELSE s[i + 1]]
  <2>1. at \in 1 .. Len(s) /\ s[at] = key
    BY <1>2 DEF Range
  <2>2. MoveToEnd(s, key) = Append(w, key)
    BY <1>2 DEF MoveToEnd, WithoutKey
  <2> HIDE DEF at
  <2>3. w \in Seq(Key) /\ Len(w) = Len(s) - 1
    BY <2>1
  <2>4. \A i \in 1 .. Len(w) : w[i] = IF i < at THEN s[i] ELSE s[i + 1]
    BY <2>3
  <2>5. \A i \in 1 .. Len(w) : w[i] # key
    BY <2>1, <2>3, <2>4 DEF Distinct
  <2>6. \A i, j \in 1 .. Len(w) : w[i] = w[j] => i = j
    BY <2>1, <2>3, <2>4 DEF Distinct
  <2> HIDE DEF w
  <2>7. ASSUME NEW i \in 1 .. Len(s), i # at
        PROVE  \E j \in 1 .. Len(w) : w[j] = s[i]
    <3>1. CASE i < at
      <4>1. i \in 1 .. Len(w) /\ w[i] = s[i]
        BY <3>1, <2>1, <2>3, <2>4
      <4> QED BY <4>1
    <3>2. CASE i > at
      <4>1. i - 1 \in 1 .. Len(w) /\ w[i - 1] = s[i]
        BY <3>2, <2>1, <2>3, <2>4
      <4> QED BY <4>1
    <3> QED BY <3>1, <3>2, <2>1, <2>7
  <2>8. Range(w) = Range(s) \ {key}
    <3>1. Range(s) = {s[i] : i \in 1 .. Len(s)} /\ Range(w) = {w[i] : i \in 1 .. Len(w)}
      BY <2>3, RangeEquality
    <3>2. \A i \in 1 .. Len(w) : w[i] \in Range(s)
      BY <2>1, <2>3, <2>4, <3>1
    <3>3. \A x \in Range(s) \ {key} : x \in Range(w)
      BY <2>1, <2>7, <3>1
    <3> QED BY <2>5, <3>1, <3>2, <3>3
  <2>9. /\ MoveToEnd(s, key) \in Seq(Key)
        /\ Len(MoveToEnd(s, key)) = Len(s)
        /\ \A i \in 1 .. Len(w) : MoveToEnd(s, key)[i] = w[i]
        /\ MoveToEnd(s, key)[Len(s)] = key
    BY <2>1, <2>2, <2>3, AppendProperties
  <2>10. Distinct(MoveToEnd(s, key))
    BY <2>1, <2>3, <2>5, <2>6, <2>9 DEF Distinct
  <2>11. Range(MoveToEnd(s, key)) = Range(w) \cup {key}
    <3>1. Range(MoveToEnd(s, key)) = {MoveToEnd(s, key)[i] : i \in 1 .. Len(s)}
      BY <2>9, RangeEquality
    <3>2. Range(w) = {w[i] : i \in 1 .. Len(w)}
      BY <2>3, RangeEquality
    <3>3. \A i \in 1 .. Len(s) : i = Len(s) \/ i \in 1 .. Len(w)
      BY <2>1, <2>3
    <3>4. Range(MoveToEnd(s, key)) \subseteq Range(w) \cup {key}
      BY <2>9, <3>1, <3>2, <3>3
    <3>5. \A i \in 1 .. Len(w) : i \in 1 .. Len(s)
      BY <2>1, <2>3
    <3>6. Range(w) \subseteq Range(MoveToEnd(s, key))
      BY <2>9, <3>1, <3>2, <3>5
    <3>7. key \in Range(MoveToEnd(s, key))
      BY <2>1, <2>9, <3>1
    <3> QED BY <3>4, <3>6, <3>7
  <2> QED BY <1>2, <2>8, <2>9, <2>10, <2>11
<1> QED BY <1>1, <1>2

\* popitem(last=False) on a non-empty dict: the other keys, once each.
LEMMA TailProperties ==
  ASSUME NEW Key, NEW s \in Seq(Key), Distinct(s), s # <<>>
  PROVE  /\ Tail(s) \in Seq(Key) /\ Distinct(Tail(s))
         /\ Len(Tail(s)) = Len(s) - 1
         /\ Range(Tail(s)) = Range(s) \ {Head(s)}
<1>1. /\ Tail(s) \in Seq(Key) /\ Len(Tail(s)) = Len(s) - 1 /\ Len(s) \in Nat \ {0}
      /\ \A i \in 1 .. Len(s) - 1 : Tail(s)[i] = s[i + 1]
      /\ Head(s) = s[1]
  BY HeadTailProperties
<1>2. Distinct(Tail(s))
  BY <1>1 DEF Distinct
<1>3. /\ Range(s) = {s[i] : i \in 1 .. Len(s)}
      /\ Range(Tail(s)) = {Tail(s)[i] : i \in 1 .. Len(s) - 1}
  BY ZenonT(30), <1>1, RangeEquality
<1>4. Range(Tail(s)) \subseteq Range(s) \ {Head(s)}
  <2> SUFFICES ASSUME NEW i \in 1 .. Len(s) - 1
               PROVE  Tail(s)[i] \in Range(s) /\ Tail(s)[i] # Head(s)
    BY <1>3
  <2>1. i + 1 \in 1 .. Len(s) /\ i + 1 # 1 /\ 1 \in 1 .. Len(s)
    BY <1>1
  <2> QED BY <1>1, <1>3, <2>1 DEF Distinct
<1>5. Range(s) \ {Head(s)} \subseteq Range(Tail(s))
  <2> SUFFICES ASSUME NEW i \in 1 .. Len(s), s[i] # Head(s)
               PROVE  s[i] \in Range(Tail(s))
    BY <1>3
  <2>1. i - 1 \in 1 .. Len(s) - 1 /\ Tail(s)[i - 1] = s[i]
    BY <1>1
  <2> QED BY <1>3, <2>1
<1> QED BY <1>1, <1>2, <1>4, <1>5

\* What an entry lists was composed into requests that lead to its key.
Believed ==
  \A k \in DOMAIN cache : \A s \in cache[k] :
    \E r \in sent : r.symbol = s /\ r.users \in Prefixes(k)

IInv == TypeOK /\ Believed

\* The lookup key is the stored key without the newest text, and its prefixes
\* are prefixes of the stored key.
LEMMA LookupIsPrefix ==
  ASSUME NEW users \in Asked
  PROVE  /\ Prefixes(ConversationKey(users)) \subseteq Prefixes(users)
         /\ users \in Prefixes(users)
<1>1. users \in Seq(Text) /\ Len(users) \in Nat
  BY AskedAssumption
<1>2. users \in Prefixes(users)
  <2>1. SubSeq(users, 1, Len(users)) = users /\ Len(users) \in 0 .. Len(users)
    BY <1>1
  <2> QED BY <2>1 DEF Prefixes
<1>3. CASE users = <<>>
  BY <1>2, <1>3 DEF ConversationKey, NewKey
<1>4. CASE users # <<>>
  <2> DEFINE key == SubSeq(users, 1, Len(users) - 1)
  <2>1. ConversationKey(users) = key
    BY <1>4 DEF ConversationKey, NewKey
  <2>2. Len(users) \in Nat \ {0}
    BY <1>1, <1>4, EmptySeq
  <2>4. Len(key) = Len(users) - 1
    <3>1. \A i \in 1 .. Len(users) - 1 : users[i] \in Text
      BY <1>1
    <3> DEFINE n == Len(users) - 1
    <3>2. n \in Nat /\ 1 \in Int /\ n \in Int
      BY <2>2
    <3> HIDE DEF n
    <3>3. \A i \in 1 .. n : users[i] \in Text
      BY <3>1 DEF n
    <3>4. Len(SubSeq(users, 1, n)) = IF 1 <= n THEN n - 1 + 1 ELSE 0
      BY <3>2, <3>3, SubSeqProperties
    <3>5. Len(SubSeq(users, 1, n)) = n
      BY <3>2, <3>4
    <3> QED BY <3>5 DEF n
  <2>3. ASSUME NEW i \in 0 .. Len(users) - 1
        PROVE  SubSeq(key, 1, i) = SubSeq(users, 1, i)
    BY <1>1, <2>2
  <2> QED BY <1>2, <2>1, <2>2, <2>3, <2>4 DEF Prefixes
<1> QED BY <1>3, <1>4

\* What one store does to a well-formed order.
LEMMA StoreProperties ==
  ASSUME TypeOK, NEW users \in Asked, NEW symbols \in SUBSET Symbol,
         Store(AfterGet(ConversationKey(users)), StoreKey(users), symbols)
  PROVE  /\ order' \in Seq(Asked) /\ Distinct(order') /\ Len(order') <= MaxSize
         /\ Range(order') \subseteq Range(order) \cup {users}
         /\ cache' \in [Range(order') -> SUBSET Symbol]
         /\ \A k \in DOMAIN cache' :
              IF k = users THEN cache'[k] = symbols
              ELSE k \in DOMAIN cache /\ cache'[k] = cache[k]
<1> USE MaxSizeAssumption
<1>a. order \in Seq(Asked) /\ Distinct(order) /\ Len(order) <= MaxSize
      /\ cache \in [Range(order) -> SUBSET Symbol]
  BY DEF TypeOK
<1>1. CASE MaxSize = 0
  <2>1. order' = order /\ cache' = cache
    BY <1>1 DEF Store
  <2>2. order = <<>> /\ Range(order) = {}
    <3>1. order = <<>>
      BY <1>a, <1>1
    <3> QED BY <3>1 DEF Range
  <2> QED BY <1>a, <2>1, <2>2
<1>2. CASE MaxSize # 0
  <2> DEFINE looked == AfterGet(ConversationKey(users))
             room == MakeRoom(looked, users)
             kept == MoveToEnd(room, users)
  <2>1. looked \in Seq(Asked) /\ Distinct(looked) /\ Len(looked) = Len(order)
        /\ Range(looked) = Range(order)
    <3>1. CASE Cached(ConversationKey(users))
      <4>1. ConversationKey(users) \in Range(order) /\ ConversationKey(users) \in Asked
        BY <1>a, <3>1 DEF Cached, Range
      <4>2. looked = MoveToEnd(order, ConversationKey(users))
        BY <3>1 DEF AfterGet
      <4> HIDE DEF looked
      <4> DEFINE moved == MoveToEnd(order, ConversationKey(users))
      <4>3. /\ moved \in Seq(Asked) /\ Distinct(moved)
            /\ Range(moved) = Range(order) \cup {ConversationKey(users)}
            /\ Len(moved) = IF ConversationKey(users) \in Range(order)
                            THEN Len(order) ELSE Len(order) + 1
        BY <1>a, <4>1, MoveToEndProperties
      <4> HIDE DEF moved
      <4>4. looked = moved
        BY <4>2 DEF moved
      <4> QED BY <4>1, <4>3, <4>4
    <3>2. CASE ~Cached(ConversationKey(users))
      BY <1>a, <3>2 DEF AfterGet
    <3> QED BY <3>1, <3>2
  <2>2. room \in Seq(Asked) /\ Distinct(room) /\ Len(room) <= MaxSize
        /\ Range(room) \subseteq Range(order)
        /\ (users \notin Range(room) => Len(room) < MaxSize)
    <3> HIDE DEF looked
    <3>1. CASE users \notin Range(looked) /\ Len(looked) >= MaxSize
      <4>1. room = Tail(looked) /\ looked # <<>>
        BY <1>2, <2>1, <3>1 DEF MakeRoom
      <4> HIDE DEF room
      <4>2. room \in Seq(Asked) /\ Distinct(room) /\ Len(room) = Len(looked) - 1
            /\ Range(room) = Range(looked) \ {Head(looked)}
        BY <2>1, <4>1, TailProperties
      <4> QED BY <1>a, <2>1, <4>2
    <3>2. CASE ~(users \notin Range(looked) /\ Len(looked) >= MaxSize)
      <4>1. room = looked
        BY <3>2 DEF MakeRoom
      <4> HIDE DEF room
      <4> QED BY <1>a, <2>1, <3>2, <4>1
    <3> QED BY <3>1, <3>2
  <2>3. order' = kept
        /\ cache' = [k \in Range(kept) |-> IF k = users THEN symbols ELSE cache[k]]
    BY <1>2 DEF Store, StoreKey
  <2> HIDE DEF room
  <2>4. kept \in Seq(Asked) /\ Distinct(kept) /\ Range(kept) = Range(room) \cup {users}
        /\ Len(kept) = IF users \in Range(room) THEN Len(room) ELSE Len(room) + 1
    BY <2>2, MoveToEndProperties
  <2> HIDE DEF kept
  <2>5. Len(kept) <= MaxSize
    BY <2>2, <2>4
  <2>6. Range(kept) \subseteq Range(order) \cup {users}
    BY <2>2, <2>4
  <2>7. cache' \in [Range(kept) -> SUBSET Symbol]
    BY <1>a, <2>3, <2>6
  <2> QED BY <1>a, <2>3, <2>4, <2>5, <2>6, <2>7
<1> QED BY <1>1, <1>2

\* The symbols a request looks up are symbols, believed for its lookup key.
LEMMA KnownProperties ==
  ASSUME IInv, NEW key
  PROVE  /\ AlreadySent(key) \subseteq Symbol
         /\ \A s \in AlreadySent(key) :
              \E r \in sent : r.symbol = s /\ r.users \in Prefixes(key)
<1>1. CASE Cached(key)
  BY <1>1 DEF IInv, TypeOK, Believed, AlreadySent, Cached
<1>2. CASE ~Cached(key)
  BY <1>2 DEF AlreadySent
<1> QED BY <1>1, <1>2

\* One turn: what is withheld was believed sent, what is stored is.
LEMMA RequestPreserves ==
  ASSUME IInv, NEW users \in Asked, NEW primary \in Symbol,
         NEW arrived \in BOOLEAN, NEW supporting \in SUBSET (Symbol \ {primary}),
         Request(users, primary, supporting, arrived)
  PROVE  IInv' /\ SuppressionEarned'
<1> DEFINE key == ConversationKey(users)
           known == AlreadySent(key)
           composed == Filtered(primary, supporting, known)
           turns == {[users |-> users, symbol |-> s] : s \in composed}
<1>1. /\ known \subseteq Symbol
      /\ \A s \in known : \E r \in sent : r.symbol = s /\ r.users \in Prefixes(key)
  BY KnownProperties
<1>2. composed \subseteq Symbol /\ ({primary} \cup supporting) \ composed \subseteq known
  BY DEF Filtered
<1>3. /\ Store(AfterGet(key), StoreKey(users), known \cup composed)
      /\ withheld' = {[users |-> users, symbol |-> s] :
                        s \in ({primary} \cup supporting) \ composed}
      /\ sent' = sent \cup turns
      /\ carried' = IF arrived THEN carried \cup composed ELSE carried
  BY DEF Request
<1>4. /\ order' \in Seq(Asked) /\ Distinct(order') /\ Len(order') <= MaxSize
      /\ cache' \in [Range(order') -> SUBSET Symbol]
      /\ \A k \in DOMAIN cache' :
           IF k = users THEN cache'[k] = known \cup composed
           ELSE k \in DOMAIN cache /\ cache'[k] = cache[k]
  <2>1. known \cup composed \in SUBSET Symbol
    BY <1>1, <1>2
  <2> HIDE DEF known, composed
  <2> QED BY <1>3, <2>1, StoreProperties DEF IInv
<1>5. TypeOK'
  <2>1. sent' \subseteq Turns /\ withheld' \subseteq Turns /\ carried' \subseteq Symbol
    <3> HIDE DEF known, composed
    <3> QED BY <1>1, <1>2, <1>3 DEF IInv, TypeOK, Turns
  <2>2. Distinct(order)' <=> Distinct(order')
    BY DEF Distinct
  <2>3. Range(order)' = Range(order')
    BY DEF Range
  <2> HIDE DEF known, composed
  <2> QED BY <1>4, <2>1, <2>2, <2>3 DEF TypeOK
<1>6. /\ Prefixes(key) \subseteq Prefixes(users) /\ users \in Prefixes(users)
  BY LookupIsPrefix
<1>7. \A s \in composed : \E r \in sent' : r.symbol = s /\ r.users = users
  <2> HIDE DEF composed
  <2>1. ASSUME NEW s \in composed
        PROVE  \E r \in sent' : r.symbol = s /\ r.users = users
    <3> DEFINE turn == [users |-> users, symbol |-> s]
    <3>1. turn \in sent' /\ turn.symbol = s /\ turn.users = users
      BY <1>3
    <3> QED BY <3>1
  <2> QED BY <2>1
<1>8. Believed'
  <2> HIDE DEF known, composed, key, turns
  <2> SUFFICES ASSUME NEW k \in DOMAIN cache', NEW s \in cache'[k]
               PROVE  \E r \in sent' : r.symbol = s /\ r.users \in Prefixes(k)
    BY DEF Believed, Prefixes
  <2>1. CASE k = users /\ s \in known
    BY <1>1, <1>3, <1>6, <2>1
  <2>2. CASE k = users /\ s \in composed
    BY <1>6, <1>7, <2>2
  <2>3. CASE k \in DOMAIN cache /\ cache'[k] = cache[k]
    BY <1>3, <2>3 DEF IInv, Believed
  <2> QED BY <1>4, <2>1, <2>2, <2>3
<1>9. SuppressionEarned'
  <2> HIDE DEF known, composed, turns
  <2> SUFFICES ASSUME NEW w \in withheld'
               PROVE  \E r \in sent' : /\ r.symbol = w.symbol
                                       /\ r.users \in Prefixes(ConversationKey(w.users))
    BY DEF SuppressionEarned, Prefixes, ConversationKey, NewKey
  <2>1. PICK s \in ({primary} \cup supporting) \ composed :
          w = [users |-> users, symbol |-> s]
    BY <1>3
  <2>2. s \in known /\ w.symbol = s /\ ConversationKey(w.users) = key
    BY <1>2, <2>1
  <2> QED BY <1>1, <1>3, <2>2
<1> QED BY <1>5, <1>8, <1>9 DEF IInv

\* The tracker's belief is an invariant, and every step that withholds
\* something withholds what it believes.
THEOREM BeliefInvariant == Spec => [](IInv /\ SuppressionEarned)
<1>1. Init => IInv /\ SuppressionEarned
  <2> SUFFICES ASSUME Init PROVE IInv /\ SuppressionEarned
    OBVIOUS
  <2>1. order = <<>> /\ cache = <<>> /\ withheld = {} /\ sent = {} /\ carried = {}
    BY DEF Init
  <2>2. Range(order) = {} /\ DOMAIN cache = {}
    BY <2>1 DEF Range
  <2>3. cache \in [Range(order) -> SUBSET Symbol]
    BY <2>1, <2>2
  <2>4. order \in Seq(Asked) /\ Distinct(order) /\ Len(order) <= MaxSize
    BY <2>1, MaxSizeAssumption DEF Distinct
  <2> QED BY <2>1, <2>2, <2>3, <2>4 DEF IInv, TypeOK, Believed, SuppressionEarned
<1>2. IInv /\ SuppressionEarned /\ [Next]_vars => (IInv /\ SuppressionEarned)'
  <2> SUFFICES ASSUME IInv, SuppressionEarned, [Next]_vars
               PROVE  IInv' /\ SuppressionEarned'
    OBVIOUS
  <2>1. ASSUME NEW users \in Asked, NEW primary \in Symbol,
               NEW arrived \in BOOLEAN, NEW supporting \in SUBSET (Symbol \ {primary}),
               Request(users, primary, supporting, arrived)
        PROVE  IInv' /\ SuppressionEarned'
    BY <2>1, RequestPreserves
  <2>2. CASE Restart
    <3>1. order' = <<>> /\ cache' = <<>> /\ withheld' = withheld /\ sent' = sent
          /\ carried' = carried
      BY <2>2 DEF Restart
    <3>2. Range(order') = {} /\ DOMAIN cache' = {}
      BY <3>1 DEF Range
    <3>3. cache' \in [Range(order') -> SUBSET Symbol]
      BY <3>1, <3>2
    <3>4. order' \in Seq(Asked) /\ Distinct(order') /\ Len(order') <= MaxSize
      BY <3>1, MaxSizeAssumption DEF Distinct
    <3>5. TypeOK'
      BY <3>1, <3>3, <3>4 DEF IInv, TypeOK, Distinct, Range
    <3> QED BY <3>1, <3>2, <3>5 DEF IInv, Believed, SuppressionEarned, Prefixes,
                                    ConversationKey, NewKey
  <2>3. CASE UNCHANGED vars
    BY <2>3 DEF vars, IInv, TypeOK, Believed, SuppressionEarned, Distinct, Range,
                Prefixes, ConversationKey, NewKey
  <2> QED BY <2>1, <2>2, <2>3 DEF Next
<1> QED BY <1>1, <1>2, PTL DEF Spec

\* The cache, its order and the history stay well typed, and the cache never
\* holds more than maxsize keys.
THEOREM TypeCorrect == Spec => []TypeOK
BY BeliefInvariant, PTL DEF IInv

\* A symbol is withheld only if an earlier request with the same leading user
\* texts composed it, through evictions, retries, branches and restarts.
THEOREM SuppressionIsEarned == Spec => []SuppressionEarned
BY BeliefInvariant, PTL

\* Delta injection implements a memory that only ever forgets.
THEOREM RefinesMemory == Spec => Memory!Spec
<1>1. Init => Memory!Init
  BY DEF Init, Memory!Init
<1>2. IInv /\ [Next]_vars => [Memory!Next]_(Memory!vars)
  <2> SUFFICES ASSUME IInv, [Next]_vars
               PROVE  Memory!Next \/ UNCHANGED Memory!vars
    OBVIOUS
  <2>1. ASSUME NEW users \in Asked, NEW primary \in Symbol,
               NEW arrived \in BOOLEAN, NEW supporting \in SUBSET (Symbol \ {primary}),
               Request(users, primary, supporting, arrived)
        PROVE  Memory!Request(users, primary, supporting)
    <3> DEFINE key == ConversationKey(users)
               known == AlreadySent(key)
               composed == {primary} \cup (supporting \ known)
    <3>1. key = Memory!Before(users) /\ known = Memory!Remembered(key)
      BY DEF ConversationKey, NewKey, Memory!Before, AlreadySent, Memory!Remembered, Cached
    <3>2. composed = Filtered(primary, supporting, known) /\ composed \subseteq Symbol
          /\ ({primary} \cup supporting) \ composed = (supporting \cap known) \ {primary}
      BY DEF Filtered
    <3>3. /\ Store(AfterGet(key), StoreKey(users), known \cup composed)
          /\ withheld' = {[users |-> users, symbol |-> s] :
                            s \in ({primary} \cup supporting) \ composed}
          /\ sent' = sent \cup {[users |-> users, symbol |-> s] :
                                  s \in composed}
      BY <2>1, <3>2 DEF Request
    <3>4. known \cup composed \in SUBSET Symbol
      BY <3>2, KnownProperties
    <3> HIDE DEF known, composed, key
    <3>5. /\ cache' \in [Range(order') -> SUBSET Symbol]
          /\ \A k \in DOMAIN cache' :
               IF k = users THEN cache'[k] = known \cup composed
               ELSE k \in DOMAIN cache /\ cache'[k] = cache[k]
      BY <3>3, <3>4, StoreProperties DEF IInv, key
    <3>6. \E kept \in SUBSET (DOMAIN cache \cup {users}) :
            cache' = [k \in kept |-> IF k = users THEN known \cup composed ELSE cache[k]]
      <4> DEFINE kept == DOMAIN cache'
      <4>1. kept \in SUBSET (DOMAIN cache \cup {users})
        BY <3>5
      <4>2. cache' = [k \in kept |-> IF k = users THEN known \cup composed ELSE cache[k]]
        BY <3>5
      <4> QED BY <4>1, <4>2
    <3>7. /\ withheld' = {[users |-> users, symbol |-> s] :
                            s \in (supporting \cap known) \ {primary}}
      BY <3>2, <3>3
    <3> QED BY <3>1, <3>3, <3>6, <3>7 DEF Memory!Request, composed
  <2>2. CASE Restart
    <3>1. cache' = <<>> /\ withheld' = withheld /\ sent' = sent
      BY <2>2 DEF Restart
    <3>2. {} \in SUBSET DOMAIN cache /\ cache' = [k \in {} |-> cache[k]]
      BY <3>1
    <3>3. Memory!Forget
      BY <3>1, <3>2 DEF Memory!Forget
    <3> QED BY <3>3 DEF Memory!Next
  <2>3. CASE UNCHANGED vars
    BY <2>3 DEF vars, Memory!vars
  <2>4. ASSUME NEW users \in Asked, NEW primary \in Symbol,
               NEW arrived \in BOOLEAN, NEW supporting \in SUBSET (Symbol \ {primary}),
               Request(users, primary, supporting, arrived)
        PROVE  Memory!Next
    <3>1. Memory!Request(users, primary, supporting) /\ supporting \in SUBSET Symbol
      BY <2>1, <2>4
    <3> QED BY <3>1 DEF Memory!Next
  <2> QED BY <2>2, <2>3, <2>4 DEF Next
<1>3. Spec => []IInv
  BY BeliefInvariant, PTL
<1> QED BY <1>1, <1>2, <1>3, PTL DEF Spec, Memory!Spec
=============================================================================
