------------------------ MODULE FileActivityProofs ------------------------
(* Theorems about the file-activity tracker, for every number of files,     *)
(* every set of transcripts and every bound.                                *)
EXTENDS FileActivity, FiniteSetTheorems, SequenceTheorems, TLAPS

\* Moving a key to the end keeps the other keys, once each.
LEMMA MoveToEndProperties ==
  ASSUME NEW Key, NEW s \in Seq(Key), Distinct(s), NEW key \in Key
  PROVE  /\ MoveToEnd(s, key) \in Seq(Key)
         /\ Distinct(MoveToEnd(s, key))
         /\ Range(MoveToEnd(s, key)) = Range(s) \cup {key}
         /\ Len(MoveToEnd(s, key)) = IF key \in Range(s) THEN Len(s) ELSE Len(s) + 1
<1>1. CASE key \notin Range(s)
  BY <1>1 DEF MoveToEnd, WithoutKey, Distinct, Range
<1>2. CASE key \in Range(s)
  <2> DEFINE at == CHOOSE i \in DOMAIN s : s[i] = key
             w == [i \in 1 .. Len(s) - 1 |-> IF i < at THEN s[i] ELSE s[i + 1]]
  <2>1. at \in 1 .. Len(s) /\ s[at] = key
    BY <1>2 DEF Range
  <2>2. MoveToEnd(s, key) = Append(w, key)
    BY <1>2 DEF MoveToEnd, WithoutKey
  <2> HIDE DEF at
  <2>3. w \in Seq(Key) /\ Len(w) = Len(s) - 1
    BY <2>1
  <2>4. \A i \in 1 .. Len(w) : w[i] = IF i < at THEN s[i] ELSE s[i + 1]
    BY <2>3
  <2>5. \A i \in 1 .. Len(w) : w[i] # key
    BY <2>1, <2>3, <2>4 DEF Distinct
  <2>6. \A i, j \in 1 .. Len(w) : w[i] = w[j] => i = j
    BY <2>1, <2>3, <2>4 DEF Distinct
  <2> HIDE DEF w
  <2>7. ASSUME NEW i \in 1 .. Len(s), i # at
        PROVE  \E j \in 1 .. Len(w) : w[j] = s[i]
    <3>1. CASE i < at
      <4>1. i \in 1 .. Len(w) /\ w[i] = s[i]
        BY <3>1, <2>1, <2>3, <2>4
      <4> QED BY <4>1
    <3>2. CASE i > at
      <4>1. i - 1 \in 1 .. Len(w) /\ w[i - 1] = s[i]
        BY <3>2, <2>1, <2>3, <2>4
      <4> QED BY <4>1
    <3> QED BY <3>1, <3>2, <2>1, <2>7
  <2>8. Range(w) = Range(s) \ {key}
    <3>1. Range(s) = {s[i] : i \in 1 .. Len(s)} /\ Range(w) = {w[i] : i \in 1 .. Len(w)}
      BY <2>3, RangeEquality
    <3>2. \A i \in 1 .. Len(w) : w[i] \in Range(s)
      BY <2>1, <2>3, <2>4, <3>1
    <3>3. \A x \in Range(s) \ {key} : x \in Range(w)
      BY <2>1, <2>7, <3>1
    <3> QED BY <2>5, <3>1, <3>2, <3>3
  <2>9. /\ MoveToEnd(s, key) \in Seq(Key)
        /\ Len(MoveToEnd(s, key)) = Len(s)
        /\ \A i \in 1 .. Len(w) : MoveToEnd(s, key)[i] = w[i]
        /\ MoveToEnd(s, key)[Len(s)] = key
    BY <2>1, <2>2, <2>3, AppendProperties
  <2>10. Distinct(MoveToEnd(s, key))
    BY <2>1, <2>3, <2>5, <2>6, <2>9 DEF Distinct
  <2>11. Range(MoveToEnd(s, key)) = Range(w) \cup {key}
    <3>1. Range(MoveToEnd(s, key)) = {MoveToEnd(s, key)[i] : i \in 1 .. Len(s)}
      BY <2>9, RangeEquality
    <3>2. Range(w) = {w[i] : i \in 1 .. Len(w)}
      BY <2>3, RangeEquality
    <3>3. \A i \in 1 .. Len(s) : i = Len(s) \/ i \in 1 .. Len(w)
      BY <2>1, <2>3
    <3>4. Range(MoveToEnd(s, key)) \subseteq Range(w) \cup {key}
      BY <2>9, <3>1, <3>2, <3>3
    <3>5. \A i \in 1 .. Len(w) : i \in 1 .. Len(s)
      BY <2>1, <2>3
    <3>6. Range(w) \subseteq Range(MoveToEnd(s, key))
      BY <2>9, <3>1, <3>2, <3>5
    <3>7. key \in Range(MoveToEnd(s, key))
      BY <2>1, <2>9, <3>1
    <3> QED BY <3>4, <3>6, <3>7
  <2> QED BY <1>2, <2>8, <2>9, <2>10, <2>11
<1> QED BY <1>1, <1>2

\* Removing a key leaves a sequence of keys.
LEMMA WithoutKeyType ==
  ASSUME NEW Key, NEW s \in Seq(Key), NEW key
  PROVE  WithoutKey(s, key) \in Seq(Key)
<1>1. CASE key \notin Range(s)
  BY <1>1 DEF WithoutKey
<1>2. CASE key \in Range(s)
  <2> DEFINE at == CHOOSE i \in DOMAIN s : s[i] = key
  <2>1. at \in 1 .. Len(s)
    BY <1>2 DEF Range
  <2>2. WithoutKey(s, key) = [i \in 1 .. Len(s) - 1 |-> IF i < at THEN s[i] ELSE s[i + 1]]
    BY <1>2 DEF WithoutKey
  <2> HIDE DEF at
  <2> QED BY <2>1, <2>2
<1> QED BY <1>1, <1>2

-----------------------------------------------------------------------------
(* Reading a transcript *)

\* A finite non-empty set of naturals has a largest element.
LEMMA LargestExists ==
  ASSUME NEW S \in SUBSET Nat, IsFiniteSet(S), S # {}
  PROVE  \E m \in S : \A j \in S : j <= m
<1> DEFINE Above(i) == {j \in S : j > i}
           T == {Above(i) : i \in S}
<1>1. T \subseteq FiniteSubsetsOf(S) /\ T # {}
  <2>1. \A i \in S : Above(i) \in SUBSET S /\ IsFiniteSet(Above(i))
    <3> TAKE i \in S
    <3>1. Above(i) \in SUBSET S
      OBVIOUS
    <3> HIDE DEF Above
    <3> QED BY <3>1, FS_Subset
  <2> HIDE DEF Above
  <2> QED BY <2>1 DEF FiniteSubsetsOf
<1>2. PICK X \in T : \A Y \in T : <<Y, X>> \notin StrictSubsetOrdering(S)
  <2> HIDE DEF T
  <2> QED BY <1>1, FS_StrictSubsetOrderingWellFounded, WFMin
<1>3. PICK m \in S : X = Above(m)
  BY <1>2
<1>4. ASSUME NEW j \in S, j > m PROVE FALSE
  <2>1. Above(j) \subseteq Above(m) /\ j \in Above(m) /\ j \notin Above(j)
    <3>1. \A i \in S : i > j => i > m
      BY <1>4
    <3>2. ~(j > j)
      OBVIOUS
    <3>3. j \in Above(m) /\ j \notin Above(j)
      BY ONLY <1>4, <3>2, j \in S
    <3>4. Above(j) \subseteq Above(m)
      BY ONLY <3>1
    <3> QED BY <3>3, <3>4
  <2>2. <<Above(j), Above(m)>> \in StrictSubsetOrdering(S)
    BY <2>1 DEF StrictSubsetOrdering
  <2> QED BY <1>2, <1>3, <2>2
<1> QED BY <1>4

\* The lookup key is the new-conversation sentinel exactly when there is no
\* assistant turn; otherwise it is the prefix before the newest one.
LEMMA LookupKeyProperties ==
  ASSUME NEW t \in Seq(Message), AssistantTurns(t) # {}
  PROVE  \E n \in 1 .. Len(t) :
           /\ t[n].role = "assistant"
           /\ \A j \in AssistantTurns(t) : j <= n
           /\ LookupKey(t) = SubSeq(t, 1, n - 1)
           /\ LookupKey(t) \in Seq(Message)
           /\ Len(LookupKey(t)) = n - 1
           /\ \A i \in 1 .. n - 1 : LookupKey(t)[i] = t[i]
<1>1. AssistantTurns(t) \in SUBSET Nat /\ IsFiniteSet(AssistantTurns(t))
  BY FS_Interval, FS_Subset DEF AssistantTurns
<1>2. \E m \in AssistantTurns(t) : \A j \in AssistantTurns(t) : j <= m
  BY <1>1, LargestExists
<1> DEFINE n == CHOOSE i \in AssistantTurns(t) : \A j \in AssistantTurns(t) : j <= i
<1>3. n \in AssistantTurns(t) /\ \A j \in AssistantTurns(t) : j <= n
  BY <1>2
<1>4. LookupKey(t) = SubSeq(t, 1, n - 1)
  BY DEF LookupKey
<1> HIDE DEF n
<1>5. n \in 1 .. Len(t) /\ t[n].role = "assistant"
  BY <1>3 DEF AssistantTurns
<1>6. \A i \in 1 .. n - 1 : t[i] \in Message
  BY <1>5
<1>7. /\ SubSeq(t, 1, n - 1) \in Seq(Message)
      /\ Len(SubSeq(t, 1, n - 1)) = n - 1
      /\ \A i \in 1 .. n - 1 : SubSeq(t, 1, n - 1)[i] = t[i]
  BY <1>5, <1>6, SubSeqProperties
<1> QED BY <1>3, <1>4, <1>5, <1>7

\* The sets a transcript is read into are finite, so their sizes are numbers.
LEMMA ParsedFinite ==
  ASSUME NEW t \in Seq(Message)
  PROVE  /\ IsFiniteSet(Envelopes(t)) /\ IsFiniteSet(Parsed(t))
         /\ Parsed(t) \subseteq Envelopes(t) /\ Envelopes(t) \subseteq 1 .. Len(t)
         /\ BeyondBound(t) \in Nat
         /\ BeyondBound(t) = 0 => Parsed(t) = Envelopes(t)
         /\ \A f \in File : IsFiniteSet(Confirmed(t, f))
         /\ Succeeded(t) \in [File -> Nat]
<1>1. Envelopes(t) \subseteq 1 .. Len(t) /\ IsFiniteSet(Envelopes(t))
  BY FS_Interval, FS_Subset DEF Envelopes
<1>2. Parsed(t) \subseteq Envelopes(t) /\ IsFiniteSet(Parsed(t))
  BY <1>1, FS_Subset DEF Parsed
<1>3. IsFiniteSet(Envelopes(t) \ Parsed(t))
  BY <1>1, FS_Difference
<1>4. BeyondBound(t) \in Nat /\ (BeyondBound(t) = 0 => Envelopes(t) \ Parsed(t) = {})
  BY <1>3, FS_CardinalityType, FS_EmptySet DEF BeyondBound
<1>5. \A f \in File : IsFiniteSet(Confirmed(t, f))
  BY <1>2, FS_Subset DEF Confirmed
<1>6. Succeeded(t) \in [File -> Nat]
  BY <1>5, FS_CardinalityType DEF Succeeded
<1> QED BY <1>1, <1>2, <1>4, <1>5, <1>6

-----------------------------------------------------------------------------
(* Types *)

LEMMA TranscriptType == ASSUME NEW t \in Transcript PROVE t \in Seq(Message)
BY TranscriptAssumption

\* The prior state is well typed, whether it was found or not.
LEMMA PriorTypes ==
  ASSUME TypeOK, NEW t \in Transcript
  PROVE  PriorEntry(t) \in Entry /\ PriorLineage(t) \in Lineage
<1>1. EmptyEntry \in Entry /\ EmptyLineage \in Lineage
  BY DEF EmptyEntry, Entry, EmptyLineage, Lineage
<1>2. [EmptyEntry EXCEPT !.lineage_complete = (LookupKey(t) = NewConversation)] \in Entry
  BY DEF EmptyEntry, Entry
<1> QED BY <1>1, <1>2 DEF PriorEntry, PriorLineage, TypeOK, Cached

LEMMA AdmittedType ==
  ASSUME NEW target, NEW wanted, NEW K \in Admitted(target, wanted)
  PROVE  K \subseteq wanted \ target
BY DEF Admitted

LEMMA NextEntryType ==
  ASSUME NEW t \in Transcript, NEW prior \in Entry,
         NEW credit \in SUBSET File, NEW record \in SUBSET File, NEW supply \in SUBSET File
  PROVE  NextEntry(t, prior, credit, record, supply) \in Entry
<1>1. Succeeded(t) \in [File -> Nat]
  BY TranscriptType, ParsedFinite
<1> QED BY <1>1 DEF NextEntry, Entry

LEMMA NextLineageType ==
  ASSUME NEW t \in Transcript, NEW prior \in Lineage, NEW package, NEW beyond \in Nat
  PROVE  NextLineage(t, prior, package, beyond) \in Lineage
<1>1. Len(t) \in Nat
  BY TranscriptType
<1> QED BY <1>1 DEF NextLineage, Lineage

\* Evicting the oldest key restores the bound and never evicts the newest.
LEMMA EvictedProperties ==
  ASSUME NEW s \in Seq(Transcript), Distinct(s), s # <<>>, Len(s) <= MaxSize + 1
  PROVE  /\ Evicted(s) \in Seq(Transcript)
         /\ Distinct(Evicted(s))
         /\ Range(Evicted(s)) \subseteq Range(s)
         /\ Len(Evicted(s)) <= MaxSize
         /\ s[Len(s)] \in Range(Evicted(s))
<1> USE BoundAssumption
<1>1. CASE Len(s) <= MaxSize
  BY <1>1 DEF Evicted, Range
<1>2. CASE Len(s) = MaxSize + 1
  <2>1. /\ Evicted(s) = Tail(s) /\ Tail(s) \in Seq(Transcript) /\ Len(Tail(s)) = MaxSize
        /\ \A i \in 1 .. MaxSize : Tail(s)[i] = s[i + 1]
    BY <1>2, HeadTailProperties DEF Evicted
  <2> QED BY <1>2, <2>1 DEF Distinct, Range
<1> QED BY <1>1, <1>2

\* What one store does to the cache, given that the order was well formed.
LEMMA StoreProperties ==
  ASSUME TypeOK, Len(order) <= MaxSize, NEW t \in Transcript, NEW entry, NEW line,
         Store(t, entry, line)
  PROVE  /\ order' \in Seq(Transcript) /\ Distinct(order') /\ Len(order') <= MaxSize
         /\ Range(order') \subseteq Range(order) \cup {t}
         /\ t \in Range(order')
         /\ DOMAIN cache' = Range(order') /\ DOMAIN lineage' = Range(order')
         /\ cache'[t] = entry /\ lineage'[t] = line
         /\ \A k \in Range(order') \ {t} :
              /\ k \in Range(order)
              /\ cache'[k] = cache[k] /\ lineage'[k] = lineage[k]
         /\ cache' = [k \in Range(order') |-> IF k = t THEN entry ELSE cache[k]]
         /\ lineage' = [k \in Range(order') |-> IF k = t THEN line ELSE lineage[k]]
<1> DEFINE moved == MoveToEnd(order, t)
<1>1. order \in Seq(Transcript) /\ Distinct(order) /\ Len(order) \in Nat
  BY DEF TypeOK, Distinct
<1>2. /\ moved \in Seq(Transcript) /\ Distinct(moved)
      /\ Range(moved) = Range(order) \cup {t}
      /\ Len(moved) <= MaxSize + 1
  <2>1. /\ moved \in Seq(Transcript) /\ Distinct(moved)
        /\ Range(moved) = Range(order) \cup {t}
        /\ Len(moved) = IF t \in Range(order) THEN Len(order) ELSE Len(order) + 1
    BY <1>1, MoveToEndProperties
  <2> HIDE DEF moved
  <2> QED BY <1>1, <2>1, BoundAssumption
<1>3. moved # <<>> /\ moved[Len(moved)] = t
  <2>1. moved = Append(WithoutKey(order, t), t)
    BY DEF MoveToEnd
  <2>2. WithoutKey(order, t) \in Seq(Transcript)
    BY <1>1, WithoutKeyType
  <2> QED BY <2>1, <2>2, AppendProperties
<1>4. order' = Evicted(moved)
  BY DEF Store
<1> HIDE DEF moved
<1>5. /\ order' \in Seq(Transcript) /\ Distinct(order') /\ Len(order') <= MaxSize
      /\ Range(order') \subseteq Range(order) \cup {t}
      /\ t \in Range(order')
  BY <1>2, <1>3, <1>4, EvictedProperties
<1>6. /\ cache' = [k \in Range(order') |-> IF k = t THEN entry ELSE cache[k]]
      /\ lineage' = [k \in Range(order') |-> IF k = t THEN line ELSE lineage[k]]
  BY DEF Store
<1> QED BY <1>5, <1>6

-----------------------------------------------------------------------------
(* The invariants *)

IInv == TypeOK /\ Len(order) <= MaxSize

Beyond(t, package, prior, C, R, S) ==
  BeyondBound(t) + Cardinality(ToCredit(t, prior) \ C)
    + Cardinality(ToRecord(t, prior) \ R) + Cardinality(ToSupply(package, prior) \ S)

\* The choices of an observe are sets of files, and what they refuse is counted.
LEMMA ChoiceTypes ==
  ASSUME NEW t \in Transcript, NEW package \in SUBSET File, NEW prior \in Entry,
         NEW C \in Admitted(prior.credited, ToCredit(t, prior)),
         NEW R \in Admitted(Recorded(prior), ToRecord(t, prior)),
         NEW S \in Admitted(prior.supplied, ToSupply(package, prior))
  PROVE  /\ C \in SUBSET File /\ R \in SUBSET File /\ S \in SUBSET File
         /\ Beyond(t, package, prior, C, R, S) \in Nat
         /\ ~(Beyond(t, package, prior, C, R, S) > 0)
              => /\ BeyondBound(t) = 0
                 /\ C = ToCredit(t, prior) /\ R = ToRecord(t, prior)
                 /\ S = ToSupply(package, prior)
<1> DEFINE X == ToCredit(t, prior) \ C
           Y == ToRecord(t, prior) \ R
           Z == ToSupply(package, prior) \ S
<1>1. /\ ToCredit(t, prior) \in SUBSET File /\ ToRecord(t, prior) \in SUBSET File
      /\ ToSupply(package, prior) \in SUBSET File
  BY DEF ToCredit, ToRecord, ToSupply, NewOperations
<1>2. /\ C \subseteq ToCredit(t, prior) /\ R \subseteq ToRecord(t, prior)
      /\ S \subseteq ToSupply(package, prior)
  BY DEF Admitted
<1>3. /\ X \in SUBSET File /\ Y \in SUBSET File /\ Z \in SUBSET File
      /\ Beyond(t, package, prior, C, R, S)
           = BeyondBound(t) + Cardinality(X) + Cardinality(Y) + Cardinality(Z)
      /\ X = {} => C = ToCredit(t, prior)
      /\ Y = {} => R = ToRecord(t, prior)
      /\ Z = {} => S = ToSupply(package, prior)
  BY <1>1, <1>2 DEF Beyond
<1> HIDE DEF X, Y, Z
<1>4. IsFiniteSet(X) /\ IsFiniteSet(Y) /\ IsFiniteSet(Z)
  BY <1>3, FileAssumption, FS_Subset
<1>5. /\ Cardinality(X) \in Nat /\ (Cardinality(X) = 0 <=> X = {})
      /\ Cardinality(Y) \in Nat /\ (Cardinality(Y) = 0 <=> Y = {})
      /\ Cardinality(Z) \in Nat /\ (Cardinality(Z) = 0 <=> Z = {})
  BY <1>4, FS_CardinalityType, FS_EmptySet
<1>6. BeyondBound(t) \in Nat
  BY TranscriptType, ParsedFinite
<1> QED BY <1>1, <1>2, <1>3, <1>5, <1>6

\* Type correctness, together with the bound on the number of stored states
\* (FileActivityTracker.observe evicts until the cache fits again).
THEOREM OrderInvariant == Spec => []IInv
<1>1. Init => IInv
  <2> SUFFICES ASSUME Init PROVE IInv
    OBVIOUS
  <2>1. order = <<>> /\ cache = <<>> /\ lineage = <<>> /\ report = NoReport
    BY DEF Init
  <2>2. Range(order) = {} /\ DOMAIN order = {} /\ Len(order) = 0
    BY <2>1 DEF Range
  <2>3. cache \in [{} -> Entry] /\ lineage \in [{} -> Lineage]
    BY <2>1
  <2>4. NoReport \in [key : Transcript \cup {NewConversation}, found : BOOLEAN,
                      token : Token, touched : SUBSET File, credited : SUBSET File,
                      beyond : Nat]
    BY DEF NoReport, Token
  <2>5. order \in Seq(Transcript) /\ Distinct(order)
    BY <2>1, <2>2 DEF Distinct
  <2> QED BY <2>1, <2>2, <2>3, <2>4, <2>5, BoundAssumption DEF IInv, TypeOK
<1>2. IInv /\ [Next]_vars => IInv'
  <2> SUFFICES ASSUME IInv, [Next]_vars PROVE IInv'
    OBVIOUS
  <2> USE DEF IInv
  <2>1. ASSUME NEW t \in Transcript, NEW package \in SUBSET File, Observe(t, package)
        PROVE  IInv'
    <3> DEFINE prior == PriorEntry(t)
    <3>1. prior \in Entry /\ PriorLineage(t) \in Lineage
      BY PriorTypes
    <3>2. PICK C \in Admitted(prior.credited, ToCredit(t, prior)),
               R \in Admitted(Recorded(prior), ToRecord(t, prior)),
               S \in Admitted(prior.supplied, ToSupply(package, prior)) :
            Answer(t, package, prior, C, R, S)
      BY <2>1 DEF Observe
    <3> DEFINE beyond == Beyond(t, package, prior, C, R, S)
               entry  == NextEntry(t, prior, C, R, S)
               line   == NextLineage(t, PriorLineage(t), package, beyond)
    <3> HIDE DEF prior
    <3>5. C \in SUBSET File /\ R \in SUBSET File /\ S \in SUBSET File /\ beyond \in Nat
      BY <3>1, ChoiceTypes
    <3>6. entry \in Entry
      BY <3>1, <3>5, NextEntryType
    <3>7. line \in Lineage
      BY <3>1, <3>5, NextLineageType
    <3>8. Store(t, entry, line)
      BY <3>2 DEF Answer, Beyond
    <3>9. report' = [key |-> t, found |-> Cached(LookupKey(t)),
                  token |-> Correlation(prior), touched |-> Touched(t),
                  credited |-> IF Correlation(prior) = "measured"
                     THEN entry.credited \cap Touched(t) ELSE {},
                  beyond |-> beyond]
      BY <3>2 DEF Answer, Beyond
    <3> HIDE DEF beyond, entry, line
    <3>10. report' \in [key : Transcript \cup {NewConversation}, found : BOOLEAN,
                        token : Token, touched : SUBSET File, credited : SUBSET File,
                        beyond : Nat]
      BY <3>5, <3>6, <3>9 DEF Correlation, Token, Touched, Entry, Cached
    <3>11. /\ order' \in Seq(Transcript) /\ Distinct(order') /\ Len(order') <= MaxSize
           /\ cache' = [k \in Range(order') |-> IF k = t THEN entry ELSE cache[k]]
           /\ lineage' = [k \in Range(order') |-> IF k = t THEN line ELSE lineage[k]]
           /\ \A k \in Range(order') \ {t} : k \in Range(order)
      BY <3>8, StoreProperties
    <3>12. cache' \in [Range(order') -> Entry] /\ lineage' \in [Range(order') -> Lineage]
      BY <3>6, <3>7, <3>11 DEF TypeOK
    <3> QED BY <3>10, <3>11, <3>12 DEF TypeOK, Distinct
  <2>2. ASSUME NEW key \in Transcript, Snapshot(key)
        PROVE  IInv'
    <3>1. order \in Seq(Transcript) /\ Distinct(order) /\ key \in Range(order)
      BY <2>2 DEF TypeOK, Distinct, Snapshot, Cached
    <3> DEFINE moved == MoveToEnd(order, key)
    <3>a. /\ moved \in Seq(Transcript) /\ Distinct(moved)
          /\ Range(moved) = Range(order) \cup {key}
          /\ Len(moved) = IF key \in Range(order) THEN Len(order) ELSE Len(order) + 1
      BY <3>1, MoveToEndProperties
    <3>b. order' = moved
      BY <2>2 DEF Snapshot
    <3> HIDE DEF moved
    <3>2. /\ order' \in Seq(Transcript) /\ Distinct(order')
          /\ Range(order') = Range(order) /\ Len(order') = Len(order)
      BY <3>1, <3>a, <3>b
    <3> QED BY <2>2, <3>2 DEF TypeOK, Snapshot, Distinct
  <2>3. CASE Restart
    <3>1. Init'
      BY <2>3 DEF Restart, Init
    <3> QED BY <1>1, <3>1, PTL
  <2>4. CASE UNCHANGED vars
    BY <2>4 DEF vars, TypeOK
  <2> QED BY <2>1, <2>2, <2>3, <2>4 DEF Next
<1> QED BY <1>1, <1>2, PTL DEF Spec

-----------------------------------------------------------------------------
(* What a stored state says about its lineage *)

\* The files of t that react to a supply first visible at message shownFrom[f].
Reacted(t, line, f) ==
  /\ line.shownFrom[f] > 0
  /\ \E i \in Envelopes(t) : i >= line.shownFrom[f] /\ Confirms(t, i, f)

\* The inductive part, for one state: an unclipped state has examined exactly
\* the operations of its transcript and remembers exactly what was supplied.
Faithful(t, entry, line) ==
  /\ \A f \in File : line.shownFrom[f] <= Len(t) + 1
  /\ entry.credited \subseteq entry.supplied
  /\ \A f \in entry.supplied : line.shownFrom[f] > 0
  /\ \A f \in entry.credited : line.shownFrom[f] <= Len(t)
  /\ entry.supplied = {} => \A f \in File : line.shownFrom[f] = 0
  /\ entry.lineage_complete => line.links = Cardinality(AssistantTurns(t)) + 1
  /\ ~line.clipped =>
       /\ Parsed(t) = Envelopes(t)
       /\ entry.operations = Succeeded(t)
       /\ \A f \in File : line.shownFrom[f] > 0 => f \in entry.supplied
       /\ \A f \in File : f \in entry.credited <=> Reacted(t, line, f)

CreditInv == \A k \in DOMAIN cache : Faithful(k, cache[k], lineage[k])

\* The same, of the prior state an observe of t starts from.
FaithfulPrior(t, entry, line) ==
  /\ \A f \in File : line.shownFrom[f] <= Len(t)
  /\ entry.credited \subseteq entry.supplied
  /\ \A f \in entry.supplied : line.shownFrom[f] > 0
  /\ entry.supplied = {} => \A f \in File : line.shownFrom[f] = 0
  /\ entry.lineage_complete => line.links = Cardinality(AssistantTurns(t))
  /\ ~line.clipped /\ Parsed(t) = Envelopes(t) =>
       /\ \A f \in File : Succeeded(t)[f] >= entry.operations[f]
       /\ \A f \in File : line.shownFrom[f] > 0 => f \in entry.supplied
       /\ \A f \in File : line.shownFrom[f] > 0 =>
            (f \in entry.credited \/ f \in NewOperations(t, entry.operations)
             <=> Reacted(t, line, f))

\* A transcript has more confirmed operations on f than one of its prefixes
\* exactly when one of them lies beyond the prefix.
LEMMA SucceededGrows ==
  ASSUME NEW t \in Seq(Message), NEW p \in Seq(Message), Len(p) <= Len(t),
         \A i \in 1 .. Len(p) : p[i] = t[i],
         Parsed(t) = Envelopes(t), Parsed(p) = Envelopes(p), NEW f \in File
  PROVE  /\ Succeeded(t)[f] >= Succeeded(p)[f]
         /\ Succeeded(t)[f] > Succeeded(p)[f]
              <=> \E i \in Envelopes(t) : i > Len(p) /\ Confirms(t, i, f)
<1>1. Len(p) \in Nat /\ Len(t) \in Nat
  OBVIOUS
<1>2. Envelopes(p) = {i \in Envelopes(t) : i <= Len(p)}
  BY <1>1 DEF Envelopes
<1>3. Confirmed(p, f) = {i \in Confirmed(t, f) : i <= Len(p)}
  <2>1. \A i \in Envelopes(p) : Confirms(p, i, f) <=> Confirms(t, i, f)
    BY DEF Confirms, Envelopes
  <2> QED BY <1>2, <2>1 DEF Confirmed
<1>4. IsFiniteSet(Confirmed(t, f)) /\ IsFiniteSet(Confirmed(p, f))
  BY ParsedFinite
<1>5. /\ Cardinality(Confirmed(t, f)) \in Nat /\ Cardinality(Confirmed(p, f)) \in Nat
      /\ Cardinality(Confirmed(p, f)) <= Cardinality(Confirmed(t, f))
      /\ Cardinality(Confirmed(t, f)) = Cardinality(Confirmed(p, f))
           => Confirmed(t, f) = Confirmed(p, f)
  <2>1. Confirmed(p, f) \in SUBSET Confirmed(t, f)
    BY <1>3
  <2> QED BY <1>4, <2>1, FS_Subset, FS_CardinalityType
<1>6. /\ Succeeded(t)[f] = Cardinality(Confirmed(t, f))
      /\ Succeeded(p)[f] = Cardinality(Confirmed(p, f))
  BY DEF Succeeded
<1>7. Confirmed(t, f) # Confirmed(p, f)
        <=> \E i \in Confirmed(t, f) : ~(i <= Len(p))
  BY <1>3
<1>8. \A i \in Confirmed(t, f) : i \in Nat
  BY ParsedFinite DEF Confirmed
<1>9. Confirmed(t, f) = {i \in Envelopes(t) : Confirms(t, i, f)}
  BY DEF Confirmed
<1>10. Succeeded(t)[f] > Succeeded(p)[f] <=> Confirmed(t, f) # Confirmed(p, f)
  BY <1>5, <1>6
<1>11. (\E i \in Confirmed(t, f) : ~(i <= Len(p)))
         <=> \E i \in Envelopes(t) : i > Len(p) /\ Confirms(t, i, f)
  BY <1>1, <1>8, <1>9
<1>12. Succeeded(t)[f] >= Succeeded(p)[f]
  BY <1>5, <1>6
<1> QED BY <1>7, <1>10, <1>11, <1>12

\* What is found under the lookup key is a faithful prior state, and so is the
\* empty one a miss starts from.
LEMMA PriorFaithful ==
  ASSUME TypeOK, CreditInv, NEW t \in Transcript
  PROVE  FaithfulPrior(t, PriorEntry(t), PriorLineage(t))
<1>1. t \in Seq(Message) /\ Len(t) \in Nat
  BY TranscriptType
<1> DEFINE e == PriorEntry(t)
           l == PriorLineage(t)
           p == LookupKey(t)
<1>2. CASE ~Cached(p)
  <2>1. /\ e.supplied = {} /\ e.credited = {}
        /\ e.lineage_complete = (p = NewConversation)
        /\ \A f \in File : e.operations[f] = 0
        /\ l.links = 0 /\ \A f \in File : l.shownFrom[f] = 0
    BY <1>2 DEF PriorEntry, PriorLineage, EmptyEntry, EmptyLineage
  <2>2. p = NewConversation => Cardinality(AssistantTurns(t)) = 0
    <3>1. AssistantTurns(t) # {} => p \in Seq(Message)
      BY <1>1, LookupKeyProperties
    <3> QED BY <3>1, TranscriptAssumption, FS_EmptySet
  <2>3. Succeeded(t) \in [File -> Nat]
    BY <1>1, ParsedFinite
  <2> HIDE DEF e, l, p
  <2>4. \A f \in File : Succeeded(t)[f] >= e.operations[f] /\ l.shownFrom[f] <= Len(t)
    BY <1>1, <2>1, <2>3
  <2>5. \A f \in File : ~(l.shownFrom[f] > 0)
    BY <2>1
  <2>6. e.lineage_complete => l.links = Cardinality(AssistantTurns(t))
    BY <2>1, <2>2
  <2>7. FaithfulPrior(t, e, l)
    BY <2>1, <2>4, <2>5, <2>6 DEF FaithfulPrior
  <2> QED BY <2>7 DEF e, l
<1>3. CASE Cached(p)
  <2>1. e = cache[p] /\ l = lineage[p] /\ e \in Entry /\ l \in Lineage
    BY <1>3, PriorTypes DEF PriorEntry, PriorLineage
  <2>2. Faithful(p, e, l)
    BY <1>3, <2>1 DEF CreditInv, Cached
  <2>3. p \in Transcript /\ p \in Seq(Message) /\ p # NewConversation
    <3>1. \A k \in Range(order) : k \in Transcript
      BY DEF TypeOK, Range
    <3>2. DOMAIN cache = Range(order)
      BY DEF TypeOK
    <3> QED BY <1>3, <3>1, <3>2, TranscriptAssumption DEF Cached
  <2>4. AssistantTurns(t) # {}
    BY <2>3 DEF LookupKey
  <2>5. PICK n \in 1 .. Len(t) :
           /\ t[n].role = "assistant"
           /\ \A j \in AssistantTurns(t) : j <= n
           /\ Len(p) = n - 1
           /\ \A i \in 1 .. n - 1 : p[i] = t[i]
    BY <1>1, <2>4, LookupKeyProperties
  <2> HIDE DEF e, l, p
  <2>6. Cardinality(AssistantTurns(t)) = Cardinality(AssistantTurns(p)) + 1
    <3>1. AssistantTurns(t) = AssistantTurns(p) \cup {n} /\ n \notin AssistantTurns(p)
      BY <1>1, <2>3, <2>5 DEF AssistantTurns
    <3>2. IsFiniteSet(AssistantTurns(p)) /\ Cardinality(AssistantTurns(p)) \in Nat
      <4>1. AssistantTurns(p) \in SUBSET (1 .. Len(p)) /\ Len(p) \in Nat
        BY <2>3 DEF AssistantTurns
      <4>2. IsFiniteSet(1 .. Len(p))
        BY <4>1, FS_Interval
      <4> QED BY <4>1, <4>2, FS_Subset, FS_CardinalityType
    <3> QED BY <3>1, <3>2, FS_AddElement
  <2>7. ASSUME ~l.clipped, Parsed(t) = Envelopes(t)
        PROVE  /\ \A f \in File : Succeeded(t)[f] >= e.operations[f]
               /\ \A f \in File : l.shownFrom[f] > 0 => f \in e.supplied
               /\ \A f \in File : l.shownFrom[f] > 0 =>
                    (f \in e.credited \/ f \in NewOperations(t, e.operations)
                     <=> Reacted(t, l, f))
    <3>1. /\ Parsed(p) = Envelopes(p) /\ e.operations = Succeeded(p)
          /\ \A f \in File : l.shownFrom[f] > 0 => f \in e.supplied
          /\ \A f \in File : f \in e.credited <=> Reacted(p, l, f)
      BY <2>2, <2>7 DEF Faithful
    <3>2. \A f \in File :
             /\ Succeeded(t)[f] >= Succeeded(p)[f]
             /\ Succeeded(t)[f] > Succeeded(p)[f]
                  <=> \E i \in Envelopes(t) : i > Len(p) /\ Confirms(t, i, f)
      BY <1>1, <2>3, <2>5, <2>7, <3>1, SucceededGrows
    <3>3. ASSUME NEW f \in File, l.shownFrom[f] > 0
          PROVE  f \in e.credited \/ f \in NewOperations(t, e.operations)
                 <=> Reacted(t, l, f)
      <4>1. l.shownFrom[f] \in Nat /\ l.shownFrom[f] <= Len(p) + 1 /\ Len(p) \in Nat
        BY <2>1, <2>2, <2>3 DEF Faithful, Lineage
      <4>2. f \in NewOperations(t, e.operations)
              <=> \E i \in Envelopes(t) : i > Len(p) /\ Confirms(t, i, f)
        BY <3>1, <3>2 DEF NewOperations
      <4>3. f \in e.credited
              <=> \E i \in Envelopes(p) : i >= l.shownFrom[f] /\ Confirms(p, i, f)
        BY <3>1, <3>3 DEF Reacted
      <4>4. Envelopes(p) = {i \in Envelopes(t) : i <= Len(p)}
        BY <1>1, <2>3, <2>5 DEF Envelopes
      <4>5. \A i \in Envelopes(p) : Confirms(p, i, f) <=> Confirms(t, i, f)
        BY <2>3, <2>5 DEF Confirms, Envelopes
      <4>6. \A i \in Envelopes(t) : i \in Nat
        BY <1>1 DEF Envelopes
      <4> QED BY <3>3, <4>1, <4>2, <4>3, <4>4, <4>5, <4>6 DEF Reacted
    <3> QED BY <3>1, <3>2, <3>3
  <2>8. \A f \in File : l.shownFrom[f] <= Len(t)
    BY <1>1, <2>1, <2>2, <2>3, <2>5 DEF Faithful, Lineage
  <2>9. e.lineage_complete => l.links = Cardinality(AssistantTurns(t))
    BY <2>2, <2>6 DEF Faithful
  <2>10. FaithfulPrior(t, e, l)
    BY <2>2, <2>7, <2>8, <2>9 DEF FaithfulPrior, Faithful
  <2> QED BY <2>10 DEF e, l
<1> QED BY <1>2, <1>3

\* An observe of a faithful prior state stores a faithful one: the correlation
\* runs before this request's package joins what was supplied.
LEMMA NextFaithful ==
  ASSUME NEW t \in Transcript, NEW package \in SUBSET File,
         NEW e \in Entry, NEW l \in Lineage, FaithfulPrior(t, e, l),
         NEW C \in Admitted(e.credited, ToCredit(t, e)),
         NEW R \in Admitted(Recorded(e), ToRecord(t, e)),
         NEW S \in Admitted(e.supplied, ToSupply(package, e))
  PROVE  Faithful(t, NextEntry(t, e, C, R, S),
                  NextLineage(t, l, package, Beyond(t, package, e, C, R, S)))
<1> DEFINE beyond == Beyond(t, package, e, C, R, S)
           ee == NextEntry(t, e, C, R, S)
           ll == NextLineage(t, l, package, beyond)
<1>1. /\ t \in Seq(Message) /\ Len(t) \in Nat
      /\ Succeeded(t) \in [File -> Nat]
  BY TranscriptType, ParsedFinite
<1>2. /\ ee.supplied = e.supplied \cup S /\ ee.credited = e.credited \cup C
      /\ ee.lineage_complete = e.lineage_complete
      /\ ee.operations = [f \in File |->
            IF f \in NewOperations(t, e.operations) /\ f \in Recorded(e) \cup R
            THEN Succeeded(t)[f] ELSE e.operations[f]]
      /\ ll.links = l.links + 1 /\ ll.clipped = (l.clipped \/ beyond > 0)
      /\ \A f \in File : ll.shownFrom[f] = IF l.shownFrom[f] > 0 THEN l.shownFrom[f]
                                           ELSE IF f \in package THEN Len(t) + 1 ELSE 0
  BY DEF NextEntry, NextLineage
<1>3. /\ C \in SUBSET File /\ R \in SUBSET File /\ S \in SUBSET File /\ beyond \in Nat
      /\ ~(beyond > 0) => /\ BeyondBound(t) = 0
                          /\ C = ToCredit(t, e) /\ R = ToRecord(t, e)
                          /\ S = ToSupply(package, e)
  BY ZenonT(30), ChoiceTypes
<1>4. C \subseteq e.supplied /\ S \subseteq package
  BY DEF Admitted, ToCredit, ToSupply
<1>5. \A f \in File : l.shownFrom[f] \in Nat /\ e.operations[f] \in Nat
  BY DEF Lineage, Entry
<1>6. S = {} => ToSupply(package, e) = {} \/ e.supplied # {}
  <2> SUFFICES ASSUME S = {}, e.supplied = {} PROVE ToSupply(package, e) = {}
    OBVIOUS
  <2>1. Cardinality({}) = 0 /\ 0 # MaxUniqueFiles
    BY FS_EmptySet, BoundAssumption
  <2>2. e.supplied \cup S = {}
    OBVIOUS
  <2>3. S = ToSupply(package, e) \ e.supplied
    BY <2>1, <2>2 DEF Admitted
  <2> QED BY <2>3
<1> HIDE DEF beyond, ee, ll
<1>7. \A f \in File : ll.shownFrom[f] <= Len(t) + 1
  BY <1>1, <1>2, <1>5 DEF FaithfulPrior
<1>8. ee.credited \subseteq ee.supplied
  BY <1>2, <1>4 DEF FaithfulPrior
<1>9. \A f \in ee.supplied : ll.shownFrom[f] > 0
  <2> SUFFICES ASSUME NEW f \in ee.supplied PROVE ll.shownFrom[f] > 0
    OBVIOUS
  <2>1. f \in File /\ (l.shownFrom[f] > 0 \/ f \in package)
    BY <1>2, <1>3, <1>4 DEF FaithfulPrior, Entry
  <2> QED BY <1>1, <1>2, <2>1
<1>10. \A f \in ee.credited : ll.shownFrom[f] <= Len(t)
  <2>1. \A f \in ee.credited : f \in File /\ l.shownFrom[f] > 0
    BY <1>2, <1>3, <1>4 DEF FaithfulPrior, Entry
  <2> QED BY <1>2, <2>1 DEF FaithfulPrior
<1>11. ee.supplied = {} => \A f \in File : ll.shownFrom[f] = 0
  <2> SUFFICES ASSUME ee.supplied = {}, NEW f \in File PROVE ll.shownFrom[f] = 0
    OBVIOUS
  <2>1. e.supplied = {} /\ S = {}
    BY <1>2
  <2>2. f \notin package
    BY <1>6, <2>1 DEF ToSupply
  <2> QED BY <1>2, <2>1, <2>2 DEF FaithfulPrior
<1>12. ee.lineage_complete => ll.links = Cardinality(AssistantTurns(t)) + 1
  BY <1>2 DEF FaithfulPrior
<1>13. ASSUME ~ll.clipped
       PROVE  /\ Parsed(t) = Envelopes(t)
              /\ ee.operations = Succeeded(t)
              /\ \A f \in File : ll.shownFrom[f] > 0 => f \in ee.supplied
              /\ \A f \in File : f \in ee.credited <=> Reacted(t, ll, f)
  <2>1. /\ ~l.clipped /\ Parsed(t) = Envelopes(t)
        /\ C = ToCredit(t, e) /\ R = ToRecord(t, e) /\ S = ToSupply(package, e)
    BY <1>1, <1>2, <1>3, <1>13, ParsedFinite
  <2>2. /\ \A f \in File : Succeeded(t)[f] >= e.operations[f]
        /\ \A f \in File : l.shownFrom[f] > 0 => f \in e.supplied
        /\ \A f \in File : l.shownFrom[f] > 0 =>
             (f \in e.credited \/ f \in NewOperations(t, e.operations)
              <=> Reacted(t, l, f))
    BY <2>1 DEF FaithfulPrior
  <2>3. ee.operations = Succeeded(t)
    <3>1. \A f \in File : ee.operations[f] = Succeeded(t)[f]
      BY <1>1, <1>2, <1>5, <2>1, <2>2 DEF NewOperations, ToRecord
    <3>2. ee.operations \in [File -> Nat]
      BY <1>1, <1>2, <1>5
    <3> QED BY <1>1, <3>1, <3>2
  <2>4. \A f \in File : ll.shownFrom[f] > 0 => f \in ee.supplied
    BY <1>2, <2>1, <2>2 DEF ToSupply
  <2>5. ASSUME NEW f \in File PROVE f \in ee.credited <=> Reacted(t, ll, f)
    <3>1. CASE l.shownFrom[f] > 0
      <4>1. ll.shownFrom[f] = l.shownFrom[f]
        BY <1>2, <3>1
      <4>2. f \in ee.credited <=> f \in e.credited \/ f \in NewOperations(t, e.operations)
        BY <1>2, <2>1, <2>2, <3>1 DEF ToCredit
      <4> QED BY <2>2, <3>1, <4>1, <4>2 DEF Reacted
    <3>2. CASE ~(l.shownFrom[f] > 0)
      <4>1. f \notin ee.credited
        BY <1>2, <1>4, <3>2 DEF FaithfulPrior
      <4>2. ll.shownFrom[f] \in {0, Len(t) + 1}
        BY <1>2, <3>2
      <4>3. \A i \in Envelopes(t) : i \in Nat /\ i <= Len(t)
        BY <1>1 DEF Envelopes
      <4>4. ~Reacted(t, ll, f)
        BY <1>1, <4>2, <4>3 DEF Reacted
      <4> QED BY <4>1, <4>4
    <3> QED BY <3>1, <3>2
  <2> QED BY <2>1, <2>3, <2>4, <2>5
<1>14. Faithful(t, ee, ll)
  BY <1>7, <1>8, <1>9, <1>10, <1>11, <1>12, <1>13 DEF Faithful
<1> QED BY <1>14 DEF ee, ll, beyond

\* The bounds of one stored state: what was admitted fits, and a file is
\* recorded only if it was recorded before or admitted now.
SetsBounded(e) ==
  /\ Cardinality(e.supplied) <= MaxUniqueFiles
  /\ Cardinality(e.credited) <= MaxUniqueFiles
  /\ Cardinality(Recorded(e)) <= MaxUniqueFiles

LEMMA NextSetsBounded ==
  ASSUME NEW t \in Transcript, NEW package \in SUBSET File, NEW e \in Entry,
         NEW C \in Admitted(e.credited, ToCredit(t, e)),
         NEW R \in Admitted(Recorded(e), ToRecord(t, e)),
         NEW S \in Admitted(e.supplied, ToSupply(package, e))
  PROVE  SetsBounded(NextEntry(t, e, C, R, S))
<1> DEFINE ee == NextEntry(t, e, C, R, S)
<1>1. /\ Cardinality(e.credited \cup C) <= MaxUniqueFiles
      /\ Cardinality(Recorded(e) \cup R) <= MaxUniqueFiles
      /\ Cardinality(e.supplied \cup S) <= MaxUniqueFiles
  BY BoundAssumption DEF Admitted
<1>2. /\ ee.supplied = e.supplied \cup S /\ ee.credited = e.credited \cup C
      /\ \A f \in File : ee.operations[f] =
            IF f \in NewOperations(t, e.operations) /\ f \in Recorded(e) \cup R
            THEN Succeeded(t)[f] ELSE e.operations[f]
  BY DEF NextEntry
<1>3. /\ Succeeded(t) \in [File -> Nat]
      /\ \A f \in File : e.operations[f] \in Nat
  BY TranscriptType, ParsedFinite DEF Entry
<1>4. R \subseteq NewOperations(t, e.operations) /\ R \subseteq File
  BY DEF Admitted, ToRecord, NewOperations
<1> HIDE DEF ee
<1>5. Recorded(ee) = Recorded(e) \cup R
  BY <1>2, <1>3, <1>4 DEF Recorded, NewOperations
<1>6. SetsBounded(ee)
  BY <1>1, <1>2, <1>5 DEF SetsBounded
<1> QED BY <1>6 DEF ee

-----------------------------------------------------------------------------
(* The safety theorems *)

StateInv == /\ CreditInv
            /\ \A k \in DOMAIN cache : SetsBounded(cache[k])
            /\ NoPriorContextIsTrue

LEMMA ObserveKeepsStateInv ==
  ASSUME IInv, StateInv, NEW t \in Transcript, NEW package \in SUBSET File,
         Observe(t, package)
  PROVE  StateInv'
<1> USE DEF IInv
<1> DEFINE prior == PriorEntry(t)
           l == PriorLineage(t)
<1>1. prior \in Entry /\ l \in Lineage
  BY PriorTypes
<1>2. PICK C \in Admitted(prior.credited, ToCredit(t, prior)),
           R \in Admitted(Recorded(prior), ToRecord(t, prior)),
           S \in Admitted(prior.supplied, ToSupply(package, prior)) :
        Answer(t, package, prior, C, R, S)
  BY DEF Observe
<1> DEFINE beyond == Beyond(t, package, prior, C, R, S)
           entry  == NextEntry(t, prior, C, R, S)
           line   == NextLineage(t, l, package, beyond)
<1>3. FaithfulPrior(t, prior, l)
  BY PriorFaithful DEF StateInv
<1>4. Store(t, entry, line) /\ report'.key = t /\ report'.token = Correlation(prior)
  BY <1>2 DEF Answer, Beyond
<1> HIDE DEF prior, l
<1>5. Faithful(t, entry, line) /\ SetsBounded(entry)
  BY <1>1, <1>3, NextFaithful, NextSetsBounded
<1>6. Correlation(prior) = "no_prior_context" =>
        \A f \in File : line.shownFrom[f] \in {0, Len(t) + 1}
  <2> SUFFICES ASSUME Correlation(prior) = "no_prior_context", NEW f \in File
               PROVE  line.shownFrom[f] \in {0, Len(t) + 1}
    OBVIOUS
  <2>1. l.shownFrom[f] = 0
    BY <1>3 DEF Correlation, FaithfulPrior
  <2> QED BY <2>1 DEF NextLineage
<1> HIDE DEF entry, line, beyond
<1>7. /\ DOMAIN cache' = Range(order') /\ DOMAIN cache = Range(order)
      /\ t \in Range(order')
      /\ cache'[t] = entry /\ lineage'[t] = line
      /\ \A k \in Range(order') \ {t} :
           /\ k \in Range(order)
           /\ cache'[k] = cache[k] /\ lineage'[k] = lineage[k]
  BY <1>4, StoreProperties DEF TypeOK
<1>8. CreditInv' /\ \A k \in DOMAIN cache' : SetsBounded(cache'[k])
  BY <1>5, <1>7 DEF StateInv, CreditInv
<1>9. NoPriorContextIsTrue'
  BY <1>4, <1>6, <1>7 DEF NoPriorContextIsTrue
<1> QED BY <1>8, <1>9 DEF StateInv, SetsBounded, Recorded

THEOREM StateInvariant == Spec => []StateInv
<1>1. Init => StateInv
  BY DEF Init, StateInv, CreditInv, NoPriorContextIsTrue, Cached, NoReport
<1>2. IInv /\ StateInv /\ [Next]_vars => StateInv'
  <2> SUFFICES ASSUME IInv, StateInv, [Next]_vars PROVE StateInv'
    OBVIOUS
  <2>1. CASE \E t \in Transcript, package \in SUBSET File : Observe(t, package)
    BY <2>1, ObserveKeepsStateInv
  <2>2. ASSUME UNCHANGED <<cache, report, lineage>> PROVE StateInv'
    BY ZenonT(30), <2>2 DEF StateInv, CreditInv, Faithful, SetsBounded, Recorded,
                NoPriorContextIsTrue, Cached, Reacted
  <2>3. CASE Restart
    BY <2>3 DEF Restart, StateInv, CreditInv, NoPriorContextIsTrue, Cached, NoReport
  <2> QED BY <2>1, <2>2, <2>3 DEF Next, Snapshot, vars
<1> QED BY <1>1, <1>2, OrderInvariant, PTL DEF Spec

\* Every reachable state is well typed: the recency order lists exactly the
\* stored transcripts, each once.
THEOREM TypeCorrect == Spec => []TypeOK
BY OrderInvariant, PTL DEF IInv

\* Neither the cache nor any remembered set ever outgrows its configured bound.
THEOREM BoundsHold == Spec => []Bounded
<1>1. IInv /\ StateInv => Bounded
  BY DEF IInv, StateInv, SetsBounded, Bounded
<1> QED BY <1>1, OrderInvariant, StateInvariant, PTL

\* Credit is exact on every lineage that reported no bounded-away work.
THEOREM CreditIsExact == Spec => []ExactUnlessClipped
<1>1. IInv /\ StateInv => ExactUnlessClipped
  <2> SUFFICES ASSUME IInv, StateInv, NEW k \in DOMAIN cache, ~lineage[k].clipped
               PROVE  cache[k].credited = ReactedTo(k)
    BY DEF ExactUnlessClipped
  <2>1. \A f \in File : f \in cache[k].credited <=> Reacted(k, lineage[k], f)
    BY DEF StateInv, CreditInv, Faithful
  <2>2. cache[k].credited \subseteq File
    BY DEF IInv, TypeOK, Entry
  <2> QED BY <2>1, <2>2 DEF ReactedTo, Reacted
<1> QED BY <1>1, OrderInvariant, StateInvariant, PTL

\* Only files an earlier request of the lineage supplied are ever credited,
\* whatever the bounds refuse.
THEOREM CreditNeedsSupply == Spec => []CreditedWasSupplied
<1>1. IInv /\ StateInv => CreditedWasSupplied
  <2> SUFFICES ASSUME IInv, StateInv, NEW k \in DOMAIN cache
               PROVE  /\ cache[k].credited \subseteq cache[k].supplied
                      /\ \A f \in cache[k].credited : lineage[k].shownFrom[f] \in 1 .. Len(k)
    BY DEF CreditedWasSupplied
  <2>1. Faithful(k, cache[k], lineage[k])
    BY DEF StateInv, CreditInv
  <2>2. cache[k] \in Entry /\ lineage[k] \in Lineage /\ Len(k) \in Nat
    <3>1. \A j \in Range(order) : j \in Seq(Message)
      BY TranscriptAssumption DEF IInv, TypeOK, Range
    <3> QED BY <3>1 DEF IInv, TypeOK
  <2> QED BY <2>1, <2>2 DEF Faithful, Entry, Lineage
<1> QED BY <1>1, OrderInvariant, StateInvariant, PTL

\* A state that claims an unbroken lineage chains one observed request per
\* assistant turn: no gap was ever forgotten.
THEOREM CompletenessIsHonest == Spec => []CompleteMeansWholeLineage
<1>1. StateInv => CompleteMeansWholeLineage
  BY DEF StateInv, CreditInv, Faithful, CompleteMeansWholeLineage
<1> QED BY <1>1, StateInvariant, PTL

\* "No prior context" is only ever reported when no earlier request of the
\* lineage supplied a file.
THEOREM NoPriorContextIsHonest == Spec => []NoPriorContextIsTrue
<1>1. StateInv => NoPriorContextIsTrue
  BY DEF StateInv
<1> QED BY <1>1, StateInvariant, PTL
=============================================================================
