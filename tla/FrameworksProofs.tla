-------------------------- MODULE FrameworksProofs --------------------------
(***************************************************************************)
(* Theorems about the frameworks, for every value of their constants. A     *)
(* section for each has its inductive invariant, and that its steps keep    *)
(* it; what the composition promises follows.                               *)
(***************************************************************************)
EXTENDS Frameworks, FiniteSetTheorems, WellFoundedInduction, TLAPS

-----------------------------------------------------------------------------
(* The memory file and its scripts: whoever runs, overlaps or is killed *)

MemoryRunType == [at : {"ended", "reading", "storing", "writing"}, held : SUBSET Memory!Record,
            todo : SUBSET Memory!Record, base : SUBSET Memory!Record, alone : BOOLEAN]

\* What a run that has the memory to itself knows of it.
MemoryUndisturbed(r) ==
  /\ Memory!Running = {r} /\ run[r].base \subseteq run[r].held
  /\ run[r].at \in {"reading", "storing"} => file.at # "torn" /\ run[r].held = file.records
  /\ run[r].at = "writing" => file.at = "torn" /\ file.by = {r}

\* Every run that runs alone is undisturbed, and until two overlap each one runs
\* alone and knows what was ever stored.
MemoryAlone ==
  /\ \A r \in Memory!Run : run[r].alone => MemoryUndisturbed(r)
  /\ ~lapped => /\ \A r \in Memory!Running : run[r].alone /\ remembered \subseteq run[r].held
                /\ file.at # "torn" => remembered \subseteq file.records

\* A cut tail is paid for before it costs the next line.
MemoryPaid == Cardinality(returned \ log.readable) + (IF log.cut THEN 1 ELSE 0) <= crashes

MemoryInv == Memory!TypeOK /\ MemoryAlone /\ MemoryPaid

\* The invariant holds at the start.
LEMMA MemoryInitHolds == ASSUME Memory!NamesAssumption, Memory!Init PROVE MemoryInv
<1>1. Memory!TypeOK
  <2>1. 0 \in 0 .. MaxCrashes
    BY DEF Memory!NamesAssumption
  <2> QED BY <2>1, Zenon DEF Memory!Init, Memory!TypeOK, Memory!Ended
<1>2. MemoryAlone
  BY DEF Memory!Init, MemoryAlone, Memory!Running, Memory!Ended
<1>3. returned \ log.readable = {}
  BY DEF Memory!Init
<1>4. MemoryPaid
  BY <1>3, FS_EmptySet DEF Memory!Init, MemoryPaid
<1> QED BY <1>1, <1>2, <1>4 DEF MemoryInv

\* Counting is the same in every module.
LEMMA MemoryCounts == (\A S : Memory!IsFiniteSet(S) <=> IsFiniteSet(S)) /\ (\A S : Memory!Cardinality(S) = Cardinality(S))
BY DEF Memory!IsFiniteSet, Memory!Cardinality, IsFiniteSet, Cardinality

\* The lines the log has lost are a finite set.
LEMMA MemoryLost == ASSUME Memory!NamesAssumption, Memory!TypeOK
              PROVE  IsFiniteSet(returned \ log.readable) /\ Cardinality(returned \ log.readable) \in Nat
<1>1. IsFiniteSet(LogLine) /\ returned \ log.readable \subseteq LogLine
  BY MemoryCounts DEF Memory!NamesAssumption, Memory!TypeOK
<1>2. IsFiniteSet(returned \ log.readable)
  BY <1>1, FS_Subset
<1> QED BY <1>2, FS_CardinalityType

\* The gateway's steps leave the memory alone.
LEMMA MemoryLogStep ==
  ASSUME Memory!NamesAssumption, MemoryInv,
         (\E l \in LogLine : Memory!Append(l)) \/ Memory!Flush \/ Memory!CutLine
  PROVE  MemoryInv'
<1>1. UNCHANGED <<file, run, remembered, lapped>> /\ crashes \in Nat /\ crashes' \in 0 .. MaxCrashes
  <2>1. crashes \in 0 .. MaxCrashes /\ MaxCrashes \in Nat
    BY DEF MemoryInv, Memory!TypeOK, Memory!NamesAssumption
  <2> QED BY <2>1 DEF Memory!Append, Memory!Flush, Memory!CutLine
<1>2. MemoryAlone'
  BY <1>1 DEF MemoryInv, MemoryAlone, MemoryUndisturbed, Memory!Running
<1>3. Memory!TypeOK' /\ MemoryPaid'
  <2>0. log \in [readable : SUBSET LogLine, appending : LogLine \cup {NoLine}, cut : BOOLEAN]
          /\ returned \subseteq LogLine
    BY DEF MemoryInv, Memory!TypeOK
  <2>1. CASE \E l \in LogLine : Memory!Append(l)
    <3>1. PICK l \in LogLine : Memory!Append(l)
      BY <2>1
    <3>2. log' = [log EXCEPT !.appending = l] /\ returned' = returned /\ crashes' = crashes
      BY <3>1 DEF Memory!Append
    <3>3. /\ log' \in [readable : SUBSET LogLine, appending : LogLine \cup {NoLine}, cut : BOOLEAN]
          /\ log'.readable = log.readable /\ log'.cut = log.cut
      BY <2>0, <3>2
    <3> QED BY <1>1, <3>2, <3>3 DEF MemoryInv, Memory!TypeOK, MemoryPaid
  <2>2. CASE Memory!Flush
    <3>1. /\ log.appending \in LogLine /\ returned' = returned \cup {log.appending} /\ crashes' = crashes
          /\ log'.readable = log.readable \cup (IF log.cut THEN {} ELSE {log.appending})
          /\ log'.appending = NoLine /\ log'.cut = FALSE
          /\ log' \in [readable : SUBSET LogLine, appending : LogLine \cup {NoLine}, cut : BOOLEAN]
      BY <2>0, <2>2 DEF Memory!Flush
    <3>2. Memory!TypeOK'
      BY <1>1, <2>0, <3>1 DEF MemoryInv, Memory!TypeOK
    <3> DEFINE S == returned \ log.readable
               T == returned' \ log'.readable
    <3>3. IsFiniteSet(S) /\ Cardinality(S) \in Nat /\ Cardinality(S) + (IF log.cut THEN 1 ELSE 0) <= crashes
      BY MemoryLost DEF MemoryInv, MemoryPaid
    <3>4. Cardinality(T) <= crashes /\ Cardinality(T) \in Nat
      <4>1. CASE log.cut
        <5>1. T \subseteq S \cup {log.appending}
          BY <3>1, <4>1
        <5>2. IsFiniteSet(S \cup {log.appending}) /\ Cardinality(S \cup {log.appending}) <= Cardinality(S) + 1
          <6> HIDE DEF S
          <6>1. /\ IsFiniteSet(S \cup {log.appending})
                /\ Cardinality(S \cup {log.appending}) = Cardinality(S)
                     \/ Cardinality(S \cup {log.appending}) = Cardinality(S) + 1
            BY <3>3, FS_AddElement
          <6> QED BY <3>3, <6>1
        <5>3. Cardinality(S \cup {log.appending}) \in Nat
                /\ Cardinality(T) <= Cardinality(S \cup {log.appending})
              /\ Cardinality(T) \in Nat
          BY <5>1, <5>2, FS_Subset, FS_CardinalityType
        <5> HIDE DEF S, T
        <5> QED BY <1>1, <3>3, <4>1, <5>2, <5>3
      <4>2. CASE ~log.cut
        <5>1. T \subseteq S
          BY <3>1, <4>2
        <5>2. Cardinality(T) <= Cardinality(S) /\ Cardinality(T) \in Nat
          BY <3>3, <5>1, FS_Subset, FS_CardinalityType
        <5>3. Cardinality(S) <= crashes
          BY <3>3, <4>2
        <5> HIDE DEF S, T
        <5> QED BY <1>1, <3>3, <5>2, <5>3
      <4> QED BY <4>1, <4>2
    <3>6. MemoryPaid'
      <4>1. Cardinality(T) + (IF log'.cut THEN 1 ELSE 0) = Cardinality(T)
        BY <3>1, <3>4
      <4> QED BY <3>1, <3>4, <4>1 DEF MemoryPaid
    <3> QED BY <3>2, <3>6
  <2>3. CASE Memory!CutLine
    <3>1. /\ log'.readable = log.readable /\ returned' = returned /\ crashes' = crashes + 1
          /\ log' \in [readable : SUBSET LogLine, appending : LogLine \cup {NoLine}, cut : BOOLEAN]
      BY <2>0, <2>3, Zenon DEF Memory!CutLine
    <3>2. Memory!TypeOK'
      BY <1>1, <2>0, <3>1 DEF MemoryInv, Memory!TypeOK
    <3>3. Cardinality(returned \ log.readable) <= crashes /\ Cardinality(returned \ log.readable) \in Nat
      <4>1. Cardinality(returned \ log.readable) \in Nat
        BY MemoryLost DEF MemoryInv
      <4>2. Cardinality(returned \ log.readable) + (IF log.cut THEN 1 ELSE 0) <= crashes
        BY DEF MemoryInv, MemoryPaid
      <4>3. (IF log.cut THEN 1 ELSE 0) \in {0, 1}
        OBVIOUS
      <4> QED BY <1>1, <4>1, <4>2, <4>3
    <3>4. Cardinality(returned \ log.readable)' = Cardinality(returned \ log.readable)
      BY <3>1
    <3>5. MemoryPaid'
      BY <1>1, <3>1, <3>3, <3>4 DEF MemoryPaid
    <3> QED BY <3>2, <3>5
  <2> QED BY <2>1, <2>2, <2>3
<1> QED BY <1>2, <1>3 DEF MemoryInv

\* A run that begins is alone if no other runs, and ends the solitude of those.
LEMMA MemoryReloadStep ==
  ASSUME Memory!NamesAssumption, MemoryInv, NEW r \in Memory!Run, Memory!Reload(r)
  PROVE  MemoryInv'
<1>1. /\ run[r].at = "ended" /\ file.at # "torn" /\ UNCHANGED <<log, file, remembered, returned, crashes>>
      /\ lapped' = (lapped \/ Memory!Running # {})
  BY DEF Memory!Reload, Memory!Loadable
<1>2. /\ run' \in [Memory!Run -> MemoryRunType]
      /\ run'[r].at \in {"reading", "storing"} /\ run'[r].held = file.records /\ run'[r].base = file.records
      /\ run'[r].alone = (Memory!Running = {})
      /\ \A s \in Memory!Run : s # r => /\ run'[s].at = run[s].at /\ run'[s].held = run[s].held
                                 /\ run'[s].alone = FALSE
  <2>1. run \in [Memory!Run -> MemoryRunType]
    BY DEF MemoryInv, Memory!TypeOK, MemoryRunType
  <2>2. file.records \subseteq Memory!Record
    BY DEF MemoryInv, Memory!TypeOK
  <2>3. r \notin Ingester => r \in Memory!Record
    BY DEF Memory!Run, Memory!Record, Memory!QualityRecord
  <2> QED BY ZenonT(30), <2>1, <2>2, <2>3 DEF Memory!Reload, Memory!Loaded, MemoryRunType
<1>3. Memory!Running' = Memory!Running \cup {r}
  BY <1>1, <1>2 DEF Memory!Running
<1>4. Memory!TypeOK'
  BY <1>1, <1>2 DEF MemoryInv, Memory!TypeOK, MemoryRunType
<1>5. MemoryAlone'
  <2>1. ASSUME NEW s \in Memory!Run, run'[s].alone PROVE MemoryUndisturbed(s)'
    <3>1. s = r /\ Memory!Running = {}
      BY <1>2, <2>1, Zenon
    <3> QED BY <1>1, <1>2, <1>3, <3>1 DEF MemoryUndisturbed
  <2>2. ASSUME ~lapped'
        PROVE /\ \A s \in Memory!Running' : run'[s].alone /\ remembered \subseteq run'[s].held
              /\ remembered \subseteq file.records
    <3>1. ~lapped /\ Memory!Running = {}
      BY <1>1, <2>2, Zenon DEF MemoryInv, Memory!TypeOK
    <3>2. remembered \subseteq file.records
      BY <1>1, <3>1 DEF MemoryInv, MemoryAlone
    <3> QED BY <1>2, <1>3, <3>1, <3>2, Zenon
  <2> QED BY <1>1, <2>1, <2>2 DEF MemoryAlone
<1>6. MemoryPaid'
  BY <1>1 DEF MemoryInv, MemoryPaid
<1> QED BY <1>4, <1>5, <1>6 DEF MemoryInv

\* A run that goes on is still a run, knows no less and leaves the others alone.
MemoryAdvanced(r) ==
  /\ run' \in [Memory!Run -> MemoryRunType]
  /\ \A s \in Memory!Run : s # r => run'[s] = run[s]
  /\ run'[r].at \in {"storing", "writing"} /\ run[r].held \subseteq run'[r].held
  /\ run'[r].base = run[r].base /\ run'[r].alone = run[r].alone

\* What opening the file for writing makes of the run, field by field.
LEMMA MemoryTruncated ==
  ASSUME run \in [Memory!Run -> MemoryRunType], NEW r \in Memory!Run, NEW x \in Memory!Record,
         Memory!Truncate(r, x)
  PROVE  run' = [run EXCEPT ![r] = [at |-> "writing", held |-> run[r].held \cup {x}, todo |-> run[r].todo \ {x},
                                    base |-> run[r].base, alone |-> run[r].alone]]
BY DEF Memory!Truncate, MemoryRunType

\* Reading the log, losing the file's lines to a second copy, opening the file
\* and filling it only advance the run.
LEMMA MemoryAdvances ==
  ASSUME Memory!TypeOK, NEW r \in Memory!Run,
         Memory!ReadLog(r)
           \/ (\E x \in Memory!Record : Memory!Duplicate(r, x) \/ Memory!Truncate(r, x)) \/ Memory!Fill(r)
  PROVE  MemoryAdvanced(r)
<1>1. run \in [Memory!Run -> MemoryRunType] /\ log.readable \subseteq Memory!Record
  BY DEF Memory!TypeOK, MemoryRunType, Memory!Record, Memory!SessionLogRecord
<1>2. CASE Memory!ReadLog(r)
  <2>1. run' \in [Memory!Run -> MemoryRunType]
    BY ZenonT(30), <1>1, <1>2 DEF Memory!ReadLog, MemoryRunType
  <2>2. \A s \in Memory!Run : s # r => run'[s] = run[s]
    BY <1>1, <1>2 DEF Memory!ReadLog
  <2>3. run'[r].at \in {"storing", "writing"} /\ run[r].held \subseteq run'[r].held
    BY <1>1, <1>2 DEF Memory!ReadLog, MemoryRunType
  <2>4. run'[r].base = run[r].base /\ run'[r].alone = run[r].alone
    BY <1>1, <1>2 DEF Memory!ReadLog, MemoryRunType
  <2> QED BY <2>1, <2>2, <2>3, <2>4 DEF MemoryAdvanced
<1>3. CASE Memory!Fill(r)
  <2>1. run' \in [Memory!Run -> MemoryRunType]
    BY <1>1, <1>3 DEF Memory!Fill, MemoryRunType
  <2>2. \A s \in Memory!Run : s # r => run'[s] = run[s]
    BY <1>1, <1>3 DEF Memory!Fill
  <2>3. run'[r].at \in {"storing", "writing"} /\ run[r].held \subseteq run'[r].held
    BY <1>1, <1>3 DEF Memory!Fill, MemoryRunType
  <2>4. run'[r].base = run[r].base /\ run'[r].alone = run[r].alone
    BY <1>1, <1>3 DEF Memory!Fill, MemoryRunType
  <2> QED BY <2>1, <2>2, <2>3, <2>4 DEF MemoryAdvanced
<1>4. ASSUME NEW x \in Memory!Record, Memory!Duplicate(r, x) PROVE MemoryAdvanced(r)
  <2>1. run' \in [Memory!Run -> MemoryRunType]
    BY <1>1, <1>4 DEF Memory!Duplicate, MemoryRunType
  <2>2. \A s \in Memory!Run : s # r => run'[s] = run[s]
    BY <1>1, <1>4 DEF Memory!Duplicate
  <2>3. run'[r].at \in {"storing", "writing"} /\ run[r].held \subseteq run'[r].held
    BY <1>1, <1>4 DEF Memory!Duplicate, MemoryRunType
  <2>4. run'[r].base = run[r].base /\ run'[r].alone = run[r].alone
    BY <1>1, <1>4 DEF Memory!Duplicate, MemoryRunType
  <2> QED BY <2>1, <2>2, <2>3, <2>4 DEF MemoryAdvanced
<1>5. ASSUME NEW x \in Memory!Record, Memory!Truncate(r, x) PROVE MemoryAdvanced(r)
  <2>1. run' \in [Memory!Run -> MemoryRunType]
    <3>1. run' = [run EXCEPT ![r] = [at |-> "writing", held |-> run[r].held \cup {x}, todo |-> run[r].todo \ {x},
                                     base |-> run[r].base, alone |-> run[r].alone]]
      BY <1>1, <1>5, MemoryTruncated
    <3>2. run[r] \in MemoryRunType
      BY <1>1
    <3>3. /\ run[r].held \cup {x} \in SUBSET Memory!Record /\ run[r].todo \ {x} \in SUBSET Memory!Record
          /\ run[r].base \in SUBSET Memory!Record /\ run[r].alone \in BOOLEAN
      BY <3>2 DEF MemoryRunType
    <3>4. [at |-> "writing", held |-> run[r].held \cup {x}, todo |-> run[r].todo \ {x},
           base |-> run[r].base, alone |-> run[r].alone] \in MemoryRunType
      BY <3>3 DEF MemoryRunType
    <3> QED BY <1>1, <3>1, <3>4
  <2>2. \A s \in Memory!Run : s # r => run'[s] = run[s]
    BY <1>1, <1>5, Zenon DEF Memory!Truncate
  <2>3. run'[r].at \in {"storing", "writing"} /\ run[r].held \subseteq run'[r].held
    BY <1>1, <1>5, Zenon DEF Memory!Truncate, MemoryRunType
  <2>4. run'[r].base = run[r].base /\ run'[r].alone = run[r].alone
    BY <1>1, <1>5, Zenon DEF Memory!Truncate, MemoryRunType
  <2> QED BY <2>1, <2>2, <2>3, <2>4 DEF MemoryAdvanced
<1> QED BY <1>2, <1>3, <1>4, <1>5

\* A run that goes on knows no less than it did, and is in no other's way.
LEMMA MemoryRunStep ==
  ASSUME Memory!NamesAssumption, MemoryInv, NEW r \in Memory!Run,
         Memory!ReadLog(r)
           \/ (\E x \in Memory!Record : Memory!Duplicate(r, x) \/ Memory!Truncate(r, x)) \/ Memory!Fill(r)
  PROVE  MemoryInv'
<1>1. run[r].at # "ended" /\ UNCHANGED <<log, lapped, returned, crashes>>
  BY Zenon DEF Memory!ReadLog, Memory!Duplicate, Memory!Truncate, Memory!Fill
<1>2. run \in [Memory!Run -> MemoryRunType]
  BY DEF MemoryInv, Memory!TypeOK, MemoryRunType
<1>3. MemoryAdvanced(r)
  BY MemoryAdvances DEF MemoryInv
<1>4. Memory!Running' = Memory!Running /\ r \in Memory!Running
  BY <1>1, <1>3 DEF Memory!Running, MemoryAdvanced
<1>5. Memory!TypeOK'
  <2>1. /\ file' \in [at : {"absent", "whole", "torn"}, records : SUBSET Memory!Record, by : SUBSET Memory!Run]
        /\ file'.at # "whole" => file'.records = {}
        /\ remembered' \subseteq Memory!Record
    <3>1. /\ file \in [at : {"absent", "whole", "torn"}, records : SUBSET Memory!Record, by : SUBSET Memory!Run]
          /\ file.at # "whole" => file.records = {}
          /\ remembered \subseteq Memory!Record /\ run[r].held \subseteq Memory!Record
      BY <1>2 DEF MemoryInv, Memory!TypeOK, MemoryRunType
    <3>2. CASE Memory!Fill(r)
      <4>1. \/ file' = [file EXCEPT !.at = "whole", !.records = run[r].held]
                 /\ remembered' = remembered \cup run[r].held
            \/ file' = [file EXCEPT !.at = "torn", !.records = {}] /\ remembered' = remembered
        BY <3>2 DEF Memory!Fill
      <4>2. CASE file' = [file EXCEPT !.at = "whole", !.records = run[r].held]
                   /\ remembered' = remembered \cup run[r].held
        BY <3>1, <4>2, Zenon
      <4>3. CASE file' = [file EXCEPT !.at = "torn", !.records = {}] /\ remembered' = remembered
        BY <3>1, <4>3, Zenon
      <4> QED BY <4>1, <4>2, <4>3
    <3>3. CASE \E x \in Memory!Record : Memory!Truncate(r, x)
      <4>1. /\ file' = [at |-> "torn", records |-> {}, by |-> {r} \cup (IF Memory!Writing = {} THEN {} ELSE file.by)]
            /\ remembered' = remembered
        BY <3>3, Zenon DEF Memory!Truncate
      <4>2. {r} \cup (IF Memory!Writing = {} THEN {} ELSE file.by) \in SUBSET Memory!Run
        BY <3>1
      <4>3. file' \in [at : {"absent", "whole", "torn"}, records : SUBSET Memory!Record, by : SUBSET Memory!Run]
        BY <4>1, <4>2
      <4>4. file'.at = "torn" /\ file'.records = {}
        BY <4>1
      <4> QED BY <3>1, <4>1, <4>3, <4>4
    <3>4. CASE Memory!ReadLog(r) \/ \E x \in Memory!Record : Memory!Duplicate(r, x)
      <4>1. file' = file /\ remembered' = remembered
        BY <3>4 DEF Memory!ReadLog, Memory!Duplicate
      <4> QED BY <3>1, <4>1
    <3> QED BY <3>2, <3>3, <3>4
  <2> QED BY <1>1, <1>3, <2>1 DEF MemoryInv, Memory!TypeOK, MemoryAdvanced, MemoryRunType
<1>6. ASSUME run[r].alone PROVE MemoryUndisturbed(r)'
  <2>1. MemoryUndisturbed(r)
    BY <1>6 DEF MemoryInv, MemoryAlone
  <2>2. Memory!Running' = {r} /\ run'[r].base \subseteq run'[r].held
    BY <1>3, <1>4, <2>1 DEF MemoryUndisturbed, MemoryAdvanced
  <2>3. CASE Memory!ReadLog(r) \/ \E x \in Memory!Record : Memory!Duplicate(r, x)
    <3>1. /\ run[r].at \in {"reading", "storing"} /\ run'[r].at = "storing" /\ run'[r].held = run[r].held
          /\ file' = file
      <4>1. CASE Memory!ReadLog(r)
        BY <1>2, <4>1 DEF Memory!ReadLog, MemoryRunType
      <4>2. ASSUME NEW x \in Memory!Record, Memory!Duplicate(r, x)
            PROVE  /\ run[r].at = "storing" /\ run'[r].at = "storing" /\ run'[r].held = run[r].held
                   /\ file' = file
        BY <1>2, <4>2 DEF Memory!Duplicate, MemoryRunType
      <4> QED BY <2>3, <4>1, <4>2
    <3> QED BY <2>1, <2>2, <3>1 DEF MemoryUndisturbed
  <2>4. CASE \E x \in Memory!Record : Memory!Truncate(r, x)
    <3>1. /\ run[r].at = "storing" /\ run'[r].at = "writing" /\ file'.at = "torn"
          /\ file'.by = {r} \cup (IF Memory!Writing = {} THEN {} ELSE file.by)
      <4> PICK x \in Memory!Record : Memory!Truncate(r, x)
        BY <2>4
      <4>1. run[r].at = "storing" /\ run'[r].at = "writing"
        BY <1>2, Zenon DEF Memory!Truncate, MemoryRunType
      <4>2. file' = [at |-> "torn", records |-> {}, by |-> {r} \cup (IF Memory!Writing = {} THEN {} ELSE file.by)]
        BY Zenon DEF Memory!Truncate
      <4> QED BY <4>1, <4>2
    <3>2. Memory!Writing = {}
      BY <2>1, <3>1 DEF MemoryUndisturbed, Memory!Running, Memory!Writing
    <3> QED BY <2>2, <3>1, <3>2 DEF MemoryUndisturbed
  <2>5. CASE Memory!Fill(r)
    <3>1. /\ run[r].at = "writing" /\ run'[r].at = "storing" /\ run'[r].held = run[r].held
          /\ \/ file' = [file EXCEPT !.at = "whole", !.records = run[r].held] \/ file.by # {r}
      <4>1. run[r].at = "writing" /\ run'[r].at = "storing" /\ run'[r].held = run[r].held
        BY <1>2, <2>5 DEF Memory!Fill, MemoryRunType
      <4>2. file' = [file EXCEPT !.at = "whole", !.records = run[r].held] \/ file.by # {r}
        BY <2>5 DEF Memory!Fill
      <4> QED BY <4>1, <4>2
    <3>2. file' = [file EXCEPT !.at = "whole", !.records = run[r].held]
      BY <2>1, <3>1 DEF MemoryUndisturbed
    <3>3. file'.at = "whole" /\ file'.records = run[r].held
      BY <3>2 DEF MemoryInv, Memory!TypeOK
    <3> QED BY <2>2, <3>1, <3>3 DEF MemoryUndisturbed
  <2> QED BY <2>3, <2>4, <2>5
<1>7. ASSUME NEW s \in Memory!Run, run'[s].alone PROVE MemoryUndisturbed(s)'
  <2>1. CASE s = r
    BY <1>3, <1>6, <1>7, <2>1 DEF MemoryAdvanced
  <2>2. CASE s # r
    <3>1. MemoryUndisturbed(s)
      BY <1>3, <1>7, <2>2 DEF MemoryInv, MemoryAlone, MemoryAdvanced
    <3> QED BY <1>3, <1>4, <2>2, <3>1 DEF MemoryUndisturbed, MemoryAdvanced
  <2> QED BY <2>1, <2>2
<1>8. ASSUME ~lapped
      PROVE /\ \A s \in Memory!Running' : run'[s].alone /\ remembered' \subseteq run'[s].held
            /\ file'.at # "torn" => remembered' \subseteq file'.records
  <2>1. run[r].alone /\ remembered \subseteq run[r].held
    BY <1>4, <1>8 DEF MemoryInv, MemoryAlone
  <2>2. Memory!Running' = {r} /\ MemoryUndisturbed(r)
    BY <1>4, <2>1 DEF MemoryInv, MemoryAlone, MemoryUndisturbed
  <2>3. CASE Memory!Fill(r)
    <3>1. file.by = {r}
      BY <2>2, <2>3 DEF Memory!Fill, MemoryUndisturbed
    <3>2. file' = [file EXCEPT !.at = "whole", !.records = run[r].held]
            /\ remembered' = remembered \cup run[r].held
      BY <2>3, <3>1 DEF Memory!Fill
    <3>3. file'.records = run[r].held
      BY <3>2 DEF MemoryInv, Memory!TypeOK
    <3> QED BY <1>3, <2>1, <2>2, <3>2, <3>3, Zenon DEF MemoryAdvanced
  <2>4. CASE ~Memory!Fill(r)
    <3>1. remembered' = remembered /\ (file' = file \/ file'.at = "torn")
      <4>1. ASSUME NEW x \in Memory!Record, Memory!Truncate(r, x)
            PROVE remembered' = remembered /\ file'.at = "torn"
        <5>1. file' = [at |-> "torn", records |-> {}, by |-> {r} \cup (IF Memory!Writing = {} THEN {} ELSE file.by)]
          BY <4>1, Zenon DEF Memory!Truncate
        <5>2. remembered' = remembered
          BY <4>1, Zenon DEF Memory!Truncate
        <5> QED BY <5>1, <5>2
      <4>2. ASSUME NEW x \in Memory!Record, Memory!Duplicate(r, x)
            PROVE remembered' = remembered /\ file' = file
        BY <4>2 DEF Memory!Duplicate
      <4>3. CASE Memory!ReadLog(r)
        BY <4>3 DEF Memory!ReadLog
      <4> QED BY <2>4, <4>1, <4>2, <4>3
    <3>2. file.at # "torn" => remembered \subseteq file.records
      BY <1>8 DEF MemoryInv, MemoryAlone
    <3> QED BY <1>3, <2>1, <2>2, <3>1, <3>2, Zenon DEF MemoryAdvanced
  <2> QED BY <2>3, <2>4
<1>9. MemoryAlone' /\ MemoryPaid'
  BY <1>1, <1>7, <1>8 DEF MemoryInv, MemoryAlone, MemoryPaid
<1> QED BY <1>5, <1>9 DEF MemoryInv

\* A run that ends, or is killed, disturbs no other.
LEMMA MemoryEndStep ==
  ASSUME Memory!NamesAssumption, MemoryInv, NEW r \in Memory!Run, Memory!Finish(r) \/ Memory!Kill(r)
  PROVE  MemoryInv'
<1>1. /\ run' = [run EXCEPT ![r] = Memory!Ended] /\ UNCHANGED <<log, remembered, lapped, returned>>
      /\ crashes' \in {crashes, crashes + 1} /\ crashes' \in 0 .. MaxCrashes /\ crashes \in Nat
  <2>1. crashes \in 0 .. MaxCrashes /\ MaxCrashes \in Nat
    BY DEF MemoryInv, Memory!TypeOK, Memory!NamesAssumption
  <2> QED BY <2>1 DEF Memory!Finish, Memory!Kill
<1>2. file' = file \/ file' = [file EXCEPT !.at = "torn", !.records = {}]
  BY DEF Memory!Finish, Memory!Kill
<1>3. run \in [Memory!Run -> MemoryRunType] /\ Memory!Ended \in MemoryRunType
  BY DEF MemoryInv, Memory!TypeOK, MemoryRunType, Memory!Ended
<1>4. run' \in [Memory!Run -> MemoryRunType] /\ run'[r] = Memory!Ended
        /\ \A s \in Memory!Run : s # r => run'[s] = run[s]
  BY <1>1, <1>3
<1>5. Memory!Running' = Memory!Running \ {r} /\ r \in Memory!Running
  <2>1. run[r].at # "ended"
    BY DEF Memory!Finish, Memory!Kill, Memory!Running
  <2>2. run'[r].at = "ended"
    BY <1>4 DEF Memory!Ended
  <2> QED BY <1>4, <2>1, <2>2 DEF Memory!Running
<1>6. Memory!TypeOK'
  <2>1. /\ file \in [at : {"absent", "whole", "torn"}, records : SUBSET Memory!Record, by : SUBSET Memory!Run]
        /\ file.at # "whole" => file.records = {}
    BY DEF MemoryInv, Memory!TypeOK
  <2>2. /\ file' \in [at : {"absent", "whole", "torn"}, records : SUBSET Memory!Record, by : SUBSET Memory!Run]
        /\ file'.at # "whole" => file'.records = {}
    BY <1>2, <2>1, Zenon
  <2> QED BY <1>1, <1>4, <2>2 DEF MemoryInv, Memory!TypeOK, MemoryRunType
<1>7. MemoryAlone'
  <2>1. ASSUME NEW s \in Memory!Run, run'[s].alone PROVE FALSE
    <3>1. s # r
      BY <1>4, <2>1 DEF Memory!Ended
    <3>2. MemoryUndisturbed(s)
      BY <1>4, <2>1, <3>1 DEF MemoryInv, MemoryAlone
    <3> QED BY <1>5, <3>1, <3>2 DEF MemoryUndisturbed
  <2>2. ASSUME ~lapped
        PROVE Memory!Running' = {} /\ (file'.at # "torn" => remembered \subseteq file'.records)
    <3>1. run[r].alone /\ (file.at # "torn" => remembered \subseteq file.records)
      BY <1>5, <2>2 DEF MemoryInv, MemoryAlone
    <3>2. Memory!Running = {r}
      BY <3>1 DEF MemoryInv, MemoryAlone, MemoryUndisturbed
    <3>3. file' = file \/ file'.at = "torn"
      BY <1>2, Zenon DEF MemoryInv, Memory!TypeOK
    <3> QED BY <1>5, <3>1, <3>2, <3>3
  <2> QED BY <1>1, <2>1, <2>2 DEF MemoryAlone
<1>8. MemoryPaid'
  <2>1. /\ Cardinality(returned \ log.readable)' = Cardinality(returned \ log.readable)
        /\ Cardinality(returned \ log.readable) \in Nat /\ log' = log
    BY <1>1, MemoryLost DEF MemoryInv
  <2>2. (IF log.cut THEN 1 ELSE 0) \in {0, 1}
    OBVIOUS
  <2> QED BY <1>1, <2>1, <2>2 DEF MemoryInv, MemoryPaid
<1> QED BY <1>6, <1>7, <1>8 DEF MemoryInv

\* Every step keeps the invariant.
LEMMA MemoryStepHolds ==
  ASSUME Memory!NamesAssumption, MemoryInv, [Memory!Next]_(Memory!vars)
  PROVE  MemoryInv'
<1>1. CASE (\E l \in LogLine : Memory!Append(l)) \/ Memory!Flush \/ Memory!CutLine
  BY <1>1, MemoryLogStep
<1>2. ASSUME NEW r \in Memory!Run, Memory!Reload(r) PROVE MemoryInv'
  BY <1>2, MemoryReloadStep
<1>3. ASSUME NEW r \in Memory!Run,
             Memory!ReadLog(r)
               \/ (\E x \in Memory!Record : Memory!Duplicate(r, x) \/ Memory!Truncate(r, x)) \/ Memory!Fill(r)
      PROVE  MemoryInv'
  BY <1>3, MemoryRunStep
<1>4. ASSUME NEW r \in Memory!Run, Memory!Finish(r) \/ Memory!Kill(r) PROVE MemoryInv'
  BY <1>4, MemoryEndStep
<1>5. CASE UNCHANGED Memory!vars
  BY <1>5 DEF Memory!vars, MemoryInv, Memory!TypeOK, MemoryAlone, MemoryPaid, MemoryUndisturbed,
     Memory!Running
<1> QED BY <1>1, <1>2, <1>3, <1>4, <1>5 DEF Memory!Next

\* Kept is what the file and the log are to keep.
LEMMA MemoryKeeps == ASSUME Memory!NamesAssumption, MemoryInv PROVE Memory!MemoryIsKept
<1>1. Memory!NothingForgotten
  BY DEF MemoryInv, MemoryAlone, Memory!NothingForgotten
<1>2. Memory!CutsAreBounded
  <2>1. Cardinality(returned \ log.readable) \in Nat /\ (IF log.cut THEN 1 ELSE 0) \in {0, 1}
    BY MemoryLost DEF MemoryInv
  <2>2. crashes \in Nat
    BY DEF MemoryInv, Memory!TypeOK
  <2> QED BY <2>1, <2>2, MemoryCounts DEF MemoryInv, MemoryPaid, Memory!CutsAreBounded
<1> QED BY <1>1, <1>2 DEF MemoryInv, Memory!MemoryIsKept

\* A run that had the memory to itself leaves in it what it found and what it
\* read.
LEMMA MemoryCatchesUp == ASSUME MemoryInv PROVE Memory!CatchesUp
<1> SUFFICES ASSUME NEW r \in Memory!Run, Memory!Finish(r), run[r].alone
             PROVE  run[r].base \cup run[r].held \subseteq file'.records
  BY DEF Memory!CatchesUp
<1>1. file' = file /\ run[r].at = "storing"
  BY DEF Memory!Finish
<1>2. MemoryUndisturbed(r)
  BY DEF MemoryInv, MemoryAlone
<1> QED BY <1>1, <1>2 DEF MemoryUndisturbed

\* A step while the memory is driven is one of its own.
LEMMA MemoryMoves ==
  ASSUME Is("memory"), [Next]_vars PROVE [Memory!Next]_(Memory!vars) /\ Is("memory")'
<1>1. driven' = driven
  BY DEF Next, vars
<1>2. CASE Next
  BY <1>1, <1>2 DEF Next, Is
<1>3. CASE UNCHANGED vars
  BY <1>1, <1>3 DEF vars, MemoryVars, Memory!vars, Is
<1> QED BY <1>2, <1>3

\* The invariant holds for as long as the memory is driven.
LEMMA MemoryHolds == Spec => [](Is("memory") => MemoryInv)
<1>1. Init => (Is("memory") => MemoryInv)
  BY FrameworksAssumption, MemoryInitHolds DEF Init
<1>2. (Is("memory") => MemoryInv) /\ [Next]_vars => (Is("memory") => MemoryInv)'
  <2> SUFFICES ASSUME Is("memory") => MemoryInv, [Next]_vars, Is("memory")' PROVE MemoryInv'
    OBVIOUS
  <2>1. Is("memory")
    BY DEF Is, Next, vars
  <2>2. [Memory!Next]_(Memory!vars)
    BY <2>1, MemoryMoves
  <2> QED BY <2>1, <2>2, FrameworksAssumption, MemoryStepHolds
<1> QED BY <1>1, <1>2, PTL DEF Spec

-----------------------------------------------------------------------------
(* The controller's loop: however often sessions are resumed and whatever
   the engines say or raise *)

ControllerEntries == {"iteration"} \cup Controller!Decisions

\* A history of whole iterations, with its retries counted.
ControllerStory(s, iterations) ==
  /\ Len(s.history) = 2 * iterations
  /\ s.retries = Controller!Retried(s)
  /\ s.iteration <= s.limit
  /\ \A i \in 1 .. Len(s.history) : s.history[i] = "iteration" <=> i % 2 = 1

ControllerWorking == {"executing", "verifying", "evaluating", "deciding"}

\* What the call began with and what the last one gave back are whole; the
\* iteration in progress is counted and not yet recorded.
ControllerStories ==
  /\ ControllerStory(initial, initial.iteration)
  /\ ControllerStory(result.session, result.session.iteration)
  /\ at = "looping" => ControllerStory(session, session.iteration)
  /\ at \in ControllerWorking => session.iteration >= 1 /\ ControllerStory(session, session.iteration - 1)
  /\ at # "idle" => retry = session.retries

ControllerInv ==
  /\ Controller!TypeOK
  /\ ControllerStories
  /\ Controller!CompletedIsEarned
  /\ Controller!RetriesAreBounded

\* A configuration given, missing or defaulted has the limits of one.
LEMMA ControllerConfigType ==
  ASSUME Controller!ConfigAssumption, Controller!TypeOK
  PROVE  /\ Controller!Config.retries \in Nat
         /\ \A c \in Configs \cup {NoConfig} :
              /\ Controller!Default(c, DefaultConfig) \in Configs
              /\ Controller!Default(c, DefaultConfig).iterations \in Nat
BY DEF Controller!ConfigAssumption, Controller!TypeOK, Controller!Config, Controller!Default

\* Counting is the same in every module.
LEMMA ControllerCounts == (\A S : Controller!IsFiniteSet(S) <=> IsFiniteSet(S)) /\ (\A S : Controller!Cardinality(S) = Cardinality(S))
BY DEF Controller!IsFiniteSet, Controller!Cardinality, IsFiniteSet, Cardinality

\* A session that has just begun tells its story: there is none yet.
LEMMA ControllerFreshIsWhole ==
  ASSUME NEW config, config.iterations \in Nat
  PROVE  Controller!Fresh(config) \in Controller!Session
           /\ ControllerStory(Controller!Fresh(config), Controller!Fresh(config).iteration)
<1>1. Controller!Fresh(config) \in Controller!Session
  BY DEF Controller!Fresh, Controller!Session, Controller!Statuses
<1>2. {i \in 1 .. Len(Controller!Fresh(config).history) : Controller!Fresh(config).history[i] = "RETRY"} = {}
  BY DEF Controller!Fresh
<1>3. Controller!Retried(Controller!Fresh(config)) = 0
  BY <1>2, FS_EmptySet, ControllerCounts, Zenon DEF Controller!Retried
<1> QED BY <1>1, <1>3 DEF Controller!Fresh, ControllerStory

\* Verdicts fall on even steps and what is verified on odd ones.
LEMMA ControllerParity == ASSUME NEW n \in Nat PROVE (2 * n + 1) % 2 = 1 /\ (2 * n + 2) % 2 = 0
OBVIOUS

\* An iteration and its decision make the history longer by two, and count one
\* retry if it was one.
LEMMA ControllerRecordedIsWhole ==
  ASSUME NEW s \in Controller!Session, NEW t \in Controller!Session, NEW d \in Controller!Decisions,
         NEW n \in Nat, ControllerStory(s, n),
         t.history = s.history \o <<"iteration", d>>, t.iteration = s.iteration, t.limit = s.limit,
         t.retries = IF d = "RETRY" THEN s.retries + 1 ELSE s.retries
  PROVE  ControllerStory(t, n + 1) /\ Controller!Retried(t) = t.retries
<1> DEFINE h == s.history
           g == t.history
           R == {i \in 1 .. Len(h) : h[i] = "RETRY"}
           Q == {i \in 1 .. Len(g) : g[i] = "RETRY"}
<1>1. h \in Seq(ControllerEntries) /\ Len(h) \in Nat /\ g \in Seq(ControllerEntries)
  BY DEF Controller!Session, ControllerEntries
<1>2. /\ Len(g) = Len(h) + 2
      /\ \A i \in 1 .. Len(h) : g[i] = h[i]
      /\ g[Len(h) + 1] = "iteration" /\ g[Len(h) + 2] = d
  BY <1>1
<1>3. IsFiniteSet(R) /\ Cardinality(R) = s.retries
  <2>1. IsFiniteSet(1 .. Len(h))
    BY SMTT(30), <1>1, FS_Interval
  <2>2. IsFiniteSet(R)
    BY <2>1, FS_Subset
  <2> QED BY <2>2, ControllerCounts DEF ControllerStory, Controller!Retried
<1>4. Q = IF d = "RETRY" THEN R \cup {Len(h) + 2} ELSE R
  <2> HIDE DEF h, g
  <2>1. \A i \in 1 .. Len(g) : i \in 1 .. Len(h) \/ i = Len(h) + 1 \/ i = Len(h) + 2
    BY <1>1, <1>2
  <2>2. Len(h) + 2 \in 1 .. Len(g) /\ \A i \in 1 .. Len(h) : i \in 1 .. Len(g)
    BY <1>1, <1>2
  <2> QED BY <1>2, <2>1, <2>2
<1>5. Cardinality(Q) = t.retries
  <2>1. CASE d = "RETRY"
    <3>1. Len(h) + 2 \notin R
      BY <1>1
    <3>2. Cardinality(R \cup {Len(h) + 2}) = Cardinality(R) + 1
      BY <1>3, <3>1, FS_AddElement, Zenon
    <3> QED BY <1>3, <1>4, <2>1, <3>2, Zenon
  <2>2. CASE d # "RETRY"
    BY <1>3, <1>4, <2>2, Zenon
  <2> QED BY <2>1, <2>2, Zenon
<1>6. \A i \in 1 .. Len(g) : g[i] = "iteration" <=> i % 2 = 1
  <2>1. /\ Len(h) = 2 * n /\ \A i \in 1 .. Len(h) : h[i] = "iteration" <=> i % 2 = 1
        /\ (Len(h) + 1) % 2 = 1 /\ (Len(h) + 2) % 2 = 0
    BY ControllerParity DEF ControllerStory
  <2>2. d # "iteration"
    BY DEF Controller!Decisions
  <2> HIDE DEF h, g
  <2> TAKE i \in 1 .. Len(g)
  <2>3. i \in 1 .. Len(h) \/ i = Len(h) + 1 \/ i = Len(h) + 2
    BY <1>1, <1>2
  <2>4. CASE i \in 1 .. Len(h)
    BY <1>2, <2>1, <2>4
  <2>5. CASE i = Len(h) + 1
    BY <1>2, <2>1, <2>5
  <2>6. CASE i = Len(h) + 2
    BY <1>2, <2>1, <2>2, <2>6
  <2> QED BY <2>3, <2>4, <2>5, <2>6
<1>7. Len(g) = 2 * (n + 1)
  BY <1>2 DEF ControllerStory
<1>8. Controller!Retried(t) = t.retries
  BY <1>5, ControllerCounts, Zenon DEF Controller!Retried
<1> QED BY <1>6, <1>7, <1>8, Zenon DEF ControllerStory

\* A session that differs in its status or its count of iterations only.
LEMMA ControllerSameStory ==
  ASSUME NEW s, NEW t, NEW n, ControllerStory(s, n), t.history = s.history, t.retries = s.retries,
         t.iteration <= t.limit
  PROVE  ControllerStory(t, n) /\ Controller!Retried(t) = Controller!Retried(s)
BY Zenon DEF ControllerStory, Controller!Retried

\* The invariant holds at the start.
LEMMA ControllerInitHolds == ASSUME Controller!ConfigAssumption, Controller!Init PROVE ControllerInv
<1>1. DefaultConfig.iterations \in Nat
  BY DEF Controller!ConfigAssumption
<1>2. initial \in Controller!Session /\ ControllerStory(initial, initial.iteration)
  BY <1>1, ControllerFreshIsWhole DEF Controller!Init
<1>3. Controller!TypeOK
  <2>1. Controller!NoReports \in Controller!Reports
    BY DEF Controller!NoReports, Controller!Reports
  <2>2. result \in [decision : Controller!Decisions, status : Controller!Statuses, session : Controller!Session]
    BY <1>2 DEF Controller!Init, Controller!Result, Controller!Decisions, Controller!Statuses
  <2>3. calls \in 0 .. MaxCalls
    BY DEF Controller!Init, Controller!ConfigAssumption
  <2>4. session \in Controller!Session /\ initial \in Controller!Session
    BY <1>2 DEF Controller!Init
  <2> QED BY <2>1, <2>2, <2>3, <2>4 DEF Controller!Init, Controller!TypeOK
<1>4. ControllerStories
  BY <1>2 DEF Controller!Init, ControllerStories, Controller!Result, ControllerWorking
<1>5. Controller!CompletedIsEarned /\ Controller!RetriesAreBounded
  BY DEF Controller!Init, Controller!CompletedIsEarned, Controller!RetriesAreBounded, Controller!Result
<1> QED BY <1>3, <1>4, <1>5 DEF ControllerInv

\* A call begins with a whole session.
LEMMA ControllerBeginStep ==
  ASSUME Controller!ConfigAssumption, ControllerInv, NEW c \in Configs \cup {NoConfig},
         NEW s \in Controller!Session, ControllerStory(s, s.iteration),
         Controller!Begin(c, s)
  PROVE  ControllerInv'
<1>1. Controller!TypeOK'
  <2>1. Controller!NoReports \in Controller!Reports
    BY DEF Controller!NoReports, Controller!Reports
  <2>2. s.retries \in Nat
    BY DEF Controller!Session
  <2>3. calls' \in 0 .. MaxCalls
    BY DEF ControllerInv, Controller!TypeOK, Controller!Begin, Controller!ConfigAssumption
  <2> QED BY <2>1, <2>2, <2>3 DEF ControllerInv, Controller!TypeOK, Controller!Begin
<1>2. ControllerStories'
  BY Zenon DEF ControllerInv, ControllerStories, Controller!Begin, ControllerWorking, ControllerStory,
     Controller!Retried
<1>3. Controller!CompletedIsEarned' /\ Controller!RetriesAreBounded'
  <2>1. Controller!Retried(session)' = Controller!Retried(s)
          /\ Controller!Retried(initial)' = Controller!Retried(s)
    BY DEF Controller!Begin, Controller!Retried
  <2>2. s.retries = Controller!Retried(s) /\ s.retries \in Nat
    BY DEF ControllerStory, Controller!Session
  <2> QED BY <2>1, <2>2 DEF Controller!Begin, Controller!CompletedIsEarned, Controller!RetriesAreBounded
<1> QED BY <1>1, <1>2, <1>3 DEF ControllerInv

\* A verdict gives back a whole session: the one of the loop, or with a memory
\* the one of the beginning.
LEMMA ControllerVerdictStep ==
  ASSUME Controller!ConfigAssumption, ControllerInv, NEW d \in Controller!Decisions,
         NEW v \in Controller!Statuses, NEW s \in Controller!Session,
         ControllerStory(s, s.iteration), Controller!Verdict(d, v, s),
         UNCHANGED <<memory, request, initial, reports, calls>>, retry' \in Nat,
         d = "COMPLETE" => /\ reports.execution = "ok" /\ reports.verification = "passed"
                           /\ reports.evaluation \in {"complete", "none"}
  PROVE  ControllerInv'
<1>1. session' = [s EXCEPT !.status = v] /\ session' \in Controller!Session
  BY DEF Controller!Verdict, Controller!Session
<1>2. ControllerStory(session', session'.iteration)
  <2>1. /\ session'.history = s.history /\ session'.retries = s.retries
        /\ session'.iteration = s.iteration /\ session'.limit = s.limit
    BY <1>1 DEF Controller!Session
  <2>2. s.iteration <= s.limit
    BY DEF ControllerStory
  <2>3. session'.iteration <= session'.limit
    BY <2>1, <2>2
  <2>4. ControllerStory(session', s.iteration)
    BY <2>1, <2>3, ControllerSameStory
  <2> QED BY <2>1, <2>4
<1>3. /\ at' = "idle" /\ stored' = stored
      /\ result' = IF memory THEN Controller!Result("FAIL", "FAILED", initial) ELSE Controller!Result(d, v, session')
  BY DEF Controller!Verdict, Controller!StoreAndReturn, Controller!Return
<1>4. Controller!TypeOK'
  BY <1>1, <1>3 DEF ControllerInv, Controller!TypeOK, Controller!Result, Controller!Decisions,
     Controller!Statuses
<1>5. result'.session = initial \/ result'.session = session'
  BY <1>3 DEF Controller!Result
<1>6. ControllerStories'
  <2>1. ControllerStory(initial, initial.iteration)
    BY DEF ControllerInv, ControllerStories
  <2>2. ControllerStory(initial', initial'.iteration)
    BY <2>1
  <2>3. ControllerStory(result'.session, result'.session.iteration)
    BY <1>2, <1>5, <2>1
  <2> QED
    BY <1>3, <2>2, <2>3 DEF ControllerStories, ControllerWorking, ControllerStory, Controller!Retried
<1>7. Controller!CompletedIsEarned' /\ Controller!RetriesAreBounded'
  BY <1>3 DEF Controller!CompletedIsEarned, Controller!RetriesAreBounded, Controller!Result
<1> QED BY <1>4, <1>6, <1>7 DEF ControllerInv

\* Choosing a workflow keeps it, and so does failing to.
LEMMA ControllerSelectStep ==
  ASSUME Controller!ConfigAssumption, ControllerInv, Controller!SelectWorkflow
  PROVE  ControllerInv'
<1>1. /\ at = "looping" /\ at' = "executing" /\ session.iteration < session.limit
      /\ session' = [session EXCEPT !.iteration = @ + 1]
      /\ UNCHANGED <<memory, request, initial, retry, reports, result, stored, calls>>
  BY DEF Controller!SelectWorkflow
<1>2. session \in Controller!Session /\ ControllerStory(session, session.iteration) /\ retry = session.retries
  BY <1>1 DEF ControllerInv, Controller!TypeOK, ControllerStories
<1>3. /\ session' \in Controller!Session /\ session'.iteration = session.iteration + 1
      /\ session'.history = session.history /\ session'.retries = session.retries
      /\ session'.iteration <= session'.limit /\ session.iteration \in Nat
  BY <1>1, <1>2 DEF Controller!Session
<1>4. ControllerStory(session', session'.iteration - 1)
        /\ Controller!Retried(session') = Controller!Retried(session)
  <2>1. session'.iteration - 1 = session.iteration
    BY <1>3
  <2> QED BY <1>2, <1>3, <2>1, ControllerSameStory
<1>5. Controller!TypeOK'
  BY <1>1, <1>3 DEF ControllerInv, Controller!TypeOK
<1>6. ControllerStories'
  <2>1. ControllerStory(initial', initial'.iteration)
          /\ ControllerStory(result'.session, result'.session.iteration)
    BY <1>1 DEF ControllerInv, ControllerStories
  <2>2. session'.iteration >= 1 /\ retry' = session'.retries
    BY <1>1, <1>2, <1>3
  <2> QED
    BY <1>1, <1>4, <2>1, <2>2 DEF ControllerStories, ControllerWorking, ControllerStory,
       Controller!Retried
<1>7. Controller!CompletedIsEarned' /\ Controller!RetriesAreBounded'
  BY <1>1, <1>4 DEF ControllerInv, Controller!CompletedIsEarned, Controller!RetriesAreBounded,
     Controller!Retried, Controller!Config, Controller!Default
<1> QED BY <1>5, <1>6, <1>7 DEF ControllerInv

\* The engines report, one after the other.
LEMMA ControllerReportStep ==
  ASSUME ControllerInv, Controller!ExecuteWorkflow \/ Controller!Verify \/ Controller!Evaluate
  PROVE ControllerInv'
<1>1. /\ at \in ControllerWorking /\ at' \in ControllerWorking /\ reports' \in Controller!Reports
      /\ UNCHANGED <<memory, request, initial, retry, session, result, stored, calls>>
  <2>1. reports \in Controller!Reports
    BY DEF ControllerInv, Controller!TypeOK
  <2> QED
    BY <2>1 DEF Controller!ExecuteWorkflow, Controller!Verify, Controller!Evaluate, Controller!Reports1,
       ControllerWorking, Controller!Reports, Controller!Bands
<1> QED
  BY ZenonT(30), <1>1 DEF ControllerInv, Controller!TypeOK, ControllerStories, ControllerWorking, ControllerStory,
     Controller!Retried, Controller!CompletedIsEarned, Controller!RetriesAreBounded,
                    Controller!Config, Controller!Default

\* Deciding what follows a verdict keeps it: completing, giving up, retrying
\* and resuming.
LEMMA ControllerDecideStep ==
  ASSUME Controller!ConfigAssumption, ControllerInv, Controller!Decide
  PROVE  ControllerInv'
<1> DEFINE d == Controller!Decision(reports, retry)
           s == Controller!Recorded(d)
           n == session.iteration - 1
<1>1. /\ at = "deciding" /\ session \in Controller!Session /\ session.iteration \in Nat
           /\ session.iteration >= 1
      /\ ControllerStory(session, n) /\ retry = session.retries /\ retry \in Nat
      /\ UNCHANGED <<memory, request, initial, reports, calls>>
  BY DEF Controller!Decide, ControllerInv, Controller!TypeOK, ControllerStories, ControllerWorking,
     Controller!Session
<1>2. n \in Nat /\ n + 1 = session.iteration
  BY <1>1
<1>3. /\ d \in Controller!Decisions
      /\ d = "COMPLETE" => /\ reports.execution = "ok" /\ reports.verification = "passed"
                           /\ reports.evaluation \in {"complete", "none"}
  BY DEF ControllerInv, Controller!TypeOK, Controller!Decision, Controller!Decisions,
     Controller!Reports, Controller!Bands
<1> HIDE DEF d, n
<1>4. /\ s \in Controller!Session /\ s.history = session.history \o <<"iteration", d>>
      /\ s.iteration = session.iteration /\ s.limit = session.limit /\ s.retries = session.retries
      /\ s.status = session.status
  <2>1. session.history \o <<"iteration", d>> \in Seq({"iteration"} \cup Controller!Decisions)
    BY <1>1, <1>3 DEF Controller!Session, Controller!Decisions
  <2> QED BY <1>1, <2>1, Zenon DEF Controller!Recorded, Controller!Session
<1>5. CASE d = "RETRY" /\ Controller!ShouldRetry(d, retry) /\ retry' = retry + 1
           /\ session' = [Controller!Recorded("RETRY") EXCEPT !.retries = retry + 1]
           /\ at' = "looping" /\ UNCHANGED <<result, stored>>
  <2>1. /\ session' \in Controller!Session /\ session'.history = session.history \o <<"iteration", d>>
        /\ session'.iteration = session.iteration /\ session'.limit = session.limit
        /\ session'.retries = session.retries + 1
    <3>1. session' = [s EXCEPT !.retries = session.retries + 1]
      BY <1>1, <1>5
    <3>2. session.retries + 1 \in Nat
      BY <1>1
    <3> HIDE DEF s
    <3> QED BY <1>4, <3>1, <3>2, Zenon DEF Controller!Session
  <2>2. ControllerStory(session', n + 1) /\ Controller!Retried(session') = session'.retries
    <3>1. session'.retries = IF d = "RETRY" THEN session.retries + 1 ELSE session.retries
      BY <1>5, <2>1
    <3> QED BY <1>1, <1>2, <1>3, <2>1, <3>1, ControllerRecordedIsWhole, Zenon
  <2>3. Controller!TypeOK'
    BY <1>1, <1>5, <2>1 DEF ControllerInv, Controller!TypeOK
  <2>4. ControllerStories'
    BY <1>1, <1>2, <1>5, <2>1, <2>2, Zenon DEF ControllerInv, ControllerStories, ControllerWorking,
       ControllerStory, Controller!Retried
  <2>5. Controller!Retried(session') <= Controller!Config.retries
    <3>1. retry < Controller!Config.retries
      BY <1>5 DEF Controller!ShouldRetry
    <3> QED BY <1>1, <2>1, <2>2, <3>1, ControllerConfigType DEF ControllerInv
  <2>6. Controller!CompletedIsEarned' /\ Controller!RetriesAreBounded'
    BY <1>1, <1>5, <2>5 DEF Controller!CompletedIsEarned, Controller!RetriesAreBounded,
       Controller!Config, Controller!Default, Controller!Retried
  <2> QED BY <2>3, <2>4, <2>6 DEF ControllerInv
<1>6. ASSUME d # "RETRY", NEW v \in Controller!Statuses, Controller!Verdict(d, v, s), UNCHANGED retry
      PROVE ControllerInv'
  <2>1. ControllerStory(s, s.iteration)
    BY <1>1, <1>2, <1>3, <1>4, <1>6, ControllerRecordedIsWhole, Zenon
  <2> QED BY <1>1, <1>3, <1>4, <1>6, <2>1, ControllerVerdictStep
<1>7. \/ /\ d = "RETRY" /\ Controller!ShouldRetry(d, retry) /\ retry' = retry + 1
         /\ session' = [Controller!Recorded("RETRY") EXCEPT !.retries = retry + 1]
         /\ at' = "looping" /\ UNCHANGED <<result, stored>>
      \/ d # "RETRY" /\ UNCHANGED retry /\ \E v \in Controller!Statuses : Controller!Verdict(d, v, s)
  BY DEF Controller!Decide, Controller!ShouldRetry, d, Controller!Statuses
<1> QED BY <1>5, <1>6, <1>7

\* Every step keeps the invariant.
LEMMA ControllerStepHolds ==
  ASSUME Controller!ConfigAssumption, ControllerInv, [Controller!Next]_(Controller!vars)
  PROVE  ControllerInv'
<1>1. CASE Controller!Execute
  BY <1>1, ControllerConfigType, ControllerFreshIsWhole, ControllerBeginStep DEF Controller!Execute,
     ControllerInv
<1>2. CASE Controller!Resume
  <2>1. result.session \in Controller!Session /\ ControllerStory(result.session, result.session.iteration)
    BY DEF ControllerInv, Controller!TypeOK, ControllerStories
  <2> QED BY <1>2, <2>1, ControllerBeginStep DEF Controller!Resume
<1>3. CASE Controller!SelectWorkflow
  BY <1>3, ControllerSelectStep
<1>4. CASE Controller!MaxIterations
  <2>1. session \in Controller!Session /\ ControllerStory(session, session.iteration) /\ retry \in Nat
    BY <1>4 DEF Controller!MaxIterations, ControllerInv, Controller!TypeOK, ControllerStories
  <2> QED
    BY <1>4, <2>1, ControllerVerdictStep DEF Controller!MaxIterations, Controller!Decisions,
       Controller!Statuses
<1>5. CASE Controller!ExecuteWorkflow \/ Controller!Verify \/ Controller!Evaluate
  BY <1>5, ControllerReportStep
<1>6. CASE Controller!Decide
  BY <1>6, ControllerDecideStep
<1>7. CASE Controller!EngineRaises
  <2>1. /\ at' = "idle" /\ result' = Controller!Result("FAIL", "FAILED", initial)
        /\ UNCHANGED <<memory, request, initial, session, retry, reports, stored, calls>>
    BY <1>7 DEF Controller!EngineRaises, Controller!Return
  <2> QED
    BY ZenonT(30), <2>1 DEF ControllerInv, Controller!TypeOK, Controller!Result, Controller!Decisions,
       Controller!Statuses, ControllerStories, ControllerWorking, ControllerStory, Controller!Retried,
                      Controller!CompletedIsEarned, Controller!RetriesAreBounded
<1>8. CASE UNCHANGED Controller!vars
  BY ZenonT(30), <1>8 DEF Controller!vars, ControllerInv, Controller!TypeOK, ControllerStories, ControllerWorking,
     ControllerStory, Controller!Retried, Controller!CompletedIsEarned, Controller!RetriesAreBounded,
              Controller!Config, Controller!Default
<1> QED BY <1>1, <1>2, <1>3, <1>4, <1>5, <1>6, <1>7, <1>8 DEF Controller!Next, Controller!Loop

\* What the loop promises follows.
LEMMA ControllerEarns == ASSUME ControllerInv PROVE Controller!VerdictsAreEarned
BY DEF ControllerInv, Controller!VerdictsAreEarned, ControllerStories, ControllerStory,
   Controller!SessionTellsItsStory

\* A step while the controller is driven is one of its own.
LEMMA ControllerMoves ==
  ASSUME Is("controller"), [Next]_vars PROVE [Controller!Next]_(Controller!vars) /\ Is("controller")'
<1>1. driven' = driven
  BY DEF Next, vars
<1>2. CASE Next
  BY <1>1, <1>2 DEF Next, Is
<1>3. CASE UNCHANGED vars
  BY <1>1, <1>3 DEF vars, ControllerVars, Controller!vars, Is
<1> QED BY <1>2, <1>3

\* The invariant holds for as long as the controller is driven.
LEMMA ControllerHolds == Spec => [](Is("controller") => ControllerInv)
<1>1. Init => (Is("controller") => ControllerInv)
  BY FrameworksAssumption, ControllerInitHolds DEF Init
<1>2. (Is("controller") => ControllerInv) /\ [Next]_vars => (Is("controller") => ControllerInv)'
  <2> SUFFICES ASSUME Is("controller") => ControllerInv, [Next]_vars, Is("controller")' PROVE ControllerInv'
    OBVIOUS
  <2>1. Is("controller")
    BY DEF Is, Next, vars
  <2>2. [Controller!Next]_(Controller!vars)
    BY <2>1, ControllerMoves
  <2> QED BY <2>1, <2>2, FrameworksAssumption, ControllerStepHolds
<1> QED BY <1>1, <1>2, PTL DEF Spec

-----------------------------------------------------------------------------
(* The modification engine: whatever the workspace, the patch sets and the
   clock *)

-----------------------------------------------------------------------------
(* What a patch set makes of a workspace *)

\* A nonempty set of naturals has a least one.
LEMMA LeastNatural ==
  ASSUME NEW M \in SUBSET Nat, M # {}
  PROVE  \E n \in M : \A m \in M : n <= m
<1> DEFINE R == {p \in Nat \X Nat : p[1] < p[2]}
<1>1. IsWellFoundedOn(R, Nat)
  <2>1. R = OpToRel(<, Nat)
    BY DEF OpToRel
  <2> QED BY <2>1, NatLessThanWellFounded, Zenon
<1>2. PICK n \in M : \A m \in M : ~(<<m, n>> \in R)
  <2> HIDE DEF R
  <2> QED BY <1>1, WFMin, Zenon
<1>3. ASSUME NEW m \in M PROVE n <= m
  <2>1. ~(m < n)
    BY <1>2, Zenon
  <2> QED BY <2>1
<1> QED BY <1>3

\* A set of naturals with 0 and every successor is all of them.
LEMMA SetInduction ==
  ASSUME NEW N \in SUBSET Nat, 0 \in N, \A n \in N : n + 1 \in N
  PROVE  N = Nat
<1> DEFINE M == Nat \ N
<1> SUFFICES ASSUME M # {} PROVE FALSE
  BY Zenon
<1>1. PICK n \in M : \A m \in M : n <= m
  <2>1. M \in SUBSET Nat
    OBVIOUS
  <2> HIDE DEF M
  <2> QED BY <2>1, LeastNatural
<1>2. n # 0 /\ n - 1 \in Nat
  OBVIOUS
<1>3. n - 1 \in N
  <2>1. ~(n <= n - 1)
    BY <1>2
  <2> QED BY <1>1, <1>2, <2>1
<1>4. (n - 1) + 1 \in N
  BY <1>3
<1> QED BY <1>4

ModificationIsAfter(f, m, patches, begun) ==
  f = [k \in 0 .. m |-> IF k = 0 THEN begun ELSE Modification!Effect(patches[k], f[k - 1])]

\* There is such a function for every number of patches.
LEMMA ModificationAfterExists ==
  ASSUME NEW patches, NEW begun, NEW m \in Nat
  PROVE  \E f : ModificationIsAfter(f, m, patches, begun)
<1> DEFINE N == {n \in Nat : \E f : ModificationIsAfter(f, n, patches, begun)}
<1>1. 0 \in N
  <2> DEFINE f == [k \in 0 .. 0 |-> begun]
  <2>1. f = [k \in 0 .. 0 |-> IF k = 0 THEN begun ELSE Modification!Effect(patches[k], f[k - 1])]
    <3>1. \A k \in 0 .. 0 : k = 0
      OBVIOUS
    <3> QED BY <3>1, Zenon
  <2> HIDE DEF f
  <2> QED BY <2>1 DEF ModificationIsAfter
<1>2. ASSUME NEW n \in N PROVE n + 1 \in N
  <2>1. PICK f : ModificationIsAfter(f, n, patches, begun)
    OBVIOUS
  <2> DEFINE g == [k \in 0 .. n + 1 |-> IF k = n + 1 THEN Modification!Effect(patches[k], f[n]) ELSE f[k]]
  <2>2. ASSUME NEW k \in 0 .. n + 1
        PROVE  g[k] = IF k = 0 THEN begun ELSE Modification!Effect(patches[k], g[k - 1])
    <3>1. CASE k = 0
      <4>1. k # n + 1 /\ k \in 0 .. n
        BY <3>1
      <4>2. f[k] = begun
        BY <2>1, <3>1, <4>1, Zenon DEF ModificationIsAfter
      <4> QED BY <3>1, <4>1, <4>2, Zenon
    <3>2. CASE k = n + 1
      <4>1. k # 0 /\ k - 1 = n /\ n \in 0 .. n + 1 /\ n # n + 1
        BY <3>2
      <4>2. g[k - 1] = f[n]
        BY <4>1, Zenon
      <4> QED BY <3>2, <4>1, <4>2, Zenon
    <3>3. CASE k # 0 /\ k # n + 1
      <4>1. k \in 0 .. n /\ k - 1 \in 0 .. n + 1 /\ k - 1 # n + 1
        BY <3>3
      <4>2. g[k] = f[k] /\ g[k - 1] = f[k - 1]
        BY <3>3, <4>1, Zenon
      <4>3. f[k] = Modification!Effect(patches[k], f[k - 1])
        BY <2>1, <3>3, <4>1, Zenon DEF ModificationIsAfter
      <4> QED BY <3>3, <4>2, <4>3, Zenon
    <3> QED BY <3>1, <3>2, <3>3
  <2>3. g = [k \in 0 .. n + 1 |-> IF k = 0 THEN begun ELSE Modification!Effect(patches[k], g[k - 1])]
    <3>1. g = [k \in 0 .. n + 1 |-> g[k]]
      BY Zenon
    <3> HIDE DEF g
    <3> QED BY <2>2, <3>1, Zenon
  <2> HIDE DEF g
  <2>4. ModificationIsAfter(g, n + 1, patches, begun)
    BY <2>3, Zenon DEF ModificationIsAfter
  <2> QED BY <2>4
<1>3. N = Nat
  <2>1. N \in SUBSET Nat
    OBVIOUS
  <2> HIDE DEF N
  <2> QED BY <1>1, <1>2, <2>1, SetInduction
<1>4. m \in N
  BY <1>3
<1> QED BY <1>4

\* The workspace after the first patches, one by one.
LEMMA ModificationAfterSteps ==
  ASSUME NEW begun, NEW patches, Len(patches) \in Nat
  PROVE  /\ Modification!After(patches, begun)[0] = begun
         /\ \A k \in 0 .. Len(patches) - 1 :
              Modification!After(patches, begun)[k + 1] = Modification!Effect(patches[k + 1], Modification!After(patches, begun)[k])
<1> DEFINE m == Len(patches)
           f == Modification!After(patches, begun)
<1>1. f = CHOOSE g : ModificationIsAfter(g, m, patches, begun)
  BY Zenon DEF Modification!After, ModificationIsAfter
<1>2. ModificationIsAfter(f, m, patches, begun)
  BY <1>1, ModificationAfterExists, Zenon
<1> HIDE DEF f
<1>3. f[0] = begun
  <2>1. 0 \in 0 .. m
    OBVIOUS
  <2> QED BY <1>2, <2>1, Zenon DEF ModificationIsAfter
<1>4. ASSUME NEW k \in 0 .. m - 1 PROVE f[k + 1] = Modification!Effect(patches[k + 1], f[k])
  <2>1. k + 1 \in 0 .. m /\ k + 1 # 0 /\ (k + 1) - 1 = k
    OBVIOUS
  <2>2. f[k + 1] = Modification!Effect(patches[k + 1], f[(k + 1) - 1])
    BY <1>2, <2>1, Zenon DEF ModificationIsAfter
  <2> QED BY <2>1, <2>2, Zenon
<1> QED BY <1>3, <1>4, Zenon DEF f

\* An applicable patch makes a workspace of a workspace.
LEMMA ModificationEffectType ==
  ASSUME Modification!PatchAssumption, NEW patch \in Modification!Patches,
         NEW fs \in Modification!Files, Modification!Applicable(patch, fs)
  PROVE  Modification!Effect(patch, fs) \in Modification!Files
<1>1. CASE patch.op \in {"ADD", "MODIFY"}
  <2>1. patch.path \in Path /\ patch.arg \in Content
    BY <1>1 DEF Modification!Patches
  <2>2. Modification!Effect(patch, fs) = [fs EXCEPT ![patch.path] = patch.arg]
    BY <1>1 DEF Modification!Effect
  <2> QED BY <2>1, <2>2 DEF Modification!Files
<1>2. CASE patch.op = "DELETE"
  <2>1. patch.path \in Path
    BY <1>2 DEF Modification!Patches
  <2>2. Modification!Effect(patch, fs) = [fs EXCEPT ![patch.path] = None]
    BY <1>2 DEF Modification!Effect
  <2> QED BY <2>1, <2>2 DEF Modification!Files
<1>3. CASE patch.op = "RENAME"
  <2>1. patch.path \in Path /\ patch.arg \in Path
    BY <1>3 DEF Modification!Patches, Modification!Applicable
  <2>2. Modification!Effect(patch, fs) = [[fs EXCEPT ![patch.path] = None] EXCEPT ![patch.arg] = fs[patch.path]]
    BY <1>3 DEF Modification!Effect
  <2>3. fs[patch.path] \in Content \cup {Torn, None}
    BY <2>1 DEF Modification!Files
  <2>4. [fs EXCEPT ![patch.path] = None] \in Modification!Files
    BY <2>1 DEF Modification!Files
  <2> QED BY <2>1, <2>2, <2>3, <2>4 DEF Modification!Files
<1> QED BY <1>1, <1>2, <1>3 DEF Modification!Patches

-----------------------------------------------------------------------------
(* The invariant *)

ModificationBackup == [saved : Modification!Files, manifest : (SUBSET Path) \cup {None}]

\* Besides what the properties say: the job and the changes are records.
ModificationRecords ==
  /\ job \in [at : {"idle", "refused", "saving", "unsaved", "applying", "applied", "failed", "killed"},
              patches : PatchSets \cup {<<>>}, stamp : 0 .. MaxSeconds, left : SUBSET Path]
  /\ changes \in [success : BOOLEAN, applied : Nat]

\* While files are saved: no patch is applied, and what is copied is copied right.
ModificationSaving ==
  job.at = "saving" =>
    /\ changes.applied = 0
    /\ \A p \in Modification!Saved(job.patches) \ job.left : backups[job.stamp].saved[p] = start[p]

ModificationInv ==
  /\ ModificationRecords
  /\ Modification!TypeOK
  /\ ModificationSaving
  /\ Modification!ChangesAreThePrefix
  /\ Modification!LastBackupHolds
  /\ Modification!OnlyOverwrittenIsLost

\* In a state in which nothing is claimed of an application, types are enough.
LEMMA ModificationRests ==
  ASSUME Modification!PatchAssumption, Modification!TypeOK, NEW end \in {"idle", "refused", "unsaved"},
         job' = Modification!NoJob(end), changes' \in [success : BOOLEAN, applied : {0}],
         files' \in Modification!Files, start' = files',
         backups' \in [0 .. MaxSeconds -> ModificationBackup], second' = second
  PROVE  ModificationInv'
<1>1. /\ job' = [at |-> end, patches |-> <<>>, stamp |-> 0, left |-> {}]
      /\ job'.at = end /\ job'.patches = <<>> /\ job'.stamp = 0 /\ job'.left = {}
  BY DEF Modification!NoJob
<1>2. 0 \in 0 .. MaxSeconds
  BY DEF Modification!PatchAssumption
<1>3. /\ changes' \in [success : BOOLEAN, applied : Nat] /\ changes'.success \in BOOLEAN
      /\ changes'.applied = 0
  OBVIOUS
<1>4. ModificationRecords'
  BY <1>1, <1>2, <1>3 DEF ModificationRecords
<1>5. Modification!TypeOK'
  <2>1. changes'.applied \in 0 .. Len(job'.patches)
    <3>1. Len(<<>>) = 0
      OBVIOUS
    <3> QED BY <1>1, <1>3, <3>1
  <2>2. second' \in 0 .. MaxSeconds
    BY DEF Modification!TypeOK
  <2> QED BY <1>1, <1>2, <1>3, <2>1, <2>2 DEF Modification!TypeOK, ModificationBackup
<1>6. ModificationSaving' /\ Modification!ChangesAreThePrefix'
  BY <1>1 DEF ModificationSaving, Modification!ChangesAreThePrefix
<1>7. Modification!LastBackupHolds' /\ Modification!OnlyOverwrittenIsLost'
  BY <1>1 DEF Modification!LastBackupHolds, Modification!OnlyOverwrittenIsLost, Modification!Begun
<1> QED BY <1>4, <1>5, <1>6, <1>7 DEF ModificationInv

\* The empty directory is a backup.
LEMMA ModificationNoBackup == Modification!NoBackup \in ModificationBackup
<1>1. [p \in Path |-> None] \in Modification!Files
  BY DEF Modification!Files
<1> QED BY <1>1 DEF Modification!NoBackup, ModificationBackup

\* The invariant holds at the start.
LEMMA ModificationInitHolds ==
  ASSUME Modification!PatchAssumption PROVE Modification!Init => ModificationInv
<1> SUFFICES ASSUME Modification!Init PROVE ModificationInv
  OBVIOUS
<1>1. /\ job = [at |-> "idle", patches |-> <<>>, stamp |-> 0, left |-> {}]
      /\ changes = [success |-> TRUE, applied |-> 0] /\ start = files /\ second = 0
      /\ backups = [s \in 0 .. MaxSeconds |-> Modification!NoBackup]
      /\ files \in [Path -> Content \cup {None}]
  BY DEF Modification!Init, Modification!NoJob
<1>2. 0 \in 0 .. MaxSeconds /\ Len(<<>>) = 0
  BY DEF Modification!PatchAssumption
<1>3. ModificationRecords
  BY <1>1, <1>2 DEF ModificationRecords
<1>4. Modification!TypeOK
  <2>1. backups \in [0 .. MaxSeconds -> ModificationBackup]
    BY <1>1, ModificationNoBackup
  <2>2. files \in Modification!Files
    BY <1>1 DEF Modification!Files
  <2> QED BY <1>1, <1>2, <2>1, <2>2 DEF Modification!TypeOK, ModificationBackup
<1>5. ModificationSaving /\ Modification!ChangesAreThePrefix
  BY <1>1 DEF ModificationSaving, Modification!ChangesAreThePrefix
<1>6. Modification!LastBackupHolds /\ Modification!OnlyOverwrittenIsLost
  BY <1>1 DEF Modification!LastBackupHolds, Modification!OnlyOverwrittenIsLost, Modification!Begun
<1> QED BY <1>3, <1>4, <1>5, <1>6 DEF ModificationInv

\* The patches of the job are patches.
LEMMA ModificationPatches ==
  ASSUME Modification!PatchAssumption, Modification!TypeOK
  PROVE  job.patches \in Seq(Modification!Patches)
<1>1. job.patches \in PatchSets \cup {<<>>}
  BY DEF Modification!TypeOK
<1>2. <<>> \in Seq(Modification!Patches)
  OBVIOUS
<1> QED BY <1>1, <1>2, Zenon DEF Modification!PatchAssumption

\* A file of the set is one that is saved, if it is there and not added.
LEMMA ModificationSavedOnes ==
  ASSUME NEW patches \in Seq(Modification!Patches), NEW i \in DOMAIN patches,
         patches[i].op # "ADD", files[patches[i].path] # None
  PROVE  patches[i].path \in Modification!Saved(patches)
<1>1. patches[i] \in Modification!Patches
  OBVIOUS
<1>2. patches[i].path \in Path
  BY <1>1 DEF Modification!Patches
<1> QED BY <1>2 DEF Modification!Saved

\* The last backup has what the set will touch.
ModificationSavedAll ==
  \A i \in DOMAIN job.patches :
    job.patches[i].op # "ADD" /\ start[job.patches[i].path] # None => Modification!Holds(job.patches[i].path)

\* When the patches begin, the workspace is the one that was saved.
LEMMA ModificationBegins ==
  ASSUME Modification!PatchAssumption, Modification!TypeOK', job'.at = "applying", files' = start', changes'.applied = 0,
         ModificationSavedAll'
  PROVE  /\ Modification!ChangesAreThePrefix' /\ ModificationSaving'
         /\ Modification!LastBackupHolds' /\ Modification!OnlyOverwrittenIsLost'
<1>1. job'.patches \in Seq(Modification!Patches)
  <2>1. job'.patches \in PatchSets \cup {<<>>}
    BY DEF Modification!TypeOK
  <2>2. <<>> \in Seq(Modification!Patches)
    OBVIOUS
  <2> QED BY <2>1, <2>2, Zenon DEF Modification!PatchAssumption
<1>2. Modification!After(job'.patches, start')[0] = start'
  <2>1. Len(job'.patches) \in Nat
    BY <1>1
  <2> QED BY <2>1, ModificationAfterSteps
<1>3. files' = Modification!Told'
  <2>1. Modification!Told' = Modification!After(job'.patches, start')[changes'.applied]
    BY DEF Modification!Told
  <2> QED BY <1>2, <2>1, Zenon
<1>4. Modification!ChangesAreThePrefix'
  BY <1>3 DEF Modification!ChangesAreThePrefix
<1>5. ModificationSaving' /\ Modification!OnlyOverwrittenIsLost'
  BY DEF ModificationSaving, Modification!OnlyOverwrittenIsLost
<1>6. Modification!LastBackupHolds'
  BY DEF Modification!LastBackupHolds, ModificationSavedAll
<1> QED BY <1>4, <1>5, <1>6

\* Beginning a patch set keeps it, and so does every refusal.
LEMMA ModificationApplyKeeps ==
  ASSUME Modification!PatchAssumption, ModificationInv, NEW patches \in PatchSets, Modification!Apply(patches)
  PROVE  ModificationInv'
<1>0. /\ start' = files /\ files' = files /\ second' = second /\ backups' = backups
      /\ Modification!TypeOK
  BY DEF Modification!Apply, ModificationInv
<1>p. patches \in Seq(Modification!Patches)
  BY DEF Modification!PatchAssumption
<1>1. CASE Modification!Valid(patches)
  <2> DEFINE end == IF Modification!Saved(patches) = {} THEN "applying" ELSE "saving"
  <2>1. /\ job' = [at |-> end, patches |-> patches, stamp |-> second, left |-> Modification!Saved(patches)]
        /\ changes' = [success |-> TRUE, applied |-> 0]
    BY <1>1 DEF Modification!Apply
  <2>2. end \in {"applying", "saving"} /\ Modification!Saved(patches) \subseteq Path
    BY DEF Modification!Saved
  <2>3. (end = "applying") => Modification!Saved(patches) = {}
    OBVIOUS
  <2> HIDE DEF end
  <2>4. /\ job'.at = end /\ job'.patches = patches /\ job'.stamp = second
        /\ job'.left = Modification!Saved(patches)
        /\ changes'.applied = 0 /\ changes'.success = TRUE
    BY <2>1
  <2>5. second \in 0 .. MaxSeconds
    BY <1>0 DEF Modification!TypeOK
  <2>6. ModificationRecords'
    BY <2>1, <2>2, <2>5 DEF ModificationRecords
  <2>7. Modification!TypeOK'
    <3>1. changes'.applied \in 0 .. Len(job'.patches)
      BY <2>4, <1>p
    <3> QED BY <1>0, <2>2, <2>4, <2>5, <3>1 DEF Modification!TypeOK
  <2>8. CASE end = "applying"
    <3>1. \A i \in DOMAIN patches : ~(patches[i].op # "ADD" /\ files[patches[i].path] # None)
      BY <1>p, <2>3, <2>8, ModificationSavedOnes
    <3>0. ModificationSavedAll'
      BY <1>0, <2>4, <3>1 DEF ModificationSavedAll
    <3>2. /\ Modification!ChangesAreThePrefix' /\ ModificationSaving'
          /\ Modification!LastBackupHolds' /\ Modification!OnlyOverwrittenIsLost'
      BY <1>0, <2>4, <2>7, <2>8, <3>0, ModificationBegins
    <3> QED BY <2>6, <2>7, <3>2 DEF ModificationInv
  <2>9. CASE end = "saving"
    <3>1. Modification!ChangesAreThePrefix'
      BY <1>0, <2>4, <2>9 DEF Modification!ChangesAreThePrefix
    <3>2. Modification!LastBackupHolds' /\ Modification!OnlyOverwrittenIsLost'
      BY <2>4, <2>9 DEF Modification!LastBackupHolds, Modification!OnlyOverwrittenIsLost, Modification!Begun
    <3>3. ModificationSaving'
      <4>1. Modification!Saved(patches)' = Modification!Saved(patches)
        BY <1>0 DEF Modification!Saved
      <4>2. Modification!Saved(job.patches)' = Modification!Saved(patches)
        BY <1>0, <2>4 DEF Modification!Saved
      <4> QED BY <2>4, <4>2 DEF ModificationSaving
    <3> QED BY <2>6, <2>7, <3>1, <3>2, <3>3 DEF ModificationInv
  <2> QED BY <2>2, <2>8, <2>9
<1>2. CASE ~Modification!Valid(patches)
  <2>1. /\ changes' = [success |-> FALSE, applied |-> 0]
        /\ job' = Modification!NoJob("refused")
    BY <1>2 DEF Modification!Apply
  <2>2. changes' \in [success : BOOLEAN, applied : {0}]
    BY <2>1
  <2>3. files' \in Modification!Files /\ backups' \in [0 .. MaxSeconds -> ModificationBackup]
    BY <1>0 DEF Modification!TypeOK, ModificationBackup
  <2> QED BY <1>0, <2>1, <2>2, <2>3, ModificationRests
<1> QED BY <1>1, <1>2

\* One backup written anew leaves backups.
LEMMA ModificationWritten ==
  ASSUME backups \in [0 .. MaxSeconds -> ModificationBackup], NEW s \in 0 .. MaxSeconds
  PROVE  /\ \A p \in Path, c \in Content \cup {Torn, None} :
              LET new == [backups EXCEPT ![s].saved[p] = c] IN
              /\ new \in [0 .. MaxSeconds -> ModificationBackup]
              /\ new[s].manifest = backups[s].manifest
              /\ new[s].saved[p] = c
              /\ \A q \in Path \ {p} : new[s].saved[q] = backups[s].saved[q]
         /\ \A m \in SUBSET Path :
              LET new == [backups EXCEPT ![s].manifest = m] IN
              /\ new \in [0 .. MaxSeconds -> ModificationBackup]
              /\ new[s].manifest = m /\ new[s].saved = backups[s].saved
<1>0. backups[s] \in ModificationBackup
  OBVIOUS
<1>1. ASSUME NEW p \in Path, NEW c \in Content \cup {Torn, None}
      PROVE  LET new == [backups EXCEPT ![s].saved[p] = c] IN
              /\ new \in [0 .. MaxSeconds -> ModificationBackup]
              /\ new[s].manifest = backups[s].manifest
              /\ new[s].saved[p] = c
              /\ \A q \in Path \ {p} : new[s].saved[q] = backups[s].saved[q]
  <2> DEFINE saved == [backups[s].saved EXCEPT ![p] = c]
             b == [backups[s] EXCEPT !.saved = saved]
             new == [backups EXCEPT ![s] = b]
  <2>1. backups[s].saved \in Modification!Files
    BY <1>0 DEF ModificationBackup
  <2>2. saved \in Modification!Files /\ saved[p] = c /\ \A q \in Path \ {p} : saved[q] = backups[s].saved[q]
    BY <2>1 DEF Modification!Files
  <2> HIDE DEF saved
  <2>3. b \in ModificationBackup /\ b.saved = saved /\ b.manifest = backups[s].manifest
    BY <1>0, <2>2 DEF ModificationBackup
  <2> HIDE DEF b
  <2>4. new \in [0 .. MaxSeconds -> ModificationBackup] /\ new[s] = b
    BY <2>3
  <2>5. new = [backups EXCEPT ![s].saved[p] = c]
    BY DEF b, saved
  <2> HIDE DEF new
  <2> QED BY <2>2, <2>3, <2>4, <2>5
<1>2. ASSUME NEW m \in SUBSET Path
      PROVE  LET new == [backups EXCEPT ![s].manifest = m] IN
              /\ new \in [0 .. MaxSeconds -> ModificationBackup]
              /\ new[s].manifest = m /\ new[s].saved = backups[s].saved
  <2> DEFINE b == [backups[s] EXCEPT !.manifest = m]
             new == [backups EXCEPT ![s] = b]
  <2>1. b \in ModificationBackup /\ b.saved = backups[s].saved /\ b.manifest = m
    BY <1>0 DEF ModificationBackup
  <2>2. new = [backups EXCEPT ![s].manifest = m]
    BY DEF b
  <2> HIDE DEF b
  <2>3. new \in [0 .. MaxSeconds -> ModificationBackup] /\ new[s] = b
    BY <2>1
  <2> HIDE DEF new
  <2> QED BY <2>1, <2>2, <2>3
<1> QED BY <1>1, <1>2

\* Copying a file into the backup keeps it.
LEMMA ModificationSaveFileKeeps ==
  ASSUME Modification!PatchAssumption, ModificationInv, NEW p \in Path, Modification!SaveFile(p)
  PROVE  ModificationInv'
<1>1. /\ job.at = "saving" /\ p \in job.left
      /\ backups' = [backups EXCEPT ![job.stamp].saved[p] = files[p]]
      /\ job' = [job EXCEPT !.left = job.left \ {p}]
      /\ files' = files /\ second' = second /\ start' = start /\ changes' = changes
  BY DEF Modification!SaveFile
<1>2. /\ backups \in [0 .. MaxSeconds -> ModificationBackup] /\ job.stamp \in 0 .. MaxSeconds
      /\ files \in Modification!Files /\ Modification!TypeOK /\ ModificationRecords
  BY DEF ModificationInv, Modification!TypeOK, ModificationBackup
<1>3. files[p] \in Content \cup {Torn, None}
  BY <1>2 DEF Modification!Files
<1>4. /\ backups' \in [0 .. MaxSeconds -> ModificationBackup]
      /\ backups'[job.stamp].saved[p] = files[p]
      /\ \A q \in Path \ {p} : backups'[job.stamp].saved[q] = backups[job.stamp].saved[q]
  <2> DEFINE saved == [backups[job.stamp].saved EXCEPT ![p] = files[p]]
             b == [backups[job.stamp] EXCEPT !.saved = saved]
  <2>1. backups' = [backups EXCEPT ![job.stamp] = b]
    BY <1>1
  <2>2. backups[job.stamp] \in ModificationBackup
    BY <1>2
  <2>3. backups[job.stamp].saved \in Modification!Files
    BY <2>2 DEF ModificationBackup
  <2>4. saved \in Modification!Files /\ saved[p] = files[p] /\ \A q \in Path \ {p} : saved[q] = backups[job.stamp].saved[q]
    BY <1>3, <2>3 DEF Modification!Files
  <2> HIDE DEF saved
  <2>5. b \in ModificationBackup /\ b.saved = saved
    BY <2>2, <2>4 DEF ModificationBackup
  <2> HIDE DEF b
  <2>6. backups' \in [0 .. MaxSeconds -> ModificationBackup] /\ backups'[job.stamp] = b
    BY <1>2, <2>1, <2>5
  <2> QED BY <2>4, <2>5, <2>6
<1>5. /\ job'.at = "saving" /\ job'.patches = job.patches /\ job'.stamp = job.stamp
      /\ job'.left = job.left \ {p} /\ job'.left \subseteq Path
  BY <1>1, <1>2 DEF ModificationRecords
<1>6. ModificationRecords'
  BY <1>1, <1>2 DEF ModificationRecords
<1>7. Modification!TypeOK'
  BY <1>1, <1>2, <1>4, <1>5 DEF Modification!TypeOK, ModificationBackup
<1>8. files = start /\ changes.applied = 0
  BY <1>1 DEF ModificationInv, Modification!ChangesAreThePrefix, ModificationSaving
<1>9. ModificationSaving'
  <2>1. Modification!Saved(job.patches)' = Modification!Saved(job.patches)
    BY <1>1, <1>5 DEF Modification!Saved
  <2>2. Modification!Saved(job.patches) \subseteq Path
    BY DEF Modification!Saved
  <2>3. \A q \in Modification!Saved(job.patches) \ job.left : backups[job.stamp].saved[q] = start[q]
    BY <1>1 DEF ModificationInv, ModificationSaving
  <2>4. ASSUME NEW q \in Modification!Saved(job.patches) \ job'.left
        PROVE  backups'[job'.stamp].saved[q] = start'[q]
    <3>1. CASE q = p
      BY <1>1, <1>4, <1>5, <1>8, <3>1
    <3>2. CASE q # p
      BY <1>1, <1>4, <1>5, <2>2, <2>3, <3>2
    <3> QED BY <3>1, <3>2
  <2> QED BY <1>1, <1>8, <2>1, <2>4 DEF ModificationSaving
<1>10. Modification!ChangesAreThePrefix'
  BY <1>1, <1>5, <1>8 DEF Modification!ChangesAreThePrefix
<1>11. Modification!LastBackupHolds' /\ Modification!OnlyOverwrittenIsLost'
  BY <1>5 DEF Modification!LastBackupHolds, Modification!OnlyOverwrittenIsLost, Modification!Begun
<1> QED BY <1>6, <1>7, <1>9, <1>10, <1>11 DEF ModificationInv

\* With the manifest the backup is complete.
LEMMA ModificationSaveManifestKeeps ==
  ASSUME Modification!PatchAssumption, ModificationInv, Modification!SaveManifest
  PROVE  ModificationInv'
<1> DEFINE all == Modification!Saved(job.patches)
<1>1. /\ job.at = "saving" /\ job.left = {}
      /\ backups' = [backups EXCEPT ![job.stamp].manifest = all]
      /\ job' = [job EXCEPT !.at = "applying"]
      /\ files' = files /\ second' = second /\ start' = start /\ changes' = changes
  BY DEF Modification!SaveManifest
<1>2. /\ backups \in [0 .. MaxSeconds -> ModificationBackup] /\ job.stamp \in 0 .. MaxSeconds
      /\ Modification!TypeOK /\ ModificationRecords
  BY DEF ModificationInv, Modification!TypeOK, ModificationBackup
<1>3. all \in SUBSET Path
  BY DEF Modification!Saved
<1>4. /\ files = start /\ changes.applied = 0
      /\ \A q \in all : backups[job.stamp].saved[q] = start[q]
  BY <1>1 DEF ModificationInv, Modification!ChangesAreThePrefix, ModificationSaving
<1>5. \A i \in DOMAIN job.patches :
        job.patches[i].op # "ADD" /\ start[job.patches[i].path] # None => job.patches[i].path \in all
  <2>1. job.patches \in Seq(Modification!Patches)
    BY <1>2, ModificationPatches
  <2> QED BY <1>4, <2>1, ModificationSavedOnes
<1> HIDE DEF all
<1>6. /\ backups' \in [0 .. MaxSeconds -> ModificationBackup]
      /\ backups'[job.stamp].manifest = all /\ backups'[job.stamp].saved = backups[job.stamp].saved
  BY <1>1, <1>2, <1>3, ModificationWritten
<1>7. job'.at = "applying" /\ job'.patches = job.patches /\ job'.stamp = job.stamp /\ job'.left = job.left
  BY <1>1, <1>2 DEF ModificationRecords
<1>8. ModificationRecords'
  BY <1>1, <1>2 DEF ModificationRecords
<1>9. Modification!TypeOK'
  BY <1>1, <1>2, <1>6, <1>7 DEF Modification!TypeOK, ModificationBackup
<1>10. ModificationSavedAll'
  <2>1. ASSUME NEW p \in all PROVE Modification!Holds(p)'
    <3>1. backups'[job'.stamp].manifest = all /\ backups'[job'.stamp].saved[p] = start'[p]
      BY <1>1, <1>4, <1>6, <1>7
    <3>2. p \in Path
      BY <1>3
    <3>3. p \in Modification!Listed(backups'[job'.stamp])
      BY <3>1, <3>2 DEF Modification!Listed
    <3> QED BY <3>1, <3>3 DEF Modification!Holds, Modification!Listed
  <2> SUFFICES ASSUME NEW i \in DOMAIN job.patches, job.patches[i].op # "ADD",
                      start[job.patches[i].path] # None, NEW p, p = job.patches[i].path
               PROVE  Modification!Holds(p)'
    BY <1>1, <1>7 DEF ModificationSavedAll
  <2> QED BY <1>5, <2>1
<1>11. /\ Modification!ChangesAreThePrefix' /\ ModificationSaving'
       /\ Modification!LastBackupHolds' /\ Modification!OnlyOverwrittenIsLost'
  BY <1>1, <1>4, <1>7, <1>9, <1>10, ModificationBegins
<1> QED BY <1>8, <1>9, <1>11 DEF ModificationInv

\* A backup that is not completed claims nothing.
LEMMA ModificationSavingStopsKeeps ==
  ASSUME Modification!PatchAssumption, ModificationInv, Modification!SavingStops
  PROVE  ModificationInv'
<1>1. /\ job.at = "saving" /\ job' = Modification!NoJob("unsaved") /\ changes' = [changes EXCEPT !.success = FALSE]
      /\ files' = files /\ second' = second /\ start' = start
  BY DEF Modification!SavingStops
<1>2. /\ backups \in [0 .. MaxSeconds -> ModificationBackup] /\ job.stamp \in 0 .. MaxSeconds
      /\ Modification!TypeOK /\ ModificationRecords /\ files \in Modification!Files
      /\ job.left \subseteq Path
  BY DEF ModificationInv, Modification!TypeOK, ModificationBackup
<1>3. files = start /\ changes.applied = 0
  BY <1>1 DEF ModificationInv, Modification!ChangesAreThePrefix, ModificationSaving
<1>4. changes' \in [success : BOOLEAN, applied : {0}]
  BY <1>1, <1>2, <1>3 DEF ModificationRecords
<1>5. backups' \in [0 .. MaxSeconds -> ModificationBackup]
  <2>1. CASE backups' = backups
    BY <1>2, <2>1
  <2>2. ASSUME NEW p \in job.left, backups' = [backups EXCEPT ![job.stamp].saved[p] = Torn]
        PROVE  backups' \in [0 .. MaxSeconds -> ModificationBackup]
    <3>1. p \in Path /\ Torn \in Content \cup {Torn, None}
      BY <1>2
    <3> QED BY <1>2, <2>2, <3>1, ModificationWritten
  <2>3. ASSUME NEW listed \in SUBSET Modification!Saved(job.patches),
               backups' = [backups EXCEPT ![job.stamp].manifest = listed]
        PROVE  backups' \in [0 .. MaxSeconds -> ModificationBackup]
    <3>1. listed \in SUBSET Path
      BY DEF Modification!Saved
    <3> QED BY <1>2, <2>3, <3>1, ModificationWritten
  <2> QED BY <2>1, <2>2, <2>3 DEF Modification!SavingStops
<1> QED BY <1>1, <1>2, <1>3, <1>4, <1>5, ModificationRests

\* What a patch can leave is a workspace.
LEMMA ModificationUnlistedType ==
  ASSUME Modification!PatchAssumption, NEW patch \in Modification!Patches,
         NEW fs \in Modification!Files, NEW after \in Modification!Unlisted(patch, fs)
  PROVE  after \in Modification!Files
<1>1. CASE after = fs
  BY <1>1
<1>2. CASE after = Modification!Effect(patch, fs) /\ Modification!Applicable(patch, fs)
  BY <1>2, ModificationEffectType
<1>3. CASE after = [fs EXCEPT ![patch.path] = Torn]
  <2>1. patch.path \in Path
    BY DEF Modification!Patches
  <2> QED BY <1>3, <2>1 DEF Modification!Files
<1> QED BY <1>1, <1>2, <1>3 DEF Modification!Unlisted

\* A patch changes its file, which is there unless it is added, and where it
\* moves it to.
LEMMA ModificationTouches ==
  ASSUME Modification!PatchAssumption, NEW patch \in Modification!Patches,
         NEW fs \in Modification!Files, NEW after \in Modification!Unlisted(patch, fs),
         NEW p \in Path, after[p] # fs[p]
  PROVE  /\ p = patch.path \/ (patch.op = "RENAME" /\ p = patch.arg)
         /\ patch.op = "ADD" \/ fs[patch.path] # None
<1>1. Modification!Applicable(patch, fs)
  BY DEF Modification!Unlisted
<1>2. patch.op = "ADD" \/ fs[patch.path] # None
  BY <1>1 DEF Modification!Applicable
<1>3. p = patch.path \/ (patch.op = "RENAME" /\ p = patch.arg)
  <2> SUFFICES ASSUME p # patch.path, ~(patch.op = "RENAME" /\ p = patch.arg) PROVE FALSE
    OBVIOUS
  <2>1. patch.op \in {"ADD", "MODIFY", "DELETE", "RENAME"}
    BY DEF Modification!Patches
  <2>2. CASE after = [fs EXCEPT ![patch.path] = Torn]
    BY <2>2 DEF Modification!Files
  <2>3. CASE after = Modification!Effect(patch, fs)
    <3>1. CASE patch.op \in {"ADD", "MODIFY"}
      BY <2>3, <3>1 DEF Modification!Effect, Modification!Files
    <3>2. CASE patch.op = "DELETE"
      BY <2>3, <3>2 DEF Modification!Effect, Modification!Files
    <3>3. CASE patch.op = "RENAME"
      <4>1. after = [[fs EXCEPT ![patch.path] = None] EXCEPT ![patch.arg] = fs[patch.path]]
        BY <2>3, <3>3 DEF Modification!Effect
      <4> QED BY <3>3, <4>1 DEF Modification!Files
    <3> QED BY <2>1, <3>1, <3>2, <3>3
  <2> QED BY <2>2, <2>3 DEF Modification!Unlisted
<1> QED BY <1>2, <1>3

\* What the next patch leaves is lost only where it is written over.
LEMMA ModificationLoses ==
  ASSUME Modification!PatchAssumption, ModificationInv, Modification!Pending,
         NEW after \in Modification!Unlisted(Modification!Patch, files),
         NEW p \in Path, after[p] # start[p]
  PROVE  Modification!Overwritten(p) \/ Modification!Holds(p) \/ backups[job.stamp] = Modification!NoBackup
<1> DEFINE k == changes.applied + 1
           patch == job.patches[k]
<1>1. job.at = "applying" /\ changes.applied < Len(job.patches) /\ after \in Modification!Unlisted(patch, files)
  BY DEF Modification!Pending, Modification!Patch
<1>2. /\ Modification!TypeOK /\ files \in Modification!Files /\ changes.applied \in Nat
      /\ job.patches \in Seq(Modification!Patches)
  BY ModificationPatches DEF ModificationInv, Modification!TypeOK, ModificationRecords
<1>3. k \in DOMAIN job.patches /\ patch \in Modification!Patches
  BY <1>1, <1>2
<1>4. CASE after[p] = files[p]
  BY <1>1, <1>4 DEF ModificationInv, Modification!OnlyOverwrittenIsLost, Modification!Begun
<1>5. CASE after[p] # files[p]
  <2> HIDE DEF patch
  <2>1. /\ p = patch.path \/ (patch.op = "RENAME" /\ p = patch.arg)
        /\ patch.op = "ADD" \/ files[patch.path] # None
    BY <1>1, <1>2, <1>3, <1>5, ModificationTouches
  <2>2. CASE patch.op = "RENAME" /\ p = patch.arg
    BY <1>3, <2>2 DEF Modification!Overwritten, patch
  <2>3. CASE patch.op = "ADD" /\ p = patch.path
    BY <1>3, <2>3 DEF Modification!Overwritten, patch
  <2>4. CASE patch.op # "ADD" /\ p = patch.path /\ start[p] # None
    <3>1. Modification!Begun
      BY <1>1 DEF Modification!Begun
    <3>2. job.patches[k].op # "ADD" /\ job.patches[k].path = p
      BY <2>4 DEF patch
    <3> HIDE DEF k
    <3> QED BY <1>3, <2>4, <3>1, <3>2, Zenon DEF ModificationInv, Modification!LastBackupHolds
  <2>5. CASE patch.op # "ADD" /\ p = patch.path /\ start[p] = None
    <3>1. files[p] # start[p]
      BY <2>1, <2>5
    <3> QED BY <1>1, <3>1 DEF ModificationInv, Modification!OnlyOverwrittenIsLost, Modification!Begun
  <2> QED BY <2>1, <2>2, <2>3, <2>4, <2>5
<1> QED BY <1>4, <1>5

\* Applying one file of the set keeps it.
LEMMA ModificationApplyFileKeeps ==
  ASSUME Modification!PatchAssumption, ModificationInv, Modification!ApplyFile
  PROVE  ModificationInv'
<1> DEFINE k == changes.applied
<1>1. /\ job.at = "applying" /\ k < Len(job.patches)
      /\ Modification!Applicable(job.patches[k + 1], files)
      /\ files' = Modification!Effect(job.patches[k + 1], files)
      /\ changes' = [changes EXCEPT !.applied = k + 1]
      /\ backups' = backups /\ second' = second /\ job' = job /\ start' = start
  BY DEF Modification!ApplyFile, Modification!Pending, Modification!Patch
<1>2. /\ job.patches \in Seq(Modification!Patches) /\ k \in Nat /\ Modification!TypeOK /\ ModificationRecords
      /\ files \in Modification!Files
  BY ModificationPatches DEF ModificationInv, ModificationRecords, Modification!TypeOK
<1>3. k + 1 \in DOMAIN job.patches /\ Len(job.patches) \in Nat /\ k \in 0 .. Len(job.patches) - 1
  BY <1>1, <1>2
<1>4. job.patches[k + 1] \in Modification!Patches
  BY <1>2, <1>3
<1>5. files' \in Modification!Files
  BY <1>1, <1>2, <1>4, ModificationEffectType
<1>6. changes'.applied = k + 1 /\ changes'.success = changes.success
        /\ changes' \in [success : BOOLEAN, applied : Nat]
  BY <1>1, <1>2 DEF ModificationRecords
<1>7. ModificationRecords'
  BY <1>1, <1>2, <1>6 DEF ModificationRecords
<1>8. Modification!TypeOK'
  <2>1. k + 1 \in 0 .. Len(job.patches)
    BY <1>3
  <2> QED BY <1>1, <1>2, <1>5, <1>6, <2>1 DEF Modification!TypeOK
<1>9. Modification!ChangesAreThePrefix'
  <2>1. files = Modification!After(job.patches, start)[k]
    BY <1>1 DEF ModificationInv, Modification!ChangesAreThePrefix, Modification!Told
  <2>2. Modification!After(job.patches, start)[k + 1] = Modification!Effect(job.patches[k + 1], Modification!After(job.patches, start)[k])
    BY <1>3, ModificationAfterSteps
  <2>3. files' = Modification!Told'
    BY <1>1, <1>6, <2>1, <2>2, Zenon DEF Modification!Told
  <2> QED BY <1>1, <2>3 DEF Modification!ChangesAreThePrefix
<1>10. Modification!LastBackupHolds' /\ ModificationSaving'
  <2>1. Modification!LastBackupHolds
    BY DEF ModificationInv
  <2> QED BY <1>1, <2>1 DEF Modification!LastBackupHolds, Modification!Holds, Modification!Begun, ModificationSaving
<1>11. Modification!OnlyOverwrittenIsLost'
  <2>1. Modification!Pending /\ files' \in Modification!Unlisted(Modification!Patch, files)
    BY DEF Modification!ApplyFile, Modification!Unlisted
  <2>2. \A p \in Path : files'[p] # start[p] =>
          Modification!Overwritten(p) \/ Modification!Holds(p) \/ backups[job.stamp] = Modification!NoBackup
    BY <2>1, ModificationLoses
  <2> QED BY <1>1, <2>2 DEF Modification!OnlyOverwrittenIsLost, Modification!Overwritten, Modification!Holds
<1> QED BY <1>7, <1>8, <1>9, <1>10, <1>11 DEF ModificationInv

\* The loop ends: with the set, a file that fails or the process.
LEMMA ModificationEndKeeps ==
  ASSUME Modification!PatchAssumption, ModificationInv,
         Modification!FileFails \/ Modification!Done \/ Modification!Crash
  PROVE  ModificationInv'
<1>1. PICK how \in {"applied", "failed", "killed"} :
        /\ job.at = "applying" /\ job' = [job EXCEPT !.at = how]
        /\ changes' = changes \/ changes' = [changes EXCEPT !.success = FALSE]
        /\ backups' = backups /\ second' = second /\ start' = start
        /\ \/ files' = files
           \/ Modification!Pending /\ how # "applied" /\ files' \in Modification!Unlisted(Modification!Patch, files)
        /\ how = "applied" => ~Modification!Pending
  <2>1. CASE Modification!FileFails
    BY <2>1 DEF Modification!FileFails, Modification!Pending
  <2>2. CASE Modification!Done
    BY <2>2 DEF Modification!Done
  <2>3. CASE Modification!Crash
    BY <2>3 DEF Modification!Crash
  <2> QED BY <2>1, <2>2, <2>3
<1>2. /\ Modification!TypeOK /\ ModificationRecords /\ files \in Modification!Files
      /\ job.patches \in Seq(Modification!Patches) /\ changes.applied \in 0 .. Len(job.patches)
  BY ModificationPatches DEF ModificationInv, Modification!TypeOK
<1>3. job'.at = how /\ job'.patches = job.patches /\ job'.stamp = job.stamp /\ job'.left = job.left
  BY <1>1, <1>2 DEF ModificationRecords
<1>4. changes'.applied = changes.applied /\ changes'.success \in BOOLEAN /\ changes' \in [success : BOOLEAN, applied : Nat]
  BY <1>1, <1>2 DEF ModificationRecords
<1>5. ModificationRecords'
  BY <1>1, <1>2, <1>4 DEF ModificationRecords
<1>6. files' \in Modification!Files
  <2>1. CASE files' = files
    BY <1>2, <2>1
  <2>2. CASE Modification!Pending /\ files' \in Modification!Unlisted(Modification!Patch, files)
    <3>1. changes.applied + 1 \in DOMAIN job.patches
      BY <1>2, <2>2 DEF Modification!Pending
    <3>2. Modification!Patch \in Modification!Patches
      BY <1>2, <3>1 DEF Modification!Patch
    <3> QED BY <1>2, <2>2, <3>2, ModificationUnlistedType
  <2> QED BY <1>1, <2>1, <2>2
<1>7. Modification!TypeOK'
  BY <1>1, <1>2, <1>3, <1>4, <1>6 DEF Modification!TypeOK
<1>8. Modification!ChangesAreThePrefix'
  <2>1. files = Modification!Told
    BY <1>1 DEF ModificationInv, Modification!ChangesAreThePrefix
  <2>2. Modification!Told' = Modification!Told /\ Modification!Patch' = Modification!Patch
    BY <1>1, <1>3, <1>4 DEF Modification!Told, Modification!Patch
  <2>3. how = "applied" => changes.applied = Len(job.patches)
    BY <1>1, <1>2 DEF Modification!Pending
  <2>4. Modification!Pending => changes.applied < Len(job.patches)
    BY DEF Modification!Pending
  <2>5. CASE files' = files
    BY <1>3, <1>4, <2>1, <2>2, <2>3, <2>5 DEF Modification!ChangesAreThePrefix
  <2>6. CASE Modification!Pending /\ how # "applied" /\ files' \in Modification!Unlisted(Modification!Patch, files)
    <3>1. files' \in Modification!Unlisted(Modification!Patch', Modification!Told')
      BY <2>1, <2>2, <2>6
    <3>2. changes'.applied < Len(job'.patches)
      BY <1>3, <1>4, <2>4, <2>6
    <3>3. Modification!Unlisted(Modification!Patch, Modification!Told)' = Modification!Unlisted(Modification!Patch', Modification!Told')
      OBVIOUS
    <3> QED BY <1>3, <2>6, <3>1, <3>2, <3>3 DEF Modification!ChangesAreThePrefix
  <2> QED BY <1>1, <2>5, <2>6
<1>9. Modification!LastBackupHolds' /\ ModificationSaving'
  <2>1. Modification!LastBackupHolds /\ Modification!Begun
    BY <1>1 DEF ModificationInv, Modification!Begun
  <2>2. ModificationSaving'
    BY <1>3 DEF ModificationSaving
  <2>3. Modification!LastBackupHolds'
    BY <1>1, <1>3, <2>1 DEF Modification!LastBackupHolds, Modification!Holds, Modification!Begun
  <2> QED BY <2>2, <2>3
<1>10. Modification!OnlyOverwrittenIsLost'
  <2>1. \A p \in Path : files'[p] # start[p] =>
          Modification!Overwritten(p) \/ Modification!Holds(p) \/ backups[job.stamp] = Modification!NoBackup
    <3>1. CASE files' = files
      BY <1>1, <3>1 DEF ModificationInv, Modification!OnlyOverwrittenIsLost, Modification!Begun
    <3>2. CASE Modification!Pending /\ files' \in Modification!Unlisted(Modification!Patch, files)
      BY <3>2, ModificationLoses
    <3> QED BY <1>1, <3>1, <3>2
  <2> QED BY <1>1, <1>3, <2>1 DEF Modification!OnlyOverwrittenIsLost, Modification!Overwritten, Modification!Holds
<1> QED BY <1>5, <1>7, <1>8, <1>9, <1>10 DEF ModificationInv

\* Putting a backup back keeps it, all of it or what it comes to.
LEMMA ModificationRestoreKeeps ==
  ASSUME Modification!PatchAssumption, ModificationInv, NEW s \in DOMAIN backups,
         Modification!Restore(s) \/ Modification!RestoreDies(s)
  PROVE  ModificationInv'
<1>1. /\ backups' = [t \in DOMAIN backups |-> Modification!NoBackup] /\ second' = second
      /\ job' = Modification!NoJob("idle") /\ start' = files' /\ changes' = [success |-> TRUE, applied |-> 0]
  BY DEF Modification!Restore, Modification!RestoreDies, Modification!Forget
<1>2. Modification!TypeOK /\ files \in Modification!Files /\ backups[s].saved \in Modification!Files
  BY DEF ModificationInv, Modification!TypeOK
<1>3. files' \in Modification!Files
  <2>1. CASE Modification!Restore(s)
    BY <1>2, <2>1 DEF Modification!Restore, Modification!Files
  <2>2. CASE Modification!RestoreDies(s)
    <3>1. files' \in Modification!BrokenOff(backups[s])
      BY <2>2 DEF Modification!RestoreDies
    <3>2. CASE \E there \in SUBSET Path : files' = [p \in Path |-> IF p \in there THEN files[p] ELSE None]
      BY <1>2, <3>2 DEF Modification!Files
    <3>3. CASE \E half \in Modification!Listed(backups[s]), rest \in {Torn, None},
                  there \in SUBSET Modification!Listed(backups[s]) :
                 files' = [p \in Path |-> IF p = half THEN rest ELSE IF p \in there THEN backups[s].saved[p] ELSE None]
      BY <1>2, <3>3 DEF Modification!Files
    <3>4. \/ \E there \in SUBSET Path : files' = [p \in Path |-> IF p \in there THEN files[p] ELSE None]
          \/ \E half \in Modification!Listed(backups[s]), rest \in {Torn, None},
                there \in SUBSET Modification!Listed(backups[s]) :
               files' = [p \in Path |-> IF p = half THEN rest ELSE IF p \in there THEN backups[s].saved[p] ELSE None]
      BY <3>1 DEF Modification!BrokenOff
    <3> QED BY <3>2, <3>3, <3>4
  <2> QED BY <2>1, <2>2
<1>4. backups' \in [0 .. MaxSeconds -> ModificationBackup]
  BY <1>1, <1>2, ModificationNoBackup DEF Modification!TypeOK
<1>5. changes' \in [success : BOOLEAN, applied : {0}]
  BY <1>1
<1> QED BY <1>1, <1>2, <1>3, <1>4, <1>5, ModificationRests

\* Removing a backup keeps it.
LEMMA ModificationDeleteKeeps ==
  ASSUME Modification!PatchAssumption, ModificationInv, NEW s \in DOMAIN backups, Modification!DeleteBackup(s)
  PROVE  ModificationInv'
<1>1. /\ Modification!Free /\ backups' = [backups EXCEPT ![s] = Modification!NoBackup]
      /\ files' = files /\ second' = second /\ job' = job /\ start' = start /\ changes' = changes
  BY DEF Modification!DeleteBackup
<1>2. /\ Modification!TypeOK /\ ModificationRecords
      /\ backups \in [0 .. MaxSeconds -> ModificationBackup]
  BY DEF ModificationInv, Modification!TypeOK, ModificationBackup
<1>3. ModificationRecords'
  BY <1>1, <1>2 DEF ModificationRecords
<1>4. backups' \in [0 .. MaxSeconds -> ModificationBackup]
  BY <1>1, <1>2, ModificationNoBackup
<1>5. Modification!TypeOK'
  BY <1>1, <1>2, <1>4 DEF Modification!TypeOK, ModificationBackup
<1>6. Modification!ChangesAreThePrefix'
  <2>1. Modification!Told' = Modification!Told /\ Modification!Patch' = Modification!Patch
    BY <1>1 DEF Modification!Told, Modification!Patch
  <2> QED BY <1>1, <2>1 DEF ModificationInv, Modification!ChangesAreThePrefix
<1>7. ModificationSaving'
  BY <1>1 DEF ModificationSaving, Modification!Free
<1>8. backups'[job.stamp] = backups[job.stamp] \/ backups'[job.stamp] = Modification!NoBackup
  BY <1>1, <1>2 DEF Modification!TypeOK
<1>9. Modification!LastBackupHolds'
  BY <1>1, <1>8 DEF ModificationInv, Modification!LastBackupHolds, Modification!Holds, Modification!Begun
<1>10. Modification!OnlyOverwrittenIsLost'
  BY <1>1, <1>8 DEF ModificationInv, Modification!OnlyOverwrittenIsLost, Modification!Overwritten,
     Modification!Holds, Modification!Begun
<1> QED BY <1>3, <1>5, <1>6, <1>7, <1>9, <1>10 DEF ModificationInv

\* Every step keeps the invariant.
LEMMA ModificationStepHolds ==
  ASSUME Modification!PatchAssumption
  PROVE ModificationInv /\ [Modification!Next]_(Modification!vars) => ModificationInv'
<1> SUFFICES ASSUME ModificationInv, [Modification!Next]_(Modification!vars) PROVE ModificationInv'
  OBVIOUS
<1>1. ASSUME NEW patches \in PatchSets, Modification!Apply(patches) PROVE ModificationInv'
  BY <1>1, ModificationApplyKeeps
<1>2. ASSUME NEW p \in Path, Modification!SaveFile(p) PROVE ModificationInv'
  BY <1>2, ModificationSaveFileKeeps
<1>3. CASE Modification!SaveManifest
  BY <1>3, ModificationSaveManifestKeeps
<1>4. CASE Modification!SavingStops
  BY <1>4, ModificationSavingStopsKeeps
<1>5. CASE Modification!ApplyFile
  BY <1>5, ModificationApplyFileKeeps
<1>6. CASE Modification!FileFails \/ Modification!Done \/ Modification!Crash
  BY <1>6, ModificationEndKeeps
<1>7. ASSUME NEW s \in DOMAIN backups, Modification!Restore(s) \/ Modification!RestoreDies(s)
      PROVE ModificationInv'
  BY <1>7, ModificationRestoreKeeps
<1>8. ASSUME NEW s \in DOMAIN backups, Modification!DeleteBackup(s) PROVE ModificationInv'
  BY <1>8, ModificationDeleteKeeps
<1>9. ASSUME files' = files, backups' = backups, job' = job, start' = start, changes' = changes,
             second' = second \/ Modification!Tick
      PROVE  ModificationInv'
  <2>1. second' \in 0 .. MaxSeconds
    <3>1. CASE second' = second
      BY <3>1 DEF ModificationInv, Modification!TypeOK
    <3>2. CASE Modification!Tick
      <4>1. second' = second + 1 /\ second < MaxSeconds /\ second \in 0 .. MaxSeconds
        BY <3>2 DEF ModificationInv, Modification!TypeOK, Modification!Tick
      <4> QED BY <4>1 DEF Modification!PatchAssumption
    <3> QED BY <1>9, <3>1, <3>2
  <2>2. ModificationRecords' /\ Modification!TypeOK'
    BY <1>9, <2>1 DEF ModificationInv, ModificationRecords, Modification!TypeOK
  <2>3. Modification!Told' = Modification!Told /\ Modification!Patch' = Modification!Patch
    BY <1>9 DEF Modification!Told, Modification!Patch
  <2>4. Modification!ChangesAreThePrefix'
    BY <1>9, <2>3 DEF ModificationInv, Modification!ChangesAreThePrefix
  <2>5. ModificationSaving'
    <3>1. Modification!Saved(job.patches)' = Modification!Saved(job.patches)
      BY <1>9 DEF Modification!Saved
    <3> QED BY <1>9, <3>1 DEF ModificationInv, ModificationSaving
  <2>6. Modification!LastBackupHolds'
    BY <1>9 DEF ModificationInv, Modification!LastBackupHolds, Modification!Holds, Modification!Begun
  <2>7. Modification!OnlyOverwrittenIsLost'
    BY <1>9 DEF ModificationInv, Modification!OnlyOverwrittenIsLost, Modification!Overwritten,
       Modification!Holds, Modification!Begun
  <2> QED BY <2>2, <2>4, <2>5, <2>6, <2>7 DEF ModificationInv
<1>10. CASE Modification!Tick
  BY <1>9, <1>10 DEF Modification!Tick
<1>11. CASE UNCHANGED Modification!vars
  BY <1>9, <1>11 DEF Modification!vars
<1> QED BY <1>1, <1>2, <1>3, <1>4, <1>5, <1>6, <1>7, <1>8, <1>10, <1>11 DEF Modification!Next

\* Restoring the last backup brings back what it saved.
LEMMA ModificationLastRestores ==
  ASSUME ModificationInv PROVE Modification!Undoes
<1> SUFFICES ASSUME NEW p \in Path, Modification!Restore(job.stamp), Modification!Begun, start[p] # None,
                    NEW i \in DOMAIN job.patches, job.patches[i].path = p, job.patches[i].op # "ADD"
             PROVE  files'[p] = start[p]
  BY DEF Modification!Undoes
<1>1. backups[job.stamp] # Modification!NoBackup
  BY DEF Modification!Restore
<1>2. Modification!Holds(p)
  BY <1>1, Zenon DEF ModificationInv, Modification!LastBackupHolds
<1> QED BY <1>2 DEF Modification!Restore, Modification!Holds

\* What the engine promises follows.
LEMMA ModificationTells == ASSUME ModificationInv PROVE Modification!ChangesAreTold
BY DEF ModificationInv, Modification!ChangesAreTold

\* A step while the modification engine is driven is one of its own.
LEMMA ModificationMoves ==
  ASSUME Is("modification"), [Next]_vars PROVE [Modification!Next]_(Modification!vars) /\ Is("modification")'
<1>1. driven' = driven
  BY DEF Next, vars
<1>2. CASE Next
  BY <1>1, <1>2 DEF Next, Is
<1>3. CASE UNCHANGED vars
  BY <1>1, <1>3 DEF vars, ModificationVars, Modification!vars, Is
<1> QED BY <1>2, <1>3

\* The invariant holds for as long as the modification engine is driven.
LEMMA ModificationHolds == Spec => [](Is("modification") => ModificationInv)
<1>1. Init => (Is("modification") => ModificationInv)
  BY FrameworksAssumption, ModificationInitHolds DEF Init
<1>2. (Is("modification") => ModificationInv) /\ [Next]_vars => (Is("modification") => ModificationInv)'
  <2> SUFFICES ASSUME Is("modification") => ModificationInv, [Next]_vars, Is("modification")' PROVE ModificationInv'
    OBVIOUS
  <2>1. Is("modification")
    BY DEF Is, Next, vars
  <2>2. [Modification!Next]_(Modification!vars)
    BY <2>1, ModificationMoves
  <2> QED BY <2>1, <2>2, FrameworksAssumption, ModificationStepHolds
<1> QED BY <1>1, <1>2, PTL DEF Spec

-----------------------------------------------------------------------------
(* The goal loop: whatever its workflows do and a custom policy decides *)

AutonomousPhases == {"plan", "check", "iterate", "reported", "raised"}
AutonomousStatuses == {"none", "EMPTY", "COMPLETED", "PARTIAL", "FAILED"}

AutonomousTypes ==
  /\ goal \in Goals
  /\ done \in Seq(Autonomous!Iterations)
  /\ current \in 0 .. Len(done)
  /\ phase \in AutonomousPhases /\ status \in AutonomousStatuses
  /\ (status # "none") = (phase = "reported")

\* The last k iterations failed.
AutonomousFails(k) == k <= Len(done) /\ \A i \in Len(done) - k + 1 .. Len(done) : done[i].failed

\* Between two successes, and after the last, three fail at most, and not
\* three before another iteration.
AutonomousCounted ==
  \E k \in 0 .. 3 :
    /\ AutonomousFails(k)
    /\ Len(done) <= 3 * current + k
    /\ phase = "iterate" => k < 3

\* What must be so for another iteration.
AutonomousGoes ==
  phase = "iterate" =>
    /\ ~Autonomous!Stops(done, current) /\ goal.workflows # 0
    /\ \E decided \in [DOMAIN goal.policies -> {"CONTINUE", "SKIP", "STOP"}] :
         (\A i \in DOMAIN decided : decided[i] \in Autonomous!Decisions(goal.policies[i]))
           /\ Autonomous!ComesThrough(decided)

\* The loop has not begun before the plan.
AutonomousBegun == phase \in {"plan", "raised"} => done = <<>> /\ current = 0

\* The limit has not been passed; at the limit the loop ends.
AutonomousLimited == current <= goal.max /\ (current = goal.max => Len(done) <= 3 * goal.max)

AutonomousInv ==
  /\ AutonomousTypes
  /\ AutonomousCounted
  /\ AutonomousGoes
  /\ AutonomousBegun
  /\ AutonomousLimited
  /\ Autonomous!OnlyTheLastEnds
  /\ Autonomous!PoliciesAreObeyed

\* A goal has its limit, its policies and its workflows.
LEMMA AutonomousGoalType ==
  ASSUME Autonomous!GoalAssumption, AutonomousTypes
  PROVE  /\ goal.max \in Nat /\ goal.policies \in Seq(Autonomous!Policies) /\ goal.workflows \in Nat
         /\ goal.own \in BOOLEAN
BY DEF Autonomous!GoalAssumption, AutonomousTypes, Autonomous!Goal

\* A new iteration is well formed and is appended.
LEMMA AutonomousAppended ==
  ASSUME AutonomousTypes, NEW it \in Autonomous!Iterations, done' = Append(done, it)
  PROVE  /\ done' \in Seq(Autonomous!Iterations) /\ Len(done') = Len(done) + 1 /\ Len(done) \in Nat
         /\ done'[Len(done) + 1] = it
         /\ \A i \in 1 .. Len(done) : done'[i] = done[i]
BY DEF AutonomousTypes

\* The invariant holds at the start.
LEMMA AutonomousInitHolds == Autonomous!GoalAssumption /\ Autonomous!Init => AutonomousInv
<1> SUFFICES ASSUME Autonomous!GoalAssumption, Autonomous!Init PROVE AutonomousInv
  OBVIOUS
<1>1. AutonomousTypes
  BY DEF Autonomous!Init, AutonomousTypes, AutonomousPhases, AutonomousStatuses
<1>2. AutonomousCounted
  <2>1. AutonomousFails(0) /\ Len(done) <= 3 * current + 0
    BY DEF Autonomous!Init, AutonomousFails
  <2> QED BY <2>1 DEF AutonomousCounted, Autonomous!Init
<1>3. AutonomousGoes /\ AutonomousBegun
  BY DEF Autonomous!Init, AutonomousGoes, AutonomousBegun
<1>4. AutonomousLimited
  BY <1>1, AutonomousGoalType DEF Autonomous!Init, AutonomousLimited
<1>5. Autonomous!OnlyTheLastEnds /\ Autonomous!PoliciesAreObeyed
  BY DEF Autonomous!Init, Autonomous!OnlyTheLastEnds, Autonomous!PoliciesAreObeyed
<1> QED BY <1>1, <1>2, <1>3, <1>4, <1>5 DEF AutonomousInv

\* The steps that run nothing.
LEMMA AutonomousQuietStep ==
  ASSUME AutonomousInv, UNCHANGED <<goal, done, current>>, phase' \in {"check", "reported", "raised"},
         phase \in {"plan", "check"}, status' \in AutonomousStatuses,
         (status' # "none") = (phase' = "reported"),
         phase' = "raised" => phase = "plan"
  PROVE  AutonomousInv'
<1>1. AutonomousTypes'
  BY DEF AutonomousInv, AutonomousTypes, AutonomousPhases
<1>2. AutonomousCounted'
  <2>1. PICK k \in 0 .. 3 : AutonomousFails(k) /\ Len(done) <= 3 * current + k
    BY DEF AutonomousInv, AutonomousCounted
  <2>2. AutonomousFails(k)' = AutonomousFails(k)
    BY DEF AutonomousFails
  <2> QED BY <2>1, <2>2, Zenon DEF AutonomousCounted
<1>3. AutonomousGoes' /\ AutonomousBegun'
  BY DEF AutonomousInv, AutonomousGoes, AutonomousBegun
<1>4. AutonomousLimited' /\ Autonomous!OnlyTheLastEnds' /\ Autonomous!PoliciesAreObeyed'
  BY DEF AutonomousInv, AutonomousLimited, Autonomous!OnlyTheLastEnds, Autonomous!PoliciesAreObeyed
<1> QED BY <1>1, <1>2, <1>3, <1>4 DEF AutonomousInv

\* A check that goes on has found none of the reasons to end.
LEMMA AutonomousCheckGoesOn ==
  ASSUME Autonomous!GoalAssumption, AutonomousInv, phase = "check", phase' = "iterate",
         UNCHANGED <<goal, done, current, status>>, ~Autonomous!Stops(done, current), goal.workflows # 0,
         NEW decided \in [DOMAIN goal.policies -> {"CONTINUE", "SKIP", "STOP"}],
         \A i \in DOMAIN decided : decided[i] \in Autonomous!Decisions(goal.policies[i]), Autonomous!ComesThrough(decided)
  PROVE  AutonomousInv'
<1>1. AutonomousTypes'
  BY DEF AutonomousInv, AutonomousTypes, AutonomousPhases
<1>2. AutonomousCounted'
  <2>1. PICK k \in 0 .. 3 : AutonomousFails(k) /\ Len(done) <= 3 * current + k
    BY DEF AutonomousInv, AutonomousCounted
  <2>2. Len(done) \in Nat
    BY DEF AutonomousInv, AutonomousTypes
  <2>3. k < 3
    BY <2>1, <2>2 DEF AutonomousFails, Autonomous!Stops, Autonomous!RepeatedFailure
  <2>4. AutonomousFails(k)' = AutonomousFails(k)
    BY DEF AutonomousFails
  <2> QED BY <2>1, <2>3, <2>4, Zenon DEF AutonomousCounted
<1>3. AutonomousGoes'
  <2>1. Autonomous!Stops(done, current)' = Autonomous!Stops(done, current)
    BY DEF Autonomous!Stops, Autonomous!GoalAchieved, Autonomous!VerificationSuccessful,
       Autonomous!MaxIterationsReached, Autonomous!RepeatedFailure
  <2>2. \A p : Autonomous!Decisions(p)' = Autonomous!Decisions(p)
    BY DEF Autonomous!Decisions, Autonomous!MaxIterationsReached
  <2>3. Autonomous!ComesThrough(decided)' = Autonomous!ComesThrough(decided)
    BY DEF Autonomous!ComesThrough
  <2> QED BY <2>1, <2>2, <2>3 DEF AutonomousGoes
<1>4. AutonomousBegun' /\ AutonomousLimited' /\ Autonomous!OnlyTheLastEnds' /\ Autonomous!PoliciesAreObeyed'
  BY DEF AutonomousInv, AutonomousBegun, AutonomousLimited, Autonomous!OnlyTheLastEnds,
     Autonomous!PoliciesAreObeyed
<1> QED BY <1>1, <1>2, <1>3, <1>4 DEF AutonomousInv

\* Only a custom policy can skip the ones behind it.
LEMMA AutonomousOnlyCustomSkips ==
  ASSUME NEW p \in Autonomous!Policies, p # "custom"
  PROVE  "SKIP" \notin Autonomous!Decisions(p)
<1>1. CASE p = "sequential"
  BY <1>1 DEF Autonomous!Decisions
<1>2. CASE p = "maximum"
  BY <1>2 DEF Autonomous!Decisions
<1>3. CASE p = "stop_on_failure"
  BY <1>3 DEF Autonomous!Decisions
<1>4. CASE p = "verification_gate"
  BY <1>4 DEF Autonomous!Decisions
<1> QED BY <1>1, <1>2, <1>3, <1>4 DEF Autonomous!Policies

\* So a policy with no custom one before it has let the loop go on.
LEMMA AutonomousPolicyWasAsked ==
  ASSUME Autonomous!GoalAssumption, AutonomousTypes, NEW i \in DOMAIN goal.policies,
         \A j \in 1 .. i - 1 : goal.policies[j] # "custom", goal.policies[i] # "custom",
         NEW decided \in [DOMAIN goal.policies -> {"CONTINUE", "SKIP", "STOP"}],
         \A j \in DOMAIN decided : decided[j] \in Autonomous!Decisions(goal.policies[j]), Autonomous!ComesThrough(decided)
  PROVE  "CONTINUE" \in Autonomous!Decisions(goal.policies[i])
<1>1. goal.policies \in Seq(Autonomous!Policies) /\ DOMAIN decided = 1 .. Len(goal.policies)
        /\ Len(goal.policies) \in Nat
  BY AutonomousGoalType
<1>2. Len(decided) = Len(goal.policies)
  BY <1>1
<1>3. PICK n \in 0 .. Len(decided) :
        (\A j \in 1 .. n : decided[j] = "CONTINUE") /\ (n < Len(decided) => decided[n + 1] = "SKIP")
  BY DEF Autonomous!ComesThrough
<1>4. n >= i
  <2> SUFFICES ASSUME n < i PROVE FALSE
    BY <1>1, <1>2
  <2>1. n + 1 \in 1 .. Len(goal.policies) /\ n + 1 <= i /\ decided[n + 1] = "SKIP"
    BY <1>1, <1>2, <1>3
  <2>2. goal.policies[n + 1] \in Autonomous!Policies /\ goal.policies[n + 1] # "custom"
    <3>1. n + 1 = i \/ n + 1 \in 1 .. i - 1
      BY <1>1, <2>1
    <3> QED BY <1>1, <2>1, <3>1
  <2>3. "SKIP" \in Autonomous!Decisions(goal.policies[n + 1])
    BY <1>1, <2>1
  <2> QED BY <2>2, <2>3, AutonomousOnlyCustomSkips
<1>5. decided[i] = "CONTINUE"
  BY <1>1, <1>2, <1>3, <1>4
<1> QED BY <1>1, <1>5

\* An iteration keeps it, whichever of its workflows fails.
LEMMA AutonomousIterateStep ==
  ASSUME Autonomous!GoalAssumption, AutonomousInv, Autonomous!Iterate
  PROVE  AutonomousInv'
<1>1. phase = "iterate" /\ phase' = "check" /\ UNCHANGED <<goal, status>>
  BY DEF Autonomous!Iterate
<1>2. /\ ~Autonomous!Stops(done, current) /\ goal.workflows # 0
      /\ \E decided \in [DOMAIN goal.policies -> {"CONTINUE", "SKIP", "STOP"}] :
           (\A i \in DOMAIN decided : decided[i] \in Autonomous!Decisions(goal.policies[i]))
             /\ Autonomous!ComesThrough(decided)
  BY <1>1 DEF AutonomousInv, AutonomousGoes
<1>3. PICK score \in {"low", "fair", "high"}, verified \in BOOLEAN : Autonomous!Record(Autonomous!Outcome(score, verified))
  BY DEF Autonomous!Iterate
<1> DEFINE it == Autonomous!Outcome(score, verified)
<1>4. goal.max \in Nat /\ goal.workflows \in Nat \ {0} /\ current \in Nat
  BY <1>2, AutonomousGoalType DEF AutonomousInv, AutonomousTypes
<1>5. it \in Autonomous!Iterations
  <2>1. current + 1 \in Nat /\ current % goal.workflows \in Nat
    BY <1>4
  <2> QED BY <2>1 DEF Autonomous!Outcome, Autonomous!Iterations
<1>6. done' = Append(done, it) /\ current' = IF it.failed THEN current ELSE current + 1
  BY <1>3 DEF Autonomous!Record
<1> HIDE DEF it
<1>7. /\ done' \in Seq(Autonomous!Iterations) /\ Len(done') = Len(done) + 1 /\ Len(done) \in Nat
      /\ done'[Len(done) + 1] = it
      /\ \A i \in 1 .. Len(done) : done'[i] = done[i]
  BY <1>5, <1>6, AutonomousAppended DEF AutonomousInv
<1>8. AutonomousTypes'
  <2>1. current' \in 0 .. Len(done')
    BY <1>6, <1>7 DEF AutonomousInv, AutonomousTypes
  <2> QED BY <1>1, <1>7, <2>1 DEF AutonomousInv, AutonomousTypes, AutonomousPhases
<1>9. PICK k \in 0 .. 2 : AutonomousFails(k) /\ Len(done) <= 3 * current + k
  BY <1>1 DEF AutonomousInv, AutonomousCounted
<1>10. AutonomousCounted'
  <2>1. CASE it.failed
    <3>1. k + 1 \in 0 .. 3 /\ Len(done') <= 3 * current' + (k + 1)
      BY <1>4, <1>6, <1>7, <1>9, <2>1
    <3>2. AutonomousFails(k + 1)'
      <4>1. k + 1 <= Len(done')
        BY <1>7, <1>9 DEF AutonomousFails
      <4>2. ASSUME NEW i \in Len(done') - (k + 1) + 1 .. Len(done') PROVE done'[i].failed
        <5>1. i = Len(done) + 1 \/ (i \in Len(done) - k + 1 .. Len(done) /\ i \in 1 .. Len(done))
          BY <1>7, <1>9 DEF AutonomousFails
        <5> QED BY <1>7, <1>9, <2>1, <5>1 DEF AutonomousFails
      <4> QED BY <4>1, <4>2 DEF AutonomousFails
    <3> QED BY <1>1, <3>1, <3>2 DEF AutonomousCounted
  <2>2. CASE ~it.failed
    <3>1. Len(done') <= 3 * current' + 0
      BY <1>4, <1>6, <1>7, <1>9, <2>2
    <3>2. AutonomousFails(0)'
      BY <1>7 DEF AutonomousFails
    <3> QED BY <1>1, <3>1, <3>2 DEF AutonomousCounted
  <2> QED BY <2>1, <2>2
<1>11. AutonomousGoes' /\ AutonomousBegun'
  BY <1>1 DEF AutonomousGoes, AutonomousBegun
<1>12. AutonomousLimited'
  <2>1. current < goal.max
    BY <1>2, <1>4 DEF Autonomous!Stops, Autonomous!MaxIterationsReached
  <2> QED BY SMTT(30), <1>1, <1>4, <1>6, <1>7, <1>9, <2>1 DEF AutonomousLimited
<1>13. Autonomous!OnlyTheLastEnds'
  <2> SUFFICES ASSUME NEW n \in 1 .. Len(done)
               PROVE  /\ done[n].score # "high" /\ ~done[n].verified
                      /\ n >= 3 => \E i \in n - 2 .. n : ~done[i].failed
    BY <1>7 DEF Autonomous!OnlyTheLastEnds
  <2>1. CASE n \in 1 .. Len(done) - 1
    BY <2>1 DEF AutonomousInv, Autonomous!OnlyTheLastEnds
  <2>2. CASE n = Len(done)
    BY <1>2, <1>7, <2>2 DEF Autonomous!Stops, Autonomous!GoalAchieved,
       Autonomous!VerificationSuccessful, Autonomous!RepeatedFailure, Autonomous!Newest
  <2> QED BY <1>7, <2>1, <2>2
<1>14. Autonomous!PoliciesAreObeyed'
  <2> SUFFICES ASSUME NEW i \in DOMAIN goal.policies, \A j \in 1 .. i - 1 : goal.policies[j] # "custom"
               PROVE  /\ goal.policies[i] = "stop_on_failure" => \A n \in 1 .. Len(done) : ~done[n].failed
                      /\ goal.policies[i] = "verification_gate" => Len(done) = 0
    BY <1>1, <1>7 DEF Autonomous!PoliciesAreObeyed
  <2>1. ASSUME goal.policies[i] # "custom" PROVE "CONTINUE" \in Autonomous!Decisions(goal.policies[i])
    BY <1>2, <2>1, AutonomousPolicyWasAsked DEF AutonomousInv
  <2>2. ASSUME goal.policies[i] = "stop_on_failure", NEW n \in 1 .. Len(done) PROVE ~done[n].failed
    <3>1. done = <<>> \/ ~Autonomous!Newest(done).failed
      BY <2>1, <2>2 DEF Autonomous!Decisions
    <3>2. CASE n = Len(done)
      BY <1>7, <3>1, <3>2 DEF Autonomous!Newest
    <3>3. CASE n \in 1 .. Len(done) - 1
      BY <2>2, <3>3 DEF AutonomousInv, Autonomous!PoliciesAreObeyed
    <3> QED BY <1>7, <3>2, <3>3
  <2>3. ASSUME goal.policies[i] = "verification_gate" PROVE Len(done) = 0
    <3>1. done = <<>> \/ Autonomous!Newest(done).verified
      BY <2>1, <2>3 DEF Autonomous!Decisions
    <3>2. done = <<>> \/ ~Autonomous!Newest(done).verified
      BY <1>2 DEF Autonomous!Stops, Autonomous!VerificationSuccessful
    <3> QED BY <3>1, <3>2
  <2> QED BY <2>2, <2>3
<1> QED BY <1>8, <1>10, <1>11, <1>12, <1>13, <1>14 DEF AutonomousInv

\* Every step keeps the invariant.
LEMMA AutonomousStepHolds ==
  ASSUME Autonomous!GoalAssumption, AutonomousInv, [Autonomous!Next]_(Autonomous!vars)
  PROVE  AutonomousInv'
<1>1. CASE Autonomous!Plan
  BY <1>1, AutonomousQuietStep DEF Autonomous!Plan, AutonomousInv, AutonomousTypes
<1>2. CASE Autonomous!Check
  <2>1. CASE Autonomous!Report
    <3>1. Autonomous!FinalStatus(done) \in AutonomousStatuses \ {"none"}
      BY DEF Autonomous!FinalStatus, AutonomousStatuses
    <3> QED BY <1>2, <2>1, <3>1, AutonomousQuietStep DEF Autonomous!Check, Autonomous!Report
  <2>2. CASE ~Autonomous!Report
    <3>1. /\ phase = "check" /\ phase' = "iterate" /\ UNCHANGED <<goal, done, current, status>>
          /\ ~Autonomous!Stops(done, current) /\ goal.workflows # 0
      BY <1>2, <2>2 DEF Autonomous!Check
    <3>2. PICK decided \in [DOMAIN goal.policies -> {"CONTINUE", "SKIP", "STOP"}] :
            (\A i \in DOMAIN decided : decided[i] \in Autonomous!Decisions(goal.policies[i]))
              /\ Autonomous!ComesThrough(decided)
      BY <1>2, <2>2 DEF Autonomous!Check
    <3> QED BY <3>1, <3>2, AutonomousCheckGoesOn
  <2> QED BY <2>1, <2>2
<1>3. CASE Autonomous!Iterate
  BY <1>3, AutonomousIterateStep
<1>4. CASE UNCHANGED Autonomous!vars
  <2>1. /\ UNCHANGED <<goal, done, current, phase, status>>
    BY <1>4 DEF Autonomous!vars
  <2>2. /\ Autonomous!Stops(done, current)' = Autonomous!Stops(done, current)
             /\ (\A p : Autonomous!Decisions(p)' = Autonomous!Decisions(p))
        /\ (\A d : Autonomous!ComesThrough(d)' = Autonomous!ComesThrough(d))
             /\ (\A k : AutonomousFails(k)' = AutonomousFails(k))
    BY <2>1 DEF Autonomous!Stops, Autonomous!GoalAchieved, Autonomous!VerificationSuccessful,
       Autonomous!MaxIterationsReached, Autonomous!RepeatedFailure,
                Autonomous!Decisions, Autonomous!ComesThrough, AutonomousFails
  <2> QED
    BY <2>1, <2>2 DEF AutonomousInv, AutonomousTypes, AutonomousCounted, AutonomousGoes,
       AutonomousBegun, AutonomousLimited, Autonomous!OnlyTheLastEnds, Autonomous!PoliciesAreObeyed
<1> QED BY <1>1, <1>2, <1>3, <1>4 DEF Autonomous!Next

\* What the loop promises follows.
LEMMA AutonomousEnds == ASSUME Autonomous!GoalAssumption, AutonomousInv PROVE Autonomous!LoopIsBounded
<1>1. goal.max \in Nat /\ Len(done) \in Nat /\ current \in Nat
  BY AutonomousGoalType DEF AutonomousInv, AutonomousTypes
<1>2. PICK k \in 0 .. 3 : Len(done) <= 3 * current + k
  BY DEF AutonomousInv, AutonomousCounted
<1>3. current <= goal.max /\ (current = goal.max => Len(done) <= 3 * goal.max)
  BY DEF AutonomousInv, AutonomousLimited
<1>4. Len(done) <= 3 * goal.max
  BY <1>1, <1>2, <1>3
<1>5. Autonomous!WorkIsBounded
  BY <1>1, <1>3, <1>4 DEF Autonomous!WorkIsBounded
<1> QED
  BY <1>5 DEF AutonomousInv, AutonomousTypes, AutonomousPhases, AutonomousStatuses,
     Autonomous!LoopIsBounded, Autonomous!TypeOK

\* A step while the goal loop is driven is one of its own.
LEMMA AutonomousMoves ==
  ASSUME Is("autonomous"), [Next]_vars PROVE [Autonomous!Next]_(Autonomous!vars) /\ Is("autonomous")'
<1>1. driven' = driven
  BY DEF Next, vars
<1>2. CASE Next
  BY <1>1, <1>2 DEF Next, Is
<1>3. CASE UNCHANGED vars
  BY <1>1, <1>3 DEF vars, AutonomousVars, Autonomous!vars, Is
<1> QED BY <1>2, <1>3

\* The invariant holds for as long as the goal loop is driven.
LEMMA AutonomousHolds == Spec => [](Is("autonomous") => AutonomousInv)
<1>1. Init => (Is("autonomous") => AutonomousInv)
  BY FrameworksAssumption, AutonomousInitHolds DEF Init
<1>2. (Is("autonomous") => AutonomousInv) /\ [Next]_vars => (Is("autonomous") => AutonomousInv)'
  <2> SUFFICES ASSUME Is("autonomous") => AutonomousInv, [Next]_vars, Is("autonomous")' PROVE AutonomousInv'
    OBVIOUS
  <2>1. Is("autonomous")
    BY DEF Is, Next, vars
  <2>2. [Autonomous!Next]_(Autonomous!vars)
    BY <2>1, AutonomousMoves
  <2> QED BY <2>1, <2>2, FrameworksAssumption, AutonomousStepHolds
<1> QED BY <1>1, <1>2, PTL DEF Spec

-----------------------------------------------------------------------------
(* Sessions: whatever is created, saved, removed and restarted *)

\* The way to completion. A session has come some of it, and may have left it.
SessionWay == <<"CREATED", "PLANNING", "EXECUTING", "VERIFYING", "COMPLETED">>
SessionWalk(p) ==
  /\ p \in Seq(Session!Status) /\ Len(p) \in 1 .. 5
  /\ \A i \in 1 .. Len(p) - 1 : p[i] = SessionWay[i]
  /\ p[Len(p)] # SessionWay[Len(p)] => p[Len(p)] \in {"FAILED", "CANCELLED"}

\* What is registered or saved has walked it.
SessionWalked ==
  \A r \in Request :
    /\ registry[r] # None => SessionWalk(registry[r].path)
    /\ disk[r] \notin {None, Torn} => SessionWalk(disk[r].path) /\ disk[r].life <= lives[r]

SessionInv == Session!TypeOK /\ Session!ArtifactsOfThisLife /\ SessionWalked

\* The way of a session, place by place.
LEMMA SessionWayIs ==
  /\ SessionWay[1] = "CREATED" /\ SessionWay[2] = "PLANNING" /\ SessionWay[3] = "EXECUTING"
  /\ SessionWay[4] = "VERIFYING" /\ SessionWay[5] = "COMPLETED"
  /\ \A i \in 1 .. 4 : SessionWay[i] \notin Session!Terminal
  /\ \A i \in 1 .. 5 : SessionWay[i] \in Session!Status
<1>1. /\ SessionWay[1] = "CREATED" /\ SessionWay[2] = "PLANNING" /\ SessionWay[3] = "EXECUTING"
      /\ SessionWay[4] = "VERIFYING" /\ SessionWay[5] = "COMPLETED"
  BY DEF SessionWay
<1>2. \A i \in 1 .. 5 : i = 1 \/ i = 2 \/ i = 3 \/ i = 4 \/ i = 5
  OBVIOUS
<1>3. \A i \in 1 .. 4 : SessionWay[i] \notin Session!Terminal
  BY <1>1, <1>2 DEF Session!Terminal
<1>4. \A i \in 1 .. 5 : SessionWay[i] \in Session!Status
  BY <1>1, <1>2 DEF Session!Status, Session!Terminal
<1> QED BY <1>1, <1>3, <1>4

\* An allowed step prolongs a walk, and leaves from a status that does not end
\* it.
LEMMA SessionWalkGoesOn ==
  ASSUME NEW p, SessionWalk(p), NEW next \in Session!Allowed(Session!Current(p))
  PROVE  SessionWalk(Append(p, next)) /\ next \in Session!Status /\ Session!Current(p) \notin Session!Terminal
<1>1. Session!Current(p) = p[Len(p)] /\ p \in Seq(Session!Status) /\ Len(p) \in 1 .. 5
  BY DEF Session!Current, SessionWalk
<1>2. p[Len(p)] = SessionWay[Len(p)] /\ Len(p) # 5
  <2>1. p[Len(p)] \notin {"FAILED", "CANCELLED", "COMPLETED"}
    BY <1>1 DEF Session!Allowed
  <2> QED BY <2>1, SessionWayIs, Zenon DEF SessionWalk
<1>3. next = SessionWay[Len(p) + 1] \/ next \in {"FAILED", "CANCELLED"}
  <2>1. CASE Len(p) = 1
    BY <1>1, <1>2, <2>1, SessionWayIs DEF Session!Allowed
  <2>2. CASE Len(p) = 2
    BY <1>1, <1>2, <2>2, SessionWayIs DEF Session!Allowed
  <2>3. CASE Len(p) = 3
    BY <1>1, <1>2, <2>3, SessionWayIs DEF Session!Allowed
  <2>4. CASE Len(p) = 4
    BY <1>1, <1>2, <2>4, SessionWayIs DEF Session!Allowed
  <2> QED BY <1>1, <1>2, <2>1, <2>2, <2>3, <2>4
<1>4. Len(p) \in 1 .. 4 /\ Len(p) \in Nat
  BY <1>1, <1>2
<1>5. Len(p) + 1 \in 1 .. 5
  <2> DEFINE n == Len(p)
  <2> HIDE DEF n
  <2>1. n \in 1 .. 4 => n + 1 \in 1 .. 5
    OBVIOUS
  <2> QED BY <1>4, <2>1 DEF n
<1>6. next \in Session!Status
  <2>1. {"FAILED", "CANCELLED"} \subseteq Session!Status
    BY DEF Session!Status, Session!Terminal
  <2> QED BY <1>3, <1>5, <2>1, SessionWayIs
<1>7. Session!Current(p) \notin Session!Terminal
  BY <1>1, <1>2, <1>4, SessionWayIs, Zenon DEF Session!Terminal
<1>8. /\ Append(p, next) \in Seq(Session!Status) /\ Len(Append(p, next)) = Len(p) + 1
      /\ Append(p, next)[Len(p) + 1] = next
      /\ \A i \in 1 .. Len(p) : Append(p, next)[i] = p[i]
  BY <1>1, <1>4, <1>6
<1>9. \A i \in 1 .. Len(p) : Append(p, next)[i] = SessionWay[i]
  <2> TAKE i \in 1 .. Len(p)
  <2>1. i \in 1 .. Len(p) - 1 \/ i = Len(p)
    BY <1>4
  <2> QED BY <1>2, <1>8, <2>1 DEF SessionWalk
<1> QED BY SMTT(30), <1>3, <1>4, <1>6, <1>7, <1>8, <1>9 DEF SessionWalk

\* A completed session came all the way.
LEMMA SessionWholeWalk ==
  ASSUME NEW p, SessionWalk(p), \E i \in DOMAIN p : p[i] = "COMPLETED"
  PROVE  p = SessionWay
<1>1. p \in Seq(Session!Status) /\ Len(p) \in 1 .. 5
  BY DEF SessionWalk
<1>2. PICK i \in 1 .. Len(p) : p[i] = "COMPLETED"
  BY <1>1
<1> DEFINE n == Len(p)
<1>0. n \in 1 .. 5 /\ i \in 1 .. n
  BY <1>1
<1> HIDE DEF n
<1>3. i = 5 /\ n = 5
  <2>1. CASE i < n
    <3>1. i \in 1 .. n - 1 /\ i \in 1 .. 4
      BY <1>0, <2>1
    <3> QED BY <1>2, <3>1, SessionWayIs DEF SessionWalk, Session!Terminal, n
  <2>2. CASE i = n
    <3>1. p[i] = SessionWay[i]
      BY <1>2, <2>2 DEF SessionWalk, n
    <3>2. SessionWay[i] \in Session!Terminal
      BY <1>2, <3>1 DEF Session!Terminal
    <3> QED BY <1>0, <2>2, <3>2, SessionWayIs
  <2> QED BY <1>0, <2>1, <2>2
<1>4. Len(p) = 5
  BY <1>3 DEF n
<1>5. \A j \in 1 .. 5 : p[j] = SessionWay[j]
  <2>1. p[5] = SessionWay[5]
    BY <1>2, <1>3, SessionWayIs
  <2>2. \A j \in 1 .. 4 : p[j] = SessionWay[j]
    BY <1>4 DEF SessionWalk
  <2> QED BY <2>1, <2>2
<1>6. SessionWay \in Seq(Session!Status) /\ Len(SessionWay) = 5
  BY DEF SessionWay, Session!Status, Session!Terminal
<1>7. DOMAIN p = 1 .. 5 /\ DOMAIN SessionWay = 1 .. 5
  BY <1>1, <1>4, <1>6
<1> QED BY <1>1, <1>4, <1>5, <1>6, <1>7

\* The invariant holds at the start.
LEMMA SessionInitHolds == ASSUME Session!SessionAssumption, Session!Init PROVE SessionInv
<1>1. 0 \in 0 .. MaxLives
  BY DEF Session!SessionAssumption
<1>2. Session!TypeOK
  BY <1>1 DEF Session!Init, Session!TypeOK
<1> QED BY <1>2 DEF Session!Init, SessionInv, Session!ArtifactsOfThisLife, SessionWalked

\* Creating a session keeps it.
LEMMA SessionCreateStep ==
  ASSUME Session!SessionAssumption, SessionInv, NEW r \in Request, Session!Create(r)
  PROVE  SessionInv'
<1> DEFINE new == [life |-> lives[r] + 1, path |-> <<"CREATED">>]
<1>1. /\ lives \in [Request -> 0 .. MaxLives] /\ MaxLives \in Nat /\ lives[r] < MaxLives
      /\ lives' = [lives EXCEPT ![r] = lives[r] + 1] /\ disk' = disk
  BY DEF SessionInv, Session!TypeOK, Session!SessionAssumption, Session!Create
<1>2. lives'[r] = lives[r] + 1 /\ lives[r] + 1 \in 1 .. MaxLives
  BY <1>1
<1>3. /\ registry' = [registry EXCEPT ![r] = new] /\ artifacts' = [artifacts EXCEPT ![r] = <<>>]
      /\ statistics' = [statistics EXCEPT ![r] = FALSE]
  BY <1>2, Zenon DEF Session!Create
<1>4. new \in Session!Sessions
  BY <1>2 DEF Session!Sessions, Session!Status
<1>5. lives' \in [Request -> 0 .. MaxLives] /\ \A q \in Request : lives[q] <= lives'[q]
  BY <1>1, <1>2
<1>6. new.life = lives[r] + 1 /\ new.path = <<"CREATED">> /\ SessionWalk(<<"CREATED">>)
  BY SessionWayIs DEF SessionWalk, Session!Status
<1> HIDE DEF new
<1>7. /\ registry' \in [Request -> Session!Sessions \cup {None}] /\ registry'[r] = new
      /\ \A q \in Request : q # r => registry'[q] = registry[q]
  BY <1>3, <1>4 DEF SessionInv, Session!TypeOK
<1>8. /\ artifacts' \in [Request -> Seq(1 .. MaxLives) \cup {None}] /\ artifacts'[r] = <<>>
      /\ \A q \in Request : q # r => artifacts'[q] = artifacts[q]
  BY <1>3 DEF SessionInv, Session!TypeOK
<1>9. statistics' \in [Request -> BOOLEAN \cup {None}]
  BY <1>3 DEF SessionInv, Session!TypeOK
<1>10. \A q \in Request : registry'[q] # None => registry'[q].life <= lives'[q]
  <2> TAKE q \in Request
  <2>1. CASE q = r
    BY <1>1, <1>2, <1>6, <1>7, <2>1
  <2>2. CASE q # r
    BY <1>1, <1>7, <2>2 DEF SessionInv, Session!TypeOK
  <2> QED BY <2>1, <2>2
<1>11. Session!TypeOK'
  BY <1>1, <1>5, <1>7, <1>8, <1>9, <1>10 DEF SessionInv, Session!TypeOK, Session!Sessions
<1>12. Session!ArtifactsOfThisLife'
  BY <1>7, <1>8 DEF SessionInv, Session!ArtifactsOfThisLife
<1>13. SessionWalked'
  <2> SUFFICES ASSUME NEW q \in Request
               PROVE  /\ registry'[q] # None => SessionWalk(registry'[q].path)
                      /\ disk[q] \notin {None, Torn} => SessionWalk(disk[q].path) /\ disk[q].life <= lives'[q]
    BY <1>1 DEF SessionWalked, SessionWalk
  <2>1. registry'[q] # None => SessionWalk(registry'[q].path)
    BY <1>6, <1>7 DEF SessionInv, SessionWalked
  <2>2. ASSUME disk[q] \notin {None, Torn} PROVE SessionWalk(disk[q].path) /\ disk[q].life <= lives'[q]
    <3>1. SessionWalk(disk[q].path) /\ disk[q].life <= lives[q] /\ disk[q] \in Session!Sessions
      BY <2>2 DEF SessionInv, SessionWalked, Session!TypeOK
    <3>2. disk[q].life \in Nat /\ lives[q] \in Nat /\ lives'[q] \in Nat /\ lives[q] <= lives'[q]
      BY <1>1, <1>5, <3>1 DEF Session!Sessions
    <3> QED BY <3>1, <3>2
  <2> QED BY <2>1, <2>2
<1> QED BY <1>11, <1>12, <1>13 DEF SessionInv

\* A record updated in its path, in full.
LEMMA SessionPathUpdated ==
  ASSUME NEW L, NEW P, NEW s \in [life : L, path : P], NEW path
  PROVE  [s EXCEPT !.path = path] = [life |-> s.life, path |-> path]
OBVIOUS

\* Moving a session on keeps it.
LEMMA SessionUpdateStep ==
  ASSUME Session!SessionAssumption, SessionInv, NEW r \in Request, NEW next \in Session!Status,
         Session!UpdateStatus(r, next)
  PROVE  SessionInv'
<1>1. /\ registry[r] \in Session!Sessions /\ SessionWalk(registry[r].path) /\ registry[r] # None
      /\ UNCHANGED <<artifacts, statistics, disk, lives>>
  BY DEF Session!UpdateStatus, SessionInv, Session!TypeOK, SessionWalked
<1> DEFINE new == [life |-> registry[r].life, path |-> Append(registry[r].path, next)]
<1>2. registry' = [registry EXCEPT ![r] = new]
  <2>1. registry' = [registry EXCEPT ![r] = [registry[r] EXCEPT !.path = Append(registry[r].path, next)]]
    BY DEF Session!UpdateStatus
  <2>2. [registry[r] EXCEPT !.path = Append(registry[r].path, next)] = new
    BY <1>1, SessionPathUpdated, Zenon DEF Session!Sessions
  <2> QED BY <2>1, <2>2, Zenon
<1>3. SessionWalk(Append(registry[r].path, next))
  BY <1>1, SessionWalkGoesOn DEF Session!UpdateStatus
<1>4. new \in Session!Sessions /\ new.life = registry[r].life /\ SessionWalk(new.path)
  BY <1>1, <1>3 DEF Session!Sessions, SessionWalk
<1> HIDE DEF new
<1>6. /\ registry' \in [Request -> Session!Sessions \cup {None}] /\ registry'[r] = new
      /\ \A q \in Request : q # r => registry'[q] = registry[q]
  BY <1>2, <1>4 DEF SessionInv, Session!TypeOK
<1>7. Session!TypeOK'
  BY <1>1, <1>4, <1>6, Zenon DEF SessionInv, Session!TypeOK, Session!Sessions
<1>8. Session!ArtifactsOfThisLife'
  BY <1>1, <1>4, <1>6 DEF SessionInv, Session!ArtifactsOfThisLife
<1>9. SessionWalked'
  BY <1>1, <1>4, <1>6 DEF SessionInv, SessionWalked, SessionWalk
<1> QED BY <1>7, <1>8, <1>9 DEF SessionInv

\* What is attached belongs to the session that is there.
LEMMA SessionAttachStep ==
  ASSUME Session!SessionAssumption, SessionInv, NEW r \in Request, Session!AttachArtifact(r)
  PROVE  SessionInv'
<1>1. /\ registry[r] # None /\ registry[r].life \in 1 .. MaxLives
           /\ UNCHANGED <<registry, statistics, disk, lives>>
      /\ artifacts[r] # None => artifacts[r] \in Seq(1 .. MaxLives)
  BY DEF Session!AttachArtifact, SessionInv, Session!TypeOK, Session!Sessions
<1> DEFINE new == IF artifacts[r] = None THEN <<registry[r].life>> ELSE Append(artifacts[r], registry[r].life)
<1>2. /\ artifacts' = [artifacts EXCEPT ![r] = new]
      /\ new \in Seq(1 .. MaxLives)
      /\ \A i \in DOMAIN new : new[i] = registry[r].life
  <2>1. artifacts' = [artifacts EXCEPT ![r] = new]
    BY DEF Session!AttachArtifact
  <2>2. CASE artifacts[r] = None
    BY <1>1, <2>1, <2>2
  <2>3. CASE artifacts[r] # None
    <3>1. artifacts[r] \in Seq(1 .. MaxLives)
            /\ \A i \in DOMAIN artifacts[r] : artifacts[r][i] = registry[r].life
      BY <1>1, <2>3 DEF SessionInv, Session!ArtifactsOfThisLife
    <3> DEFINE a == artifacts[r]  l == registry[r].life
    <3>2. new = Append(a, l)
      BY <2>3
    <3> HIDE DEF a, l, new
    <3>3. a \in Seq(1 .. MaxLives) /\ l \in 1 .. MaxLives /\ \A i \in DOMAIN a : a[i] = l
      BY <1>1, <3>1 DEF a, l
    <3>4. new \in Seq(1 .. MaxLives) /\ \A i \in DOMAIN new : new[i] = l
      BY <3>2, <3>3
    <3> QED BY <2>1, <3>4 DEF l
  <2> QED BY <2>2, <2>3
<1> HIDE DEF new
<1>3. /\ artifacts' \in [Request -> Seq(1 .. MaxLives) \cup {None}] /\ artifacts'[r] = new
      /\ \A q \in Request : q # r => artifacts'[q] = artifacts[q]
  BY <1>2 DEF SessionInv, Session!TypeOK
<1>4. Session!TypeOK'
  BY <1>1, <1>3 DEF SessionInv, Session!TypeOK, Session!Sessions
<1>5. Session!ArtifactsOfThisLife'
  BY <1>1, <1>2, <1>3 DEF SessionInv, Session!ArtifactsOfThisLife
<1>6. SessionWalked'
  BY <1>1 DEF SessionInv, SessionWalked, SessionWalk
<1> QED BY <1>4, <1>5, <1>6 DEF SessionInv

\* These leave the sessions there are as they are.
LEMMA SessionKeepStep ==
  ASSUME Session!SessionAssumption, SessionInv, NEW r \in Request,
         Session!UpdateStatistics(r) \/ Session!RemoveSession(r) \/ Session!Save(r)
  PROVE  SessionInv'
<1>1. CASE Session!UpdateStatistics(r)
  <2>1. statistics' \in [Request -> BOOLEAN \cup {None}] /\ UNCHANGED <<registry, artifacts, disk, lives>>
    BY <1>1 DEF Session!UpdateStatistics, SessionInv, Session!TypeOK
  <2>2. Session!TypeOK'
    BY <2>1 DEF SessionInv, Session!TypeOK, Session!Sessions
  <2>3. Session!ArtifactsOfThisLife' /\ SessionWalked'
    BY <2>1 DEF SessionInv, Session!ArtifactsOfThisLife, SessionWalked, SessionWalk
  <2> QED BY <2>2, <2>3 DEF SessionInv
<1>2. CASE Session!RemoveSession(r)
  <2>1. /\ registry' \in [Request -> Session!Sessions \cup {None}] /\ registry'[r] = None
        /\ \A q \in Request : q # r => registry'[q] = registry[q]
        /\ UNCHANGED <<artifacts, statistics, disk, lives>>
    BY <1>2 DEF Session!RemoveSession, SessionInv, Session!TypeOK
  <2>2. Session!TypeOK'
    BY <2>1, Zenon DEF SessionInv, Session!TypeOK, Session!Sessions
  <2>3. Session!ArtifactsOfThisLife' /\ SessionWalked'
    BY <2>1 DEF SessionInv, Session!ArtifactsOfThisLife, SessionWalked, SessionWalk
  <2> QED BY <2>2, <2>3 DEF SessionInv
<1>3. CASE Session!Save(r)
  <2>1. registry[r] \in Session!Sessions /\ registry[r].life <= lives[r] /\ SessionWalk(registry[r].path)
    BY <1>3 DEF Session!Save, SessionInv, Session!TypeOK, SessionWalked
  <2>2. /\ disk' \in [Request -> Session!Sessions \cup {None, Torn}] /\ disk'[r] = registry[r]
        /\ \A q \in Request : q # r => disk'[q] = disk[q]
        /\ UNCHANGED <<registry, artifacts, statistics, lives>>
    BY <1>3, <2>1 DEF Session!Save, SessionInv, Session!TypeOK
  <2>3. Session!TypeOK' /\ Session!ArtifactsOfThisLife'
    BY <2>2 DEF SessionInv, Session!TypeOK, Session!ArtifactsOfThisLife, Session!Sessions
  <2>4. SessionWalked'
    BY <2>1, <2>2 DEF SessionInv, SessionWalked, SessionWalk
  <2> QED BY <2>3, <2>4 DEF SessionInv
<1> QED BY <1>1, <1>2, <1>3

\* What comes back from disk had been saved, and has nothing attached.
LEMMA SessionRestartStep ==
  ASSUME Session!SessionAssumption, SessionInv, NEW torn \in SUBSET Request,
         NEW loaded \in SUBSET {r \in Request \ torn : disk[r] \notin {None, Torn}}, Session!Restart(loaded, torn)
  PROVE  SessionInv'
<1>1. /\ disk' = [r \in Request |-> IF r \in torn THEN Torn ELSE disk[r]]
      /\ registry' = [r \in Request |-> IF r \in loaded THEN disk'[r] ELSE None]
      /\ artifacts' = [r \in Request |-> None] /\ statistics' = [r \in Request |-> None] /\ lives' = lives
  BY DEF Session!Restart
<1>2. disk \in [Request -> Session!Sessions \cup {None, Torn}]
  BY DEF SessionInv, Session!TypeOK
<1>3. disk' \in [Request -> Session!Sessions \cup {None, Torn}]
        /\ \A r \in Request : disk'[r] \in {Torn, disk[r]}
  BY <1>1, <1>2
<1>4. \A r \in Request : /\ registry'[r] = None \/ (registry'[r] = disk[r] /\ disk[r] \notin {None, Torn})
                         /\ registry'[r] \in Session!Sessions \cup {None}
  BY <1>1, <1>2
<1>5. Session!TypeOK'
  <2>1. registry' \in [Request -> Session!Sessions \cup {None}]
    BY <1>1, <1>4
  <2>2. \A r \in Request : registry'[r] # None => registry'[r].life <= lives'[r]
    BY <1>1, <1>4 DEF SessionInv, SessionWalked
  <2> QED BY <1>1, <1>3, <2>1, <2>2 DEF SessionInv, Session!TypeOK, Session!Sessions
<1>6. Session!ArtifactsOfThisLife'
  BY <1>1 DEF Session!ArtifactsOfThisLife
<1>7. SessionWalked'
  <2>1. \A r \in Request : registry'[r] # None => SessionWalk(registry'[r].path)
    BY <1>4 DEF SessionInv, SessionWalked
  <2>2. \A r \in Request : disk'[r] \notin {None, Torn} => SessionWalk(disk'[r].path)
          /\ disk'[r].life <= lives'[r]
    BY <1>1, <1>3 DEF SessionInv, SessionWalked
  <2> QED BY <2>1, <2>2 DEF SessionWalked, SessionWalk
<1> QED BY <1>5, <1>6, <1>7 DEF SessionInv

\* Every step keeps the invariant.
LEMMA SessionStepHolds ==
  ASSUME Session!SessionAssumption, SessionInv, [Session!Next]_(Session!vars)
  PROVE  SessionInv'
<1>1. ASSUME NEW r \in Request, Session!Create(r) PROVE SessionInv'
  BY <1>1, SessionCreateStep
<1>2. ASSUME NEW r \in Request, Session!AttachArtifact(r) PROVE SessionInv'
  BY <1>2, SessionAttachStep
<1>3. ASSUME NEW r \in Request, Session!UpdateStatistics(r) \/ Session!RemoveSession(r) \/ Session!Save(r)
      PROVE SessionInv'
  BY <1>3, SessionKeepStep
<1>4. ASSUME NEW r \in Request, NEW next \in Session!Status, Session!UpdateStatus(r, next)
      PROVE SessionInv'
  BY <1>4, SessionUpdateStep
<1>5. ASSUME NEW torn \in SUBSET {r \in Request : registry[r] # None},
             NEW loaded \in SUBSET {r \in Request \ torn : disk[r] \notin {None, Torn}}, Session!Restart(loaded, torn)
      PROVE  SessionInv'
  <2>1. torn \in SUBSET Request
    OBVIOUS
  <2> QED BY <1>5, <2>1, SessionRestartStep
<1>6. CASE UNCHANGED Session!vars
  BY <1>6 DEF Session!vars, SessionInv, Session!TypeOK, Session!ArtifactsOfThisLife, SessionWalked,
     SessionWalk, Session!Sessions
<1> QED BY <1>1, <1>2, <1>3, <1>4, <1>5, <1>6 DEF Session!Next

\* A session that has ended stays ended, as long as the process lives and its
\* request does not create another.
LEMMA SessionEndIsFinal ==
  ASSUME Session!SessionAssumption, SessionInv, [Session!Next]_(Session!vars)
  PROVE  [Session!StaysTerminal]_(Session!vars)
<1> SUFFICES ASSUME Session!Next, \A loaded, torn \in SUBSET Request : ~Session!Restart(loaded, torn),
                    NEW r \in Request, registry[r] # None,
                    Session!Current(registry[r].path) \in Session!Terminal,
                    registry'[r] # None, registry'[r].life = registry[r].life
             PROVE  Session!Current(registry'[r].path) \in Session!Terminal
  BY DEF Session!StaysTerminal
<1>1. registry \in [Request -> Session!Sessions \cup {None}] /\ registry[r].life <= lives[r]
        /\ lives \in [Request -> 0 .. MaxLives]
      /\ registry[r].life \in Nat /\ SessionWalk(registry[r].path)
  BY DEF SessionInv, Session!TypeOK, Session!Sessions, SessionWalked
<1>2. ASSUME NEW q \in Request, Session!Create(q) PROVE registry'[r] = registry[r]
  <2>1. /\ registry' = [registry EXCEPT ![q] = [life |-> lives'[q], path |-> <<"CREATED">>]]
        /\ lives' = [lives EXCEPT ![q] = lives[q] + 1]
    BY <1>2 DEF Session!Create
  <2>2. CASE q = r
    <3>1. registry'[r] = [life |-> lives'[r], path |-> <<"CREATED">>] /\ lives'[r] = lives[r] + 1
      BY <1>1, <2>1, <2>2
    <3>2. registry'[r].life = lives[r] + 1
      BY <3>1
    <3> QED BY <1>1, <3>2
  <2>3. CASE q # r
    BY <1>1, <2>1, <2>3
  <2> QED BY <2>2, <2>3
<1>3. ASSUME NEW q \in Request, NEW next \in Session!Status, Session!UpdateStatus(q, next)
      PROVE registry'[r] = registry[r]
  <2>1. q # r
    BY <1>1, <1>3, SessionWalkGoesOn DEF Session!UpdateStatus
  <2>2. registry' = [registry EXCEPT ![q] = [registry[q] EXCEPT !.path = Append(registry[q].path, next)]]
    BY <1>3 DEF Session!UpdateStatus
  <2> QED BY <1>1, <2>1, <2>2
<1>4. ASSUME NEW q \in Request, Session!RemoveSession(q) PROVE registry'[r] = registry[r]
  BY <1>1, <1>4 DEF Session!RemoveSession
<1>5. ASSUME NEW q \in Request, Session!AttachArtifact(q) \/ Session!UpdateStatistics(q) \/ Session!Save(q)
      PROVE registry'[r] = registry[r]
  BY <1>5 DEF Session!AttachArtifact, Session!UpdateStatistics, Session!Save
<1>6. registry'[r] = registry[r]
  <2>1. ASSUME NEW torn \in SUBSET {q \in Request : registry[q] # None},
               NEW loaded \in SUBSET {q \in Request \ torn : disk[q] \notin {None, Torn}}, Session!Restart(loaded, torn)
        PROVE  FALSE
    <3>1. torn \in SUBSET Request /\ loaded \in SUBSET Request
      OBVIOUS
    <3> QED BY <2>1, <3>1
  <2> QED BY <1>2, <1>3, <1>4, <1>5, <2>1 DEF Session!Next
<1> QED BY <1>6

\* What the sessions promise follows.
LEMMA SessionLivesApart == ASSUME SessionInv PROVE Session!LivesAreApart
BY SessionWholeWalk DEF SessionInv, SessionWalked, Session!LivesAreApart,
   Session!CompletedWalkedThePath, SessionWay

\* A step while the sessions are driven is one of their own.
LEMMA SessionMoves ==
  ASSUME Is("session"), [Next]_vars PROVE [Session!Next]_(Session!vars) /\ Is("session")'
<1>1. driven' = driven
  BY DEF Next, vars
<1>2. CASE Next
  BY <1>1, <1>2 DEF Next, Is
<1>3. CASE UNCHANGED vars
  BY <1>1, <1>3 DEF vars, SessionVars, Session!vars, Is
<1> QED BY <1>2, <1>3

\* The invariant holds for as long as the sessions are driven.
LEMMA SessionHolds == Spec => [](Is("session") => SessionInv)
<1>1. Init => (Is("session") => SessionInv)
  BY FrameworksAssumption, SessionInitHolds DEF Init
<1>2. (Is("session") => SessionInv) /\ [Next]_vars => (Is("session") => SessionInv)'
  <2> SUFFICES ASSUME Is("session") => SessionInv, [Next]_vars, Is("session")' PROVE SessionInv'
    OBVIOUS
  <2>1. Is("session")
    BY DEF Is, Next, vars
  <2>2. [Session!Next]_(Session!vars)
    BY <2>1, SessionMoves
  <2> QED BY <2>1, <2>2, FrameworksAssumption, SessionStepHolds
<1> QED BY <1>1, <1>2, PTL DEF Spec

-----------------------------------------------------------------------------
(* Two arms of an experiment: whatever the file and the terminals carry *)

\* What an arm is started with in a terminal, where no .env is.
LaunchStarted(i, terminal) ==
  [port |-> Launch!Arms[i].port, timeout |-> experiment.provider,
   settings |-> [k \in Launch!Key |-> IF Launch!ArmEnvironment(Launch!Arms[i])[k] # Unset THEN Launch!ArmEnvironment(Launch!Arms[i])[k] ELSE terminal[k]]]

LaunchArmType == [id : STRING, port : Int, log : STRING, flag : BOOLEAN,
            env : [Launch!Key -> STRING \cup {Unset}], setsTimeout : BOOLEAN]

\* The settings of an arm are those of its environment, or its terminal's.
LEMMA LaunchSettings ==
  ASSUME NEW i, NEW t, NEW k \in Launch!Key
  PROVE  /\ LaunchStarted(i, t).settings[k] = IF Launch!ArmEnvironment(Launch!Arms[i])[k] # Unset THEN Launch!ArmEnvironment(Launch!Arms[i])[k] ELSE t[k]
         /\ LaunchStarted(i, t).port = Launch!Arms[i].port
         /\ LaunchStarted(i, t).timeout = experiment.provider
BY DEF LaunchStarted

\* What is read of the file stays as long as the file does.
LEMMA LaunchEnvironmentStays ==
  ASSUME experiment' = experiment, NEW i
  PROVE  Launch!ArmEnvironment(Launch!Arms[i])' = Launch!ArmEnvironment(Launch!Arms[i])
<1>1. ASSUME NEW k \in Launch!Key
      PROVE Launch!ArmEnvironment(Launch!Arms[i])'[k] = Launch!ArmEnvironment(Launch!Arms[i])[k]
  BY DEF Launch!ArmEnvironment, Launch!Arms, Launch!Shared
<1>3. Launch!ArmEnvironment(Launch!Arms[i]) = [k \in Launch!Key |-> Launch!ArmEnvironment(Launch!Arms[i])[k]]
  BY DEF Launch!ArmEnvironment
<1>4. Launch!ArmEnvironment(Launch!Arms[i])' = [k \in Launch!Key |-> Launch!ArmEnvironment(Launch!Arms[i])'[k]]
  BY DEF Launch!ArmEnvironment
<1> QED BY <1>1, <1>3, <1>4, Zenon

\* What an arm is started with depends on the experiment alone.
LEMMA LaunchStartedStays ==
  ASSUME experiment' = experiment, NEW i, NEW t
  PROVE  LaunchStarted(i, t)' = LaunchStarted(i, t)
<1>1. Launch!Arms' = Launch!Arms /\ experiment'.provider = experiment.provider
  BY DEF Launch!Arms
<1> DEFINE given == Launch!ArmEnvironment(Launch!Arms[i])
<1>3. given' = given
  BY LaunchEnvironmentStays
<1>4. LaunchStarted(i, t) = [port |-> Launch!Arms[i].port, timeout |-> experiment.provider,
                       settings |-> [k \in Launch!Key |-> IF given[k] # Unset THEN given[k] ELSE t[k]]]
  BY DEF LaunchStarted
<1>5. LaunchStarted(i, t)' = [port |-> Launch!Arms'[i].port, timeout |-> experiment'.provider,
                        settings |-> [k \in Launch!Key |-> IF given'[k] # Unset THEN given'[k] ELSE t[k]]]
  BY DEF LaunchStarted
<1> HIDE DEF given
<1> QED BY <1>1, <1>3, <1>4, <1>5, Zenon

\* So does whether the experiment is valid, and on the tree.
LEMMA LaunchValidStays ==
  ASSUME experiment' = experiment, worktree' = worktree
  PROVE  Launch!Valid' <=> Launch!Valid
<1>1. Launch!Arms' = Launch!Arms /\ Launch!Shared' = Launch!Shared
  BY DEF Launch!Arms, Launch!Shared
<1>2. Launch!ShapeSound' <=> Launch!ShapeSound
  BY <1>1, Zenon DEF Launch!ShapeSound
<1>3. Launch!SharedSound' <=> Launch!SharedSound
  BY <1>1, Zenon DEF Launch!SharedSound
<1>4. Launch!TimeoutsSound' <=> Launch!TimeoutsSound
  BY Zenon DEF Launch!TimeoutsSound
<1>5. Launch!ArmsSound' <=> Launch!ArmsSound
  <2>1. \A i : Launch!ArmSound(Launch!Arms[i])' <=> Launch!ArmSound(Launch!Arms[i])
    BY <1>1
  <2>2. \A i, j : Launch!Differ(Launch!Arms[i], Launch!Arms[j])'
          <=> Launch!Differ(Launch!Arms[i], Launch!Arms[j])
    BY <1>1, Zenon DEF Launch!Differ
  <2> QED BY <1>1, <2>1, <2>2, Zenon DEF Launch!ArmsSound
<1>6. Launch!ComparisonSound' <=> Launch!ComparisonSound
  BY <1>1, Zenon DEF Launch!ComparisonSound
<1>7. Launch!SymmetrySound' <=> Launch!SymmetrySound
  <2>1. \A i : Launch!ArmEnvironment(Launch!Arms[i])' = Launch!ArmEnvironment(Launch!Arms[i])
    BY LaunchEnvironmentStays
  <2> DEFINE Given(i) == Launch!ArmEnvironment(Launch!Arms[i])
  <2>2. \A i : Given(i)' = Given(i)
    BY <2>1
  <2>3. Launch!SymmetrySound
          <=> \A i, j \in DOMAIN Launch!Arms : \A k \in Launch!Key \ Launch!Owned : Given(i)[k] = Given(j)[k]
    BY Zenon DEF Launch!SymmetrySound
  <2>4. Launch!SymmetrySound'
          <=> \A i, j \in DOMAIN Launch!Arms' : \A k \in Launch!Key \ Launch!Owned : Given(i)'[k] = Given(j)'[k]
    BY Zenon DEF Launch!SymmetrySound
  <2> HIDE DEF Given
  <2> QED BY <1>1, <2>2, <2>3, <2>4, ZenonT(30)
<1>8. Launch!ModelSound' <=> Launch!ModelSound
  BY <1>1, Zenon DEF Launch!ModelSound
<1>9. Launch!HarnessSound' <=> Launch!HarnessSound
  BY Zenon DEF Launch!HarnessSound
<1>10. Launch!TreeSound' <=> Launch!TreeSound
  <2>1. Launch!Marker' = Launch!Marker
    BY DEF Launch!Marker
  <2>2. Launch!Detached' <=> Launch!Detached
    BY <2>1, Zenon DEF Launch!Detached
  <2> QED BY <1>1, <2>2, Zenon DEF Launch!TreeSound
<1> QED BY <1>2, <1>3, <1>4, <1>5, <1>6, <1>7, <1>8, <1>9, <1>10, Zenon DEF Launch!Valid

\* Nothing is shown, or started, but what is valid.
LaunchInv ==
  /\ Launch!Arms \in Seq(LaunchArmType)
  /\ {experiment.provider, experiment.harness} \subseteq Nat \cup {Unset}
  /\ gateways = [i \in 1 .. Len(Launch!Arms) |-> gateways[i]]
  /\ stage = "shown" => Launch!Valid
  /\ \A i \in DOMAIN gateways : gateways[i] # Unset =>
       stage = "shown" /\ \E t \in Leftovers : gateways[i] = LaunchStarted(i, t)

\* The invariant holds at the start.
LEMMA LaunchInitHolds ==
  ASSUME Launch!LaunchAssumption PROVE Launch!Init => LaunchInv
BY Zenon DEF Launch!Init, LaunchInv, Launch!LaunchAssumption, LaunchArmType, Launch!Arms

\* Starting an arm keeps it.
LEMMA LaunchStartKeeps ==
  ASSUME LaunchInv, NEW i \in DOMAIN gateways, NEW t \in Leftovers, Launch!Start(i, t)
  PROVE  LaunchInv'
<1>1. /\ stage = "shown" /\ experiment' = experiment /\ worktree' = worktree /\ stage' = stage
  BY DEF Launch!Start
<1>2. Launch!Valid
  BY <1>1 DEF LaunchInv
<1>3. worktree.dotenv = Unset
  BY <1>2, Zenon DEF Launch!Valid, Launch!TreeSound
<1>4. gateways' = [gateways EXCEPT ![i] = LaunchStarted(i, t)]
  BY <1>3, Zenon DEF Launch!Start, LaunchStarted
<1>5. \A j, u : LaunchStarted(j, u)' = LaunchStarted(j, u)
  BY <1>1, LaunchStartedStays
<1>6. Launch!Valid'
  BY <1>1, <1>2, LaunchValidStays
<1>7. Launch!Arms' = Launch!Arms
  BY <1>1 DEF Launch!Arms
<1>8. DOMAIN gateways = 1 .. Len(Launch!Arms)
  BY Zenon DEF LaunchInv
<1>9. /\ DOMAIN gateways' = DOMAIN gateways /\ gateways' = [j \in 1 .. Len(Launch!Arms) |-> gateways'[j]]
      /\ \A j \in DOMAIN gateways : gateways'[j] = IF j = i THEN LaunchStarted(i, t) ELSE gateways[j]
  BY <1>4, <1>8, Zenon
<1>10. ASSUME NEW j \in DOMAIN gateways', gateways'[j] # Unset
      PROVE  \E u \in Leftovers : gateways'[j] = LaunchStarted(j, u)'
  BY <1>5, <1>9, <1>10, Zenon DEF LaunchInv
<1> QED BY <1>1, <1>6, <1>7, <1>9, <1>10, Zenon DEF LaunchInv

\* Every step keeps the invariant.
LEMMA LaunchStepHolds == LaunchInv /\ [Launch!Next]_(Launch!vars) => LaunchInv'
<1> SUFFICES ASSUME LaunchInv, [Launch!Next]_(Launch!vars) PROVE LaunchInv'
  OBVIOUS
<1>1. ASSUME NEW i \in DOMAIN gateways, NEW t \in Leftovers, Launch!Start(i, t) PROVE LaunchInv'
  BY <1>1, LaunchStartKeeps
<1>2. ASSUME experiment' = experiment, worktree' = worktree, gateways' = gateways,
             stage' # stage => stage # "shown" /\ (stage' = "shown" => Launch!Valid)
      PROVE  LaunchInv'
  <2>1. \A j, u : LaunchStarted(j, u)' = LaunchStarted(j, u)
    BY <1>2, LaunchStartedStays
  <2>2. Launch!Valid' <=> Launch!Valid
    BY <1>2, LaunchValidStays
  <2>3. Launch!Arms' = Launch!Arms
    BY <1>2 DEF Launch!Arms
  <2>4. stage # "shown" => \A i \in DOMAIN gateways : gateways[i] = Unset
    BY DEF LaunchInv
  <2> QED BY <1>2, <2>1, <2>2, <2>3, <2>4, Zenon DEF LaunchInv
<1>3. CASE Launch!Load
  <2>1. stage # "shown" /\ stage' # "shown"
    BY <1>3 DEF Launch!Load
  <2> QED BY <1>2, <1>3, <2>1 DEF Launch!Load
<1>4. CASE Launch!Show
  <2>1. stage # "shown" /\ (stage' = "shown" => Launch!Valid)
    BY <1>4 DEF Launch!Show
  <2> QED BY <1>2, <1>4, <2>1 DEF Launch!Show
<1>5. CASE UNCHANGED Launch!vars
  BY <1>2, <1>5 DEF Launch!vars
<1> QED BY <1>1, <1>3, <1>4, <1>5 DEF Launch!Next

-----------------------------------------------------------------------------
(* What a valid experiment gives its arms *)

\* A sound arm has no setting of its own where both arms must agree.
LEMMA LaunchRequiredOnes ==
  ASSUME NEW arm, Launch!ArmSound(arm), NEW k \in Launch!Required PROVE arm.env[k] = Unset
<1>1. k \in Launch!Required \cup Launch!Owned \cup Launch!Secret
  OBVIOUS
<1>2. \A x \in Launch!Required \cup Launch!Owned \cup Launch!Secret : arm.env[x] = Unset
  BY Zenon DEF Launch!ArmSound
<1> QED BY <1>1, <1>2

\* So a setting that must agree has the shared value in every arm.
LEMMA LaunchRequiredShared ==
  ASSUME Launch!Valid, NEW i \in DOMAIN Launch!Arms, NEW t, NEW k \in Launch!Required
  PROVE  LaunchStarted(i, t).settings[k] = Launch!Shared[k]
<1>1. Launch!Arms[i].env[k] = Unset /\ Launch!Shared[k] # Unset
  <2>2. Launch!ArmsSound /\ Launch!SharedSound
    BY DEF Launch!Valid
  <2>3. Launch!Arms[i].env[k] = Unset
    <3>1. Launch!ArmSound(Launch!Arms[i])
      BY <2>2, Zenon DEF Launch!ArmsSound
    <3> QED BY <3>1, LaunchRequiredOnes
  <2>4. Launch!Shared[k] # Unset
    BY <2>2, Zenon DEF Launch!SharedSound
  <2> QED BY <2>3, <2>4
<1>2. k \in Launch!Key /\ k # "SESSION_LOG_PATH" /\ k # "CHANGED_FILES_ENABLED" /\ k \notin Launch!Secret
  BY DEF Launch!Required, Launch!Key, Launch!Secret
<1>3. Launch!ArmEnvironment(Launch!Arms[i])[k] = Launch!Shared[k]
  BY <1>1, <1>2 DEF Launch!ArmEnvironment
<1> QED BY <1>1, <1>2, <1>3, LaunchSettings

\* The settings the launcher gives an arm itself are the arm's own, whatever
\* its terminal carries.
LEMMA LaunchOwnSettings ==
  ASSUME Launch!LaunchAssumption, LaunchInv, NEW i \in DOMAIN Launch!Arms, NEW t
  PROVE  /\ LaunchStarted(i, t).settings["SESSION_LOG_PATH"] = Launch!Arms[i].log
         /\ LaunchStarted(i, t).settings["CHANGED_FILES_ENABLED"] = Launch!FormatBool(Launch!Arms[i].flag)
<1>1. Launch!Arms[i] \in LaunchArmType
  BY DEF LaunchInv
<1>s. Unset \notin STRING
  BY DEF Launch!LaunchAssumption
<1>2. Launch!Arms[i].log # Unset
  BY <1>1, <1>s DEF LaunchArmType
<1>3. Launch!FormatBool(Launch!Arms[i].flag) # Unset
  <2>2. "true" # Unset /\ "false" # Unset
    BY DEF Launch!LaunchAssumption
  <2> QED BY <2>2 DEF Launch!FormatBool
<1>4. "SESSION_LOG_PATH" \in Launch!Key /\ "CHANGED_FILES_ENABLED" \in Launch!Key
  BY DEF Launch!Key, Launch!Owned
<1>5. Launch!ArmEnvironment(Launch!Arms[i])["SESSION_LOG_PATH"] = Launch!Arms[i].log
  BY <1>4 DEF Launch!ArmEnvironment, Launch!Secret
<1>6. Launch!ArmEnvironment(Launch!Arms[i])["CHANGED_FILES_ENABLED"] = Launch!FormatBool(Launch!Arms[i].flag)
  BY <1>4 DEF Launch!ArmEnvironment, Launch!Secret
<1> QED BY <1>2, <1>3, <1>4, <1>5, <1>6, LaunchSettings

\* Of the settings that are required.
LEMMA LaunchSharedSettings ==
  ASSUME Launch!LaunchAssumption, Launch!Valid
  PROVE  /\ Launch!Shared["MODELS_CONFIG"] \in {"m", "n", "twice"}
         /\ Launch!Shared["DEFAULT_MODEL"] = Launch!Registry[Launch!Shared["MODELS_CONFIG"]].alias
         /\ Launch!Shared["REPOSITORY_PATH"] \in {"here", "HERE", "variable", "elsewhere"}
         /\ Launch!Shared["COMPARISON_ENABLED"] \in {"true", "True", "1", "true "}
         /\ Launch!Shared["RANKING_ENABLED"] \in {"true", "false", "true ", "false "}
         /\ Launch!Shared["INTENT_RULES"] \in {"{}", "unknown intent"}
         /\ Launch!Shared["INTENT_BUDGETS"] \in {"", "EXPLAIN:7"}
         /\ Launch!Shared["MAX_TOKENS"] \in {"7", "7 "}
         /\ Launch!Shared["HISTORY_CAP_TOKENS"] \in {"7", "0"}
<1>1. ASSUME NEW k \in Launch!Required, k \in DOMAIN Launch!Texts, k # "INTENT_BUDGETS"
      PROVE Launch!Shared[k] \in Launch!Texts[k]
  <2>1. k \in Launch!Key \ Launch!Secret
    BY DEF Launch!Required, Launch!Key, Launch!Secret
  <2>2. Launch!Shared[k] # Unset /\ Launch!Shared[k] # "" /\ Launch!Sound(k, Launch!Shared[k])
    BY <1>1, <2>1, Zenon DEF Launch!Valid, Launch!SharedSound
  <2> QED BY <1>1, <2>2, Zenon DEF Launch!Sound, Launch!Accepted
<1>2. DOMAIN Launch!Texts = {"REPOSITORY_PATH", "COMPARISON_ENABLED", "RANKING_ENABLED", "INTENT_RULES", "INTENT_BUDGETS",
                      "MAX_TOKENS", "HISTORY_CAP_TOKENS", "MODELS_CONFIG"}
  BY DEF Launch!Texts
<1>3. /\ Launch!Shared["MODELS_CONFIG"] \in Launch!Texts["MODELS_CONFIG"]
           /\ Launch!Shared["REPOSITORY_PATH"] \in Launch!Texts["REPOSITORY_PATH"]
      /\ Launch!Shared["COMPARISON_ENABLED"] \in Launch!Texts["COMPARISON_ENABLED"]
           /\ Launch!Shared["RANKING_ENABLED"] \in Launch!Texts["RANKING_ENABLED"]
      /\ Launch!Shared["INTENT_RULES"] \in Launch!Texts["INTENT_RULES"]
           /\ Launch!Shared["MAX_TOKENS"] \in Launch!Texts["MAX_TOKENS"]
      /\ Launch!Shared["HISTORY_CAP_TOKENS"] \in Launch!Texts["HISTORY_CAP_TOKENS"]
  BY <1>1, <1>2 DEF Launch!Required
<1>4. Launch!Shared["MODELS_CONFIG"] \in {"m", "n", "twice"}
  BY <1>3, Zenon DEF Launch!Texts
<1>5. Launch!Shared["DEFAULT_MODEL"] = Launch!Registry[Launch!Shared["MODELS_CONFIG"]].alias
  <2>1. Launch!Shared["MODELS_CONFIG"] \in DOMAIN Launch!Registry
    BY <1>4 DEF Launch!Registry
  <2> QED BY <2>1 DEF Launch!Valid, Launch!ModelSound
<1>6. Launch!Shared["REPOSITORY_PATH"] \in {"here", "HERE", "variable", "elsewhere"}
  BY <1>3, Zenon DEF Launch!Texts, Launch!Directory
<1>7. Launch!Shared["COMPARISON_ENABLED"] \in {"true", "True", "1", "true "}
  <2>1. /\ Launch!Says.true = {"true", "True", "1"} /\ Launch!Says.false = {"false", "off"}
        /\ Launch!Padded.true = {"true "} /\ Launch!Padded.false = {"false "}
    BY DEF Launch!Says, Launch!Padded
  <2>2. Launch!Shared["COMPARISON_ENABLED"] \notin Launch!Says.false \cup Launch!Padded.false
    BY Zenon DEF Launch!Valid, Launch!ComparisonSound
  <2>3. Launch!Texts["COMPARISON_ENABLED"]
          = Launch!Says.true \cup Launch!Says.false \cup Launch!Padded.true \cup Launch!Padded.false
    BY DEF Launch!Texts
  <2> QED BY <1>3, <2>1, <2>2, <2>3
<1>8. /\ Launch!Shared["RANKING_ENABLED"] \in {"true", "false", "true ", "false "}
      /\ Launch!Shared["INTENT_RULES"] \in {"{}", "unknown intent"}
      /\ Launch!Shared["MAX_TOKENS"] \in {"7", "7 "} /\ Launch!Shared["HISTORY_CAP_TOKENS"] \in {"7", "0"}
  <2>1. /\ Launch!Texts["RANKING_ENABLED"] = {"true", "false", "true ", "false "}
        /\ Launch!Texts["INTENT_RULES"] = {"{}", "unknown intent"}
        /\ Launch!Texts["MAX_TOKENS"] = {"7", "7 "} /\ Launch!Texts["HISTORY_CAP_TOKENS"] = {"7", "0"}
    BY DEF Launch!Texts, Launch!Padded
  <2> QED BY <1>3, <2>1
<1>9. Launch!Shared["INTENT_BUDGETS"] \in {"", "EXPLAIN:7"}
  <2>1. "INTENT_BUDGETS" \in Launch!Required /\ "INTENT_BUDGETS" \in Launch!Key \ Launch!Secret
    BY DEF Launch!Required, Launch!Key, Launch!Secret
  <2>2. Launch!Shared["INTENT_BUDGETS"] # Unset
          /\ Launch!Sound("INTENT_BUDGETS", Launch!Shared["INTENT_BUDGETS"])
    BY <2>1, Zenon DEF Launch!Valid, Launch!SharedSound
  <2>3. Launch!Shared["INTENT_BUDGETS"] = ""
          \/ Launch!Shared["INTENT_BUDGETS"] \in Launch!Texts["INTENT_BUDGETS"]
    BY <1>2, <2>2, Zenon DEF Launch!Sound, Launch!Accepted
  <2> QED BY <2>3, Zenon DEF Launch!Texts
<1> QED BY <1>4, <1>5, <1>6, <1>7, <1>8, <1>9, Zenon

\* What a gateway makes of a text, key by key.
LEMMA LaunchReadings ==
  ASSUME NEW text
  PROVE  /\ Launch!Reading("REPOSITORY_PATH", text) = IF text = "variable" THEN "misread" ELSE text
         /\ Launch!Reading("COMPARISON_ENABLED", text)
              = IF text \in Launch!Says.true THEN "on" ELSE IF text \in Launch!Says.false THEN "off" ELSE "fails"
         /\ Launch!Reading("RANKING_ENABLED", text)
              = IF text = "false" THEN "off" ELSE IF text \in {"true"} \cup Launch!Padded.true THEN "on" ELSE "misread"
         /\ Launch!Reading("INTENT_RULES", text) = IF text = "{}" THEN text ELSE "misread"
         /\ Launch!Reading("MAX_TOKENS", text) = IF text \in {"7", "7 ", "0", "-1"} THEN text ELSE "fails"
         /\ Launch!Reading("DEFAULT_MODEL", text) = text
<1>1. Launch!Reading("REPOSITORY_PATH", text) = IF text = "variable" THEN "misread" ELSE text
  BY Zenon DEF Launch!Reading
<1>2. Launch!Reading("COMPARISON_ENABLED", text)
        = IF text \in Launch!Says.true THEN "on" ELSE IF text \in Launch!Says.false THEN "off" ELSE "fails"
  BY Zenon DEF Launch!Reading
<1>3. Launch!Reading("RANKING_ENABLED", text)
        = IF text = "false" THEN "off" ELSE IF text \in {"true"} \cup Launch!Padded.true THEN "on" ELSE "misread"
  BY Zenon DEF Launch!Reading
<1>4. Launch!Reading("INTENT_RULES", text) = IF text = "{}" THEN text ELSE "misread"
  BY Zenon DEF Launch!Reading
<1>5. Launch!Reading("MAX_TOKENS", text) = IF text \in {"7", "7 ", "0", "-1"} THEN text ELSE "fails"
  BY Zenon DEF Launch!Reading
<1>6. Launch!Reading("DEFAULT_MODEL", text) = text
  BY Zenon DEF Launch!Reading
<1> QED BY <1>1, <1>2, <1>3, <1>4, <1>5, <1>6, Zenon

\* Every required setting is read as it was written, if it is not one of the
\* texts that are let through.
LEMMA LaunchReadAsWritten ==
  ASSUME Launch!LaunchAssumption, Launch!Valid, NEW k \in Launch!Required,
         Launch!Shared[k] \notin Launch!LetThrough(k)
  PROVE  Launch!Reading(k, Launch!Shared[k]) \notin {"fails", "misread"}
<1>a. /\ Launch!LetThrough("REPOSITORY_PATH") = {"variable"} /\ Launch!LetThrough("MODELS_CONFIG") = {"twice"}
      /\ Launch!LetThrough("COMPARISON_ENABLED") = {"true ", "false "}
      /\ Launch!LetThrough("RANKING_ENABLED") = {"true ", "false "}
      /\ Launch!LetThrough("INTENT_RULES") = {"unknown intent"}
  BY DEF Launch!LetThrough, Launch!Padded
<1>b. /\ Launch!Says.true = {"true", "True", "1"} /\ Launch!Says.false = {"false", "off"}
  BY DEF Launch!Says
<1>1. CASE k = "DEFAULT_MODEL"
  <2>1. Launch!Shared["DEFAULT_MODEL"] \in {"m", "n"}
    <3>1. /\ Launch!Shared["MODELS_CONFIG"] \in {"m", "n", "twice"}
          /\ Launch!Shared["DEFAULT_MODEL"] = Launch!Registry[Launch!Shared["MODELS_CONFIG"]].alias
      BY LaunchSharedSettings, Zenon
    <3>2. /\ Launch!Registry["m"].alias = "m" /\ Launch!Registry["n"].alias = "n"
          /\ Launch!Registry["twice"].alias = "m"
      BY DEF Launch!Registry
    <3> QED BY <3>1, <3>2
  <2>2. Launch!Reading("DEFAULT_MODEL", Launch!Shared["DEFAULT_MODEL"]) = Launch!Shared["DEFAULT_MODEL"]
    BY LaunchReadings, Zenon
  <2> QED BY <1>1, <2>1, <2>2
<1>2. CASE k = "MODELS_CONFIG"
  <2>1. Launch!Shared["MODELS_CONFIG"] \in {"m", "n"}
    BY <1>a, <1>2, LaunchSharedSettings
  <2> QED BY <1>2, <2>1, Zenon DEF Launch!Reading, Launch!Registry
<1>3. CASE k = "REPOSITORY_PATH"
  <2>1. Launch!Shared["REPOSITORY_PATH"] \in {"here", "HERE", "elsewhere"}
    BY <1>a, <1>3, LaunchSharedSettings
  <2>2. Launch!Reading("REPOSITORY_PATH", Launch!Shared["REPOSITORY_PATH"]) = Launch!Shared["REPOSITORY_PATH"]
    BY <2>1, LaunchReadings
  <2> QED BY <1>3, <2>1, <2>2
<1>4. CASE k = "COMPARISON_ENABLED"
  <2>1. Launch!Shared["COMPARISON_ENABLED"] \in {"true", "True", "1"}
    BY <1>a, <1>4, LaunchSharedSettings
  <2> DEFINE text == Launch!Shared["COMPARISON_ENABLED"]
  <2>3. Launch!Reading("COMPARISON_ENABLED", text)
          = IF text \in Launch!Says.true THEN "on" ELSE IF text \in Launch!Says.false THEN "off" ELSE "fails"
    BY LaunchReadings, Zenon
  <2>2. Launch!Reading("COMPARISON_ENABLED", text) = "on"
    <3>1. text \in Launch!Says.true
      BY <1>b, <2>1
    <3> QED BY <2>3, <3>1, Zenon
  <2> QED BY <1>4, <2>2
<1>5. CASE k = "RANKING_ENABLED"
  <2>1. Launch!Shared["RANKING_ENABLED"] \in {"true", "false"}
    BY <1>a, <1>5, LaunchSharedSettings
  <2>2. Launch!Reading("RANKING_ENABLED", Launch!Shared["RANKING_ENABLED"]) \in {"on", "off"}
    BY <2>1, LaunchReadings
  <2> QED BY <1>5, <2>2
<1>6. CASE k = "INTENT_RULES"
  <2>1. Launch!Shared["INTENT_RULES"] = "{}"
    BY <1>a, <1>6, LaunchSharedSettings
  <2>2. Launch!Reading("INTENT_RULES", Launch!Shared["INTENT_RULES"]) = "{}"
    BY <2>1, LaunchReadings
  <2> QED BY <1>6, <2>2
<1>7. CASE k = "INTENT_BUDGETS"
  BY <1>7, LaunchSharedSettings, Zenon DEF Launch!Reading
<1>8. CASE k = "MAX_TOKENS"
  <2>1. Launch!Shared["MAX_TOKENS"] \in {"7", "7 "}
    BY LaunchSharedSettings
  <2>2. Launch!Reading("MAX_TOKENS", Launch!Shared["MAX_TOKENS"]) = Launch!Shared["MAX_TOKENS"]
    BY <2>1, LaunchReadings
  <2> QED BY <1>8, <2>1, <2>2
<1>9. CASE k = "HISTORY_CAP_TOKENS"
  BY <1>9, LaunchSharedSettings, Zenon DEF Launch!Reading
<1> QED BY <1>1, <1>2, <1>3, <1>4, <1>5, <1>6, <1>7, <1>8, <1>9, Zenon DEF Launch!Required

\* What the launcher promises follows.
LEMMA LaunchIsIsolated ==
  ASSUME Launch!LaunchAssumption, LaunchInv PROVE Launch!LaunchIsIsolated
<1> SUFFICES ASSUME Len(gateways) = 2, gateways[1] # Unset, gateways[2] # Unset PROVE Launch!LaunchIsIsolated
  BY DEF Launch!LaunchIsIsolated
<1> DEFINE Read(i, k) == Launch!Reading(k, gateways[i].settings[k])
           Log(i) == gateways[i].settings["SESSION_LOG_PATH"]
<1>1. /\ Launch!Arms \in Seq(LaunchArmType) /\ DOMAIN Launch!Arms = 1 .. Len(Launch!Arms)
           /\ Len(Launch!Arms) \in Nat
      /\ \A i \in DOMAIN Launch!Arms : Launch!Arms[i] \in LaunchArmType
  BY DEF LaunchInv
<1>r. gateways = [i \in 1 .. Len(Launch!Arms) |-> gateways[i]]
  BY Zenon DEF LaunchInv
<1>l. Len(gateways) = Len(Launch!Arms)
  <2> DEFINE n == Len(Launch!Arms)
  <2>1. n \in Nat /\ gateways = [i \in 1 .. n |-> gateways[i]]
    BY <1>1, <1>r
  <2> HIDE DEF n
  <2>2. Len(gateways) = n
    BY <2>1
  <2> QED BY <2>2, Zenon DEF n
<1>3. Len(Launch!Arms) = 2 /\ DOMAIN Launch!Arms = 1 .. 2 /\ 1 \in DOMAIN Launch!Arms
        /\ 2 \in DOMAIN Launch!Arms /\ DOMAIN gateways = 1 .. 2
  <2>1. DOMAIN gateways = 1 .. Len(Launch!Arms)
    BY <1>r, Zenon
  <2> QED BY <1>1, <1>l, <2>1
<1>2. Launch!Valid
  BY <1>3 DEF LaunchInv
<1>4. PICK t \in Leftovers : gateways[1] = LaunchStarted(1, t)
  BY <1>3, Zenon DEF LaunchInv
<1>5. PICK u \in Leftovers : gateways[2] = LaunchStarted(2, u)
  BY <1>3 DEF LaunchInv
<1>6. \A k \in Launch!Required : gateways[1].settings[k] = Launch!Shared[k]
        /\ gateways[2].settings[k] = Launch!Shared[k]
  BY <1>2, <1>3, <1>4, <1>5, LaunchRequiredShared
<1>7. \A k \in Launch!Required :
        /\ Read(1, k) = Read(2, k)
        /\ gateways[1].settings[k] \notin Launch!LetThrough(k) => Read(1, k) \notin {"fails", "misread"}
  BY <1>2, <1>6, LaunchReadAsWritten
<1>a. /\ Launch!Arms[1].flag # Launch!Arms[2].flag /\ Launch!Arms[1].port # Launch!Arms[2].port
           /\ Launch!LogFile(Launch!Arms[1].log) # Launch!LogFile(Launch!Arms[2].log)
      /\ Launch!Arms[1].flag \in BOOLEAN /\ Launch!Arms[2].flag \in BOOLEAN
  <2>1. Launch!Arms[1] \in LaunchArmType /\ Launch!Arms[2] \in LaunchArmType
    BY <1>1, <1>3
  <2>2. Launch!Arms[1].flag \in BOOLEAN /\ Launch!Arms[2].flag \in BOOLEAN
    BY <2>1 DEF LaunchArmType
  <2>3. Launch!Arms[1].flag # Launch!Arms[2].flag /\ Launch!Arms[1].port # Launch!Arms[2].port
          /\ Launch!LogFile(Launch!Arms[1].log) # Launch!LogFile(Launch!Arms[2].log)
    <3>1. 1 # 2
      OBVIOUS
    <3>2. Launch!ArmsSound
      BY <1>2 DEF Launch!Valid
    <3>3. Launch!Differ(Launch!Arms[1], Launch!Arms[2])
      BY <1>3, <3>1, <3>2, Zenon DEF Launch!ArmsSound
    <3> QED BY <3>3, Zenon DEF Launch!Differ
  <2> QED BY <2>2, <2>3
<1>8. {Read(1, "CHANGED_FILES_ENABLED"), Read(2, "CHANGED_FILES_ENABLED")} = {"on", "off"}
  <2>1. /\ gateways[1].settings["CHANGED_FILES_ENABLED"] = Launch!FormatBool(Launch!Arms[1].flag)
        /\ gateways[2].settings["CHANGED_FILES_ENABLED"] = Launch!FormatBool(Launch!Arms[2].flag)
    BY <1>3, <1>4, <1>5, LaunchOwnSettings
  <2>2. \A b \in BOOLEAN : Launch!Reading("CHANGED_FILES_ENABLED", Launch!FormatBool(b)) = IF b THEN "on" ELSE "off"
    BY DEF Launch!Reading, Launch!FormatBool, Launch!Says
  <2>3. /\ Read(1, "CHANGED_FILES_ENABLED") = IF Launch!Arms[1].flag THEN "on" ELSE "off"
        /\ Read(2, "CHANGED_FILES_ENABLED") = IF Launch!Arms[2].flag THEN "on" ELSE "off"
    BY <1>a, <2>1, <2>2, Zenon
  <2> HIDE DEF Read
  <2>4. CASE Launch!Arms[1].flag
    <3>1. ~Launch!Arms[2].flag
      BY <1>a, <2>4, Zenon
    <3> QED BY <2>3, <2>4, <3>1, Zenon
  <2>5. CASE ~Launch!Arms[1].flag
    <3>1. Launch!Arms[2].flag
      BY <1>a, <2>5, Zenon
    <3>2. Read(1, "CHANGED_FILES_ENABLED") = "off" /\ Read(2, "CHANGED_FILES_ENABLED") = "on"
      BY <2>3, <2>5, <3>1, Zenon
    <3> QED BY <3>2
  <2> QED BY <2>4, <2>5
<1>9. Read(1, "COMPARISON_ENABLED") # "off"
  <2>1. "COMPARISON_ENABLED" \in Launch!Required
    BY DEF Launch!Required
  <2>2. gateways[1].settings["COMPARISON_ENABLED"] \in {"true", "True", "1", "true "}
    BY <1>2, <1>6, <2>1, LaunchSharedSettings, Zenon
  <2>3. Read(1, "COMPARISON_ENABLED") \in {"on", "fails"}
    <3> DEFINE text == gateways[1].settings["COMPARISON_ENABLED"]
    <3>1. Launch!Says.true = {"true", "True", "1"} /\ Launch!Says.false = {"false", "off"}
      BY DEF Launch!Says
    <3>2. Launch!Reading("COMPARISON_ENABLED", text)
            = IF text \in Launch!Says.true THEN "on" ELSE IF text \in Launch!Says.false THEN "off" ELSE "fails"
      BY LaunchReadings, Zenon
    <3>3. text \in {"true", "True", "1", "true "}
      BY <2>2
    <3> HIDE DEF text
    <3>4. Launch!Reading("COMPARISON_ENABLED", text) \in {"on", "fails"}
      BY <3>1, <3>2, <3>3
    <3> QED BY <3>4, Zenon DEF text
  <2> QED BY <2>3
<1>10. gateways[1].port # gateways[2].port
  <2>1. LaunchStarted(1, t).port = Launch!Arms[1].port /\ LaunchStarted(2, u).port = Launch!Arms[2].port
    BY DEF LaunchStarted
  <2> QED BY <1>4, <1>5, <1>a, <2>1, Zenon
<1>11. /\ Launch!LogFile(Log(1)) # Launch!LogFile(Log(2))
       /\ {Log(1), Log(2)} \cap Launch!Detour = {} => Launch!File(Log(1)) # Launch!File(Log(2))
  <2>1. Log(1) = Launch!Arms[1].log /\ Log(2) = Launch!Arms[2].log
    BY <1>3, <1>4, <1>5, LaunchOwnSettings
  <2>2. Launch!LogFile(Log(1)) # Launch!LogFile(Log(2))
    BY <1>a, <2>1, Zenon
  <2>3. \A path : path \notin Launch!Detour => Launch!File(path) = Launch!LogFile(path)
    BY DEF Launch!Detour, Launch!File, Launch!LogFile
  <2> HIDE DEF Log
  <2>4. ASSUME {Log(1), Log(2)} \cap Launch!Detour = {} PROVE Launch!File(Log(1)) # Launch!File(Log(2))
    <3>1. Log(1) \notin Launch!Detour /\ Log(2) \notin Launch!Detour
      BY <2>4
    <3> QED BY <2>2, <2>3, <3>1, Zenon
  <2> QED BY <2>2, <2>4
<1>12. ASSUME NEW i \in 1 .. 2
       PROVE  /\ Launch!ProviderTimeout(gateways[i]) + Launch!Margin <= experiment.harness
              /\ Read(i, "REPOSITORY_PATH") # "misread" =>
                   Launch!Directory[gateways[i].settings["REPOSITORY_PATH"]] = Launch!Directory[experiment.worktree]
              /\ Launch!Registry[gateways[i].settings["MODELS_CONFIG"]].alias = Launch!Shared["DEFAULT_MODEL"]
  <2>1. i = 1 \/ i = 2
    OBVIOUS
  <2>2. "REPOSITORY_PATH" \in Launch!Required /\ "MODELS_CONFIG" \in Launch!Required
    BY DEF Launch!Required
  <2>3. /\ gateways[i].settings["REPOSITORY_PATH"] = Launch!Shared["REPOSITORY_PATH"]
        /\ gateways[i].settings["MODELS_CONFIG"] = Launch!Shared["MODELS_CONFIG"]
    BY <1>6, <2>1, <2>2
  <2>4. gateways[i].timeout = experiment.provider
    <3>1. LaunchStarted(1, t).timeout = experiment.provider /\ LaunchStarted(2, u).timeout = experiment.provider
      BY DEF LaunchStarted
    <3> QED BY <1>4, <1>5, <2>1, <3>1, Zenon
  <2>5. Launch!Shared["MODELS_CONFIG"] \in {"m", "n", "twice"}
          /\ Launch!Shared["DEFAULT_MODEL"] = Launch!Registry[Launch!Shared["MODELS_CONFIG"]].alias
    BY <1>2, LaunchSharedSettings, Zenon
  <2>6. Launch!Registry[Launch!Shared["MODELS_CONFIG"]].timeout = Unset
    BY <2>5 DEF Launch!Registry
  <2>7. Launch!ProviderTimeout(gateways[i]) = experiment.provider
    BY <2>3, <2>4, <2>6, Zenon DEF Launch!ProviderTimeout
  <2>8. experiment.provider \in Nat /\ experiment.harness \in Nat
          /\ experiment.harness >= experiment.provider + Launch!Margin
    BY <1>2 DEF Launch!Valid, Launch!TimeoutsSound, LaunchInv
  <2>9. experiment.provider + Launch!Margin <= experiment.harness
    BY <2>8 DEF Launch!Margin
  <2>10. Launch!Directory[Launch!Shared["REPOSITORY_PATH"]] = Launch!Directory[experiment.worktree]
    BY <1>2 DEF Launch!Valid, Launch!TreeSound
  <2> QED BY <2>3, <2>5, <2>7, <2>9, <2>10, Zenon
<1>13. \A i \in 1 .. 2 : \A k \in Launch!Key \ (Launch!Required \cup Launch!Owned \cup Launch!Secret) :
         Launch!ArmEnvironment(Launch!Arms[i])[k] # Unset => gateways[1].settings[k] = gateways[2].settings[k]
  <2> SUFFICES ASSUME NEW i \in 1 .. 2,
  NEW k \in Launch!Key \ (Launch!Required \cup Launch!Owned \cup Launch!Secret),
                      Launch!ArmEnvironment(Launch!Arms[i])[k] # Unset
               PROVE  gateways[1].settings[k] = gateways[2].settings[k]
    OBVIOUS
  <2>1. Launch!ArmEnvironment(Launch!Arms[1])[k] = Launch!ArmEnvironment(Launch!Arms[2])[k]
    <3>1. Launch!SymmetrySound
      BY <1>2 DEF Launch!Valid
    <3>2. k \in Launch!Key \ Launch!Owned
      OBVIOUS
    <3> QED BY <1>3, <3>1, <3>2, Zenon DEF Launch!SymmetrySound
  <2>2. Launch!ArmEnvironment(Launch!Arms[1])[k] # Unset /\ Launch!ArmEnvironment(Launch!Arms[2])[k] # Unset
    <3>1. i = 1 \/ i = 2
      OBVIOUS
    <3> QED BY <2>1, <3>1, Zenon
  <2>3. /\ gateways[1].settings[k] = Launch!ArmEnvironment(Launch!Arms[1])[k]
        /\ gateways[2].settings[k] = Launch!ArmEnvironment(Launch!Arms[2])[k]
    <3>1. k \in Launch!Key
      OBVIOUS
    <3>2. /\ LaunchStarted(1, t).settings[k] = Launch!ArmEnvironment(Launch!Arms[1])[k]
          /\ LaunchStarted(2, u).settings[k] = Launch!ArmEnvironment(Launch!Arms[2])[k]
      BY <2>2, <3>1 DEF LaunchStarted
    <3> QED BY <1>4, <1>5, <3>2, Zenon
  <2> QED BY <2>1, <2>3, Zenon
<1> QED BY <1>7, <1>8, <1>9, <1>10, <1>11, <1>12, <1>13, Zenon DEF Launch!LaunchIsIsolated

\* A step while the arms are driven is one of their own.
LEMMA LaunchMoves ==
  ASSUME Is("launch"), [Next]_vars PROVE [Launch!Next]_(Launch!vars) /\ Is("launch")'
<1>1. driven' = driven
  BY DEF Next, vars
<1>2. CASE Next
  BY <1>1, <1>2 DEF Next, Is
<1>3. CASE UNCHANGED vars
  BY <1>1, <1>3 DEF vars, LaunchVars, Launch!vars, Is
<1> QED BY <1>2, <1>3

\* The invariant holds for as long as the arms are driven.
LEMMA LaunchHolds == Spec => [](Is("launch") => LaunchInv)
<1>1. Init => (Is("launch") => LaunchInv)
  BY FrameworksAssumption, LaunchInitHolds DEF Init
<1>2. (Is("launch") => LaunchInv) /\ [Next]_vars => (Is("launch") => LaunchInv)'
  <2> SUFFICES ASSUME Is("launch") => LaunchInv, [Next]_vars, Is("launch")' PROVE LaunchInv'
    OBVIOUS
  <2>1. Is("launch")
    BY DEF Is, Next, vars
  <2>2. [Launch!Next]_(Launch!vars)
    BY <2>1, LaunchMoves
  <2> QED BY <2>1, <2>2, FrameworksAssumption, LaunchStepHolds
<1> QED BY <1>1, <1>2, PTL DEF Spec

-----------------------------------------------------------------------------
(* The delta probe: whatever the patience, the runs and the other clients *)

ProbePrompts == {"first", "followup"}

\* Who wrote what: records of the run that is on are written behind the offset,
\* and a request of it is pending or in the log, once.
ProbeWritten ==
  /\ started \in 0 .. MaxRuns
  /\ \A r \in pending : r.by <= started
  /\ \A i \in DOMAIN lines : lines[i].by <= started
  /\ \A i \in DOMAIN lines : i <= offset => lines[i].by < started

ProbeOnce ==
  /\ \A i, j \in DOMAIN lines :
       lines[i].by = started /\ lines[i].prompt \in ProbePrompts /\ lines[j].by = started
         /\ lines[j].prompt = lines[i].prompt => i = j
  /\ \A i \in DOMAIN lines : \A r \in pending :
       lines[i].by = started /\ r.by = started /\ r.prompt \in ProbePrompts => r.prompt # lines[i].prompt
  /\ \A r, s \in pending : r.by = started /\ s.by = started /\ r.prompt \in ProbePrompts
       /\ s.prompt = r.prompt => r = s

\* What was not asked yet is nowhere.
ProbeNotAsked(prompt) ==
  /\ \A r \in pending : r.by = started => r.prompt # prompt
  /\ \A i \in DOMAIN lines : lines[i].by = started => lines[i].prompt # prompt

ProbeSteps ==
  /\ asking = "first" => ProbeNotAsked("first") /\ scores = <<>>
  /\ asking \in {"first", "followup"} => ProbeNotAsked("followup")
  /\ asking = "followup" => scores \in Seq(BOOLEAN) /\ Len(scores) = 1
  /\ asking = "reading" => scores \in Seq(BOOLEAN) /\ Len(scores) = 2
  /\ asking # "ended" => verdict = "none" /\ looks < Patience

\* Nobody else is in the log behind the offset.
ProbeAlone ==
  quiet => /\ \A r \in pending : r.by = started /\ r.prompt \in ProbePrompts
           /\ \A i \in DOMAIN lines : i > offset => lines[i].by = started /\ lines[i].prompt \in ProbePrompts

ProbeInv ==
  /\ Probe!TypeOK
  /\ ProbeWritten
  /\ ProbeOnce
  /\ ProbeSteps
  /\ ProbeAlone
  /\ Probe!VerdictIsItsOwn

\* The invariant holds at the start.
LEMMA ProbeInitHolds ==
  ASSUME Probe!ProbeAssumption PROVE Probe!Init => ProbeInv
<1> SUFFICES ASSUME Probe!Init PROVE ProbeInv
  OBVIOUS
<1>1. lines = <<>> /\ DOMAIN lines = {} /\ Len(lines) = 0
  BY DEF Probe!Init
<1>2. Probe!TypeOK
  BY <1>1 DEF Probe!Init, Probe!TypeOK, Probe!ProbeAssumption
<1>3. ProbeWritten
  BY <1>1 DEF Probe!Init, ProbeWritten, Probe!ProbeAssumption
<1>4. ProbeOnce /\ ProbeSteps /\ ProbeAlone
  BY <1>1 DEF Probe!Init, ProbeOnce, ProbeSteps, ProbeAlone
<1>5. Probe!VerdictIsItsOwn
  BY DEF Probe!Init, Probe!VerdictIsItsOwn
<1> QED BY <1>2, <1>3, <1>4, <1>5 DEF ProbeInv

\* One more line.
LEMMA ProbeOneMoreLine ==
  ASSUME NEW S, NEW l \in Seq(S), NEW r \in S
  PROVE  /\ Append(l, r) \in Seq(S) /\ Len(Append(l, r)) = Len(l) + 1 /\ Len(l) \in Nat
         /\ DOMAIN l = 1 .. Len(l) /\ DOMAIN Append(l, r) = 1 .. Len(l) + 1
         /\ Append(l, r)[Len(l) + 1] = r
         /\ \A i \in 1 .. Len(l) : Append(l, r)[i] = l[i]
OBVIOUS

\* A sequence of two, element by element.
LEMMA ProbeTwoOf ==
  ASSUME NEW S, NEW s \in Seq(S), Len(s) = 2
  PROVE  s = <<s[1], s[2]>> /\ s[1] \in S /\ s[2] \in S
OBVIOUS

\* A record that reaches the log keeps it.
LEMMA ProbeFlushKeeps ==
  ASSUME Probe!ProbeAssumption, ProbeInv, NEW r \in pending, Probe!Flush(r)
  PROVE  ProbeInv'
<1> USE DEF ProbeInv
<1> DEFINE n == Len(lines)
<1>1. /\ pending' = pending \ {r} /\ lines' = Append(lines, r)
      /\ started' = started /\ asking' = asking /\ scores' = scores /\ offset' = offset /\ looks' = looks
      /\ verdict' = verdict /\ judged' = judged /\ quiet' = quiet
  BY DEF Probe!Flush
<1>2. lines \in Seq(Probe!Record) /\ r \in Probe!Record /\ offset \in 0 .. n /\ judged \in 0 .. n
  BY DEF Probe!TypeOK
<1>3. /\ lines' \in Seq(Probe!Record) /\ Len(lines') = n + 1 /\ n \in Nat
      /\ DOMAIN lines = 1 .. n /\ DOMAIN lines' = 1 .. n + 1 /\ lines'[n + 1] = r
      /\ \A i \in 1 .. n : lines'[i] = lines[i]
  BY <1>1, <1>2, ProbeOneMoreLine
<1>d. \A i \in DOMAIN lines' : (i \in DOMAIN lines /\ lines'[i] = lines[i]) \/ (i = n + 1 /\ lines'[i] = r)
  <2>1. \A i \in 1 .. n + 1 : i \in 1 .. n \/ i = n + 1
    BY <1>3
  <2> QED BY <1>3, <2>1, Zenon
<1> HIDE DEF n
<1>4. Probe!TypeOK'
  <2>1. offset \in 0 .. n + 1 /\ judged \in 0 .. n + 1
    BY <1>2, <1>3
  <2> QED BY <1>1, <1>2, <1>3, <2>1 DEF Probe!TypeOK
<1>5. ProbeWritten'
  <2>1. ~(n + 1 <= offset)
    BY <1>2, <1>3
  <2> QED BY <1>1, <1>d, <2>1 DEF ProbeWritten
<1>6. ProbeOnce'
  <2>1. ASSUME NEW i \in DOMAIN lines', NEW j \in DOMAIN lines', lines'[i].by = started,
               lines'[i].prompt \in ProbePrompts,
               lines'[j].by = started, lines'[j].prompt = lines'[i].prompt
        PROVE  i = j
    <3>1. CASE i \in DOMAIN lines /\ j \in DOMAIN lines /\ lines'[i] = lines[i] /\ lines'[j] = lines[j]
      BY <2>1, <3>1 DEF ProbeOnce
    <3>2. CASE i = n + 1 /\ j = n + 1
      BY <3>2
    <3>3. CASE i \in DOMAIN lines /\ lines'[i] = lines[i] /\ lines'[j] = r
      BY <2>1, <3>3 DEF ProbeOnce
    <3>4. CASE j \in DOMAIN lines /\ lines'[j] = lines[j] /\ lines'[i] = r
      BY <2>1, <3>4 DEF ProbeOnce
    <3> QED BY <1>d, <3>1, <3>2, <3>3, <3>4
  <2>2. ASSUME NEW i \in DOMAIN lines', NEW s \in pending', lines'[i].by = started, s.by = started,
               s.prompt \in ProbePrompts
        PROVE  s.prompt # lines'[i].prompt
    <3>0. s \in pending /\ s # r
      BY <1>1
    <3>1. CASE i \in DOMAIN lines /\ lines'[i] = lines[i]
      BY <2>2, <3>0, <3>1 DEF ProbeOnce
    <3>2. CASE lines'[i] = r
      BY <2>2, <3>0, <3>2 DEF ProbeOnce
    <3> QED BY <1>d, <3>1, <3>2
  <2>3. \A s, t \in pending' : s.by = started /\ t.by = started /\ s.prompt \in ProbePrompts
          /\ t.prompt = s.prompt => s = t
    BY <1>1 DEF ProbeOnce
  <2> QED BY <1>1, <2>1, <2>2, <2>3, Zenon DEF ProbeOnce
<1>7. ProbeSteps'
  <2>1. ASSUME NEW p, ProbeNotAsked(p) PROVE ProbeNotAsked(p)'
    BY <1>1, <1>d, <2>1 DEF ProbeNotAsked
  <2> QED BY <1>1, <2>1 DEF ProbeSteps
<1>8. ProbeAlone'
  BY <1>1, <1>d DEF ProbeAlone
<1>9. Probe!VerdictIsItsOwn'
  <2> SUFFICES ASSUME quiet PROVE Probe!VerdictIsItsOwn'
    BY <1>1, Zenon DEF Probe!VerdictIsItsOwn
  <2>0. Probe!Own("first")' = Probe!Own("first") /\ Probe!Own("followup")' = Probe!Own("followup")
    BY <1>1 DEF Probe!Own
  <2>1. CASE verdict \in {"ok", "bad"}
    <3>1. PICK i \in offset + 1 .. judged : lines[i] \in Probe!Own("followup")
      BY <2>1, Zenon DEF Probe!VerdictIsItsOwn
    <3>2. i \in DOMAIN lines /\ lines'[i] = lines[i]
      BY <1>2, <1>3, <3>1
    <3>3. r \notin Probe!Own("followup")
      BY <3>1, <3>2 DEF ProbeOnce, Probe!Own, ProbePrompts
    <3>4. (\E k \in DOMAIN lines' : lines'[k] \in Probe!Own("followup") /\ lines'[k].suppressed)
          <=> (\E k \in DOMAIN lines : lines[k] \in Probe!Own("followup") /\ lines[k].suppressed)
      <4>1. \A k \in DOMAIN lines : k \in DOMAIN lines' /\ lines'[k] = lines[k]
        BY <1>3
      <4> QED BY <1>d, <3>3, <4>1, Zenon
    <3>5. verdict = "ok" <=> /\ scores = <<TRUE, TRUE>>
                            /\ \E k \in DOMAIN lines : lines[k] \in Probe!Own("followup") /\ lines[k].suppressed
      BY <2>1, Zenon DEF Probe!VerdictIsItsOwn
    <3>6. verdict # "missing"
      BY <2>1
    <3> QED BY <1>1, <2>0, <3>1, <3>2, <3>4, <3>5, <3>6, Zenon DEF Probe!VerdictIsItsOwn
  <2>2. CASE verdict = "missing"
    <3>1. looks = Patience /\ ~(Probe!InTime("first") /\ Probe!InTime("followup"))
      BY <2>2 DEF Probe!VerdictIsItsOwn
    <3>2. \A i \in 1 .. judged : lines'[i] = lines[i]
      BY <1>2, <1>3
    <3>3. ~(Probe!InTime("first") /\ Probe!InTime("followup"))'
      BY <1>1, <2>0, <3>1, <3>2, Zenon DEF Probe!InTime
    <3> QED BY <1>1, <2>2, <3>1, <3>3 DEF Probe!VerdictIsItsOwn
  <2>3. CASE verdict \notin {"ok", "bad", "missing"}
    BY <1>1, <2>3, Zenon DEF Probe!VerdictIsItsOwn
  <2> QED BY <2>1, <2>2, <2>3
<1> QED BY <1>4, <1>5, <1>6, <1>7, <1>8, <1>9

\* Another client's record keeps it.
LEMMA ProbeOtherKeeps ==
  ASSUME Probe!ProbeAssumption, ProbeInv, Probe!Other
  PROVE  ProbeInv'
<1> USE DEF ProbeInv
<1> DEFINE o == [by |-> 0, prompt |-> "other", suppressed |-> FALSE]
<1>1. /\ pending' = pending \cup {o} /\ quiet' = FALSE
      /\ lines' = lines /\ started' = started /\ asking' = asking /\ scores' = scores /\ offset' = offset
      /\ looks' = looks /\ verdict' = verdict /\ judged' = judged
  BY DEF Probe!Other
<1>2. o \in Probe!Record /\ o.by = 0 /\ o.prompt = "other" /\ o.prompt \notin ProbePrompts
  BY DEF Probe!Record, ProbePrompts, Probe!ProbeAssumption
<1> HIDE DEF o
<1>3. Probe!TypeOK'
  BY <1>1, <1>2 DEF Probe!TypeOK
<1>4. ProbeWritten'
  BY <1>1, <1>2 DEF ProbeWritten
<1>5. ProbeOnce'
  BY <1>1, <1>2 DEF ProbeOnce
<1>6. ProbeSteps'
  <2>1. ASSUME NEW p \in ProbePrompts, ProbeNotAsked(p) PROVE ProbeNotAsked(p)'
    BY <1>1, <1>2, <2>1 DEF ProbeNotAsked
  <2>2. "first" \in ProbePrompts /\ "followup" \in ProbePrompts
    BY DEF ProbePrompts
  <2> QED BY <1>1, <2>1, <2>2 DEF ProbeSteps
<1>7. ProbeAlone' /\ Probe!VerdictIsItsOwn'
  BY <1>1, Zenon DEF ProbeAlone, Probe!VerdictIsItsOwn
<1> QED BY <1>3, <1>4, <1>5, <1>6, <1>7

\* Beginning a run keeps it.
LEMMA ProbeBeginKeeps ==
  ASSUME Probe!ProbeAssumption, ProbeInv, Probe!Begin
  PROVE  ProbeInv'
<1> USE DEF ProbeInv
<1>1. /\ asking = "ended" /\ started < MaxRuns
      /\ started' = started + 1 /\ asking' = "first" /\ offset' = Len(lines)
      /\ scores' = <<>> /\ looks' = 0 /\ verdict' = "none"
      /\ quiet' = (pending = {})
      /\ lines' = lines /\ pending' = pending /\ judged' = judged
  BY DEF Probe!Begin
<1>2. lines \in Seq(Probe!Record) /\ Len(lines) \in Nat /\ DOMAIN lines = 1 .. Len(lines)
        /\ pending \subseteq Probe!Record
  BY DEF Probe!TypeOK
<1>3. started \in Nat /\ started' \in 0 .. MaxRuns
  BY <1>1 DEF ProbeWritten, Probe!ProbeAssumption
<1>b. \A r \in Probe!Record : r.by \in Nat
  BY DEF Probe!Record
<1>4. /\ \A r \in pending : r.by <= started /\ r.by < started + 1 /\ r.by # started + 1 /\ r.by <= started + 1
      /\ \A i \in DOMAIN lines : lines[i].by <= started /\ lines[i].by < started + 1
           /\ lines[i].by # started + 1 /\ lines[i].by <= started + 1
  <2>1. ASSUME NEW b \in Nat, b <= started PROVE b < started + 1 /\ b # started + 1 /\ b <= started + 1
    BY <1>3, <2>1
  <2>2. \A i \in DOMAIN lines : lines[i] \in Probe!Record
    BY <1>2
  <2> QED BY <1>2, <1>b, <2>1, <2>2, Zenon DEF ProbeWritten
<1>5. Probe!TypeOK'
  BY <1>1, <1>2 DEF Probe!TypeOK, Probe!ProbeAssumption
<1>6. ProbeWritten'
  BY <1>1, <1>3, <1>4, Zenon DEF ProbeWritten
<1>7. ProbeOnce' /\ ProbeNotAsked("first")' /\ ProbeNotAsked("followup")'
  BY <1>1, <1>4, Zenon DEF ProbeOnce, ProbeNotAsked
<1>8. ProbeSteps'
  <2>1. 0 < Patience
    BY DEF Probe!ProbeAssumption
  <2> QED BY <1>1, <1>7, <2>1 DEF ProbeSteps
<1>9. ProbeAlone'
  <2>1. quiet' => pending' = {}
    BY <1>1, Zenon
  <2>2. \A i \in DOMAIN lines' : ~(i > offset')
    BY <1>1, <1>2
  <2> QED BY <2>1, <2>2, Zenon DEF ProbeAlone
<1>10. Probe!VerdictIsItsOwn'
  BY <1>1 DEF Probe!VerdictIsItsOwn
<1> QED BY <1>5, <1>6, <1>7, <1>8, <1>9, <1>10

\* Asking the gateway keeps it.
LEMMA ProbeAskKeeps ==
  ASSUME Probe!ProbeAssumption, ProbeInv, Probe!Ask
  PROVE  ProbeInv'
<1> USE DEF ProbeInv
<1>1. PICK s \in BOOLEAN, answer \in {"full", "partial", "error", "refused"} :
        /\ pending' = IF answer = "refused" THEN pending ELSE pending \cup {[by |-> started, prompt |-> asking, suppressed |-> s]}
        /\ IF answer \in {"error", "refused"}
           THEN asking' = "ended" /\ verdict' = "error" /\ scores' = scores /\ offset' = offset
           ELSE /\ scores' = Append(scores, answer = "full")
                /\ asking' = IF asking = "first" THEN "followup" ELSE "reading"
                /\ offset' = offset /\ verdict' = verdict
  BY Zenon DEF Probe!Ask, Probe!AfterFollowup
<1>2. /\ asking \in {"first", "followup"} /\ verdict = "none"
      /\ lines' = lines /\ started' = started /\ looks' = looks /\ judged' = judged
           /\ quiet' = quiet /\ offset' = offset
  BY <1>1 DEF Probe!Ask, ProbeSteps
<1> DEFINE r == [by |-> started, prompt |-> asking, suppressed |-> s]
<1>3. r \in Probe!Record /\ r.by = started /\ r.prompt = asking /\ asking \in ProbePrompts
  BY <1>2 DEF Probe!Record, ProbeWritten, ProbePrompts
<1>4. \A q \in pending' : q \in pending \/ q = r
  BY <1>1
<1>n. ProbeNotAsked(asking)
  BY <1>2 DEF ProbeSteps
<1>r. verdict' \in {"none", "error"}
  BY <1>1, <1>2
<1> HIDE DEF r
<1>5. Probe!TypeOK'
  <2>1. pending' \subseteq Probe!Record
    BY <1>3, <1>4 DEF Probe!TypeOK
  <2>2. asking' \in {"ended", "first", "followup", "reading"}
    BY <1>1
  <2> QED BY <1>2, <1>r, <2>1, <2>2 DEF Probe!TypeOK
<1>6. ProbeWritten'
  <2>1. started <= started
    BY DEF ProbeWritten
  <2> QED BY <1>2, <1>3, <1>4, <2>1 DEF ProbeWritten
<1>7. ProbeOnce'
  <2>1. \A i, j \in DOMAIN lines' : lines'[i].by = started' /\ lines'[i].prompt \in ProbePrompts
          /\ lines'[j].by = started'
                                   /\ lines'[j].prompt = lines'[i].prompt => i = j
    BY <1>2, Zenon DEF ProbeOnce
  <2>2. ASSUME NEW i \in DOMAIN lines, NEW q \in pending', lines[i].by = started, q.by = started,
               q.prompt \in ProbePrompts
        PROVE  q.prompt # lines[i].prompt
    BY <1>3, <1>4, <1>n, <2>2 DEF ProbeOnce, ProbeNotAsked
  <2>3. ASSUME NEW p \in pending', NEW q \in pending', p.by = started, q.by = started,
               p.prompt \in ProbePrompts, q.prompt = p.prompt
        PROVE  p = q
    <3>1. CASE p = r /\ q = r
      BY <3>1
    <3>2. CASE p \in pending /\ q \in pending
      BY <2>3, <3>2 DEF ProbeOnce
    <3>3. CASE p = r /\ q \in pending
      BY <1>3, <1>n, <2>3, <3>3 DEF ProbeNotAsked
    <3>4. CASE q = r /\ p \in pending
      BY <1>3, <1>n, <2>3, <3>4 DEF ProbeNotAsked
    <3> QED BY <1>4, <3>1, <3>2, <3>3, <3>4
  <2> QED BY <1>2, <2>1, <2>2, <2>3, Zenon DEF ProbeOnce
<1>8. ProbeSteps'
  <2>1. CASE asking' = "ended"
    BY <2>1 DEF ProbeSteps
  <2>2. CASE asking' # "ended" /\ asking = "first"
    <3>1. asking' = "followup" /\ scores' = Append(scores, answer = "full") /\ verdict' = "none"
      BY <1>1, <1>2, <2>2
    <3>2. scores = <<>> /\ looks < Patience /\ ProbeNotAsked("followup")
      BY <2>2 DEF ProbeSteps
    <3>3. ProbeNotAsked("followup")'
      BY <1>2, <1>3, <1>4, <2>2, <3>2 DEF ProbeNotAsked
    <3>4. scores' \in Seq(BOOLEAN) /\ Len(scores') = 1
      <4>1. (answer = "full") \in BOOLEAN
        OBVIOUS
      <4> DEFINE b == answer = "full"
      <4> HIDE DEF b
      <4>2. scores' = <<b>> /\ b \in BOOLEAN
        BY <3>1, <3>2, <4>1 DEF b
      <4> QED BY <4>2
    <3> QED BY <1>2, <3>1, <3>2, <3>3, <3>4 DEF ProbeSteps
  <2>3. CASE asking' # "ended" /\ asking = "followup"
    <3>1. asking' = "reading" /\ scores' = Append(scores, answer = "full") /\ verdict' = "none"
      BY <1>1, <1>2, <2>3
    <3>2. scores \in Seq(BOOLEAN) /\ Len(scores) = 1 /\ looks < Patience
      BY <2>3 DEF ProbeSteps
    <3>3. scores' \in Seq(BOOLEAN) /\ Len(scores') = 2
      <4> DEFINE b == answer = "full"
      <4>1. b \in BOOLEAN /\ scores' = Append(scores, b)
        BY <3>1
      <4> HIDE DEF b
      <4>2. Append(scores, b) \in Seq(BOOLEAN) /\ Len(Append(scores, b)) = Len(scores) + 1
        BY <3>2, <4>1, ProbeOneMoreLine, ZenonT(30)
      <4>3. Len(scores) + 1 = 2
        BY <3>2
      <4> QED BY <4>1, <4>2, <4>3, Zenon
    <3> QED BY <1>2, <3>1, <3>2, <3>3 DEF ProbeSteps
  <2> QED BY <1>2, <2>1, <2>2, <2>3
<1>9. ProbeAlone'
  BY <1>2, <1>3, <1>4 DEF ProbeAlone
<1>10. Probe!VerdictIsItsOwn'
  BY <1>r, Zenon DEF Probe!VerdictIsItsOwn
<1> QED BY <1>5, <1>6, <1>7, <1>8, <1>9, <1>10

\* What a look sees is the log behind the offset.
LEMMA ProbeBehind ==
  ASSUME NEW S, NEW l \in Seq(S), NEW o \in 0 .. Len(l)
  PROVE  /\ DOMAIN SubSeq(l, o + 1, Len(l)) = 1 .. Len(l) - o
         /\ Len(SubSeq(l, o + 1, Len(l))) = Len(l) - o
         /\ \A i \in 1 .. Len(l) - o : SubSeq(l, o + 1, Len(l))[i] = l[o + i]
<1>1. Len(l) \in Nat /\ o \in Nat /\ o + 1 \in 1 .. Len(l) + 1
  OBVIOUS
<1> QED BY <1>1

\* A verdict keeps it, whether the records came or the patience ran out.
LEMMA ProbeVerdictKeeps ==
  ASSUME Probe!ProbeAssumption, ProbeInv, asking = "reading", quiet, looks' = looks + 1,
         verdict' = Probe!Verdict, judged' = Len(lines),
         Len(Probe!Records) >= Probe!ExpectedMin \/ looks' = Patience,
         lines' = lines, started' = started, scores' = scores, offset' = offset, quiet' = quiet
  PROVE  Probe!VerdictIsItsOwn'
<1> USE DEF ProbeInv
<1> DEFINE n == Len(lines)
           Own1(r, p) == r.by = started /\ r.prompt = p
<1>1. lines \in Seq(Probe!Record) /\ n \in Nat /\ DOMAIN lines = 1 .. n /\ offset \in 0 .. n
  BY DEF Probe!TypeOK
<1>2. /\ DOMAIN Probe!Records = 1 .. n - offset /\ Len(Probe!Records) = n - offset
      /\ \A i \in 1 .. n - offset : Probe!Records[i] = lines[offset + i]
  BY <1>1, ProbeBehind DEF Probe!Records
<1>t. \A i \in 1 .. n : lines[i] \in Probe!Record
  BY <1>1
<1>a. \A i \in 1 .. n : i > offset => lines[i].by = started /\ lines[i].prompt \in ProbePrompts
  BY <1>1 DEF ProbeAlone
<1>o. \A i \in 1 .. n : i <= offset => lines[i].by # started
  <2>1. \A i \in 1 .. n : lines[i].by \in Nat
    BY <1>t DEF Probe!Record
  <2>2. started \in Nat
    BY DEF ProbeWritten
  <2> QED BY <1>1, <2>1, <2>2 DEF ProbeWritten
<1>u. \A i, j \in 1 .. n : lines[i].by = started /\ lines[i].prompt \in ProbePrompts
        /\ lines[j].by = started /\ lines[j].prompt = lines[i].prompt => i = j
  BY <1>1, Zenon DEF ProbeOnce
<1>s. scores \in Seq(BOOLEAN) /\ Len(scores) = 2
  BY DEF ProbeSteps
<1>p. \A p \in ProbePrompts : Probe!Own(p)' = Probe!Own(p)
  BY DEF Probe!Own
<1>3. ASSUME NEW p \in ProbePrompts, NEW i \in Probe!Found(p)
      PROVE  /\ offset + i \in offset + 1 .. n /\ lines[offset + i] \in Probe!Own(p)
             /\ Probe!Records[i] = lines[offset + i]
  <2>1. i \in 1 .. n - offset /\ Probe!Records[i].prompt = p /\ Probe!Records[i] = lines[offset + i]
    BY <1>2, <1>3 DEF Probe!Found
  <2>2. offset + i \in 1 .. n /\ offset + i > offset /\ offset + i \in offset + 1 .. n
    BY <1>1, <2>1
  <2>3. lines[offset + i].by = started /\ lines[offset + i] \in Probe!Record
    BY <1>a, <1>t, <2>2
  <2> QED BY <2>1, <2>2, <2>3 DEF Probe!Own
<1>4. ASSUME NEW p \in ProbePrompts, NEW k \in 1 .. n, lines[k] \in Probe!Own(p)
      PROVE  k > offset /\ k - offset \in Probe!Found(p)
  <2>1. lines[k].by = started /\ lines[k].prompt = p
    BY <1>4 DEF Probe!Own
  <2>2. k > offset
    BY <1>1, <1>o, <2>1
  <2>3. k - offset \in 1 .. n - offset /\ offset + (k - offset) = k
    BY <1>1, <2>2
  <2>4. Probe!Records[k - offset] = lines[k]
    BY <1>2, <2>3
  <2> QED BY <1>2, <2>1, <2>2, <2>3, <2>4 DEF Probe!Found
<1>q. "first" \in ProbePrompts /\ "followup" \in ProbePrompts
  BY DEF ProbePrompts
<1>5. CASE Probe!Found("first") = {} \/ Probe!Found("followup") = {}
  <2>1. verdict' = "missing"
    BY <1>5 DEF Probe!Verdict
  <2>2. ~(Probe!InTime("first") /\ Probe!InTime("followup"))'
    <3> SUFFICES ASSUME Probe!InTime("first")', Probe!InTime("followup")' PROVE FALSE
      BY Zenon
    <3>1. \E i \in 1 .. n : lines[i] \in Probe!Own("first")
      BY <1>p, <1>q DEF Probe!InTime
    <3>2. \E i \in 1 .. n : lines[i] \in Probe!Own("followup")
      BY <1>p, <1>q DEF Probe!InTime
    <3> QED BY <1>4, <1>5, <1>q, <3>1, <3>2
  <2>3. looks' = Patience
    <3> SUFFICES ASSUME n - offset >= 2 PROVE FALSE
      BY <1>1, <1>2 DEF Probe!ExpectedMin
    <3> DEFINE i == offset + 1
               j == offset + 2
    <3>1. i \in 1 .. n /\ j \in 1 .. n /\ i > offset /\ j > offset /\ i # j
      BY <1>1
    <3> HIDE DEF i, j
    <3>2. lines[i].by = started /\ lines[i].prompt \in ProbePrompts /\ lines[j].by = started
            /\ lines[j].prompt \in ProbePrompts
      BY <1>a, <3>1
    <3>3. lines[i].prompt # lines[j].prompt
      BY <1>u, <3>1, <3>2, Zenon
    <3>4. \A p \in ProbePrompts : \E k \in 1 .. n : lines[k] \in Probe!Own(p)
      <4>1. lines[i] \in Probe!Record /\ lines[j] \in Probe!Record
        BY <1>t, <3>1
      <4> QED BY <3>1, <3>2, <3>3, <4>1 DEF Probe!Own, ProbePrompts
    <3> QED BY <1>4, <1>5, <1>q, <3>4
  <2> QED BY <2>1, <2>2, <2>3 DEF Probe!VerdictIsItsOwn
<1>6. CASE Probe!Found("first") # {} /\ Probe!Found("followup") # {}
  <2>1. PICK i \in Probe!Found("followup") : TRUE
    BY <1>6
  <2>2. /\ offset + i \in offset + 1 .. n /\ lines[offset + i] \in Probe!Own("followup")
             /\ Probe!Records[i] = lines[offset + i]
    BY <1>3, <1>q, <2>1
  <2>3. \A k \in 1 .. n : lines[k] \in Probe!Own("followup") => k = offset + i
    <3> SUFFICES ASSUME NEW k \in 1 .. n, lines[k] \in Probe!Own("followup") PROVE k = offset + i
      OBVIOUS
    <3>1. offset + i \in 1 .. n
      BY <1>1, <2>2
    <3>2. lines[k].by = started /\ lines[k].prompt = "followup" /\ lines[offset + i].by = started
            /\ lines[offset + i].prompt = "followup"
      BY <2>2 DEF Probe!Own
    <3> QED BY <1>q, <1>u, <3>1, <3>2, Zenon
  <2>4. \A j \in Probe!Found("followup") : j = i
    <3> SUFFICES ASSUME NEW j \in Probe!Found("followup") PROVE j = i
      OBVIOUS
    <3>1. offset + j \in offset + 1 .. n /\ lines[offset + j] \in Probe!Own("followup")
      BY <1>3, <1>q
    <3>2. offset + j \in 1 .. n
      BY <1>1, <3>1
    <3>3. offset + j = offset + i
      BY <2>3, <3>1, <3>2
    <3>4. i \in Int /\ j \in Int
      BY <1>2, <2>1 DEF Probe!Found
    <3> QED BY <1>1, <3>3, <3>4
  <2>5. Probe!Newest("followup") = lines[offset + i]
    <3>1. i \in Int
      BY <1>2, <2>1 DEF Probe!Found
    <3>2. i \in Probe!Found("followup") /\ \A j \in Probe!Found("followup") : j <= i
      BY <2>1, <2>4, <3>1
    <3> DEFINE c == CHOOSE k \in Probe!Found("followup") : \A j \in Probe!Found("followup") : j <= k
    <3>3. c \in Probe!Found("followup")
      <4> HIDE DEF c
      <4>1. \E k \in Probe!Found("followup") : \A j \in Probe!Found("followup") : j <= k
        BY <3>2
      <4> QED BY <4>1, Zenon DEF c
    <3>4. c = i
      BY <2>4, <3>3, Zenon
    <3> QED BY <2>2, <3>4, Zenon DEF Probe!Newest
  <2> DEFINE f == lines[offset + i]
  <2>6. verdict' = IF scores[1] /\ scores[2] /\ f.suppressed THEN "ok" ELSE "bad"
    BY <1>6, <2>5, Zenon DEF Probe!Verdict
  <2>7. f.suppressed <=> \E k \in DOMAIN lines : lines[k] \in Probe!Own("followup") /\ lines[k].suppressed
    <3>1. offset + i \in 1 .. n
      BY <1>1, <2>2
    <3> QED BY <1>1, <2>2, <2>3, <3>1, Zenon
  <2>8. (scores[1] /\ scores[2]) <=> scores = <<TRUE, TRUE>>
    <3>1. scores = <<scores[1], scores[2]>> /\ scores[1] \in BOOLEAN /\ scores[2] \in BOOLEAN
      BY <1>s, ProbeTwoOf, Zenon
    <3>2. <<TRUE, TRUE>>[1] = TRUE /\ <<TRUE, TRUE>>[2] = TRUE
      OBVIOUS
    <3> QED BY <3>1, <3>2, Zenon
  <2>9. verdict' = "ok" <=> /\ scores = <<TRUE, TRUE>>
                           /\ \E k \in DOMAIN lines : lines[k] \in Probe!Own("followup") /\ lines[k].suppressed
    <3> HIDE DEF f
    <3> QED BY <2>6, <2>7, <2>8, Zenon
  <2>10. verdict' \in {"ok", "bad"} /\ verdict' # "missing"
    BY <2>6
  <2> QED BY <1>p, <1>q, <2>2, <2>9, <2>10, Zenon DEF Probe!VerdictIsItsOwn
<1> QED BY <1>5, <1>6

\* Looking at the log keeps it.
LEMMA ProbeLookKeeps ==
  ASSUME Probe!ProbeAssumption, ProbeInv, Probe!Look
  PROVE  ProbeInv'
<1> USE DEF ProbeInv
<1>1. /\ asking = "reading" /\ looks' = looks + 1
      /\ IF Len(Probe!Records) >= Probe!ExpectedMin \/ looks' = Patience
         THEN asking' = "ended" /\ verdict' = Probe!Verdict /\ judged' = Len(lines)
         ELSE asking' = asking /\ verdict' = verdict /\ judged' = judged
      /\ lines' = lines /\ pending' = pending /\ started' = started /\ scores' = scores
           /\ offset' = offset /\ quiet' = quiet
  BY DEF Probe!Look
<1>2. looks < Patience /\ verdict = "none"
  BY <1>1 DEF ProbeSteps
<1>3. looks' \in 0 .. Patience /\ (looks' # Patience => looks' < Patience)
  BY <1>1, <1>2 DEF Probe!TypeOK, Probe!ProbeAssumption
<1>4. Probe!TypeOK'
  <2>1. Len(lines) \in 0 .. Len(lines)
    BY DEF Probe!TypeOK
  <2>2. Probe!Verdict \in {"missing", "ok", "bad"}
    BY DEF Probe!Verdict
  <2>3. asking' \in {"ended", "reading"} /\ verdict' \in {"none", "missing", "ok", "bad"}
          /\ judged' \in 0 .. Len(lines)
    BY <1>1, <1>2, <2>1, <2>2 DEF Probe!TypeOK
  <2> QED BY <1>1, <1>3, <2>3 DEF Probe!TypeOK
<1>5. ProbeWritten' /\ ProbeOnce' /\ ProbeAlone'
  BY <1>1, Zenon DEF ProbeWritten, ProbeOnce, ProbeAlone
<1>6. ProbeSteps'
  BY <1>1, <1>2, <1>3 DEF ProbeSteps
<1>7. Probe!VerdictIsItsOwn'
  <2>1. CASE ~quiet
    BY <1>1, <2>1 DEF Probe!VerdictIsItsOwn
  <2>2. CASE quiet /\ (Len(Probe!Records) >= Probe!ExpectedMin \/ looks' = Patience)
    BY <1>1, <2>2, ProbeVerdictKeeps
  <2>3. CASE ~(Len(Probe!Records) >= Probe!ExpectedMin \/ looks' = Patience)
    <3>1. verdict' = "none"
      BY <1>1, <1>2, <2>3
    <3> QED BY <3>1 DEF Probe!VerdictIsItsOwn
  <2> QED BY <2>1, <2>2, <2>3
<1> QED BY <1>4, <1>5, <1>6, <1>7

\* Every step keeps the invariant.
LEMMA ProbeStepHolds ==
  ASSUME Probe!ProbeAssumption PROVE ProbeInv /\ [Probe!Next]_(Probe!vars) => ProbeInv'
<1> SUFFICES ASSUME ProbeInv, [Probe!Next]_(Probe!vars) PROVE ProbeInv'
  OBVIOUS
<1>1. CASE Probe!Begin BY <1>1, ProbeBeginKeeps
<1>2. CASE Probe!Ask BY <1>2, ProbeAskKeeps
<1>3. CASE Probe!Look BY <1>3, ProbeLookKeeps
<1>4. CASE Probe!Other BY <1>4, ProbeOtherKeeps
<1>5. ASSUME NEW r \in pending, Probe!Flush(r) PROVE ProbeInv' BY <1>5, ProbeFlushKeeps
<1>6. CASE UNCHANGED Probe!vars
  <2>1. /\ lines' = lines /\ pending' = pending /\ started' = started /\ asking' = asking
             /\ scores' = scores /\ offset' = offset
        /\ looks' = looks /\ verdict' = verdict /\ judged' = judged /\ quiet' = quiet
    BY <1>6 DEF Probe!vars
  <2>2. Probe!TypeOK' /\ ProbeWritten' /\ ProbeOnce' /\ ProbeAlone'
    BY <2>1, Zenon DEF ProbeInv, Probe!TypeOK, ProbeWritten, ProbeOnce, ProbeAlone
  <2>3. ProbeNotAsked("first")' = ProbeNotAsked("first")
          /\ ProbeNotAsked("followup")' = ProbeNotAsked("followup")
    BY <2>1, Zenon DEF ProbeNotAsked
  <2>4. ProbeSteps'
    BY <2>1, <2>3 DEF ProbeInv, ProbeSteps
  <2>5. Probe!VerdictIsItsOwn'
    BY <2>1, Zenon DEF ProbeInv, Probe!VerdictIsItsOwn, Probe!Own, Probe!InTime
  <2> QED BY <2>2, <2>4, <2>5 DEF ProbeInv
<1> QED BY <1>1, <1>2, <1>3, <1>4, <1>5, <1>6 DEF Probe!Next

\* What the probe promises follows.
LEMMA ProbeJudges == ASSUME ProbeInv PROVE Probe!ProbeIsFair
BY DEF ProbeInv, Probe!ProbeIsFair

\* A step while the probe is driven is one of its own.
LEMMA ProbeMoves ==
  ASSUME Is("probe"), [Next]_vars PROVE [Probe!Next]_(Probe!vars) /\ Is("probe")'
<1>1. driven' = driven
  BY DEF Next, vars
<1>2. CASE Next
  BY <1>1, <1>2 DEF Next, Is
<1>3. CASE UNCHANGED vars
  BY <1>1, <1>3 DEF vars, ProbeVars, Probe!vars, Is
<1> QED BY <1>2, <1>3

\* The invariant holds for as long as the probe is driven.
LEMMA ProbeHolds == Spec => [](Is("probe") => ProbeInv)
<1>1. Init => (Is("probe") => ProbeInv)
  BY FrameworksAssumption, ProbeInitHolds DEF Init
<1>2. (Is("probe") => ProbeInv) /\ [Next]_vars => (Is("probe") => ProbeInv)'
  <2> SUFFICES ASSUME Is("probe") => ProbeInv, [Next]_vars, Is("probe")' PROVE ProbeInv'
    OBVIOUS
  <2>1. Is("probe")
    BY DEF Is, Next, vars
  <2>2. [Probe!Next]_(Probe!vars)
    BY <2>1, ProbeMoves
  <2> QED BY <2>1, <2>2, FrameworksAssumption, ProbeStepHolds
<1> QED BY <1>1, <1>2, PTL DEF Spec

-----------------------------------------------------------------------------
(* Recursive functions and sequences *)

\* A function from 0 to n that a step takes from each value to the next.
IsRecursive(f, A, n, base, step) ==
  /\ f \in [0 .. n -> A]
  /\ f = [k \in 0 .. n |-> IF k = 0 THEN base ELSE step[<<f[k - 1], k>>]]

\* What is found by steps from a base exists, if every step stays in A.
LEMMA Recursion ==
  ASSUME NEW A, NEW n \in Nat, NEW base \in A, NEW step \in [A \X (1 .. n) -> A]
  PROVE  \E f : IsRecursive(f, A, n, base, step)
<1> DEFINE Steps(f, m) == \A k \in 0 .. m : f[k] = IF k = 0 THEN base ELSE step[<<f[k - 1], k>>]
           N == {m \in Nat : m <= n => \E f \in [0 .. m -> A] : Steps(f, m)}
<1>1. 0 \in N
  <2>1. [k \in 0 .. 0 |-> base] \in [0 .. 0 -> A] /\ Steps([k \in 0 .. 0 |-> base], 0)
    OBVIOUS
  <2> QED BY <2>1, Zenon
<1>2. \A m \in N : m + 1 \in N
  <2> SUFFICES ASSUME NEW m \in Nat, m + 1 <= n, NEW f \in [0 .. m -> A], Steps(f, m)
               PROVE  \E g \in [0 .. m + 1 -> A] : Steps(g, m + 1)
    OBVIOUS
  <2> DEFINE g == [k \in 0 .. m + 1 |-> IF k = m + 1 THEN step[<<f[m], m + 1>>] ELSE f[k]]
  <2>1. step[<<f[m], m + 1>>] \in A
    <3>1. <<f[m], m + 1>> \in A \X (1 .. n)
      OBVIOUS
    <3> QED BY <3>1
  <2>2. g \in [0 .. m + 1 -> A]
    BY <2>1
  <2>3. /\ \A k \in 0 .. m : g[k] = f[k] /\ k \in 0 .. m + 1
        /\ g[m + 1] = step[<<f[m], m + 1>>]
    OBVIOUS
  <2> HIDE DEF g
  <2>4. ASSUME NEW k \in 0 .. m + 1
        PROVE  g[k] = IF k = 0 THEN base ELSE step[<<g[k - 1], k>>]
    <3>1. CASE k = m + 1
      <4>1. k # 0 /\ k - 1 = m /\ g[k - 1] = f[m]
        BY <3>1, <2>3
      <4> QED BY <3>1, <4>1, <2>3
    <3>2. CASE k # m + 1
      <4>1. k \in 0 .. m /\ (k # 0 => k - 1 \in 0 .. m)
        BY <3>2
      <4>2. g[k] = f[k] /\ (k # 0 => g[k - 1] = f[k - 1])
        BY <4>1, <2>3
      <4>3. f[k] = IF k = 0 THEN base ELSE step[<<f[k - 1], k>>]
        BY <4>1
      <4> QED BY <4>2, <4>3, Zenon
    <3> QED BY <3>1, <3>2
  <2> QED BY <2>2, <2>4
<1>3. N = Nat
  <2>1. N \in SUBSET Nat
    OBVIOUS
  <2> HIDE DEF N
  <2> QED BY <1>1, <1>2, <2>1, SetInduction
<1>4. PICK f \in [0 .. n -> A] : Steps(f, n)
  BY <1>3
<1>5. f = [k \in 0 .. n |-> IF k = 0 THEN base ELSE step[<<f[k - 1], k>>]]
  BY <1>4
<1> QED BY <1>5, Zenon DEF IsRecursive

\* What a sequence over a set is made of.
LEMMA Elements ==
  ASSUME NEW T, NEW s \in Seq(T)
  PROVE  Len(s) \in Nat /\ DOMAIN s = 1 .. Len(s) /\ \A i \in 1 .. Len(s) : s[i] \in T
OBVIOUS

\* A sequence without its last element.
LEMMA Fronts ==
  ASSUME NEW T, NEW s \in Seq(T), NEW l \in Nat \ {0}, Len(s) = l
  PROVE  /\ SubSeq(s, 1, l - 1) \in Seq(T) /\ DOMAIN SubSeq(s, 1, l - 1) = 1 .. l - 1
         /\ \A i \in 1 .. l - 1 : SubSeq(s, 1, l - 1)[i] = s[i]
OBVIOUS

-----------------------------------------------------------------------------
(* The container: whatever is registered, in whatever order it is resolved *)

\* Who is being resolved is needed by who waits for it, and none is on a cycle.
ContainerChain ==
  /\ \A i, j \in DOMAIN stack : i < j => stack[j].name \in Container!Reachable(stack[i].name)
  /\ \A i \in DOMAIN stack : ~Container!HasCycle(stack[i].name)

\* What a call has passed in its loop is there.
ContainerPrepared ==
  \A i \in DOMAIN stack : \A k \in DOMAIN registered[stack[i].name] :
    k < stack[i].next => resolved[registered[stack[i].name][k]] # None

\* While all() runs, what it does not wait for is there or never will be.
ContainerAwaited ==
  /\ outcome = "all" => Container!Idle
  /\ todo # <<>> => \A n \in Container!Registered :
       Container!HasCycle(n) \/ resolved[n] # None \/ n \in Container!Range(todo)

ContainerInv ==
  /\ Container!TypeOK /\ resolved = [n \in Dependency |-> resolved[n]]
  /\ ContainerChain /\ ContainerPrepared /\ ContainerAwaited
  /\ Container!InjectedIsShared /\ Container!AllAreThere

\* Counting is the same in every module.
LEMMA ContainerCounts ==
  (\A S : Container!IsFiniteSet(S) <=> IsFiniteSet(S)) /\ (\A S : Container!Cardinality(S) = Cardinality(S))
BY DEF Container!IsFiniteSet, Container!Cardinality, IsFiniteSet, Cardinality

\* The elements of a sequence are what it is made of.
LEMMA ContainerElements ==
  ASSUME NEW s PROVE \A x : x \in Container!Range(s) <=> \E i \in DOMAIN s : x = s[i]
BY DEF Container!Range

\* What is reachable holds what the name needs, and with a name what that one does.
LEMMA ContainerClosed ==
  ASSUME NEW n PROVE Container!Needed({n} \cup Container!Reachable(n)) \subseteq Container!Reachable(n)
<1> SUFFICES ASSUME NEW x \in Container!Needed({n} \cup Container!Reachable(n)) PROVE x \in Container!Reachable(n)
  OBVIOUS
<1>1. PICK m \in ({n} \cup Container!Reachable(n)) \cap Container!Registered : x \in Container!Range(registered[m])
  BY DEF Container!Needed
<1>2. x \in Container!Registered
  BY DEF Container!Needed
<1>3. ASSUME NEW s \in SUBSET Container!Registered, Container!Needed({n} \cup s) \subseteq s PROVE x \in s
  <2>1. m \in {n} \cup s
    BY <1>1, <1>3 DEF Container!Reachable
  <2>2. x \in Container!Needed({n} \cup s)
    BY <1>1, <1>2, <2>1 DEF Container!Needed
  <2> QED BY <1>3, <2>2
<1> QED BY <1>2, <1>3 DEF Container!Reachable

\* What a reachable name reaches is reachable.
LEMMA ContainerTransitive ==
  ASSUME NEW n, NEW d \in Container!Reachable(n) PROVE Container!Reachable(d) \subseteq Container!Reachable(n)
<1>1. Container!Needed({d} \cup Container!Reachable(n)) \subseteq Container!Needed({n} \cup Container!Reachable(n))
  BY DEF Container!Needed
<1>2. Container!Needed({d} \cup Container!Reachable(n)) \subseteq Container!Reachable(n)
  BY <1>1, ContainerClosed
<1>3. Container!Reachable(n) \in SUBSET Container!Registered
  BY DEF Container!Reachable
<1> QED BY <1>2, <1>3, Zenon DEF Container!Reachable

\* A registered dependency is reachable.
LEMMA ContainerDirect ==
  ASSUME NEW n \in Container!Registered, NEW d \in Container!Registered, d \in Container!Range(registered[n])
  PROVE  d \in Container!Reachable(n)
<1>1. d \in Container!Needed({n} \cup Container!Reachable(n))
  BY DEF Container!Needed
<1> QED BY <1>1, ContainerClosed

\* The graph is the registrations'.
LEMMA ContainerGraphStays ==
  ASSUME registered' = registered
  PROVE  /\ Container!Registered' = Container!Registered
         /\ \A n : Container!Reachable(n)' = Container!Reachable(n) /\ Container!HasCycle(n)' = Container!HasCycle(n)
BY DEF Container!Registered, Container!Reachable, Container!Needed, Container!HasCycle

\* The calls in progress, one by one.
LEMMA ContainerCalls ==
  ASSUME Container!ContainerAssumption, Container!TypeOK
  PROVE  /\ Len(stack) \in Nat /\ DOMAIN stack = 1 .. Len(stack)
         /\ \A i \in 1 .. Len(stack) :
              /\ stack[i] \in [name : Dependency, next : Nat \ {0}]
              /\ stack[i].name \in Dependency /\ stack[i].next \in Nat \ {0}
              /\ registered[stack[i].name] # None /\ resolved[stack[i].name] = None
              /\ registered[stack[i].name] \in Seq(Dependency)
<1>1. stack \in Seq([name : Dependency, next : Nat \ {0}])
  BY DEF Container!TypeOK
<1>2. Len(stack) \in Nat /\ DOMAIN stack = 1 .. Len(stack)
  BY <1>1, Elements
<1>3. ASSUME NEW i \in 1 .. Len(stack)
      PROVE  /\ stack[i] \in [name : Dependency, next : Nat \ {0}]
             /\ stack[i].name \in Dependency /\ stack[i].next \in Nat \ {0}
             /\ registered[stack[i].name] # None /\ resolved[stack[i].name] = None
             /\ registered[stack[i].name] \in Seq(Dependency)
  <2>1. stack[i] \in [name : Dependency, next : Nat \ {0}]
    BY <1>1, Elements, Zenon
  <2>2. registered[stack[i].name] # None /\ resolved[stack[i].name] = None
    BY <1>2 DEF Container!TypeOK
  <2>3. registered[stack[i].name] \in Seq(Dependency)
    BY <2>1, <2>2, Zenon DEF Container!TypeOK, Container!ContainerAssumption
  <2> QED BY <2>1, <2>2, <2>3
<1> QED BY <1>2, <1>3

\* A call that waits is not the call of another: the names below it are others.
LEMMA ContainerApart ==
  ASSUME Container!TypeOK, ContainerChain PROVE Container!NotReentered
<1>1. DOMAIN stack \subseteq Nat
  BY DEF Container!TypeOK
<1>2. ASSUME NEW i \in DOMAIN stack, NEW j \in DOMAIN stack, i < j, stack[i].name = stack[j].name PROVE FALSE
  <2>1. stack[i].name \in Container!Reachable(stack[i].name)
    BY <1>2 DEF ContainerChain
  <2>2. ~Container!HasCycle(stack[i].name)
    BY DEF ContainerChain
  <2> QED BY <2>1, <2>2 DEF Container!HasCycle
<1>3. ASSUME NEW i \in DOMAIN stack, NEW j \in DOMAIN stack, i # j, stack[i].name = stack[j].name PROVE FALSE
  <2>1. i < j \/ j < i
    BY <1>1, <1>3
  <2> QED BY <1>2, <1>3, <2>1
<1> QED BY <1>3 DEF Container!NotReentered

\* The container starts empty.
LEMMA ContainerInitHolds ==
  ASSUME Container!ContainerAssumption, Container!Init PROVE ContainerInv
<1>1. stack = <<>> /\ DOMAIN stack = {} /\ todo = <<>> /\ resolved = [n \in Dependency |-> None] /\ outcome = "none"
      /\ registered = [n \in Dependency |-> None] /\ made = 0 /\ replaced = {}
  BY DEF Container!Init
<1>2. Container!TypeOK
  <2>1. 0 \in 0 .. MaxMade
    BY DEF Container!ContainerAssumption
  <2> QED BY <1>1, <2>1 DEF Container!TypeOK
<1>3. ContainerChain /\ ContainerPrepared /\ ContainerAwaited
  BY <1>1 DEF ContainerChain, ContainerPrepared, ContainerAwaited
<1>4. Container!InjectedIsShared /\ Container!AllAreThere
  BY <1>1 DEF Container!InjectedIsShared, Container!AllAreThere
<1> QED BY <1>1, <1>2, <1>3, <1>4 DEF ContainerInv

\* Nothing is in progress: what is left to keep is what was made.
LEMMA ContainerRests ==
  ASSUME Container!TypeOK', resolved' = [n \in Dependency |-> resolved'[n]],
         stack' = <<>>, todo' = <<>>, outcome' # "all", Container!InjectedIsShared'
  PROVE  ContainerInv'
<1>1. DOMAIN stack' = {}
  OBVIOUS
<1>2. ContainerChain' /\ ContainerPrepared'
  BY <1>1 DEF ContainerChain, ContainerPrepared
<1>3. ContainerAwaited' /\ Container!AllAreThere'
  BY DEF ContainerAwaited, Container!AllAreThere
<1> QED BY <1>2, <1>3 DEF ContainerInv

\* A registration concerns no instance: the name has none.
LEMMA ContainerRegisterKeeps ==
  ASSUME Container!ContainerAssumption, ContainerInv,
         NEW n \in Dependency, NEW deps \in DependencyLists, Container!Register(n, deps)
  PROVE  ContainerInv'
<1>1. /\ stack = <<>> /\ todo = <<>> /\ registered[n] = None /\ registered' = [registered EXCEPT ![n] = deps]
      /\ outcome' = "none" /\ UNCHANGED <<resolved, stack, todo, made, replaced>>
  BY DEF Container!Register, Container!Idle
<1>2. registered \in [Dependency -> DependencyLists \cup {None}]
  BY DEF ContainerInv, Container!TypeOK
<1>3. \A m \in Dependency : resolved[m] # None => m # n /\ registered'[m] = registered[m]
  BY <1>1, <1>2 DEF ContainerInv, Container!TypeOK
<1>4. Container!TypeOK'
  <2>1. registered' \in [Dependency -> DependencyLists \cup {None}]
    BY <1>1, <1>2
  <2>2. \A m \in Dependency : resolved'[m] # None =>
          registered'[m] # None /\ resolved'[m].id \in 1 .. made' /\ DOMAIN resolved'[m].with = Container!Range(registered'[m])
    BY <1>1, <1>3 DEF ContainerInv, Container!TypeOK
  <2>3. DOMAIN stack' = {}
    BY <1>1
  <2> QED BY <1>1, <2>1, <2>2, <2>3 DEF ContainerInv, Container!TypeOK
<1>5. Container!InjectedIsShared'
  BY <1>1, <1>3 DEF ContainerInv, Container!InjectedIsShared
<1> QED BY <1>1, <1>4, <1>5, ContainerRests DEF ContainerInv

\* A name that is unregistered counts as replaced for those that have its instance.
LEMMA ContainerUnregisterKeeps ==
  ASSUME Container!ContainerAssumption, ContainerInv, NEW n \in Dependency, Container!Unregister(n)
  PROVE  ContainerInv'
<1>1. /\ stack = <<>> /\ todo = <<>> /\ registered' = [registered EXCEPT ![n] = None]
      /\ resolved' = [resolved EXCEPT ![n] = None] /\ replaced' = replaced \cup {n}
      /\ outcome' = "none" /\ UNCHANGED <<stack, todo, made>>
  BY DEF Container!Unregister, Container!Idle
<1>2. registered \in [Dependency -> DependencyLists \cup {None}] /\ resolved = [m \in Dependency |-> resolved[m]]
  BY DEF ContainerInv, Container!TypeOK
<1>3. \A m \in Dependency : resolved'[m] # None =>
        m # n /\ registered'[m] = registered[m] /\ resolved'[m] = resolved[m]
  BY <1>1, <1>2
<1>4. Container!TypeOK'
  <2>1. registered' \in [Dependency -> DependencyLists \cup {None}] /\ replaced' \subseteq Dependency
    BY <1>1, <1>2 DEF ContainerInv, Container!TypeOK
  <2>2. \A m \in Dependency : resolved'[m] # None =>
          registered'[m] # None /\ resolved'[m].id \in 1 .. made' /\ DOMAIN resolved'[m].with = Container!Range(registered'[m])
    BY <1>1, <1>3 DEF ContainerInv, Container!TypeOK
  <2>3. DOMAIN stack' = {}
    BY <1>1
  <2> QED BY <1>1, <2>1, <2>2, <2>3 DEF ContainerInv, Container!TypeOK
<1>5. Container!InjectedIsShared'
  <2> SUFFICES ASSUME NEW m \in Dependency, resolved'[m] # None,
                      NEW d \in Container!Range(registered'[m]) \ replaced'
               PROVE  resolved'[d] # None /\ resolved'[m].with[d] = resolved'[d].id
    BY DEF Container!InjectedIsShared
  <2>1. registered'[m] = registered[m] /\ resolved'[m] = resolved[m] /\ d # n /\ d \notin replaced
    BY <1>1, <1>3
  <2>2. resolved'[d] = resolved[d]
    BY <1>1, <2>1
  <2> QED BY <2>1, <2>2 DEF ContainerInv, Container!InjectedIsShared
<1> QED BY <1>1, <1>2, <1>4, <1>5, ContainerRests, Zenon

\* A container that is cleared is an empty one.
LEMMA ContainerClearKeeps ==
  ASSUME Container!ContainerAssumption, ContainerInv, Container!Clear PROVE ContainerInv'
<1>1. /\ stack' = <<>> /\ todo' = <<>> /\ registered' = [n \in Dependency |-> None]
      /\ resolved' = [n \in Dependency |-> None] /\ replaced' = {} /\ outcome' = "none" /\ made' = made
      /\ DOMAIN stack' = {}
  BY DEF Container!Clear, Container!Idle
<1>2. Container!TypeOK'
  BY <1>1 DEF ContainerInv, Container!TypeOK
<1>3. Container!InjectedIsShared'
  BY <1>1 DEF Container!InjectedIsShared
<1> QED BY <1>1, <1>2, <1>3, ContainerRests

\* A call that returns or fails leaves what is resolved.
LEMMA ContainerReturnKeeps ==
  ASSUME ContainerInv, NEW what \in {"resolve", "error", "raised"}, Container!Return(what) PROVE ContainerInv'
<1>1. /\ stack' = <<>> /\ todo' = <<>> /\ outcome' = what /\ UNCHANGED <<registered, resolved, made, replaced>>
      /\ DOMAIN stack' = {}
  BY DEF Container!Return
<1>2. Container!TypeOK'
  BY <1>1 DEF ContainerInv, Container!TypeOK
<1>3. Container!InjectedIsShared'
  BY <1>1 DEF ContainerInv, Container!InjectedIsShared
<1> QED BY <1>1, <1>2, <1>3, ContainerRests DEF ContainerInv

\* A call of a name that waits for nothing yet.
LEMMA ContainerPushKeeps ==
  ASSUME Container!ContainerAssumption, ContainerInv, NEW n \in Dependency, Container!Push(n), todo' = todo,
         resolved[n] = None, registered[n] # None, ~Container!HasCycle(n),
         stack # <<>> => n \in Container!Reachable(Container!Call.name)
  PROVE  ContainerInv'
<1>1. /\ stack' = Append(stack, [name |-> n, next |-> 1]) /\ outcome' = "none"
      /\ UNCHANGED <<registered, resolved, made, replaced, todo>>
  BY DEF Container!Push
<1>2. stack \in Seq([name : Dependency, next : Nat \ {0}])
  BY DEF ContainerInv, Container!TypeOK
<1>3. PICK l \in Nat : Len(stack) = l /\ DOMAIN stack = 1 .. l
  BY <1>2
<1>4. /\ DOMAIN stack' = 1 .. l + 1 /\ stack'[l + 1] = [name |-> n, next |-> 1]
      /\ \A i \in 1 .. l : stack'[i] = stack[i]
      /\ stack' \in Seq([name : Dependency, next : Nat \ {0}])
  BY <1>1, <1>2, <1>3
<1>5. /\ Container!Registered' = Container!Registered
      /\ \A m : Container!Reachable(m)' = Container!Reachable(m) /\ Container!HasCycle(m)' = Container!HasCycle(m)
  BY <1>1, ContainerGraphStays
<1>6. Container!TypeOK'
  <2>1. \A i \in DOMAIN stack' : registered'[stack'[i].name] # None /\ resolved'[stack'[i].name] = None
    <3> SUFFICES ASSUME NEW i \in 1 .. l + 1 PROVE registered[stack'[i].name] # None /\ resolved[stack'[i].name] = None
      BY <1>1, <1>4
    <3>1. i \in 1 .. l \/ i = l + 1
      OBVIOUS
    <3>2. i \in 1 .. l => registered[stack[i].name] # None /\ resolved[stack[i].name] = None
      BY <1>3 DEF ContainerInv, Container!TypeOK
    <3>3. i = l + 1 => stack'[i].name = n
      BY <1>4
    <3> QED BY <1>4, <3>1, <3>2, <3>3
  <2> QED BY <1>1, <1>4, <2>1 DEF ContainerInv, Container!TypeOK
<1>7. ContainerChain'
  <2>1. ASSUME NEW i \in 1 .. l + 1, NEW j \in 1 .. l + 1, i < j
        PROVE  stack'[j].name \in Container!Reachable(stack'[i].name)
    <3>1. CASE j \in 1 .. l
      <4>1. i \in 1 .. l
        BY <2>1, <3>1
      <4> QED BY <1>3, <1>4, <2>1, <3>1, <4>1 DEF ContainerInv, ContainerChain
    <3>2. CASE j = l + 1
      <4>1. i \in 1 .. l /\ l \in 1 .. l /\ stack # <<>>
        BY <1>3, <2>1, <3>2
      <4>2. Container!Call = stack[l]
        BY <1>3 DEF Container!Call
      <4>3. n \in Container!Reachable(stack[l].name)
        BY <4>1, <4>2
      <4>4. i = l \/ stack[l].name \in Container!Reachable(stack[i].name)
        BY <1>3, <4>1 DEF ContainerInv, ContainerChain
      <4>5. n \in Container!Reachable(stack[i].name)
        BY <4>3, <4>4, ContainerTransitive
      <4> QED BY <1>4, <3>2, <4>1, <4>5
    <3> QED BY <2>1, <3>1, <3>2
  <2>2. ASSUME NEW i \in 1 .. l + 1 PROVE ~Container!HasCycle(stack'[i].name)
    <3>1. i \in 1 .. l \/ i = l + 1
      OBVIOUS
    <3> QED BY <1>3, <1>4, <3>1 DEF ContainerInv, ContainerChain
  <2> QED BY <1>4, <1>5, <2>1, <2>2 DEF ContainerChain
<1>8. ContainerPrepared'
  <2> SUFFICES ASSUME NEW i \in 1 .. l + 1, NEW k \in DOMAIN registered[stack'[i].name], k < stack'[i].next
               PROVE  resolved[registered[stack'[i].name][k]] # None
    BY <1>1, <1>4 DEF ContainerPrepared
  <2>1. CASE i \in 1 .. l
    <3>1. i \in DOMAIN stack /\ stack'[i] = stack[i]
      BY <1>3, <1>4, <2>1
    <3>2. \A j \in DOMAIN registered[stack[i].name] :
            j < stack[i].next => resolved[registered[stack[i].name][j]] # None
      BY <3>1 DEF ContainerInv, ContainerPrepared
    <3> QED BY <3>1, <3>2
  <2>2. CASE i = l + 1
    <3>1. registered[n] \in Seq(Dependency)
      BY DEF ContainerInv, Container!TypeOK, Container!ContainerAssumption
    <3>2. k \in Nat \ {0}
      BY <1>4, <2>2, <3>1
    <3> QED BY <1>4, <2>2, <3>2
  <2> QED BY <2>1, <2>2
<1>9. ContainerAwaited' /\ Container!InjectedIsShared' /\ Container!AllAreThere'
  <2>1. ContainerAwaited'
    BY <1>1, <1>5 DEF ContainerInv, ContainerAwaited
  <2>2. Container!InjectedIsShared'
    BY <1>1 DEF ContainerInv, Container!InjectedIsShared
  <2>3. Container!AllAreThere'
    BY <1>1 DEF Container!AllAreThere
  <2> QED BY <2>1, <2>2, <2>3
<1> QED BY <1>1, <1>6, <1>7, <1>8, <1>9 DEF ContainerInv

\* A dependency that is there is passed.
LEMMA ContainerAdvanceKeeps ==
  ASSUME Container!ContainerAssumption, ContainerInv, stack # <<>>, Container!Unresolved, Container!Advance,
         resolved[registered[Container!Call.name][Container!Call.next]] # None
  PROVE  ContainerInv'
<1>1. /\ stack' = [stack EXCEPT ![Len(stack)].next = @ + 1]
      /\ UNCHANGED <<registered, resolved, todo, outcome, made, replaced>>
  BY DEF Container!Advance
<1>2. stack \in Seq([name : Dependency, next : Nat \ {0}])
  BY DEF ContainerInv, Container!TypeOK
<1>3. PICK l \in Nat : Len(stack) = l /\ DOMAIN stack = 1 .. l
  BY <1>2
<1>4. l \in 1 .. l /\ Container!Call = stack[l]
  BY <1>2, <1>3 DEF Container!Call
<1>5. /\ DOMAIN stack' = 1 .. l /\ stack' \in Seq([name : Dependency, next : Nat \ {0}])
      /\ \A i \in 1 .. l : stack'[i].name = stack[i].name
      /\ stack'[l].next = stack[l].next + 1
      /\ \A i \in 1 .. l : i # l => stack'[i].next = stack[i].next
  <2>1. \A i \in 1 .. l : stack[i] \in [name : Dependency, next : Nat \ {0}]
    BY <1>3, ContainerCalls DEF ContainerInv
  <2>2. stack' = [stack EXCEPT ![l] = [stack[l] EXCEPT !.next = @ + 1]]
    BY <1>1, <1>3
  <2>3. [stack[l] EXCEPT !.next = @ + 1] \in [name : Dependency, next : Nat \ {0}]
    BY <1>4, <2>1
  <2> QED BY <1>2, <1>3, <1>4, <2>1, <2>2, <2>3
<1>6. /\ Container!Registered' = Container!Registered
      /\ \A m : Container!Reachable(m)' = Container!Reachable(m) /\ Container!HasCycle(m)' = Container!HasCycle(m)
  BY <1>1, ContainerGraphStays
<1>7. Container!TypeOK'
  <2>1. \A i \in DOMAIN stack' : registered'[stack'[i].name] # None /\ resolved'[stack'[i].name] = None
    <3> SUFFICES ASSUME NEW i \in 1 .. l
                 PROVE  registered[stack[i].name] # None /\ resolved[stack[i].name] = None
      BY <1>1, <1>5
    <3> QED BY <1>3 DEF ContainerInv, Container!TypeOK
  <2> QED BY <1>1, <1>5, <2>1 DEF ContainerInv, Container!TypeOK
<1>8. ContainerChain'
  <2>1. ASSUME NEW i \in 1 .. l PROVE ~Container!HasCycle(stack'[i].name)
    BY <1>3, <1>5 DEF ContainerInv, ContainerChain
  <2>2. ASSUME NEW i \in 1 .. l, NEW j \in 1 .. l, i < j PROVE stack'[j].name \in Container!Reachable(stack'[i].name)
    BY <1>3, <1>5, <2>2 DEF ContainerInv, ContainerChain
  <2> QED BY <1>5, <1>6, <2>1, <2>2 DEF ContainerChain
<1>9. ContainerPrepared'
  <2> SUFFICES ASSUME NEW i \in 1 .. l, NEW k \in DOMAIN registered[stack[i].name], k < stack'[i].next
               PROVE  resolved[registered[stack[i].name][k]] # None
    BY <1>1, <1>5 DEF ContainerPrepared
  <2>1. k < stack[i].next => resolved[registered[stack[i].name][k]] # None
    BY <1>3 DEF ContainerInv, ContainerPrepared
  <2>2. CASE i # l
    BY <1>5, <2>1, <2>2
  <2>3. CASE i = l
    <3>1. k \in Nat
      <4>1. registered[stack[l].name] \in Seq(Dependency)
        BY <1>3, <1>4, ContainerCalls DEF ContainerInv
      <4> QED BY <2>3, <4>1
    <3>2. k < stack[l].next + 1 /\ stack[l].next \in Nat
      <4>1. stack[l].next \in Nat
        BY <1>3, <1>4, ContainerCalls DEF ContainerInv
      <4> QED BY <1>5, <2>3, <4>1
    <3>3. k = stack[l].next \/ k < stack[l].next
      BY <3>1, <3>2
    <3> QED BY <1>4, <2>1, <2>3, <3>3
  <2> QED BY <2>2, <2>3
<1>10. ContainerAwaited'
  <2>1. outcome # "all"
    BY <1>4, <1>3 DEF ContainerInv, ContainerAwaited, Container!Idle
  <2> QED BY <1>1, <1>6, <2>1 DEF ContainerInv, ContainerAwaited
<1>11. Container!InjectedIsShared' /\ Container!AllAreThere'
  BY <1>1, <1>6, Zenon DEF ContainerInv, Container!InjectedIsShared, Container!AllAreThere
<1> QED BY <1>1, <1>7, <1>8, <1>9, <1>10, <1>11 DEF ContainerInv

\* The names registered are dependencies, and so are those they are registered with.
LEMMA ContainerLists ==
  ASSUME Container!ContainerAssumption, Container!TypeOK, NEW n \in Dependency, registered[n] # None
  PROVE  n \in Container!Registered /\ registered[n] \in Seq(Dependency)
BY Zenon DEF Container!ContainerAssumption, Container!TypeOK, Container!Registered

\* The call of a dependency of the call in progress.
LEMMA ContainerResolveNextKeeps ==
  ASSUME Container!ContainerAssumption, ContainerInv, Container!ResolveNext PROVE ContainerInv'
<1> DEFINE d == registered[Container!Call.name][Container!Call.next]
<1>1. stack # <<>> /\ Container!Unresolved /\ Container!Enter(d, Container!Advance)
  BY DEF Container!ResolveNext
<1>2. PICK l \in Nat : Len(stack) = l /\ DOMAIN stack = 1 .. l
  BY DEF ContainerInv, Container!TypeOK
<1>3. l \in 1 .. l /\ Container!Call = stack[l] /\ stack[l].name \in Dependency /\ stack[l].next \in Nat \ {0}
      /\ registered[stack[l].name] # None
  <2>1. l \in 1 .. l /\ Container!Call = stack[l]
    BY <1>1, <1>2 DEF Container!Call, ContainerInv, Container!TypeOK
  <2> QED BY <1>2, <2>1, ContainerCalls DEF ContainerInv
<1>4. stack[l].name \in Container!Registered /\ registered[stack[l].name] \in Seq(Dependency)
  BY <1>3, ContainerLists DEF ContainerInv
<1>5. stack[l].next \in DOMAIN registered[stack[l].name]
  BY <1>1, <1>3, <1>4 DEF Container!Unresolved
<1>6. d \in Dependency /\ d \in Container!Range(registered[stack[l].name])
  BY <1>3, <1>4, <1>5 DEF Container!Range
<1>7. CASE resolved[d] # None /\ Container!Advance
  BY <1>1, <1>7, ContainerAdvanceKeeps
<1>8. CASE Container!Return("error")
  BY <1>8, ContainerReturnKeeps
<1>9. CASE resolved[d] = None /\ registered[d] # None /\ ~Container!HasCycle(d) /\ Container!Push(d) /\ todo' = todo
  <2>1. d \in Container!Registered
    BY <1>6, <1>9 DEF Container!Registered
  <2>2. d \in Container!Reachable(Container!Call.name)
    <3> HIDE DEF d
    <3> QED BY <1>3, <1>4, <1>6, <2>1, ContainerDirect
  <2> HIDE DEF d
  <2> QED BY <1>6, <1>9, <2>2, ContainerPushKeeps
<1> HIDE DEF d
<1> QED BY <1>1, <1>7, <1>8, <1>9 DEF Container!Enter

\* A call from outside.
LEMMA ContainerResolveKeeps ==
  ASSUME Container!ContainerAssumption, ContainerInv, NEW n \in Dependency, Container!Resolve(n) PROVE ContainerInv'
<1>1. stack = <<>> /\ Container!Enter(n, Container!Return("resolve"))
  BY DEF Container!Resolve, Container!Idle
<1>2. CASE Container!Return("resolve") \/ Container!Return("error")
  BY <1>2, ContainerReturnKeeps
<1>3. CASE resolved[n] = None /\ registered[n] # None /\ ~Container!HasCycle(n) /\ Container!Push(n) /\ todo' = todo
  BY <1>1, <1>3, ContainerPushKeeps
<1> QED BY <1>1, <1>2, <1>3 DEF Container!Enter

\* all() goes on with its next name, and is done when none is left.
LEMMA ContainerNextOfAllKeeps ==
  ASSUME Container!ContainerAssumption, ContainerInv, Container!NextOfAll PROVE ContainerInv'
<1> DEFINE n == Head(todo)
           Done == /\ todo' = Tail(todo) /\ outcome' = IF Tail(todo) = <<>> THEN "all" ELSE outcome
                   /\ UNCHANGED <<registered, resolved, stack, made, replaced>>
<1>1. stack = <<>> /\ todo # <<>> /\ Container!Enter(n, Done) /\ todo \in Seq(Dependency)
  BY Zenon DEF Container!NextOfAll, ContainerInv, Container!TypeOK
<1>2. n \in Dependency /\ Tail(todo) \in Seq(Dependency) /\ Container!Range(todo) \subseteq {n} \cup Container!Range(Tail(todo))
  <2>1. PICK l \in Nat : Len(todo) = l /\ l # 0
    BY <1>1
  <2>2. \A i \in 1 .. l : i = 1 \/ (i - 1 \in 1 .. l - 1 /\ todo[i] = Tail(todo)[i - 1])
    BY <1>1, <2>1
  <2>3. DOMAIN todo = 1 .. l /\ DOMAIN Tail(todo) = 1 .. l - 1 /\ n = todo[1]
    BY <1>1, <2>1
  <2>4. Container!Range(todo) \subseteq {n} \cup Container!Range(Tail(todo))
    <3> SUFFICES ASSUME NEW i \in 1 .. l PROVE todo[i] \in {n} \cup {Tail(todo)[j] : j \in 1 .. l - 1}
      BY <2>3, Zenon DEF Container!Range
    <3> QED BY <2>2, <2>3, Zenon
  <2> QED BY <1>1, <2>1, <2>4
<1>3. CASE resolved[n] # None /\ Done
  <2>1. DOMAIN stack' = {} /\ UNCHANGED <<registered, resolved, stack, made, replaced>> /\ stack' = <<>>
    BY <1>1, <1>3
  <2>2. /\ Container!Registered' = Container!Registered
        /\ \A m : Container!HasCycle(m)' = Container!HasCycle(m)
    BY <2>1, ContainerGraphStays
  <2>3. Container!TypeOK' /\ Container!InjectedIsShared'
    <3>1. outcome' \in {"none", "resolve", "all", "error", "raised"}
      BY <1>3 DEF ContainerInv, Container!TypeOK
    <3>2. todo' \in Seq(Dependency) /\ stack' \in Seq([name : Dependency, next : Nat \ {0}])
      BY <1>2, <1>3, <2>1 DEF ContainerInv, Container!TypeOK
    <3>3. Container!TypeOK'
      BY <2>1, <3>1, <3>2 DEF ContainerInv, Container!TypeOK
    <3>4. Container!InjectedIsShared'
      BY <2>1 DEF ContainerInv, Container!InjectedIsShared
    <3> QED BY <3>3, <3>4
  <2>4. ContainerChain' /\ ContainerPrepared'
    BY <2>1 DEF ContainerChain, ContainerPrepared
  <2>5. \A m \in Container!Registered : Container!HasCycle(m) \/ resolved[m] # None \/ m \in Container!Range(Tail(todo))
    BY <1>1, <1>2, <1>3, Zenon DEF ContainerInv, ContainerAwaited
  <2>6. outcome # "all" /\ (outcome' = "all" => todo' = <<>>)
    BY <1>1, <1>3 DEF ContainerInv, ContainerAwaited, Container!Idle
  <2>7. ContainerAwaited'
    BY <1>3, <2>1, <2>2, <2>5, <2>6 DEF ContainerAwaited, Container!Idle
  <2>8. Container!AllAreThere'
    <3> SUFFICES ASSUME Tail(todo) = <<>> PROVE \A m \in Container!Registered : Container!HasCycle(m) \/ resolved[m] # None
      BY <1>3, <2>1, <2>2, <2>6 DEF Container!AllAreThere
    <3>1. Container!Range(Tail(todo)) = {}
      BY DEF Container!Range
    <3> QED BY <2>5, <3>1
  <2> QED BY <2>1, <2>3, <2>4, <2>7, <2>8 DEF ContainerInv
<1>4. CASE Container!Return("error")
  BY <1>4, ContainerReturnKeeps
<1>5. CASE resolved[n] = None /\ registered[n] # None /\ ~Container!HasCycle(n) /\ Container!Push(n) /\ todo' = todo
  <2> HIDE DEF n
  <2> QED BY <1>1, <1>2, <1>5, ContainerPushKeeps
<1>6. Container!Enter(n, Done)
  BY <1>1, Zenon
<1> HIDE DEF n, Done
<1> QED BY <1>3, <1>4, <1>5, <1>6 DEF Container!Enter

\* The instance that is made has those of its dependencies, which are all there.
LEMMA ContainerMakeKeeps ==
  ASSUME Container!ContainerAssumption, ContainerInv, Container!Make PROVE ContainerInv'
<1> DEFINE n == Container!Call.name
           instance == [id |-> made + 1,
                        with |-> [d \in Container!Range(registered[n]) |-> IF resolved[d] = None THEN 0 ELSE resolved[d].id]]
<1>1. /\ stack # <<>> /\ ~Container!Unresolved /\ made < MaxMade /\ made' = made + 1
      /\ resolved' = [resolved EXCEPT ![n] = instance] /\ stack' = SubSeq(stack, 1, Len(stack) - 1)
      /\ outcome' \in {"resolve", outcome} /\ UNCHANGED <<registered, todo, replaced>>
  BY DEF Container!Make
<1>2. PICK l \in Nat : Len(stack) = l /\ DOMAIN stack = 1 .. l
  BY ContainerCalls DEF ContainerInv
<1>3. l \in 1 .. l /\ Container!Call = stack[l] /\ n = stack[l].name
  BY <1>1, <1>2 DEF ContainerInv, Container!TypeOK, Container!Call
<1>4. n \in Dependency /\ registered[n] # None /\ resolved[n] = None /\ registered[n] \in Seq(Dependency)
  BY <1>2, <1>3, ContainerCalls DEF ContainerInv
<1>5. /\ DOMAIN stack' = 1 .. l - 1 /\ stack' \in Seq([name : Dependency, next : Nat \ {0}])
      /\ \A i \in 1 .. l - 1 : stack'[i] = stack[i] /\ i \in 1 .. l /\ stack[i].name # n
  <2>1. stack \in Seq([name : Dependency, next : Nat \ {0}])
    BY DEF ContainerInv, Container!TypeOK
  <2>2. stack' = SubSeq(stack, 1, l - 1) /\ l - 1 \in 0 .. l
    BY <1>1, <1>2, <1>3
  <2>3. \A i \in 1 .. l - 1 : i \in 1 .. l /\ i # l
    OBVIOUS
  <2>4. \A i \in 1 .. l - 1 : stack[i].name # n
    BY <1>2, <1>3, <2>3, ContainerApart DEF ContainerInv, Container!NotReentered
  <2>5. /\ stack' \in Seq([name : Dependency, next : Nat \ {0}]) /\ DOMAIN stack' = 1 .. l - 1
        /\ \A i \in 1 .. l - 1 : stack'[i] = stack[i]
    <3> HIDE DEF n
    <3>1. l \in Nat \ {0}
      BY <1>3
    <3> QED BY <1>2, <2>1, <2>2, <3>1, Fronts, Zenon
  <2> HIDE DEF n
  <2> QED BY <2>3, <2>4, <2>5
<1>6. /\ resolved'[n] = instance /\ resolved' = [m \in Dependency |-> resolved'[m]]
      /\ \A m \in Dependency : m # n => resolved'[m] = resolved[m]
  <2> HIDE DEF instance, n
  <2> QED BY <1>1, <1>4, Zenon DEF ContainerInv
<1>7. /\ Container!Registered' = Container!Registered
      /\ \A m : Container!Reachable(m)' = Container!Reachable(m) /\ Container!HasCycle(m)' = Container!HasCycle(m)
  BY <1>1, ContainerGraphStays
<1>8. made \in Nat /\ made' \in 0 .. MaxMade /\ made' = made + 1
  BY <1>1 DEF ContainerInv, Container!TypeOK, Container!ContainerAssumption
<1>9. instance.id = made' /\ DOMAIN instance.with = Container!Range(registered[n])
      /\ \A d \in Container!Range(registered[n]) : instance.with[d] = IF resolved[d] = None THEN 0 ELSE resolved[d].id
  BY <1>8
<1>10. \A k \in DOMAIN registered[n] : resolved[registered[n][k]] # None /\ registered[n][k] \in Dependency
  <2>1. ~(stack[l].next <= Len(registered[n])) /\ stack[l].next \in Nat
    BY <1>1, <1>2, <1>3, ContainerCalls DEF Container!Unresolved, ContainerInv
  <2>2. Len(registered[n]) \in Nat /\ DOMAIN registered[n] = 1 .. Len(registered[n])
        /\ \A k \in 1 .. Len(registered[n]) : registered[n][k] \in Dependency
    <3> HIDE DEF n
    <3> QED BY <1>4, Elements
  <2>3. \A k \in DOMAIN registered[n] : k < stack[l].next
    BY <2>1, <2>2
  <2> QED BY <1>2, <1>3, <2>2, <2>3, Zenon DEF ContainerInv, ContainerPrepared
<1> HIDE DEF n, instance
<1>11. Container!TypeOK'
  <2>1. ASSUME NEW m \in Dependency, resolved'[m] # None
        PROVE  /\ registered'[m] # None /\ resolved'[m].id \in 1 .. made'
               /\ DOMAIN resolved'[m].with = Container!Range(registered'[m])
    <3>1. CASE m = n
      BY <1>1, <1>4, <1>6, <1>8, <1>9, <3>1
    <3>2. CASE m # n
      <4>1. resolved'[m] = resolved[m]
        BY <1>6, <3>2
      <4>2. registered[m] # None /\ resolved[m].id \in 1 .. made /\ DOMAIN resolved[m].with = Container!Range(registered[m])
        BY <2>1, <4>1 DEF ContainerInv, Container!TypeOK
      <4> QED BY <1>1, <1>8, <4>1, <4>2
    <3> QED BY <3>1, <3>2
  <2>2. ASSUME NEW i \in 1 .. l - 1 PROVE registered'[stack'[i].name] # None /\ resolved'[stack'[i].name] = None
    <3>1. stack'[i] = stack[i] /\ i \in 1 .. l /\ stack[i].name # n
      BY <1>5
    <3>2. stack[i].name \in Dependency /\ registered[stack[i].name] # None /\ resolved[stack[i].name] = None
      BY <1>2, <3>1, ContainerCalls DEF ContainerInv
    <3> QED BY <1>1, <1>6, <3>1, <3>2, Zenon
  <2>3. outcome' \in {"none", "resolve", "all", "error", "raised"}
    BY <1>1 DEF ContainerInv, Container!TypeOK
  <2>4. registered' \in [Dependency -> DependencyLists \cup {None}] /\ todo' \in Seq(Dependency) /\ replaced' \subseteq Dependency
    BY <1>1 DEF ContainerInv, Container!TypeOK
  <2> QED BY <1>5, <1>8, <2>1, <2>2, <2>3, <2>4 DEF Container!TypeOK
<1>12. ContainerChain'
  <2>1. ASSUME NEW i \in 1 .. l - 1 PROVE ~Container!HasCycle(stack'[i].name)
    BY <1>2, <1>5 DEF ContainerInv, ContainerChain
  <2>2. ASSUME NEW i \in 1 .. l - 1, NEW j \in 1 .. l - 1, i < j
        PROVE  stack'[j].name \in Container!Reachable(stack'[i].name)
    <3>1. stack'[i] = stack[i] /\ stack'[j] = stack[j] /\ i \in 1 .. l /\ j \in 1 .. l
      BY <1>5
    <3> QED BY <1>2, <2>2, <3>1 DEF ContainerInv, ContainerChain
  <2> QED BY <1>5, <1>7, <2>1, <2>2 DEF ContainerChain
<1>13. ContainerPrepared'
  <2> SUFFICES ASSUME NEW i \in 1 .. l - 1, NEW k \in DOMAIN registered[stack'[i].name], k < stack'[i].next
               PROVE  resolved'[registered[stack'[i].name][k]] # None
    <3>1. registered' = registered
      BY <1>1
    <3> QED BY <1>5, <3>1 DEF ContainerPrepared
  <2>1. stack'[i] = stack[i] /\ i \in 1 .. l
    BY <1>5
  <2>2. resolved[registered[stack[i].name][k]] # None
    BY <1>2, <2>1 DEF ContainerInv, ContainerPrepared
  <2>3. registered[stack[i].name] \in Seq(Dependency)
    BY <1>2, <2>1, ContainerCalls DEF ContainerInv
  <2>4. registered[stack[i].name][k] \in Dependency
    BY <2>1, <2>3, Elements
  <2>5. registered[stack[i].name][k] # n
    BY <1>4, <2>2
  <2> QED BY <1>6, <2>1, <2>2, <2>4, <2>5
<1>14. outcome # "all" /\ outcome' # "all"
  BY <1>1 DEF ContainerInv, ContainerAwaited, Container!Idle
<1>15. ContainerAwaited'
  <2>1. ASSUME todo # <<>>, NEW m \in Container!Registered
        PROVE  Container!HasCycle(m) \/ resolved'[m] # None \/ m \in Container!Range(todo)
    <3>1. Container!HasCycle(m) \/ resolved[m] # None \/ m \in Container!Range(todo)
      BY <2>1 DEF ContainerInv, ContainerAwaited
    <3>2. m \in Dependency
      BY DEF Container!Registered
    <3> QED BY <1>4, <1>6, <3>1, <3>2
  <2> QED BY <1>1, <1>7, <1>14, <2>1 DEF ContainerAwaited
<1>16. Container!InjectedIsShared'
  <2> SUFFICES ASSUME NEW m \in Dependency, resolved'[m] # None, NEW d \in Container!Range(registered[m]) \ replaced
               PROVE  resolved'[d] # None /\ resolved'[m].with[d] = resolved'[d].id
    BY <1>1 DEF Container!InjectedIsShared
  <2>1. CASE m = n
    <3>1. d \in Dependency /\ resolved[d] # None /\ d # n
      BY <1>4, <1>10, <2>1 DEF Container!Range
    <3>2. instance.with[d] = resolved[d].id
      BY <1>9, <2>1, <3>1
    <3> QED BY <1>6, <2>1, <3>1, <3>2
  <2>2. CASE m # n
    <3>1. resolved'[m] = resolved[m]
      BY <1>6, <2>2
    <3>2. resolved[d] # None /\ resolved[m].with[d] = resolved[d].id
      BY <3>1 DEF ContainerInv, Container!InjectedIsShared
    <3>3. registered[m] \in Seq(Dependency)
      BY <3>1, ContainerLists DEF ContainerInv, Container!TypeOK
    <3>4. d \in Dependency
      BY <3>3, Elements DEF Container!Range
    <3>5. d # n
      BY <1>4, <3>2
    <3> QED BY <1>6, <3>1, <3>2, <3>4, <3>5
  <2> QED BY <2>1, <2>2
<1>17. Container!AllAreThere'
  BY <1>14 DEF Container!AllAreThere
<1> QED BY <1>6, <1>11, <1>12, <1>13, <1>15, <1>16, <1>17 DEF ContainerInv

-----------------------------------------------------------------------------
(* The topological sort leaves out what is on a cycle or depends on one *)

\* The sort, place by place.
ContainerIsSorting(f) ==
  f = [k \in 0 .. Container!Cardinality(Dependency) |->
         IF k = 0 THEN <<>>
         ELSE LET s == f[k - 1]
              IN IF Container!Sortable(s) = {} THEN s ELSE Append(s, Container!Min(Container!Sortable(s)))]

\* What is sortable is a set of registered names that are not sorted yet, and
\* one of them is the first.
LEMMA ContainerFirst ==
  ASSUME Container!ContainerAssumption, NEW s, Container!Sortable(s) # {}
  PROVE  /\ Container!Min(Container!Sortable(s)) \in Container!Registered
         /\ Container!Min(Container!Sortable(s)) \notin Container!Range(s)
         /\ Container!Min(Container!Sortable(s)) \in Dependency
<1>1. Container!Sortable(s) \in SUBSET Nat
  BY Zenon DEF Container!Sortable, Container!Registered, Container!ContainerAssumption
<1>2. \E n \in Container!Sortable(s) : \A m \in Container!Sortable(s) : n <= m
  BY <1>1, LeastNatural
<1>3. Container!Min(Container!Sortable(s)) \in Container!Sortable(s)
  BY <1>2 DEF Container!Min
<1> QED BY <1>3 DEF Container!Sortable, Container!Registered

\* There is such a sort.
LEMMA ContainerSortingExists ==
  ASSUME Container!ContainerAssumption PROVE \E f : ContainerIsSorting(f)
<1> DEFINE n == Cardinality(Dependency)
           Step(s) == IF Container!Sortable(s) = {} THEN s ELSE Append(s, Container!Min(Container!Sortable(s)))
           step == [p \in Seq(Dependency) \X (1 .. n) |-> Step(p[1])]
<1>1. n \in Nat /\ Container!Cardinality(Dependency) = n
  BY ContainerCounts, FS_CardinalityType DEF Container!ContainerAssumption
<1>2. ASSUME NEW s \in Seq(Dependency) PROVE Step(s) \in Seq(Dependency)
  BY <1>2, ContainerFirst
<1>3. step \in [Seq(Dependency) \X (1 .. n) -> Seq(Dependency)]
  <2> HIDE DEF Step
  <2> QED BY <1>2
<1>4. PICK f : IsRecursive(f, Seq(Dependency), n, <<>>, step)
  <2>1. <<>> \in Seq(Dependency)
    OBVIOUS
  <2> HIDE DEF step, n
  <2> QED BY <1>1, <1>3, <2>1, Recursion, Zenon
<1>5. \A k \in 0 .. n : k # 0 => step[<<f[k - 1], k>>] = Step(f[k - 1])
  <2> SUFFICES ASSUME NEW k \in 1 .. n PROVE step[<<f[k - 1], k>>] = Step(f[k - 1])
    <3> HIDE DEF Step, step, n
    <3>1. \A k \in 0 .. n : k # 0 => k \in 1 .. n
      BY <1>1
    <3> QED BY <3>1
  <2>1. k - 1 \in 0 .. n
    BY <1>1
  <2>2. f[k - 1] \in Seq(Dependency)
    BY <1>4, <2>1, Zenon DEF IsRecursive
  <2> HIDE DEF Step
  <2> QED BY <2>2
<1>6. f = [k \in 0 .. n |-> IF k = 0 THEN <<>> ELSE Step(f[k - 1])]
  <2> HIDE DEF Step, step
  <2> QED BY <1>4, <1>5, Zenon DEF IsRecursive
<1> QED BY <1>1, <1>6, Zenon DEF ContainerIsSorting

\* What an appended sequence is made of.
LEMMA ContainerAppended ==
  ASSUME NEW s \in Seq(Dependency), NEW x
  PROVE  Container!Range(Append(s, x)) = Container!Range(s) \cup {x}
<1>1. PICK l \in Nat : Len(s) = l
  OBVIOUS
<1>2. DOMAIN s = 1 .. l /\ DOMAIN Append(s, x) = 1 .. l + 1
  BY <1>1
<1>3. \A i \in 1 .. l : Append(s, x)[i] = s[i]
  BY <1>1
<1>4. Append(s, x)[l + 1] = x
  BY <1>1
<1>5. \A i \in 1 .. l + 1 : i \in 1 .. l \/ i = l + 1
  OBVIOUS
<1>6. 1 .. l \subseteq 1 .. l + 1 /\ l + 1 \in 1 .. l + 1
  OBVIOUS
<1> QED BY <1>2, <1>3, <1>4, <1>5, <1>6 DEF Container!Range

\* A sort takes one name more at each place, until none can be taken.
ContainerSortedUpTo(s, k) ==
  /\ s \in Seq(Dependency) /\ Container!Range(s) \subseteq Dependency
  /\ Container!Sortable(s) = {} \/ Cardinality(Container!Range(s)) = k

\* So the sort has taken all that can be.
LEMMA ContainerSortEnds ==
  ASSUME Container!ContainerAssumption PROVE Container!Sorted \in Seq(Dependency) /\ Container!Sortable(Container!Sorted) = {}
<1> DEFINE n == Cardinality(Dependency)
<1>1. IsFiniteSet(Dependency) /\ n \in Nat /\ Container!Cardinality(Dependency) = n
  BY ContainerCounts, FS_CardinalityType DEF Container!ContainerAssumption
<1>2. PICK f : /\ ContainerIsSorting(f) /\ Container!Sorted = f[n]
  <2> DEFINE g == CHOOSE g : ContainerIsSorting(g)
  <2>1. ContainerIsSorting(g)
    BY ContainerSortingExists
  <2>2. Container!Sorted = g[n]
    <3> HIDE DEF n
    <3> QED BY <1>1 DEF Container!Sorted, ContainerIsSorting
  <2> QED BY <2>1, <2>2, Zenon
<1> DEFINE N == {k \in Nat : k <= n => ContainerSortedUpTo(f[k], k)}
<1>3. 0 \in N
  <2>1. f[0] = <<>>
    BY <1>1, <1>2 DEF ContainerIsSorting
  <2>2. Container!Range(<<>>) = {} /\ <<>> \in Seq(Dependency)
    BY DEF Container!Range
  <2> HIDE DEF n
  <2> QED BY <2>1, <2>2, FS_EmptySet, Zenon DEF ContainerSortedUpTo
<1>4. ASSUME NEW k \in N PROVE k + 1 \in N
  <2> SUFFICES ASSUME k + 1 <= n PROVE ContainerSortedUpTo(f[k + 1], k + 1)
    OBVIOUS
  <2> DEFINE s == f[k]
             x == Container!Min(Container!Sortable(s))
  <2>1. k \in Nat /\ ContainerSortedUpTo(s, k)
    BY <1>1
  <2>2. f[k + 1] = IF Container!Sortable(s) = {} THEN s ELSE Append(s, x)
    <3>1. k + 1 \in 0 .. n /\ k + 1 # 0 /\ (k + 1) - 1 = k
      BY <1>1, <2>1
    <3> HIDE DEF n
    <3> QED BY <1>1, <1>2, <3>1, Zenon DEF ContainerIsSorting
  <2>3. CASE Container!Sortable(s) = {}
    <3> HIDE DEF s
    <3> QED BY <2>1, <2>2, <2>3 DEF ContainerSortedUpTo
  <2>4. CASE Container!Sortable(s) # {}
    <3> HIDE DEF s, n
    <3>1. x \in Dependency /\ x \notin Container!Range(s)
      BY <2>4, ContainerFirst
    <3> HIDE DEF x
    <3>2. s \in Seq(Dependency) /\ Container!Range(s) \subseteq Dependency /\ Cardinality(Container!Range(s)) = k
      BY <2>1, <2>4 DEF ContainerSortedUpTo
    <3>3. Container!Range(Append(s, x)) = Container!Range(s) \cup {x} /\ Append(s, x) \in Seq(Dependency)
      BY <3>1, <3>2, ContainerAppended
    <3>4. IsFiniteSet(Container!Range(s))
      BY <1>1, <3>2, FS_Subset
    <3>5. Cardinality(Container!Range(s) \cup {x}) = k + 1
      BY <3>1, <3>2, <3>4, FS_AddElement, Zenon
    <3> QED BY <2>2, <2>4, <3>1, <3>2, <3>3, <3>5, Zenon DEF ContainerSortedUpTo
  <2> QED BY <2>3, <2>4
<1>5. N = Nat
  <2>1. N \in SUBSET Nat
    OBVIOUS
  <2> HIDE DEF N
  <2> QED BY <1>3, <1>4, <2>1, SetInduction
<1>6. ContainerSortedUpTo(f[n], n)
  <2>1. n \in N /\ n <= n
    BY <1>1, <1>5
  <2> QED BY <2>1
<1>7. ASSUME Cardinality(Container!Range(f[n])) = n PROVE Container!Sortable(f[n]) = {}
  <2>1. Container!Range(f[n]) = Dependency
    BY <1>1, <1>6, <1>7, FS_Subset DEF ContainerSortedUpTo
  <2> QED BY <2>1 DEF Container!Sortable, Container!Registered
<1> HIDE DEF n
<1> QED BY <1>2, <1>6, <1>7 DEF ContainerSortedUpTo

\* What is registered and not sorted is on a cycle or depends on one: it needs
\* another such name, and of those it reaches one reaches the fewest.
LEMMA ContainerLeftOut ==
  ASSUME Container!ContainerAssumption, Container!TypeOK,
         NEW n \in Container!Registered, n \notin Container!Range(Container!Sorted)
  PROVE  Container!HasCycle(n)
<1> DEFINE Left == Container!Registered \ Container!Range(Container!Sorted)
           Near == Left \cap ({n} \cup Container!Reachable(n))
           Far(m) == Cardinality(Container!Reachable(m))
<1>1. IsFiniteSet(Dependency)
  BY ContainerCounts DEF Container!ContainerAssumption
<1>2. \A m : Container!Reachable(m) \in SUBSET Dependency
  BY DEF Container!Reachable, Container!Registered
<1>3. \A m : IsFiniteSet(Container!Reachable(m)) /\ Far(m) \in Nat
  BY <1>1, <1>2, FS_Subset, FS_CardinalityType
<1>4. PICK m \in Near : \A o \in Near : Far(m) <= Far(o)
  <2> DEFINE Fars == {Far(o) : o \in Near}
  <2>1. Fars \in SUBSET Nat
    <3> HIDE DEF Far
    <3> QED BY <1>3
  <2>2. Fars # {}
    OBVIOUS
  <2>3. \E a \in Fars : \A b \in Fars : a <= b
    <3> HIDE DEF Fars
    <3> QED BY <2>1, <2>2, LeastNatural
  <2> HIDE DEF Far, Near
  <2> QED BY <2>3
<1>5. PICK d \in Left : d \in Container!Range(registered[m])
  <2>1. m \in Container!Registered \ Container!Range(Container!Sorted)
    OBVIOUS
  <2>2. m \notin Container!Sortable(Container!Sorted)
    BY ContainerSortEnds
  <2> QED BY <2>1, <2>2 DEF Container!Sortable
<1>6. d \in Container!Reachable(m)
  BY <1>5, ContainerDirect
<1>7. Container!Reachable(d) \subseteq Container!Reachable(m)
  BY <1>6, ContainerTransitive
<1>8. d \in Near
  <2>1. CASE m = n
    BY <1>5, <1>6, <2>1
  <2>2. CASE m \in Container!Reachable(n)
    BY <1>5, <1>6, <2>2, ContainerTransitive
  <2> QED BY <2>1, <2>2
<1>9. Container!Reachable(d) = Container!Reachable(m)
  <2>1. Far(m) <= Far(d)
    BY <1>4, <1>8
  <2>2. Far(d) <= Far(m) /\ (Far(m) = Far(d) => Container!Reachable(m) = Container!Reachable(d))
    BY <1>3, <1>7, FS_Subset
  <2>3. Far(m) \in Nat /\ Far(d) \in Nat
    BY <1>3
  <2> HIDE DEF Far
  <2> QED BY <2>1, <2>2, <2>3
<1>10. d \in Container!Reachable(d) /\ d \in {n} \cup Container!Reachable(n)
  BY <1>6, <1>8, <1>9
<1> QED BY <1>10 DEF Container!HasCycle

\* all() waits for every name that can be resolved.
LEMMA ContainerAllKeeps ==
  ASSUME Container!ContainerAssumption, ContainerInv, Container!All PROVE ContainerInv'
<1>1. /\ stack = <<>> /\ todo' = Container!Sorted
      /\ outcome' = IF Container!Sorted = <<>> THEN "all" ELSE "none"
      /\ UNCHANGED <<registered, resolved, stack, made, replaced>>
  BY DEF Container!All, Container!Idle
<1>2. DOMAIN stack' = {} /\ todo' \in Seq(Dependency)
  BY <1>1, ContainerSortEnds
<1>3. /\ Container!Registered' = Container!Registered
      /\ \A m : Container!HasCycle(m)' = Container!HasCycle(m)
  BY <1>1, ContainerGraphStays
<1>4. Container!TypeOK'
  <2>1. outcome' \in {"none", "resolve", "all", "error", "raised"}
    BY <1>1
  <2>2. stack' \in Seq([name : Dependency, next : Nat \ {0}])
    BY <1>1 DEF ContainerInv, Container!TypeOK
  <2> QED BY <1>1, <1>2, <2>1, <2>2 DEF ContainerInv, Container!TypeOK
<1>5. ContainerChain' /\ ContainerPrepared'
  BY <1>2 DEF ContainerChain, ContainerPrepared
<1>6. Container!InjectedIsShared'
  BY <1>1 DEF ContainerInv, Container!InjectedIsShared
<1>7. \A m \in Container!Registered : Container!HasCycle(m) \/ m \in Container!Range(Container!Sorted)
  BY ContainerLeftOut DEF ContainerInv
<1>8. ContainerAwaited'
  BY <1>1, <1>3, <1>7 DEF ContainerAwaited, Container!Idle
<1>9. Container!AllAreThere'
  <2>1. Container!Range(<<>>) = {}
    BY DEF Container!Range
  <2> QED BY <1>1, <1>3, <1>7, <2>1 DEF Container!AllAreThere
<1> QED BY <1>1, <1>4, <1>5, <1>6, <1>8, <1>9 DEF ContainerInv

\* Every step of the container keeps the invariant.
LEMMA ContainerStepHolds ==
  ASSUME Container!ContainerAssumption, ContainerInv, [Container!Next]_(Container!vars) PROVE ContainerInv'
<1>1. ASSUME NEW n \in Dependency, NEW deps \in DependencyLists, Container!Register(n, deps) PROVE ContainerInv'
  BY <1>1, ContainerRegisterKeeps
<1>2. ASSUME NEW n \in Dependency, Container!Unregister(n) PROVE ContainerInv'
  BY <1>2, ContainerUnregisterKeeps
<1>3. ASSUME NEW n \in Dependency, Container!Resolve(n) PROVE ContainerInv'
  BY <1>3, ContainerResolveKeeps
<1>4. CASE Container!Clear BY <1>4, ContainerClearKeeps
<1>5. CASE Container!All BY <1>5, ContainerAllKeeps
<1>6. CASE Container!NextOfAll BY <1>6, ContainerNextOfAllKeeps
<1>7. CASE Container!ResolveNext BY <1>7, ContainerResolveNextKeeps
<1>8. CASE Container!Make BY <1>8, ContainerMakeKeeps
<1>9. CASE Container!FactoryFails
  <2>1. Container!Return("error") \/ Container!Return("raised")
    BY <1>9 DEF Container!FactoryFails
  <2> QED BY <2>1, ContainerReturnKeeps
<1>10. CASE UNCHANGED Container!vars
  <2>1. UNCHANGED <<registered, resolved, stack, todo, outcome, made, replaced>>
    BY <1>10 DEF Container!vars
  <2>2. /\ Container!Registered' = Container!Registered
        /\ \A m : Container!Reachable(m)' = Container!Reachable(m) /\ Container!HasCycle(m)' = Container!HasCycle(m)
    BY <2>1, ContainerGraphStays
  <2>3. Container!TypeOK' /\ ContainerPrepared' /\ Container!InjectedIsShared'
    BY <2>1, Zenon DEF ContainerInv, Container!TypeOK, ContainerPrepared, Container!InjectedIsShared
  <2>4. ContainerChain' /\ ContainerAwaited' /\ Container!AllAreThere'
    BY <2>1, <2>2 DEF ContainerInv, ContainerChain, ContainerAwaited, Container!Idle, Container!AllAreThere
  <2> QED BY <2>1, <2>3, <2>4 DEF ContainerInv
<1> QED BY <1>1, <1>2, <1>3, <1>4, <1>5, <1>6, <1>7, <1>8, <1>9, <1>10 DEF Container!Next

\* What the container promises follows.
LEMMA ContainerShares == ASSUME ContainerInv PROVE Container!InstancesAreShared
BY ContainerApart DEF ContainerInv, Container!InstancesAreShared

\* No step takes an instance from a name that stays registered.
LEMMA ContainerKeepsInstances ==
  ASSUME Container!ContainerAssumption, ContainerInv, [Container!Next]_(Container!vars) PROVE Container!KeepsInstances
<1> SUFFICES ASSUME NEW m \in Dependency, resolved[m] # None PROVE resolved'[m] = resolved[m] \/ registered'[m] = None
  BY DEF Container!KeepsInstances
<1>1. CASE resolved' = resolved
  BY <1>1
<1>2. ASSUME NEW n \in Dependency, Container!Unregister(n) PROVE resolved'[m] = resolved[m] \/ registered'[m] = None
  <2>1. registered' = [registered EXCEPT ![n] = None] /\ resolved' = [resolved EXCEPT ![n] = None]
    BY <1>2 DEF Container!Unregister
  <2>2. registered \in [Dependency -> DependencyLists \cup {None}] /\ resolved = [k \in Dependency |-> resolved[k]]
    BY DEF ContainerInv, Container!TypeOK
  <2> QED BY <2>1, <2>2
<1>3. CASE Container!Clear
  BY <1>3 DEF Container!Clear
<1>4. CASE Container!Make
  <2>1. stack # <<>> /\ Container!Call = stack[Len(stack)]
    BY <1>4 DEF Container!Make, Container!Call
  <2>2. Len(stack) \in 1 .. Len(stack)
    BY <2>1, ContainerCalls DEF ContainerInv, Container!TypeOK
  <2>3. Container!Call.name # m
    BY <2>1, <2>2, ContainerCalls DEF ContainerInv
  <2>4. resolved'[m] = resolved[m]
    BY <1>4, <2>3 DEF Container!Make, ContainerInv
  <2> QED BY <2>4
<1>5. CASE ~ \/ \E n \in Dependency : Container!Unregister(n)
             \/ Container!Clear \/ Container!Make
  BY <1>1, <1>5, Zenon DEF Container!Next, Container!vars, Container!Register, Container!Resolve, Container!All,
     Container!NextOfAll, Container!ResolveNext, Container!FactoryFails, Container!Enter, Container!Return,
     Container!Push, Container!Advance
<1> QED BY <1>2, <1>3, <1>4, <1>5

\* A step while the container is driven is one of its own.
LEMMA ContainerMoves ==
  ASSUME Is("container"), [Next]_vars PROVE [Container!Next]_(Container!vars) /\ Is("container")'
<1>1. driven' = driven
  BY DEF Next, vars
<1>2. CASE Next
  BY <1>1, <1>2 DEF Next, Is
<1>3. CASE UNCHANGED vars
  BY <1>1, <1>3 DEF vars, ContainerVars, Container!vars, Is
<1> QED BY <1>2, <1>3

\* The invariant holds for as long as the container is driven.
LEMMA ContainerHolds == Spec => [](Is("container") => ContainerInv)
<1>1. Init => (Is("container") => ContainerInv)
  BY FrameworksAssumption, ContainerInitHolds DEF Init
<1>2. (Is("container") => ContainerInv) /\ [Next]_vars => (Is("container") => ContainerInv)'
  <2> SUFFICES ASSUME Is("container") => ContainerInv, [Next]_vars, Is("container")' PROVE ContainerInv'
    OBVIOUS
  <2>1. Is("container")
    BY DEF Is, Next, vars
  <2>2. [Container!Next]_(Container!vars)
    BY <2>1, ContainerMoves
  <2> QED BY <2>1, <2>2, FrameworksAssumption, ContainerStepHolds
<1> QED BY <1>1, <1>2, PTL DEF Spec

-----------------------------------------------------------------------------
(* The platform: whatever is configured, offered, registered and asked *)

PlatformInv == Platform!TypeOK /\ Platform!ValidatorsAgree /\ Platform!LogTellsTheEnd
               /\ Platform!SessionsAreOwn /\ Platform!RegistryInStep

\* An error of the bootstrap's validator is an issue of the platform's, and the
\* other way round, whatever the registries hold.
LEMMA PlatformValidatorsAgree ==
  ASSUME NEW regs, NEW c, NEW k, k = None \/ ~Platform!Recurses(k)
  PROVE  LET issues == Platform!PlatformIssues(regs, c, k)
             errors == Platform!BootstrapErrors(regs, c, k)
         IN  IF Platform!Health(issues) = "UNHEALTHY"
             THEN errors \ {Platform!NoProviders} # {} \/ c = None \/ \E i \in issues : i.prefix = "DUP"
             ELSE errors \subseteq {Platform!NoProviders}
<1> DEFINE issues == Platform!PlatformIssues(regs, c, k)
           errors == Platform!BootstrapErrors(regs, c, k)
           Grave(i) == i.severity \in {"ERROR", "CRITICAL"}
<1>1. Platform!Health(issues) = "UNHEALTHY" <=> \E i \in issues : Grave(i)
  BY DEF Platform!Health
<1>2. ASSUME NEW i \in Platform!RegistryIssues(regs), Grave(i)
      PROVE  (\E e \in errors : e # Platform!NoProviders) \/ i.prefix = "DUP"
  <2>1. CASE regs = None
    <3>1. <<"registry", "workflow">> \in errors
      BY <2>1 DEF Platform!BootstrapErrors, Platform!RegistryErrors
    <3> QED BY <3>1 DEF Platform!NoProviders
  <2>2. CASE regs # None
    <3>1. CASE i \in Platform!BootstrapIssues(regs)
      <4>1. PICK n \in {"workflow", "session"} : regs[n] = None
        BY <3>1 DEF Platform!BootstrapIssues, Platform!Issues
      <4>2. <<"registry", n>> \in errors
        BY <4>1 DEF Platform!BootstrapErrors, Platform!RegistryErrors
      <4> QED BY <4>2 DEF Platform!NoProviders
    <3>2. CASE i \in Platform!ProviderIssues(regs)
      <4>1. Platform!Lacks(regs, "provider", "vllm")
        BY <3>2 DEF Platform!ProviderIssues, Platform!Issues
      <4>2. <<"provider", "vllm">> \in errors
        BY <2>2, <4>1 DEF Platform!BootstrapErrors
      <4> QED BY <4>2 DEF Platform!NoProviders
    <3>3. CASE i \in Platform!WorkflowIssues(regs)
      <4>1. Platform!Lacks(regs, "workflow", "default-engineering")
        BY <3>3 DEF Platform!WorkflowIssues, Platform!Issues
      <4>2. <<"workflow", "default-engineering">> \in errors
        BY <2>2, <4>1 DEF Platform!BootstrapErrors
      <4> QED BY <4>2 DEF Platform!NoProviders
    <3>4. CASE i \in Platform!DuplicateIssues(regs)
      BY <3>4 DEF Platform!DuplicateIssues, Platform!Issues, Platform!Issue
    <3>5. CASE i \in Platform!UnsetIssues(regs) \cup Platform!EmptyIssues(regs) \cup Platform!PublicIssues(regs)
      <4>1. i.severity = "WARNING"
        BY <3>5 DEF Platform!UnsetIssues, Platform!EmptyIssues, Platform!PublicIssues, Platform!Issues, Platform!Issue
      <4> QED BY <1>2, <4>1
    <3> QED BY <2>2, <3>1, <3>2, <3>3, <3>4, <3>5 DEF Platform!RegistryIssues
  <2> QED BY <2>1, <2>2
<1>3. ASSUME NEW i \in Platform!ContainerIssues(k), Grave(i) PROVE \E e \in errors : e # Platform!NoProviders
  <2>1. \E e : e \in Platform!ContainerErrors(k)
    BY Zenon DEF Platform!ContainerIssues, Platform!ContainerErrors, Platform!Issues
  <2>2. PICK e : <<"container", e>> \in errors
    BY <2>1, Zenon DEF Platform!BootstrapErrors
  <2> QED BY <2>2 DEF Platform!NoProviders
<1>4. ASSUME c # None, NEW i \in Platform!ConfigurationIssues(c), Grave(i) PROVE \E e \in errors : e # Platform!NoProviders
  <2>1. PICK e \in c.limits : TRUE
    BY <1>4 DEF Platform!ConfigurationIssues, Platform!Issues
  <2>2. <<"configuration", e>> \in errors
    BY <1>4, <2>1 DEF Platform!BootstrapErrors, Platform!ConfigurationErrors
  <2> QED BY <2>2 DEF Platform!NoProviders
<1>5. ASSUME NEW e \in errors, e # Platform!NoProviders PROVE \E i \in issues : Grave(i)
  <2>1. ASSUME NEW x \in Platform!ContainerErrors(k) PROVE \E i \in issues : Grave(i)
    <3>1. CASE k = None
      <4>1. Platform!Issue("DEPG", "CRITICAL", "container") \in issues
        BY <3>1 DEF Platform!PlatformIssues, Platform!ContainerIssues
      <4> QED BY <4>1 DEF Platform!Issue
    <3>2. CASE k # None /\ x \in Platform!Missing(k)
      <4>1. Platform!Issue("DEPG", "ERROR", x) \in issues
        BY <3>2 DEF Platform!PlatformIssues, Platform!ContainerIssues, Platform!Issues
      <4> QED BY <4>1 DEF Platform!Issue
    <3>3. CASE k # None /\ k.names = {}
      <4>1. Platform!Issue("DEPG", "ERROR", "empty") \in issues
        BY <3>3 DEF Platform!PlatformIssues, Platform!ContainerIssues, Platform!Issues
      <4> QED BY <4>1 DEF Platform!Issue
    <3> QED BY <2>1, <3>1, <3>2, <3>3, Zenon DEF Platform!ContainerErrors
  <2>2. ASSUME NEW n \in Platform!RegistryErrors(regs), n # "provider" PROVE \E i \in issues : Grave(i)
    <3>1. CASE regs = None
      <4>1. Platform!Issue("BOOT", "CRITICAL", "registries") \in issues
        BY <3>1 DEF Platform!PlatformIssues, Platform!RegistryIssues
      <4> QED BY <4>1 DEF Platform!Issue
    <3>2. CASE regs # None
      <4>1. Platform!Issue("BOOT", "ERROR", n) \in issues
        BY <2>2, <3>2 DEF Platform!RegistryErrors, Platform!PlatformIssues, Platform!RegistryIssues,
                          Platform!BootstrapIssues, Platform!Issues
      <4> QED BY <4>1 DEF Platform!Issue
    <3> QED BY <3>1, <3>2
  <2>3. ASSUME regs # None, Platform!Lacks(regs, "provider", "vllm") PROVE \E i \in issues : Grave(i)
    <3>1. Platform!Issue("PROV", "ERROR", "vllm") \in issues
      BY <2>3 DEF Platform!PlatformIssues, Platform!RegistryIssues, Platform!ProviderIssues, Platform!Issues
    <3> QED BY <3>1 DEF Platform!Issue
  <2>4. ASSUME regs # None, Platform!Lacks(regs, "workflow", "default-engineering") PROVE \E i \in issues : Grave(i)
    <3>1. Platform!Issue("WORK", "ERROR", "default-engineering") \in issues
      BY <2>4 DEF Platform!PlatformIssues, Platform!RegistryIssues, Platform!WorkflowIssues, Platform!Issues
    <3> QED BY <3>1 DEF Platform!Issue
  <2>5. ASSUME c # None, NEW l \in c.limits PROVE \E i \in issues : Grave(i)
    <3>1. Platform!Issue("CONF", "ERROR", l) \in issues
      BY <2>5 DEF Platform!PlatformIssues, Platform!ConfigurationIssues, Platform!Issues
    <3> QED BY <3>1 DEF Platform!Issue
  <2> HIDE DEF issues, Grave
  <2>6. CASE e \in {"container"} \X Platform!ContainerErrors(k)
    BY <2>1, <2>6
  <2>7. CASE e \in {"registry"} \X Platform!RegistryErrors(regs)
    BY <1>5, <2>2, <2>7 DEF Platform!NoProviders
  <2>8. CASE regs # None /\ e \in {"provider"} \X {p \in {"vllm"} : Platform!Lacks(regs, "provider", p)}
    BY <2>3, <2>8
  <2>9. CASE regs # None /\ e \in {"workflow"} \X {w \in {"default-engineering"} : Platform!Lacks(regs, "workflow", w)}
    BY <2>4, <2>9
  <2>10. CASE c # None /\ e \in {"configuration"} \X Platform!ConfigurationErrors(c)
    BY <2>5, <2>10 DEF Platform!ConfigurationErrors
  <2> QED BY <2>6, <2>7, <2>8, <2>9, <2>10 DEF Platform!BootstrapErrors
<1>6. \A i \in issues : Grave(i) => (\E e \in errors : e # Platform!NoProviders) \/ c = None \/ i.prefix = "DUP"
  <2> HIDE DEF errors, Grave
  <2> QED BY <1>2, <1>3, <1>4 DEF Platform!PlatformIssues
<1> HIDE DEF issues, errors, Grave
<1>7. IF Platform!Health(issues) = "UNHEALTHY"
      THEN errors \ {Platform!NoProviders} # {} \/ c = None \/ \E i \in issues : i.prefix = "DUP"
      ELSE errors \subseteq {Platform!NoProviders}
  BY <1>1, <1>5, <1>6
<1> QED BY <1>7 DEF issues, errors

\* A platform that is not built is sound.
LEMMA PlatformInitHolds ==
  ASSUME Platform!PlatformAssumption, Platform!Init PROVE PlatformInv
<1>1. /\ registries = None /\ platform = None /\ response = None /\ handlers = <<>> /\ workflows = <<>>
      /\ initialized = FALSE /\ sessions = <<>> /\ events = <<>> /\ served = 0 /\ DOMAIN events = {}
      /\ DOMAIN handlers = {} /\ DOMAIN workflows = {} /\ DOMAIN sessions = {}
  BY DEF Platform!Init
<1>2. Platform!TypeOK
  <2>1. 0 \in 0 .. MaxServed
    BY DEF Platform!PlatformAssumption
  <2>2. events \in Seq(Platform!Event)
    BY <1>1
  <2> QED BY <1>1, <2>1, <2>2, Zenon DEF Platform!TypeOK
<1>3. Platform!ValidatorsAgree
  BY <1>1, PlatformValidatorsAgree DEF Platform!ValidatorsAgree
<1>4. Platform!LogTellsTheEnd /\ Platform!SessionsAreOwn
  BY <1>1 DEF Platform!LogTellsTheEnd, Platform!SessionsAreOwn
<1>5. Platform!RegistryInStep
  BY <1>1 DEF Platform!RegistryInStep
<1> QED BY <1>2, <1>3, <1>4, <1>5 DEF PlatformInv

\* The validators look at nothing that a request or a handler changes.
LEMMA PlatformAssemblyStays ==
  ASSUME PlatformInv, platform' = platform PROVE Platform!ValidatorsAgree'
<1>1. platform # None => (platform.refused <=> Platform!ConfigurationIssues(platform.configuration) # {})
  BY DEF PlatformInv, Platform!ValidatorsAgree
<1>2. (platform # None => (platform.refused <=> Platform!ConfigurationIssues(platform.configuration) # {}))'
  BY <1>1 DEF Platform!ConfigurationIssues, Platform!Issues, Platform!Issue
<1> QED BY <1>2, PlatformValidatorsAgree DEF Platform!ValidatorsAgree

\* A platform is refused for what its validator says of the configuration.
LEMMA PlatformBuildKeeps ==
  ASSUME Platform!PlatformAssumption, PlatformInv, NEW c \in Configurations, Platform!Build(c) PROVE PlatformInv'
<1>1. /\ platform' = [configuration |-> c, refused |-> c.limits # {}]
      /\ UNCHANGED <<handlers, workflows, initialized, telemetry, sessions, events, response, served>>
  BY DEF Platform!Build, Platform!operations, Platform!ConfigurationErrors
<1>2. platform'.configuration = c /\ (platform'.refused <=> c.limits # {}) /\ c # None
  BY <1>1, Zenon DEF Platform!PlatformAssumption
<1>3. Platform!ConfigurationIssues(c) # {} <=> c.limits # {}
  BY <1>2 DEF Platform!ConfigurationIssues, Platform!Issues
<1>4. (platform.refused <=> Platform!ConfigurationIssues(platform.configuration) # {})'
  BY <1>2, <1>3 DEF Platform!ConfigurationIssues, Platform!Issues, Platform!Issue
<1>5. Platform!ValidatorsAgree'
  BY <1>4, PlatformValidatorsAgree DEF Platform!ValidatorsAgree
<1>6. Platform!TypeOK' /\ Platform!LogTellsTheEnd'
  BY <1>1, Zenon DEF PlatformInv, Platform!TypeOK, Platform!LogTellsTheEnd
<1>7. Platform!SessionsAreOwn' /\ Platform!RegistryInStep'
  BY <1>1 DEF PlatformInv, Platform!SessionsAreOwn, Platform!RegistryInStep, Platform!RequestErrors, Platform!IdErrors,
              Platform!DescriptionErrors, Platform!WorkspaceErrors, Platform!SizeErrors
<1> QED BY <1>5, <1>6, <1>7 DEF PlatformInv

\* Whatever is registered instead, the validators agree on it.
LEMMA PlatformOfferKeeps ==
  ASSUME Platform!PlatformAssumption, PlatformInv, NEW n, NEW registryOffered, Platform!WithRegistry(n, registryOffered)
  PROVE  PlatformInv'
<1>1. /\ served' = served + 1 /\ served < MaxServed
      /\ UNCHANGED <<platform, handlers, workflows, initialized, telemetry, sessions, events, response>>
  BY DEF Platform!WithRegistry, Platform!operations
<1>2. Platform!TypeOK' /\ Platform!LogTellsTheEnd'
  <2>1. served' \in 0 .. MaxServed
    BY <1>1 DEF PlatformInv, Platform!TypeOK, Platform!PlatformAssumption
  <2>2. Platform!TypeOK'
    BY <1>1, <2>1 DEF PlatformInv, Platform!TypeOK
  <2> QED BY <1>1, <2>2, Zenon DEF PlatformInv, Platform!LogTellsTheEnd
<1>3. Platform!SessionsAreOwn' /\ Platform!RegistryInStep'
  BY <1>1 DEF PlatformInv, Platform!SessionsAreOwn, Platform!RegistryInStep
<1> QED BY <1>1, <1>2, <1>3, PlatformAssemblyStays DEF PlatformInv

\* The default operations are registered for both dictionaries, or for neither.
LEMMA PlatformInitializes ==
  ASSUME PlatformInv, Platform!Initialize PROVE Platform!RegistryInStep' /\ initialized' \in BOOLEAN
<1> DEFINE H == Platform!WithDefaults
<1>1. /\ initialized' = (initialized \/ Platform!AllFree) /\ handlers' = H
      /\ workflows' = [o \in DOMAIN H |-> IF o \in DOMAIN workflows THEN workflows[o] ELSE Platform!DefaultWorkflow[o]]
  BY DEF Platform!Initialize
<1>2. /\ DOMAIN handlers = DOMAIN workflows
      /\ initialized => Platform!Range(Platform!OperationTypes) \ Touched \subseteq DOMAIN handlers
      /\ \A o \in DOMAIN handlers : handlers[o] = "default" => workflows[o] = Platform!DefaultWorkflow[o]
      /\ initialized \in BOOLEAN
  BY DEF PlatformInv, Platform!RegistryInStep, Platform!TypeOK
<1>3. /\ \A o \in DOMAIN H : o \in DOMAIN handlers => H[o] = handlers[o]
      /\ initialized => H = handlers
      /\ ~initialized /\ Platform!AllFree => Platform!Range(Platform!OperationTypes) \subseteq DOMAIN H
  <2>1. CASE initialized
    BY <2>1 DEF Platform!WithDefaults
  <2>2. CASE ~initialized
    <3>1. ASSUME Platform!AllFree, NEW o \in Platform!Range(Platform!OperationTypes) PROVE Platform!Registered(o)
      <4>1. PICK i \in DOMAIN Platform!OperationTypes : o = Platform!OperationTypes[i]
        BY DEF Platform!Range
      <4>2. i \in 1 .. Len(Platform!OperationTypes)
        BY DEF Platform!OperationTypes
      <4>3. Platform!Free(i)
        BY <3>1, <4>2 DEF Platform!AllFree, Platform!Free, Platform!OperationTypes
      <4> QED BY <4>1, <4>3 DEF Platform!Registered
    <3>2. H = [o \in {p \in Platform!Range(Platform!OperationTypes) : Platform!Registered(p)} |->
                 IF o \in DOMAIN handlers THEN handlers[o] ELSE "default"]
      BY <2>2 DEF Platform!WithDefaults
    <3> HIDE DEF H
    <3> QED BY <2>2, <3>1, <3>2
  <2> QED BY <2>1, <2>2
<1> HIDE DEF H
<1>4. DOMAIN handlers' = DOMAIN workflows'
  BY <1>1
<1>5. initialized' => Platform!Range(Platform!OperationTypes) \ Touched \subseteq DOMAIN handlers'
  BY <1>1, <1>2, <1>3
<1>6. ASSUME NEW o \in DOMAIN handlers', handlers'[o] = "default" PROVE workflows'[o] = Platform!DefaultWorkflow[o]
  BY <1>1, <1>2, <1>3, <1>6
<1>7. Platform!RegistryInStep'
  BY <1>4, <1>5, <1>6 DEF Platform!RegistryInStep, Platform!Range, Platform!OperationTypes, Platform!DefaultWorkflow
<1> QED BY <1>1, <1>2, <1>7

\* A request that is answered, in whatever way, keeps what is told of its end.
PlatformAnswered(happened) ==
  /\ served < MaxServed /\ served' = served + 1 /\ events' = Platform!Record(happened)
  /\ UNCHANGED <<registries, platform, telemetry>>
  /\ happened \in Seq(Platform!Event)
  /\ response'.status \in {"SUCCESS", "returned"} <=> happened[Len(happened)] = "execution_completed"
  /\ response'.status = "raised" <=> happened = <<"request_received">>
  /\ IF response'.status = "SUCCESS" THEN response'.session \in DOMAIN sessions' ELSE response'.session = ""

LEMMA PlatformAnswerKeeps ==
  ASSUME Platform!PlatformAssumption, PlatformInv, NEW happened, PlatformAnswered(happened),
         Platform!SessionsAreOwn', Platform!RegistryInStep', initialized' \in BOOLEAN
  PROVE  PlatformInv'
<1>1. Platform!TypeOK'
  <2>1. events' \in Seq(Platform!Event)
    <3>1. events' = happened \/ events' = <<>>
      BY Zenon DEF PlatformAnswered, Platform!Record
    <3>2. happened \in Seq(Platform!Event)
      BY Zenon DEF PlatformAnswered
    <3>3. <<>> \in Seq(Platform!Event)
      OBVIOUS
    <3> QED BY <3>1, <3>2, <3>3, Zenon
  <2>2. served' \in 0 .. MaxServed
    <3>1. served < MaxServed /\ served' = served + 1
      BY Zenon DEF PlatformAnswered
    <3>2. served \in 0 .. MaxServed /\ MaxServed \in Nat
      BY DEF PlatformInv, Platform!TypeOK, Platform!PlatformAssumption
    <3> QED BY <3>1, <3>2
  <2> QED BY <2>1, <2>2 DEF Platform!TypeOK
<1>2. Platform!LogTellsTheEnd'
  <2>1. telemetry' = "custom" => events' = happened
    BY Zenon DEF PlatformAnswered, Platform!Record
  <2> QED BY <2>1, Zenon DEF PlatformAnswered, Platform!LogTellsTheEnd
<1>3. Platform!ValidatorsAgree'
  BY PlatformAssemblyStays, Zenon DEF PlatformAnswered
<1> QED BY <1>1, <1>2, <1>3 DEF PlatformInv

\* A request changes no session but its own.
LEMMA PlatformSessionsStay ==
  ASSUME PlatformInv, sessions' = sessions PROVE Platform!SessionsAreOwn'
BY DEF PlatformInv, Platform!SessionsAreOwn, Platform!RequestErrors, Platform!IdErrors, Platform!DescriptionErrors,
       Platform!WorkspaceErrors, Platform!SizeErrors

\* Every answer to a request.
LEMMA PlatformRequestKeeps ==
  ASSUME Platform!PlatformAssumption, PlatformInv, NEW r \in Requests,
         Platform!Refuse(r) \/ Platform!FailToInitialize(r) \/ Platform!Unhandled(r) \/ Platform!HandleOwn(r)
           \/ Platform!HandleCustom(r)
  PROVE  PlatformInv'
<1>1. ASSUME Platform!Refuse(r) PROVE PlatformInv'
  <2> DEFINE happened == <<"request_received", "validation_failed">>
  <2>1. /\ response' = Platform!Failed(r, "invalid") /\ served < MaxServed /\ served' = served + 1
        /\ events' = Platform!Record(happened)
        /\ UNCHANGED <<registries, platform, telemetry, sessions, handlers, workflows, initialized>>
    BY <1>1 DEF Platform!Refuse, Platform!Running, Platform!assembly, Platform!operations
  <2>2. happened \in Seq(Platform!Event) /\ happened[Len(happened)] = "validation_failed"
    BY DEF Platform!Event
  <2>3. PlatformAnswered(happened)
    BY <2>1, <2>2, Zenon DEF PlatformAnswered, Platform!Failed
  <2>4. Platform!RegistryInStep' /\ initialized' \in BOOLEAN
    BY <2>1 DEF PlatformInv, Platform!RegistryInStep, Platform!TypeOK, Platform!Range, Platform!OperationTypes,
                Platform!DefaultWorkflow
  <2> QED BY <2>1, <2>3, <2>4, PlatformSessionsStay, PlatformAnswerKeeps
<1>2. ASSUME Platform!FailToInitialize(r) PROVE PlatformInv'
  <2> DEFINE happened == <<"request_received">>
  <2>1. /\ response' = [request |-> r, status |-> "raised", session |-> "", error |-> "already registered"]
        /\ served < MaxServed /\ served' = served + 1
        /\ events' = Platform!Record(happened) /\ Platform!Initialize
        /\ UNCHANGED <<registries, platform, telemetry, sessions>>
    BY <1>2, Zenon DEF Platform!FailToInitialize, Platform!Running, Platform!assembly
  <2>2. happened \in Seq(Platform!Event) /\ happened[Len(happened)] = "request_received"
    BY DEF Platform!Event
  <2>3. PlatformAnswered(happened)
    BY <2>1, <2>2, Zenon DEF PlatformAnswered
  <2> QED BY <2>1, <2>3, PlatformInitializes, PlatformSessionsStay, PlatformAnswerKeeps, Zenon
<1>3. ASSUME Platform!Unhandled(r) PROVE PlatformInv'
  <2> DEFINE happened == <<"request_received", "handler_not_found">>
  <2>1. /\ response' = Platform!Failed(r, "no handler") /\ served < MaxServed /\ served' = served + 1
        /\ events' = Platform!Record(happened) /\ Platform!Initialize
        /\ UNCHANGED <<registries, platform, telemetry, sessions>>
    BY <1>3, Zenon DEF Platform!Unhandled, Platform!Ready, Platform!Running, Platform!assembly
  <2>2. happened \in Seq(Platform!Event) /\ happened[Len(happened)] = "handler_not_found"
    BY DEF Platform!Event
  <2>3. PlatformAnswered(happened)
    BY <2>1, <2>2, Zenon DEF PlatformAnswered, Platform!Failed
  <2> QED BY <2>1, <2>3, PlatformInitializes, PlatformSessionsStay, PlatformAnswerKeeps, Zenon
<1>4. ASSUME Platform!HandleOwn(r) PROVE PlatformInv'
  <2> DEFINE happened == <<"request_received", "execution_started", "operation_completed", "execution_completed">>
  <2>1. /\ response' = [request |-> r, status |-> "SUCCESS", session |-> r.id, error |-> ""]
        /\ served < MaxServed /\ served' = served + 1
        /\ events' = Platform!Record(happened) /\ Platform!Initialize
        /\ sessions' = Platform!Put(sessions, r.id, Platform!SessionWorkflow(r))
        /\ UNCHANGED <<registries, platform, telemetry>> /\ Platform!RequestErrors(r) = {}
    BY <1>4, Zenon DEF Platform!HandleOwn, Platform!Ready, Platform!Running, Platform!assembly
  <2>2. happened \in Seq(Platform!Event) /\ happened[Len(happened)] = "execution_completed"
    BY DEF Platform!Event
  <2>3. DOMAIN sessions' = DOMAIN sessions \cup {r.id}
    BY <2>1, Zenon DEF Platform!Put
  <2>4. PlatformAnswered(happened)
    BY <2>1, <2>2, <2>3, Zenon DEF PlatformAnswered
  <2>5. Platform!SessionsAreOwn'
    <3> SUFFICES ASSUME NEW id \in DOMAIN sessions'
                 PROVE  \E q \in Requests : q.id = id /\ Platform!RequestErrors(q) = {}
      BY DEF Platform!SessionsAreOwn, Platform!RequestErrors, Platform!IdErrors, Platform!DescriptionErrors,
             Platform!WorkspaceErrors, Platform!SizeErrors
    <3> QED BY <2>1, <2>3, Zenon DEF PlatformInv, Platform!SessionsAreOwn
  <2> QED BY <2>1, <2>4, <2>5, PlatformInitializes, PlatformAnswerKeeps, Zenon
<1>5. ASSUME Platform!HandleCustom(r) PROVE PlatformInv'
  <2>1. /\ served < MaxServed /\ served' = served + 1 /\ Platform!Initialize
        /\ UNCHANGED <<registries, platform, telemetry, sessions>>
        /\ \/ /\ response' = Platform!Failed(r, "raised")
              /\ events' = Platform!Record(<<"request_received", "execution_started", "execution_failed">>)
           \/ /\ response' = [request |-> r, status |-> "returned", session |-> "", error |-> ""]
              /\ events' = Platform!Record(<<"request_received", "execution_started", "execution_completed">>)
    BY <1>5, Zenon DEF Platform!HandleCustom, Platform!Ready, Platform!Running, Platform!assembly
  <2>2. \E happened : PlatformAnswered(happened)
    <3>1. ASSUME response' = Platform!Failed(r, "raised"),
                 events' = Platform!Record(<<"request_received", "execution_started", "execution_failed">>)
          PROVE  PlatformAnswered(<<"request_received", "execution_started", "execution_failed">>)
      <4> DEFINE happened == <<"request_received", "execution_started", "execution_failed">>
      <4>1. happened \in Seq(Platform!Event) /\ happened[Len(happened)] = "execution_failed"
        BY DEF Platform!Event
      <4> QED BY <2>1, <3>1, <4>1, Zenon DEF PlatformAnswered, Platform!Failed
    <3>2. ASSUME response' = [request |-> r, status |-> "returned", session |-> "", error |-> ""],
                 events' = Platform!Record(<<"request_received", "execution_started", "execution_completed">>)
          PROVE  PlatformAnswered(<<"request_received", "execution_started", "execution_completed">>)
      <4> DEFINE happened == <<"request_received", "execution_started", "execution_completed">>
      <4>1. happened \in Seq(Platform!Event) /\ happened[Len(happened)] = "execution_completed"
        BY DEF Platform!Event
      <4> QED BY <2>1, <3>2, <4>1, Zenon DEF PlatformAnswered
    <3> QED BY <2>1, <3>1, <3>2, Zenon
  <2> QED BY <2>1, <2>2, PlatformInitializes, PlatformSessionsStay, PlatformAnswerKeeps, Zenon
<1> QED BY <1>1, <1>2, <1>3, <1>4, <1>5

\* A handler of a caller's comes and goes in both dictionaries.
LEMMA PlatformHandlersKeep ==
  ASSUME Platform!PlatformAssumption, PlatformInv, NEW o \in Touched,
         Platform!RegisterHandler(o) \/ Platform!UnregisterHandler(o)
  PROVE  PlatformInv'
<1>1. /\ served < MaxServed /\ served' = served + 1
      /\ UNCHANGED <<registries, platform, telemetry, initialized, sessions, events, response>>
  BY DEF Platform!RegisterHandler, Platform!UnregisterHandler, Platform!Running, Platform!assembly
<1>2. Platform!TypeOK' /\ Platform!LogTellsTheEnd'
  <2>1. served' \in 0 .. MaxServed
    BY <1>1 DEF PlatformInv, Platform!TypeOK, Platform!PlatformAssumption
  <2>2. Platform!TypeOK'
    BY <1>1, <2>1 DEF PlatformInv, Platform!TypeOK
  <2> QED BY <1>1, <2>2, Zenon DEF PlatformInv, Platform!LogTellsTheEnd
<1>3. Platform!RegistryInStep'
  <2>1. /\ DOMAIN handlers = DOMAIN workflows
        /\ initialized => Platform!Range(Platform!OperationTypes) \ Touched \subseteq DOMAIN handlers
        /\ \A p \in DOMAIN handlers : handlers[p] = "default" => workflows[p] = Platform!DefaultWorkflow[p]
    BY DEF PlatformInv, Platform!RegistryInStep
  <2>2. CASE Platform!RegisterHandler(o)
    <3>1. handlers' = Platform!Put(handlers, o, "custom") /\ workflows' = Platform!Put(workflows, o, "custom")
      BY <2>2 DEF Platform!RegisterHandler
    <3>2. /\ DOMAIN handlers' = DOMAIN workflows' /\ DOMAIN handlers \subseteq DOMAIN handlers'
          /\ \A p \in DOMAIN handlers' : handlers'[p] = "default" => workflows'[p] = Platform!DefaultWorkflow[p]
      BY <2>1, <3>1 DEF Platform!Put
    <3> QED BY <1>1, <2>1, <3>2 DEF Platform!RegistryInStep, Platform!Range, Platform!OperationTypes,
                Platform!DefaultWorkflow
  <2>3. CASE Platform!UnregisterHandler(o)
    <3>1. /\ handlers' = [p \in DOMAIN handlers \ {o} |-> handlers[p]]
          /\ workflows' = [p \in DOMAIN workflows \ {o} |-> workflows[p]]
      BY <2>3 DEF Platform!UnregisterHandler
    <3>2. /\ DOMAIN handlers' = DOMAIN workflows' /\ DOMAIN handlers \ Touched \subseteq DOMAIN handlers'
          /\ \A p \in DOMAIN handlers' : handlers'[p] = "default" => workflows'[p] = Platform!DefaultWorkflow[p]
      BY <2>1, <3>1
    <3> QED BY <1>1, <2>1, <3>2 DEF Platform!RegistryInStep, Platform!Range, Platform!OperationTypes,
                Platform!DefaultWorkflow
  <2> QED BY <2>2, <2>3
<1> QED BY <1>1, <1>2, <1>3, PlatformSessionsStay, PlatformAssemblyStays DEF PlatformInv

\* Every step of the platform keeps it sound.
LEMMA PlatformStepHolds ==
  ASSUME Platform!PlatformAssumption, PlatformInv, [Platform!Next]_(Platform!vars) PROVE PlatformInv'
<1>1. ASSUME NEW c \in Configurations, Platform!Build(c) PROVE PlatformInv'
  BY <1>1, PlatformBuildKeeps
<1>2. ASSUME NEW o \in Offered, Platform!WithRegistry(o[1], o[2]) PROVE PlatformInv'
  BY <1>2, PlatformOfferKeeps
<1>3. ASSUME NEW r \in Requests,
             Platform!Refuse(r) \/ Platform!FailToInitialize(r) \/ Platform!Unhandled(r) \/ Platform!HandleOwn(r)
               \/ Platform!HandleCustom(r)
      PROVE  PlatformInv'
  BY <1>3, PlatformRequestKeeps
<1>4. ASSUME NEW o \in Touched, Platform!RegisterHandler(o) \/ Platform!UnregisterHandler(o) PROVE PlatformInv'
  BY <1>4, PlatformHandlersKeep
<1>5. CASE UNCHANGED Platform!vars
  <2>1. UNCHANGED <<registries, platform, handlers, workflows, initialized, telemetry, sessions, events, response, served>>
    BY <1>5 DEF Platform!vars
  <2>2. Platform!TypeOK' /\ Platform!LogTellsTheEnd'
    BY <2>1, Zenon DEF PlatformInv, Platform!TypeOK, Platform!LogTellsTheEnd
  <2>3. Platform!RegistryInStep'
    BY <2>1 DEF PlatformInv, Platform!RegistryInStep, Platform!Range, Platform!OperationTypes, Platform!DefaultWorkflow
  <2> QED BY <2>1, <2>2, <2>3, PlatformSessionsStay, PlatformAssemblyStays DEF PlatformInv
<1> QED BY <1>1, <1>2, <1>3, <1>4, <1>5 DEF Platform!Next

\* A step while the platform is driven is one of its own.
LEMMA PlatformMoves ==
  ASSUME Is("platform"), [Next]_vars PROVE [Platform!Next]_(Platform!vars) /\ Is("platform")'
<1>1. driven' = driven
  BY DEF Next, vars
<1>2. CASE Next
  BY <1>1, <1>2 DEF Next, Is
<1>3. CASE UNCHANGED vars
  BY <1>1, <1>3 DEF vars, PlatformVars, Platform!vars, Is
<1> QED BY <1>2, <1>3

\* The invariant holds for as long as the platform is driven.
LEMMA PlatformHolds == Spec => [](Is("platform") => PlatformInv)
<1>1. Init => (Is("platform") => PlatformInv)
  BY FrameworksAssumption, PlatformInitHolds DEF Init
<1>2. (Is("platform") => PlatformInv) /\ [Next]_vars => (Is("platform") => PlatformInv)'
  <2> SUFFICES ASSUME Is("platform") => PlatformInv, [Next]_vars, Is("platform")' PROVE PlatformInv'
    OBVIOUS
  <2>1. Is("platform")
    BY DEF Is, Next, vars
  <2>2. [Platform!Next]_(Platform!vars)
    BY <2>1, PlatformMoves
  <2> QED BY <2>1, <2>2, FrameworksAssumption, PlatformStepHolds
<1> QED BY <1>1, <1>2, PTL DEF Spec

-----------------------------------------------------------------------------
(* Scoring: whatever is said, and whichever symbols there are *)

\* Counting is the same in every module.
LEMMA ScoringCounts ==
  (\A S : Scoring!IsFiniteSet(S) <=> IsFiniteSet(S)) /\ (\A S : Scoring!Cardinality(S) = Cardinality(S))
BY DEF Scoring!IsFiniteSet, Scoring!Cardinality, IsFiniteSet, Cardinality

\* From the same base, and from the same to the same.
StepAlike(n, f, g) == f[0] = g[0] /\ \A k \in Nat : k < n /\ f[k] = g[k] => f[k + 1] = g[k + 1]

\* What is found by the same steps from the same base is the same.
LEMMA SameSteps ==
  ASSUME NEW n \in Nat, NEW f, NEW g, StepAlike(n, f, g)
  PROVE  \A k \in 0 .. n : f[k] = g[k]
<1> USE DEF StepAlike
<1> DEFINE N == {k \in Nat : k <= n => f[k] = g[k]}
<1>1. 0 \in N
  OBVIOUS
<1>2. \A k \in N : k + 1 \in N
  <2> SUFFICES ASSUME NEW k \in Nat, k <= n => f[k] = g[k], k + 1 <= n PROVE f[k + 1] = g[k + 1]
    OBVIOUS
  <2>1. k < n /\ k <= n
    OBVIOUS
  <2> QED BY <2>1
<1>3. N = Nat
  <2>1. N \in SUBSET Nat
    OBVIOUS
  <2> HIDE DEF N
  <2> QED BY <1>1, <1>2, <2>1, SetInduction
<1> QED BY <1>3

\* How long a text is, letter by letter.
ScoringIsLength(f, text) ==
  f = [k \in 0 .. Len(text) |-> IF k = 0 THEN 0 ELSE f[k - 1] + Length[text[k]]]

\* No text is without length.
LEMMA ScoringLengths ==
  ASSUME Scoring!ScoringAssumption, NEW text \in Scoring!Texts
  PROVE  Scoring!TextLength(text) \in Nat \ {0}
<1> DEFINE n == Len(text)
           step == [p \in Nat \X (1 .. n) |-> p[1] + Length[text[p[2]]]]
<1>1. n \in Nat /\ n # 0 /\ \A k \in 1 .. n : text[k] \in DOMAIN Length /\ Length[text[k]] \in Nat \ {0}
  <2>1. text \in Seq(DOMAIN Length) /\ text # <<>>
    BY DEF Scoring!Texts
  <2>2. \A w \in DOMAIN Length : Length[w] \in Nat \ {0}
    BY DEF Scoring!ScoringAssumption
  <2>3. \A k \in 1 .. n : text[k] \in DOMAIN Length
    BY <2>1, Elements
  <2>4. n \in Nat /\ n # 0
    BY <2>1
  <2> HIDE DEF n
  <2> QED BY <2>2, <2>3, <2>4
<1>2. step \in [Nat \X (1 .. n) -> Nat]
  <2>1. ASSUME NEW p \in Nat \X (1 .. n) PROVE p[1] + Length[text[p[2]]] \in Nat
    <3>1. p[1] \in Nat /\ Length[text[p[2]]] \in Nat
      BY <1>1
    <3> QED BY <3>1
  <2> HIDE DEF n
  <2> QED BY <2>1
<1>3. PICK f : IsRecursive(f, Nat, n, 0, step)
  <2> HIDE DEF step, n
  <2> QED BY <1>1, <1>2, Recursion, Zenon
<1>4. ScoringIsLength(f, text)
  <2>1. \A k \in 0 .. n : k # 0 => step[<<f[k - 1], k>>] = f[k - 1] + Length[text[k]]
    <3> SUFFICES ASSUME NEW k \in 0 .. n, k # 0 PROVE step[<<f[k - 1], k>>] = f[k - 1] + Length[text[k]]
      BY Zenon
    <3>1. k - 1 \in 0 .. n /\ k \in 1 .. n
      BY <1>1
    <3>2. f[k - 1] \in Nat
      BY <1>3, <3>1, Zenon DEF IsRecursive
    <3> QED BY <3>1, <3>2
  <2>2. f = [k \in 0 .. n |-> IF k = 0 THEN 0 ELSE step[<<f[k - 1], k>>]]
    BY <1>3, Zenon DEF IsRecursive
  <2> HIDE DEF step
  <2> QED BY <2>1, <2>2, Zenon DEF ScoringIsLength
<1>5. PICK g : ScoringIsLength(g, text) /\ Scoring!TextLength(text) = g[n]
  <2> DEFINE g == CHOOSE g : ScoringIsLength(g, text)
  <2>1. ScoringIsLength(g, text)
    BY <1>4
  <2>2. Scoring!TextLength(text) = g[n]
    BY DEF Scoring!TextLength, ScoringIsLength
  <2> QED BY <2>1, <2>2, Zenon
<1>6. \A k \in 0 .. n : f[k] = g[k]
  <2>1. f[0] = g[0]
    BY <1>1, <1>4, <1>5 DEF ScoringIsLength
  <2>2. ASSUME NEW k \in Nat, k < n, f[k] = g[k] PROVE f[k + 1] = g[k + 1]
    <3>1. k + 1 \in 0 .. n /\ k + 1 # 0 /\ (k + 1) - 1 = k
      BY <1>1, <2>2
    <3> QED BY <1>4, <1>5, <2>2, <3>1 DEF ScoringIsLength
  <2> HIDE DEF n
  <2>3. StepAlike(n, f, g)
    BY <2>1, <2>2 DEF StepAlike
  <2> QED BY <1>1, <2>3, SameSteps
<1>7. g[n] = f[n - 1] + Length[text[n]] /\ f[n - 1] \in Nat
  <2>1. n \in 0 .. n /\ n - 1 \in 0 .. n
    BY <1>1
  <2>2. f[n] = f[n - 1] + Length[text[n]]
    BY <1>1, <1>4, <2>1, Zenon DEF ScoringIsLength
  <2> HIDE DEF n, step
  <2> QED BY <1>3, <1>6, <2>1, <2>2 DEF IsRecursive
<1>8. Length[text[n]] \in Nat \ {0}
  BY <1>1
<1> HIDE DEF n
<1> QED BY <1>5, <1>7, <1>8

\* What is put in the place of an element.
LEMMA Replaced ==
  ASSUME NEW A, NEW s \in Seq(A), NEW i \in Nat, NEW x, i \in DOMAIN s => x \in A
  PROVE  [s EXCEPT ![i] = x] \in Seq(A)
<1>1. PICK l \in Nat : s \in [1 .. l -> A]
  <2>1. s \in [1 .. Len(s) -> A] /\ Len(s) \in Nat
    OBVIOUS
  <2> QED BY <2>1, Zenon
<1>2. [s EXCEPT ![i] = x] \in [1 .. l -> A]
  BY <1>1, Zenon
<1> QED BY <1>1, <1>2

\* The segments of a text, word by word.
ScoringSegment(text, apart, s, k) ==
  IF text[k] = 0 THEN s
  ELSE IF apart \/ k = 1 \/ text[k - 1] = 0 THEN Append(s, <<text[k]>>)
  ELSE [s EXCEPT ![Len(s)] = Append(s[Len(s)], text[k])]
ScoringIsSegmenting(f, text, apart) ==
  f = [k \in 0 .. Len(text) |-> IF k = 0 THEN <<>> ELSE ScoringSegment(text, apart, f[k - 1], k)]

\* The segments of a text are texts.
LEMMA ScoringSegmentsAreTexts ==
  ASSUME NEW text \in Scoring!Texts, NEW apart PROVE Scoring!Segments(text, apart) \in Seq(Scoring!Texts)
<1> DEFINE n == Len(text)
           T == Scoring!Texts
           step == [p \in Seq(T) \X (1 .. n) |-> ScoringSegment(text, apart, p[1], p[2])]
<1>1. n \in Nat /\ \A k \in 1 .. n : text[k] \in DOMAIN Length
  <2>1. text \in Seq(DOMAIN Length)
    BY DEF Scoring!Texts
  <2> QED BY <2>1, Elements
<1>2. ASSUME NEW s \in Seq(T), NEW k \in 1 .. n PROVE ScoringSegment(text, apart, s, k) \in Seq(T)
  <2>1. <<text[k]>> \in T
    <3>1. <<text[k]>> \in Seq(DOMAIN Length) /\ <<text[k]>> # <<>>
      BY <1>1
    <3> QED BY <3>1 DEF Scoring!Texts
  <2>2. Append(s, <<text[k]>>) \in Seq(T)
    <3> HIDE DEF T, n
    <3> QED BY <2>1
  <2>3. Len(s) \in DOMAIN s => Append(s[Len(s)], text[k]) \in T
    <3> SUFFICES ASSUME Len(s) \in DOMAIN s PROVE Append(s[Len(s)], text[k]) \in T
      OBVIOUS
    <3>1. s[Len(s)] \in T
      <4> HIDE DEF T, n
      <4> QED BY Elements
    <3>2. s[Len(s)] \in Seq(DOMAIN Length)
      BY <3>1 DEF Scoring!Texts
    <3>3. ASSUME NEW t \in Seq(DOMAIN Length), NEW x \in DOMAIN Length
          PROVE Append(t, x) \in Seq(DOMAIN Length) /\ Append(t, x) # <<>>
      OBVIOUS
    <3> QED BY <1>1, <3>2, <3>3 DEF Scoring!Texts
  <2>4. [s EXCEPT ![Len(s)] = Append(s[Len(s)], text[k])] \in Seq(T)
    <3>1. Len(s) \in Nat
      BY Elements
    <3> HIDE DEF T, n
    <3> QED BY <2>3, <3>1, Replaced
  <2> HIDE DEF T, n
  <2> QED BY <2>2, <2>4 DEF ScoringSegment
<1>3. step \in [Seq(T) \X (1 .. n) -> Seq(T)]
  <2> HIDE DEF T, n
  <2> QED BY <1>2
<1>4. PICK f : IsRecursive(f, Seq(T), n, <<>>, step)
  <2>1. <<>> \in Seq(T)
    OBVIOUS
  <2> HIDE DEF step, n, T
  <2> QED BY <1>1, <1>3, <2>1, Recursion, Zenon
<1>5. ScoringIsSegmenting(f, text, apart)
  <2>1. \A k \in 0 .. n : k # 0 => step[<<f[k - 1], k>>] = ScoringSegment(text, apart, f[k - 1], k)
    <3> SUFFICES ASSUME NEW k \in 0 .. n, k # 0
                 PROVE step[<<f[k - 1], k>>] = ScoringSegment(text, apart, f[k - 1], k)
      BY Zenon
    <3>1. k - 1 \in 0 .. n /\ k \in 1 .. n
      BY <1>1
    <3>2. f[k - 1] \in Seq(T)
      BY <1>4, <3>1, Zenon DEF IsRecursive
    <3> HIDE DEF T
    <3> QED BY <3>1, <3>2
  <2>2. f = [k \in 0 .. n |-> IF k = 0 THEN <<>> ELSE step[<<f[k - 1], k>>]]
    BY <1>4, Zenon DEF IsRecursive
  <2> HIDE DEF step
  <2> QED BY <2>1, <2>2, Zenon DEF ScoringIsSegmenting
<1>6. PICK g : ScoringIsSegmenting(g, text, apart) /\ Scoring!Segments(text, apart) = g[n]
  <2> DEFINE g == CHOOSE g : ScoringIsSegmenting(g, text, apart)
  <2>1. ScoringIsSegmenting(g, text, apart)
    BY <1>5
  <2>2. Scoring!Segments(text, apart) = g[n]
    BY DEF Scoring!Segments, ScoringIsSegmenting, ScoringSegment
  <2> QED BY <2>1, <2>2, Zenon
<1>7. \A k \in 0 .. n : f[k] = g[k]
  <2>1. f[0] = g[0]
    BY <1>1, <1>5, <1>6 DEF ScoringIsSegmenting
  <2>2. ASSUME NEW k \in Nat, k < n, f[k] = g[k] PROVE f[k + 1] = g[k + 1]
    <3>1. k + 1 \in 0 .. n /\ k + 1 # 0 /\ (k + 1) - 1 = k
      BY <1>1, <2>2
    <3> QED BY <1>5, <1>6, <2>2, <3>1 DEF ScoringIsSegmenting
  <2> HIDE DEF n
  <2>3. StepAlike(n, f, g)
    BY <2>1, <2>2 DEF StepAlike
  <2> QED BY <1>1, <2>3, SameSteps
<1>8. n \in 0 .. n /\ f[n] = g[n]
  BY <1>1, <1>7
<1> HIDE DEF n, step
<1> QED BY <1>4, <1>6, <1>8, Zenon DEF IsRecursive

\* What an appended sequence is made of.
LEMMA Appended ==
  ASSUME NEW A, NEW s \in Seq(A), NEW x \in A
  PROVE  /\ Append(s, x) \in Seq(A) /\ Len(Append(s, x)) = Len(s) + 1 /\ Append(s, x)[Len(s) + 1] = x
         /\ \A i \in 1 .. Len(s) : Append(s, x)[i] = s[i]
OBVIOUS

\* The one begins with the other.
Begins(longer, prefix) == Len(prefix) <= Len(longer) /\ \A i \in 1 .. Len(prefix) : longer[i] = prefix[i]

\* Step by step, what is kept of texts.
ScoringKeep(texts, wanted, s, k) ==
  IF texts[k] \in wanted \ Scoring!Range(s) THEN Append(s, texts[k]) ELSE s
ScoringIsDistinct(f, texts, wanted) ==
  f = [k \in 0 .. Len(texts) |-> IF k = 0 THEN <<>> ELSE ScoringKeep(texts, wanted, f[k - 1], k)]

\* There are such steps, and what they end with is what is distinct.
LEMMA ScoringDistinctIs ==
  ASSUME NEW A, NEW texts \in Seq(A), NEW wanted
  PROVE  \E f \in [0 .. Len(texts) -> Seq(A)] :
           ScoringIsDistinct(f, texts, wanted) /\ Scoring!Distinct(texts, wanted) = f[Len(texts)]
<1> DEFINE n == Len(texts)
           step == [p \in Seq(A) \X (1 .. n) |-> ScoringKeep(texts, wanted, p[1], p[2])]
<1>1. n \in Nat /\ \A k \in 1 .. n : texts[k] \in A
  BY Elements
<1>2. ASSUME NEW s \in Seq(A), NEW k \in 1 .. n PROVE ScoringKeep(texts, wanted, s, k) \in Seq(A)
  <2>1. Append(s, texts[k]) \in Seq(A)
    BY <1>1
  <2> HIDE DEF n
  <2> QED BY <2>1 DEF ScoringKeep
<1>3. step \in [Seq(A) \X (1 .. n) -> Seq(A)]
  <2> HIDE DEF n
  <2> QED BY <1>2
<1>4. PICK f : IsRecursive(f, Seq(A), n, <<>>, step)
  <2>1. <<>> \in Seq(A)
    OBVIOUS
  <2> HIDE DEF step, n
  <2> QED BY <1>1, <1>3, <2>1, Recursion, Zenon
<1>5. ScoringIsDistinct(f, texts, wanted)
  <2>1. \A k \in 0 .. n : k # 0 => step[<<f[k - 1], k>>] = ScoringKeep(texts, wanted, f[k - 1], k)
    <3> SUFFICES ASSUME NEW k \in 0 .. n, k # 0
                 PROVE step[<<f[k - 1], k>>] = ScoringKeep(texts, wanted, f[k - 1], k)
      BY Zenon
    <3>1. k - 1 \in 0 .. n /\ k \in 1 .. n
      BY <1>1
    <3>2. f[k - 1] \in Seq(A)
      BY <1>4, <3>1, Zenon DEF IsRecursive
    <3> QED BY <3>1, <3>2
  <2>2. f = [k \in 0 .. n |-> IF k = 0 THEN <<>> ELSE step[<<f[k - 1], k>>]]
    BY <1>4, Zenon DEF IsRecursive
  <2> HIDE DEF step
  <2> QED BY <2>1, <2>2, Zenon DEF ScoringIsDistinct
<1>6. PICK g : ScoringIsDistinct(g, texts, wanted) /\ Scoring!Distinct(texts, wanted) = g[n]
  <2> DEFINE g == CHOOSE g : ScoringIsDistinct(g, texts, wanted)
  <2>1. ScoringIsDistinct(g, texts, wanted)
    BY <1>5
  <2>2. Scoring!Distinct(texts, wanted) = g[n]
    BY DEF Scoring!Distinct, ScoringIsDistinct, ScoringKeep
  <2> QED BY <2>1, <2>2, Zenon
<1>7. \A k \in 0 .. n : f[k] = g[k]
  <2>1. f[0] = g[0]
    BY <1>1, <1>5, <1>6 DEF ScoringIsDistinct
  <2>2. ASSUME NEW k \in Nat, k < n, f[k] = g[k] PROVE f[k + 1] = g[k + 1]
    <3>1. k + 1 \in 0 .. n /\ k + 1 # 0 /\ (k + 1) - 1 = k
      BY <1>1, <2>2
    <3> QED BY <1>5, <1>6, <2>2, <3>1 DEF ScoringIsDistinct
  <2> HIDE DEF n
  <2>3. StepAlike(n, f, g)
    BY <2>1, <2>2 DEF StepAlike
  <2> QED BY <1>1, <2>3, SameSteps
<1>8. n \in 0 .. n /\ f[n] = g[n]
  BY <1>1, <1>7
<1>9. f \in [0 .. n -> Seq(A)]
  BY <1>4, Zenon DEF IsRecursive
<1> QED BY <1>5, <1>6, <1>8, <1>9

\* The steps one by one.
LEMMA ScoringDistinctSteps ==
  ASSUME NEW A, NEW texts \in Seq(A), NEW wanted, NEW f, ScoringIsDistinct(f, texts, wanted)
  PROVE  /\ f[0] = <<>>
         /\ \A k \in Nat : k < Len(texts) => f[k + 1] = ScoringKeep(texts, wanted, f[k], k + 1)
<1>1. Len(texts) \in Nat
  OBVIOUS
<1> DEFINE n == Len(texts)
<1>2. 0 \in 0 .. n
  BY <1>1
<1>3. ASSUME NEW k \in Nat, k < n PROVE f[k + 1] = ScoringKeep(texts, wanted, f[k], k + 1)
  <2>1. k + 1 \in 0 .. n /\ k + 1 # 0 /\ (k + 1) - 1 = k
    BY <1>1, <1>3
  <2> QED BY <2>1 DEF ScoringIsDistinct
<1> QED BY <1>2, <1>3 DEF ScoringIsDistinct

\* What is kept is wanted and has no text twice; nothing that is wanted is left out.
ScoringKept(s, texts, wanted, k) ==
  /\ \A i, j \in 1 .. Len(s) : s[i] = s[j] => i = j
  /\ \A i \in 1 .. Len(s) : s[i] \in wanted
  /\ \A j \in 1 .. k : texts[j] \in wanted => \E i \in 1 .. Len(s) : s[i] = texts[j]

\* Each step keeps that.
LEMMA ScoringKeeps ==
  ASSUME NEW A, NEW texts \in Seq(A), NEW wanted, NEW s \in Seq(A), NEW k \in Nat, k < Len(texts),
         ScoringKept(s, texts, wanted, k)
  PROVE  ScoringKept(ScoringKeep(texts, wanted, s, k + 1), texts, wanted, k + 1)
<1>1. PICK x \in A : x = texts[k + 1]
  <2>1. k + 1 \in 1 .. Len(texts)
    OBVIOUS
  <2> QED BY <2>1, Elements
<1>2. PICK l \in Nat : Len(s) = l /\ DOMAIN s = 1 .. l
  BY Elements
<1>3. \A j \in 1 .. k + 1 : j \in 1 .. k \/ j = k + 1
  OBVIOUS
<1>4. CASE x \in wanted \ Scoring!Range(s)
  <2> DEFINE t == Append(s, x)
  <2>1. Len(t) = l + 1 /\ t[l + 1] = x /\ \A i \in 1 .. l : t[i] = s[i]
    BY <1>1, <1>2, Appended
  <2>2. \A i \in 1 .. l + 1 : i \in 1 .. l \/ i = l + 1
    OBVIOUS
  <2>3. \A i \in 1 .. l : i \in 1 .. l + 1 /\ s[i] # x
    BY <1>2, <1>4 DEF Scoring!Range
  <2>4. l + 1 \in 1 .. l + 1
    OBVIOUS
  <2>5. ScoringKeep(texts, wanted, s, k + 1) = t
    BY <1>1, <1>4 DEF ScoringKeep
  <2> HIDE DEF t
  <2>6. ScoringKept(t, texts, wanted, k + 1)
    <3>1. \A i, j \in 1 .. l + 1 : t[i] = t[j] => i = j
      BY <1>2, <2>1, <2>2, <2>3 DEF ScoringKept
    <3>2. \A i \in 1 .. l + 1 : t[i] \in wanted
      BY <1>2, <1>4, <2>1, <2>2 DEF ScoringKept
    <3>3. \A j \in 1 .. k + 1 : texts[j] \in wanted => \E i \in 1 .. l + 1 : t[i] = texts[j]
      BY <1>1, <1>2, <1>3, <2>1, <2>3, <2>4 DEF ScoringKept
    <3> QED BY <2>1, <3>1, <3>2, <3>3 DEF ScoringKept
  <2> QED BY <2>5, <2>6
<1>5. CASE x \notin wanted \ Scoring!Range(s)
  <2>1. ScoringKeep(texts, wanted, s, k + 1) = s
    BY <1>1, <1>5 DEF ScoringKeep
  <2>2. x \in wanted => \E i \in 1 .. l : s[i] = x
    BY <1>2, <1>5 DEF Scoring!Range
  <2> QED BY <1>1, <1>2, <1>3, <2>1, <2>2, Zenon DEF ScoringKept
<1> QED BY <1>4, <1>5

\* So what is distinct is what is wanted, each once.
LEMMA ScoringDistinctHolds ==
  ASSUME NEW A, NEW texts \in Seq(A), NEW wanted
  PROVE  /\ Scoring!Distinct(texts, wanted) \in Seq(A)
         /\ ScoringKept(Scoring!Distinct(texts, wanted), texts, wanted, Len(texts))
<1> DEFINE n == Len(texts)
<1>1. PICK f \in [0 .. n -> Seq(A)] :
        ScoringIsDistinct(f, texts, wanted) /\ Scoring!Distinct(texts, wanted) = f[n]
  BY ScoringDistinctIs
<1>2. n \in Nat
  OBVIOUS
<1> DEFINE N == {k \in Nat : k <= n => ScoringKept(f[k], texts, wanted, k)}
<1>3. 0 \in N
  <2>1. f[0] = <<>>
    BY <1>1, ScoringDistinctSteps
  <2>2. ScoringKept(<<>>, texts, wanted, 0)
    BY DEF ScoringKept
  <2> QED BY <2>1, <2>2
<1>4. \A k \in N : k + 1 \in N
  <2> SUFFICES ASSUME NEW k \in Nat, k <= n => ScoringKept(f[k], texts, wanted, k), k + 1 <= n
               PROVE ScoringKept(f[k + 1], texts, wanted, k + 1)
    OBVIOUS
  <2>1. k < n /\ k <= n /\ k \in 0 .. n
    BY <1>2
  <2>2. f[k + 1] = ScoringKeep(texts, wanted, f[k], k + 1)
    BY <1>1, <2>1, ScoringDistinctSteps
  <2>3. f[k] \in Seq(A)
    BY <2>1
  <2> QED BY <2>1, <2>2, <2>3, ScoringKeeps
<1>5. N = Nat
  <2>1. N \in SUBSET Nat
    OBVIOUS
  <2> HIDE DEF N
  <2> QED BY <1>3, <1>4, <2>1, SetInduction, Zenon
<1>6. n \in 0 .. n /\ ScoringKept(f[n], texts, wanted, n)
  BY <1>2, <1>5
<1> QED BY <1>1, <1>6

\* What more texts make distinct begins with what the first ones do.
LEMMA ScoringDistinctGrows ==
  ASSUME NEW A, NEW texts \in Seq(A), NEW longer \in Seq(A), Begins(longer, texts), NEW wanted, NEW wider,
         \A i \in 1 .. Len(texts) : texts[i] \in wanted <=> texts[i] \in wider
  PROVE  Begins(Scoring!Distinct(longer, wider), Scoring!Distinct(texts, wanted))
<1> DEFINE n == Len(texts)
           m == Len(longer)
<1>1. PICK f \in [0 .. n -> Seq(A)] :
        ScoringIsDistinct(f, texts, wanted) /\ Scoring!Distinct(texts, wanted) = f[n]
  BY ScoringDistinctIs
<1>2. PICK g \in [0 .. m -> Seq(A)] :
        ScoringIsDistinct(g, longer, wider) /\ Scoring!Distinct(longer, wider) = g[m]
  BY ScoringDistinctIs, Zenon
<1>3. n \in Nat /\ m \in Nat /\ n <= m
  BY DEF Begins
<1>4. \A k \in 0 .. n : f[k] = g[k]
  <2>1. f[0] = g[0]
    BY <1>1, <1>2, ScoringDistinctSteps
  <2>2. ASSUME NEW k \in Nat, k < n, f[k] = g[k] PROVE f[k + 1] = g[k + 1]
    <3>1. k + 1 \in 1 .. n /\ k < m
      BY <1>3, <2>2
    <3>2. f[k + 1] = ScoringKeep(texts, wanted, f[k], k + 1)
      BY <1>1, <2>2, ScoringDistinctSteps
    <3>3. g[k + 1] = ScoringKeep(longer, wider, f[k], k + 1)
      BY <1>2, <2>2, <3>1, ScoringDistinctSteps
    <3>4. longer[k + 1] = texts[k + 1] /\ (texts[k + 1] \in wanted <=> texts[k + 1] \in wider)
      BY <3>1, Zenon DEF Begins
    <3> QED BY <3>2, <3>3, <3>4 DEF ScoringKeep
  <2> HIDE DEF n, m
  <2>3. n \in Nat
    BY <1>3
  <2>4. StepAlike(n, f, g)
    BY <2>1, <2>2 DEF StepAlike
  <2> QED BY <2>3, <2>4, SameSteps, Zenon
<1> DEFINE N == {k \in Nat : n + k <= m => Begins(g[n + k], f[n])}
<1>5. 0 \in N
  <2>1. n \in 0 .. n /\ g[n] = f[n] /\ n + 0 = n
    BY <1>3, <1>4
  <2>2. Len(f[n]) \in Nat
    BY <2>1
  <2> QED BY <2>1, <2>2 DEF Begins
<1>6. \A k \in N : k + 1 \in N
  <2> SUFFICES ASSUME NEW k \in Nat, n + k <= m => Begins(g[n + k], f[n]), n + (k + 1) <= m
               PROVE Begins(g[n + (k + 1)], f[n])
    OBVIOUS
  <2> DEFINE j == n + k
  <2>1. j \in Nat /\ j < m /\ j + 1 = n + (k + 1) /\ j \in 0 .. m /\ j + 1 \in 1 .. m /\ n \in 0 .. n
    BY <1>3
  <2>2. g[j + 1] = ScoringKeep(longer, wider, g[j], j + 1)
    BY <1>2, <2>1, ScoringDistinctSteps
  <2>3. g[j] \in Seq(A) /\ longer[j + 1] \in A /\ Len(f[n]) \in Nat
    BY <2>1, Elements
  <2>4. Begins(g[j], f[n])
    BY <1>3, <2>1
  <2> HIDE DEF j, m
  <2>5. PICK l \in Nat, d \in Nat : l = Len(g[j]) /\ d = Len(f[n])
    BY <2>3
  <2>6. \A x \in A : Begins(Append(g[j], x), f[n])
    <3> SUFFICES ASSUME NEW x \in A PROVE Begins(Append(g[j], x), f[n])
      OBVIOUS
    <3>1. Len(Append(g[j], x)) = l + 1 /\ \A i \in 1 .. l : Append(g[j], x)[i] = g[j][i]
      BY <2>3, <2>5, Appended
    <3> HIDE DEF n
    <3>2. d <= l /\ \A i \in 1 .. d : g[j][i] = f[n][i]
      BY <2>4, <2>5 DEF Begins
    <3>3. d <= l + 1 /\ \A i \in 1 .. d : i \in 1 .. l
      BY <3>2
    <3> QED BY <2>5, <3>1, <3>2, <3>3 DEF Begins
  <2> HIDE DEF n
  <2> QED BY <2>1, <2>2, <2>3, <2>4, <2>6, Zenon DEF ScoringKeep
<1>7. N = Nat
  <2>1. N \in SUBSET Nat
    OBVIOUS
  <2> HIDE DEF N
  <2> QED BY <1>5, <1>6, <2>1, SetInduction, Zenon
<1>8. Begins(g[m], f[n])
  <2> HIDE DEF n, m
  <2>1. m - n \in Nat /\ n + (m - n) = m /\ n + (m - n) <= m
    BY <1>3
  <2>2. m - n \in N
    <3> HIDE DEF N
    <3> QED BY <1>7, <2>1
  <2> QED BY <2>1, <2>2
<1> QED BY <1>1, <1>2, <1>8

\* Two sequences, one after the other.
LEMMA Concatenated ==
  ASSUME NEW A, NEW s \in Seq(A), NEW t \in Seq(A)
  PROVE  /\ s \o t \in Seq(A) /\ Len(s \o t) = Len(s) + Len(t)
         /\ \A i \in 1 .. Len(s) : (s \o t)[i] = s[i]
         /\ \A i \in 1 .. Len(t) : (s \o t)[Len(s) + i] = t[i]
OBVIOUS

\* A word is expanded to texts, and the first of them is its own.
LEMMA ScoringExpanded ==
  ASSUME Scoring!ScoringAssumption, NEW w \in Sayable
  PROVE  /\ w.text \in Scoring!Texts /\ Scoring!Expanded(w) \in Seq(Scoring!Texts)
         /\ Len(Scoring!Expanded(w)) >= 1 /\ Scoring!Expanded(w)[1] = w.text
<1> DEFINE T == Scoring!Texts
           p == Scoring!Parts(w.text)
           c == Scoring!CamelSegments(w)
<1>1. w.text \in T
  BY DEF Scoring!ScoringAssumption
<1>2. p \in Seq(T) /\ c \in Seq(T)
  BY <1>1, ScoringSegmentsAreTexts, Zenon DEF Scoring!Parts, Scoring!CamelSegments
<1>3. Scoring!Expanded(w) = (<<w.text>> \o p) \o c
  BY DEF Scoring!Expanded
<1> DEFINE x == w.text
<1> HIDE DEF T, p, c, x
<1>4. <<x>> \in Seq(T) /\ Len(<<x>>) = 1 /\ <<x>>[1] = x
  BY <1>1 DEF x
<1>5. /\ <<x>> \o p \in Seq(T) /\ Len(<<x>> \o p) = 1 + Len(p) /\ Len(p) \in Nat /\ (<<x>> \o p)[1] = x
  BY <1>2, <1>4, Concatenated
<1> DEFINE q == <<x>> \o p
<1> HIDE DEF q
<1>6. q \in Seq(T) /\ Len(q) \in Nat /\ Len(q) >= 1 /\ q[1] = x
  BY <1>5 DEF q
<1>7. q \o c \in Seq(T) /\ Len(q \o c) >= 1 /\ (q \o c)[1] = x
  <2>1. Len(c) \in Nat /\ 1 \in 1 .. Len(q)
    BY <1>2, <1>6
  <2> QED BY <1>2, <1>6, <2>1, Concatenated
<1>8. Scoring!Expanded(w) = q \o c
  BY <1>3 DEF q, x
<1> QED BY <1>1, <1>7, <1>8 DEF T, x

\* The forms of a request, word by word.
ScoringIsForming(f, query) ==
  f = [k \in 0 .. Len(query) |-> IF k = 0 THEN <<>> ELSE f[k - 1] \o Scoring!Expanded(query[k])]

\* One such step.
LEMMA ScoringFormsStep ==
  ASSUME NEW f, NEW query, NEW m \in Nat, Len(query) = m, ScoringIsForming(f, query), NEW k \in Nat, k < m
  PROVE  f[k + 1] = f[k] \o Scoring!Expanded(query[k + 1])
<1>1. k + 1 \in 0 .. m /\ k + 1 # 0 /\ (k + 1) - 1 = k
  OBVIOUS
<1>2. f[k + 1] = IF k + 1 = 0 THEN <<>> ELSE f[(k + 1) - 1] \o Scoring!Expanded(query[k + 1])
  BY <1>1, Zenon DEF ScoringIsForming
<1> QED BY <1>1, <1>2, Zenon

\* There are such steps, and what they end with are the forms.
LEMMA ScoringFormsIs ==
  ASSUME Scoring!ScoringAssumption, NEW query \in Seq(Sayable)
  PROVE  \E f \in [0 .. Len(query) -> Seq(Scoring!Texts)] :
           ScoringIsForming(f, query) /\ Scoring!Forms(query) = f[Len(query)]
<1> DEFINE n == Len(query)
           T == Scoring!Texts
           step == [p \in Seq(T) \X (1 .. n) |-> p[1] \o Scoring!Expanded(query[p[2]])]
<1>1. n \in Nat /\ \A k \in 1 .. n : Scoring!Expanded(query[k]) \in Seq(T)
  <2>1. \A k \in 1 .. n : query[k] \in Sayable
    BY Elements
  <2> QED BY <2>1, ScoringExpanded
<1>2. ASSUME NEW s \in Seq(T), NEW k \in 1 .. n PROVE s \o Scoring!Expanded(query[k]) \in Seq(T)
  <2>1. Scoring!Expanded(query[k]) \in Seq(T)
    BY <1>1
  <2> HIDE DEF T, n
  <2> QED BY <2>1, Concatenated
<1>3. step \in [Seq(T) \X (1 .. n) -> Seq(T)]
  <2> HIDE DEF T, n
  <2> QED BY <1>2
<1>4. PICK f : IsRecursive(f, Seq(T), n, <<>>, step)
  <2>1. <<>> \in Seq(T)
    OBVIOUS
  <2> HIDE DEF step, n, T
  <2> QED BY <1>1, <1>3, <2>1, Recursion, Zenon
<1>5. ScoringIsForming(f, query)
  <2>1. \A k \in 0 .. n : k # 0 => step[<<f[k - 1], k>>] = f[k - 1] \o Scoring!Expanded(query[k])
    <3> SUFFICES ASSUME NEW k \in 0 .. n, k # 0
                 PROVE step[<<f[k - 1], k>>] = f[k - 1] \o Scoring!Expanded(query[k])
      BY Zenon
    <3>1. k - 1 \in 0 .. n /\ k \in 1 .. n
      BY <1>1
    <3>2. f[k - 1] \in Seq(T)
      BY <1>4, <3>1, Zenon DEF IsRecursive
    <3> HIDE DEF T
    <3> QED BY <3>1, <3>2, Zenon
  <2>2. f = [k \in 0 .. n |-> IF k = 0 THEN <<>> ELSE step[<<f[k - 1], k>>]]
    BY <1>4 DEF IsRecursive
  <2> HIDE DEF step
  <2> QED BY <2>1, <2>2, Zenon DEF ScoringIsForming
<1>6. PICK g : ScoringIsForming(g, query) /\ Scoring!Forms(query) = g[n]
  <2> DEFINE g == CHOOSE g : ScoringIsForming(g, query)
  <2>1. ScoringIsForming(g, query)
    BY <1>5
  <2>2. Scoring!Forms(query) = g[n]
    BY DEF Scoring!Forms, ScoringIsForming
  <2> QED BY <2>1, <2>2, Zenon
<1>7. \A k \in 0 .. n : f[k] = g[k]
  <2>1. f[0] = g[0]
    BY <1>1, <1>5, <1>6 DEF ScoringIsForming
  <2>2. ASSUME NEW k \in Nat, k < n, f[k] = g[k] PROVE f[k + 1] = g[k + 1]
    <3>1. k + 1 \in 0 .. n /\ k + 1 # 0 /\ (k + 1) - 1 = k
      BY <1>1, <2>2
    <3> QED BY <1>5, <1>6, <2>2, <3>1 DEF ScoringIsForming
  <2> HIDE DEF n
  <2>3. StepAlike(n, f, g)
    BY <2>1, <2>2 DEF StepAlike
  <2> QED BY <1>1, <2>3, SameSteps
<1>8. n \in 0 .. n /\ f[n] = g[n]
  BY <1>1, <1>7
<1>9. f \in [0 .. n -> Seq(T)]
  BY <1>4 DEF IsRecursive
<1> QED BY <1>5, <1>6, <1>8, <1>9

\* One word more has its forms at the end.
LEMMA ScoringOneMoreForms ==
  ASSUME Scoring!ScoringAssumption, NEW query \in Seq(Sayable), NEW w \in Sayable
  PROVE  /\ Scoring!Forms(query) \in Seq(Scoring!Texts)
         /\ Scoring!Forms(Append(query, w)) = Scoring!Forms(query) \o Scoring!Expanded(w)
<1> DEFINE n == Len(query)
           longer == Append(query, w)
           T == Scoring!Texts
<1>1. n \in Nat /\ longer \in Seq(Sayable) /\ Len(longer) = n + 1 /\ longer[n + 1] = w
      /\ \A i \in 1 .. n : longer[i] = query[i]
  BY Appended, Elements
<1>2. PICK f \in [0 .. n -> Seq(T)] : ScoringIsForming(f, query) /\ Scoring!Forms(query) = f[n]
  BY ScoringFormsIs
<1>3. PICK g \in [0 .. n + 1 -> Seq(T)] : ScoringIsForming(g, longer) /\ Scoring!Forms(longer) = g[n + 1]
  <2> HIDE DEF longer, T
  <2>1. \E g \in [0 .. Len(longer) -> Seq(T)] : ScoringIsForming(g, longer) /\ Scoring!Forms(longer) = g[Len(longer)]
    BY <1>1, ScoringFormsIs, Zenon DEF T
  <2> QED BY <1>1, <2>1
<1> HIDE DEF longer, n, T
<1>4. \A k \in 0 .. n : f[k] = g[k]
  <2>1. f[0] = g[0]
    <3>1. 0 \in 0 .. n /\ 0 \in 0 .. n + 1
      BY <1>1
    <3>2. f[0] = <<>>
      BY <1>2, <3>1 DEF ScoringIsForming, n
    <3>3. g[0] = <<>>
      BY <1>1, <1>3, <3>1 DEF ScoringIsForming
    <3> QED BY <3>2, <3>3
  <2>2. ASSUME NEW k \in Nat, k < n, f[k] = g[k] PROVE f[k + 1] = g[k + 1]
    <3>1. n + 1 \in Nat /\ k < n + 1 /\ k + 1 \in 1 .. n
      <4>1. n \in Nat
        BY <1>1
      <4> QED BY <2>2, <4>1
    <3>2. f[k + 1] = f[k] \o Scoring!Expanded(query[k + 1])
      BY <1>1, <1>2, <2>2, ScoringFormsStep, Zenon DEF n
    <3>3. g[k + 1] = g[k] \o Scoring!Expanded(longer[k + 1])
      <4>1. Len(longer) = n + 1 /\ ScoringIsForming(g, longer)
        BY <1>1, <1>3
      <4> QED BY <2>2, <3>1, <4>1, ScoringFormsStep, Zenon
    <3> QED BY <1>1, <2>2, <3>1, <3>2, <3>3, Zenon
  <2>3. n \in Nat
    BY <1>1
  <2>4. StepAlike(n, f, g)
    BY <2>1, <2>2 DEF StepAlike
  <2> QED BY <2>3, <2>4, SameSteps, Zenon
<1>5. g[n + 1] = g[n] \o Scoring!Expanded(w)
  <2>1. n + 1 \in 0 .. n + 1 /\ n + 1 # 0 /\ (n + 1) - 1 = n
    BY <1>1
  <2> QED BY <1>1, <1>3, <2>1, Zenon DEF ScoringIsForming
<1>6. n \in 0 .. n
  BY <1>1
<1> QED BY <1>2, <1>3, <1>4, <1>5, <1>6, Zenon DEF longer, T

\* Nothing is said yet.
LEMMA ScoringNoForms == Scoring!Forms(<<>>) = <<>>
<1>1. \E f : ScoringIsForming(f, <<>>)
  <2>1. ScoringIsForming([k \in 0 .. Len(<<>>) |-> <<>>], <<>>)
    BY DEF ScoringIsForming
  <2> QED BY <2>1
<1> DEFINE g == CHOOSE g : ScoringIsForming(g, <<>>)
<1>2. ScoringIsForming(g, <<>>)
  BY <1>1
<1>3. Scoring!Forms(<<>>) = g[0]
  BY DEF Scoring!Forms, ScoringIsForming
<1>4. g[0] = <<>>
  <2> HIDE DEF g
  <2> QED BY <1>2 DEF ScoringIsForming
<1> QED BY <1>3, <1>4

\* Every word is among the forms of the request as it is.
ScoringHasTexts(query) ==
  \A k \in 1 .. Len(query) : \E i \in 1 .. Len(Scoring!Forms(query)) : Scoring!Forms(query)[i] = query[k].text

\* One word more is, too.
LEMMA ScoringHasOneMore ==
  ASSUME Scoring!ScoringAssumption, NEW query \in Seq(Sayable), NEW w \in Sayable, ScoringHasTexts(query)
  PROVE  /\ ScoringHasTexts(Append(query, w))
         /\ Begins(Scoring!Forms(Append(query, w)), Scoring!Forms(query))
         /\ Scoring!Forms(Append(query, w)) \in Seq(Scoring!Texts)
<1> DEFINE T == Scoring!Texts
           e == Scoring!Expanded(w)
           s == Scoring!Forms(query)
           l == Append(query, w)
<1>1. e \in Seq(T) /\ Len(e) >= 1 /\ e[1] = w.text
  BY ScoringExpanded
<1>2. s \in Seq(T) /\ Scoring!Forms(l) = s \o e
  BY ScoringOneMoreForms
<1>3. PICK n \in Nat : n = Len(query)
  BY Elements
<1>4. Len(l) = n + 1 /\ l[n + 1] = w /\ \A i \in 1 .. n : l[i] = query[i]
  BY <1>3, Appended
<1>5. PICK m \in Nat : m = Len(s)
  BY <1>2, Elements
<1>6. PICK d \in Nat : d = Len(e) /\ d >= 1
  BY <1>1, Elements
<1> HIDE DEF T, e, s, l
<1>7. /\ s \o e \in Seq(T) /\ Len(s \o e) = m + d /\ \A i \in 1 .. m : (s \o e)[i] = s[i]
      /\ \A i \in 1 .. d : (s \o e)[m + i] = e[i]
  BY <1>1, <1>2, <1>5, <1>6, Concatenated
<1>8. (s \o e)[m + 1] = w.text /\ m + 1 \in 1 .. m + d
  BY <1>1, <1>6, <1>7
<1>9. m <= m + d /\ \A i \in 1 .. m : i \in 1 .. m + d
  BY <1>6
<1>10. \A k \in 1 .. n + 1 : k \in 1 .. n \/ k = n + 1
  OBVIOUS
<1>11. \A k \in 1 .. n : \E i \in 1 .. m : s[i] = query[k].text
  BY <1>3, <1>5 DEF ScoringHasTexts, s
<1>12. \A k \in 1 .. n + 1 : \E i \in 1 .. m + d : (s \o e)[i] = l[k].text
  <2> TAKE k \in 1 .. n + 1
  <2>1. CASE k = n + 1
    BY <1>4, <1>8, <2>1, Zenon
  <2>2. CASE k \in 1 .. n
    <3>1. PICK i \in 1 .. m : s[i] = query[k].text
      BY <1>11, <2>2
    <3>2. i \in 1 .. m + d /\ (s \o e)[i] = l[k].text
      BY <1>4, <1>7, <1>9, <2>2, <3>1
    <3> QED BY <3>2, Zenon
  <2> QED BY <1>10, <2>1, <2>2, Zenon
<1>13. ScoringHasTexts(l)
  BY <1>2, <1>4, <1>7, <1>12, Zenon DEF ScoringHasTexts
<1>14. Begins(Scoring!Forms(l), s)
  BY <1>2, <1>5, <1>7, <1>9 DEF Begins
<1> QED BY <1>2, <1>7, <1>13, <1>14 DEF l, s, T

\* What tells of the forms: texts that tell, each once, and none is left out.
LEMMA ScoringTold ==
  ASSUME Scoring!ScoringAssumption, NEW query \in Seq(Sayable)
  PROVE  /\ Scoring!Telling(query) \in Seq(Scoring!Texts) /\ Scoring!IsInjective(Scoring!Telling(query))
         /\ \A i \in 1 .. Len(Scoring!Forms(query)) :
              Scoring!Tells(Scoring!Forms(query)[i]) => Scoring!Telling(query) # <<>>
<1> DEFINE T == Scoring!Texts
           s == Scoring!Forms(query)
           wanted == {t \in Scoring!Range(s) : Scoring!Tells(t)}
           t == Scoring!Telling(query)
<1>1. s \in Seq(T)
  <2>1. PICK f \in [0 .. Len(query) -> Seq(T)] : s = f[Len(query)]
    BY ScoringFormsIs
  <2>2. Len(query) \in 0 .. Len(query)
    OBVIOUS
  <2> QED BY <2>1, <2>2
<1>2. t = Scoring!Distinct(s, wanted)
  BY DEF Scoring!Telling
<1>3. \A i \in 1 .. Len(s) : Scoring!Tells(s[i]) => s[i] \in wanted
  <2>1. DOMAIN s = 1 .. Len(s)
    BY <1>1, Elements
  <2> HIDE DEF s
  <2> QED BY <2>1 DEF Scoring!Range
<1> HIDE DEF T, s, wanted, t
<1>4. t \in Seq(T) /\ ScoringKept(t, s, wanted, Len(s))
  BY <1>1, <1>2, ScoringDistinctHolds
<1>5. DOMAIN t = 1 .. Len(t)
  BY <1>4, Elements
<1>6. Scoring!IsInjective(t)
  BY <1>4, <1>5 DEF ScoringKept, Scoring!IsInjective
<1>7. \A i \in 1 .. Len(s) : Scoring!Tells(s[i]) => t # <<>>
  <2> SUFFICES ASSUME NEW i \in 1 .. Len(s), Scoring!Tells(s[i]) PROVE t # <<>>
    OBVIOUS
  <2>1. \E j \in 1 .. Len(t) : t[j] = s[i]
    BY <1>3, <1>4 DEF ScoringKept
  <2> QED BY <2>1
<1> QED BY <1>4, <1>6, <1>7 DEF T, s, t

\* What is heard are texts, each once, and something is heard if anything is
\* said; a word that tells is heard only among such words.
LEMMA ScoringHears ==
  ASSUME Scoring!ScoringAssumption, NEW query \in Seq(Sayable), ScoringHasTexts(query),
         NEW tokens, tokens = Scoring!NormaliseQueryText(query)
  PROVE  /\ tokens \in Seq(Scoring!Texts) /\ Scoring!IsInjective(tokens) /\ (query # <<>> => tokens # <<>>)
         /\ (\E t \in Scoring!Range(tokens) : Scoring!Tells(t)) => tokens = Scoring!Telling(query) /\ tokens # <<>>
<1> DEFINE T == Scoring!Texts
           texts == [i \in DOMAIN query |-> query[i].text]
           all == Scoring!Range(texts)
           s == Scoring!Distinct(texts, all)
<1>1. CASE Scoring!Telling(query) # <<>>
  <2>1. tokens = Scoring!Telling(query)
    BY <1>1 DEF Scoring!NormaliseQueryText
  <2> QED BY <1>1, <2>1, ScoringTold
<1>2. CASE Scoring!Telling(query) = <<>>
  <2>1. tokens = s
    BY <1>2 DEF Scoring!NormaliseQueryText
  <2>2. PICK n \in Nat : n = Len(query) /\ DOMAIN query = 1 .. n /\ \A i \in 1 .. n : query[i] \in Sayable
    BY Elements
  <2>3. \A i \in 1 .. n : query[i].text \in T
    BY <2>2, ScoringExpanded
  <2>4. texts \in Seq(T) /\ Len(texts) = n /\ \A i \in 1 .. n : texts[i] = query[i].text
    <3> HIDE DEF T
    <3>1. texts \in [1 .. n -> T]
      BY <2>2, <2>3
    <3>2. \A i \in 1 .. n : texts[i] = query[i].text
      BY <2>2
    <3> HIDE DEF texts
    <3> QED BY <3>1, <3>2
  <2>5. DOMAIN texts = 1 .. n
    BY <2>2
  <2> HIDE DEF T, texts
  <2>6. \A i \in 1 .. n : texts[i] \in all
    BY <2>5 DEF Scoring!Range
  <2> HIDE DEF all, s
  <2>7. s \in Seq(T) /\ ScoringKept(s, texts, all, n)
    BY <2>4, ScoringDistinctHolds DEF s
  <2>8. DOMAIN s = 1 .. Len(s)
    BY <2>7, Elements
  <2>9. Scoring!IsInjective(s)
    BY <2>7, <2>8 DEF ScoringKept, Scoring!IsInjective
  <2>10. query # <<>> => s # <<>>
    <3> SUFFICES ASSUME query # <<>> PROVE s # <<>>
      OBVIOUS
    <3>1. 1 \in 1 .. n
      <4>1. Len(query) # 0
        OBVIOUS
      <4> QED BY <2>2, <4>1
    <3>2. \E j \in 1 .. Len(s) : s[j] = texts[1]
      BY <2>6, <2>7, <3>1 DEF ScoringKept
    <3> QED BY <3>2
  <2>11. ASSUME NEW t \in Scoring!Range(s), Scoring!Tells(t) PROVE FALSE
    <3>1. PICK j \in 1 .. Len(s) : t = s[j]
      BY <2>8 DEF Scoring!Range
    <3>2. t \in all
      BY <2>7, <3>1 DEF ScoringKept
    <3>3. PICK k \in 1 .. n : t = texts[k]
      BY <2>5, <3>2 DEF all, Scoring!Range
    <3>4. PICK i \in 1 .. Len(Scoring!Forms(query)) : Scoring!Forms(query)[i] = t
      BY <2>2, <2>4, <3>3 DEF ScoringHasTexts
    <3> QED BY <1>2, <2>11, <3>4, ScoringTold
  <2> QED BY <2>1, <2>7, <2>9, <2>10, <2>11 DEF T
<1> QED BY <1>1, <1>2

\* What tells of one word more begins with what told before.
LEMMA ScoringTellingGrows ==
  ASSUME Scoring!ScoringAssumption, NEW query \in Seq(Sayable), NEW w \in Sayable, ScoringHasTexts(query)
  PROVE  Begins(Scoring!Telling(Append(query, w)), Scoring!Telling(query))
<1> DEFINE T == Scoring!Texts
           s == Scoring!Forms(query)
           l == Scoring!Forms(Append(query, w))
           wanted == {t \in Scoring!Range(s) : Scoring!Tells(t)}
           wider == {t \in Scoring!Range(l) : Scoring!Tells(t)}
<1>1. s \in Seq(T) /\ l \in Seq(T) /\ Begins(l, s)
  BY ScoringHasOneMore, ScoringOneMoreForms
<1>2. Scoring!Telling(query) = Scoring!Distinct(s, wanted)
  BY DEF Scoring!Telling
<1>3. Scoring!Telling(Append(query, w)) = Scoring!Distinct(l, wider)
  BY DEF Scoring!Telling
<1> HIDE DEF T, s, l
<1>4. \A i \in 1 .. Len(s) : s[i] \in wanted <=> s[i] \in wider
  <2>1. /\ Len(s) \in Nat /\ Len(l) \in Nat /\ DOMAIN s = 1 .. Len(s) /\ DOMAIN l = 1 .. Len(l)
    BY <1>1, Elements
  <2> TAKE i \in 1 .. Len(s)
  <2>2. i \in 1 .. Len(l) /\ l[i] = s[i]
    BY <1>1, <2>1 DEF Begins
  <2>3. s[i] \in Scoring!Range(s) /\ s[i] \in Scoring!Range(l)
    BY <2>1, <2>2 DEF Scoring!Range
  <2> QED BY <2>3
<1> HIDE DEF wanted, wider
<1>5. Begins(Scoring!Distinct(l, wider), Scoring!Distinct(s, wanted))
  BY <1>1, <1>4, ScoringDistinctGrows
<1> QED BY <1>2, <1>3, <1>5

\* The elements of a sequence are finitely many.
LEMMA ScoringRange ==
  ASSUME NEW A, NEW s \in Seq(A)
  PROVE  /\ IsFiniteSet(Scoring!Range(s)) /\ Scoring!Range(s) \subseteq A
         /\ \A x : x \in Scoring!Range(s) <=> \E i \in 1 .. Len(s) : x = s[i]
<1>1. PICK n \in Nat : n = Len(s) /\ DOMAIN s = 1 .. n /\ s \in [1 .. n -> A] /\ \A i \in 1 .. n : s[i] \in A
  OBVIOUS
<1> DEFINE R == Scoring!Range(s)
<1>2. \A x : x \in R <=> \E i \in 1 .. n : x = s[i]
  BY <1>1 DEF Scoring!Range
<1> HIDE DEF R
<1>3. s \in [1 .. n -> R] /\ \A t \in R : \E i \in 1 .. n : s[i] = t
  BY <1>1, <1>2
<1>4. s \in Surjection(1 .. n, R)
  BY <1>3 DEF Surjection
<1>5. IsFiniteSet(1 .. n)
  BY FS_Interval
<1>6. IsFiniteSet(R)
  BY <1>4, <1>5, FS_Surjection, Zenon
<1> QED BY <1>1, <1>2, <1>6 DEF R

\* A nonempty set of naturals has its least one.
LEMMA ScoringMin ==
  ASSUME NEW M \in SUBSET Nat, M # {}
  PROVE  Scoring!Min(M) \in M /\ \A m \in M : Scoring!Min(M) <= m
<1>1. \E n \in M : \A m \in M : n <= m
  BY LeastNatural
<1> QED BY <1>1, Zenon DEF Scoring!Min

\* What is left of a number is no more than all of it.
LEMMA ScoringShare ==
  ASSUME NEW p \in Nat \ {0}, NEW w \in Nat \ {0}
  PROVE  (50 * (w - p)) \div w \in Int /\ (50 * (w - p)) \div w < 50
<1>1. PICK a \in Int : a = 50 * (w - p)
  OBVIOUS
<1>2. a < 50 * w
  BY <1>1
<1>3. a \div w \in Int /\ a \div w < 50
  BY <1>2
<1> QED BY <1>1, <1>3

\* A discount is less than what an exact name is worth more.
LEMMA ScoringDiscount ==
  ASSUME Scoring!ScoringAssumption, NEW s \in Scorable, NEW i \in DOMAIN s.name
  PROVE  Scoring!Discount(s, i) \in Int /\ Scoring!Discount(s, i) < 50
<1> DEFINE T == Scoring!Texts
           around == {j \in DOMAIN s.name \ {i} :
                       LET p == Scoring!Places(s.name[i], s.name[j]) IN p # {} /\ Scoring!Min(p) > 1}
<1>1. PICK n \in Nat : DOMAIN s.name = 1 .. n /\ \A j \in 1 .. n : s.name[j] \in T
  <2>1. s.name \in Seq(T)
    BY DEF Scoring!ScoringAssumption
  <2> DEFINE x == s.name
  <2> HIDE DEF T, x
  <2>2. x \in Seq(T)
    BY <2>1 DEF x
  <2>3. \E n \in Nat : DOMAIN x = 1 .. n /\ \A j \in 1 .. n : x[j] \in T
    BY <2>2, Elements
  <2> QED BY <2>3 DEF x
<1>2. CASE around = {}
  BY <1>2 DEF Scoring!Discount
<1>3. CASE around # {}
  <2>1. around \in SUBSET Nat
    BY <1>1
  <2>2. Scoring!Min(around) \in around
    <3> HIDE DEF around
    <3> QED BY <1>3, <2>1, ScoringMin
  <2>3. PICK j \in 1 .. n : j = Scoring!Min(around)
    BY <1>1, <2>2, Zenon
  <2>4. Scoring!Discount(s, i) = Scoring!Lack(s.name[i], s.name[j])
    BY <1>3, <2>3 DEF Scoring!Discount
  <2>5. PICK p \in Nat \ {0} : p = Scoring!TextLength(s.name[i])
    <3>1. s.name[i] \in T
      BY <1>1
    <3> QED BY <3>1, ScoringLengths
  <2>6. PICK w \in Nat \ {0} : w = Scoring!TextLength(s.name[j])
    <3>1. s.name[j] \in T
      BY <1>1
    <3> QED BY <3>1, ScoringLengths
  <2>7. Scoring!Lack(s.name[i], s.name[j]) = (50 * (w - p)) \div w
    BY <2>5, <2>6 DEF Scoring!Lack
  <2> HIDE DEF around, T
  <2> QED BY <2>4, <2>7, ScoringShare
<1> QED BY <1>2, <1>3, Zenon

\* A symbol's name is made of texts, and what is its module is a part of it.
LEMMA ScoringName ==
  ASSUME Scoring!ScoringAssumption, NEW s \in Scorable
  PROVE  /\ s.name \in Seq(Scoring!Texts) /\ Scoring!ModuleOf(s) \in Seq(Scoring!Texts)
         /\ Scoring!Range(Scoring!ModuleOf(s)) \subseteq Scoring!Range(s.name)
<1> DEFINE T == Scoring!Texts
           x == s.name
           m == Scoring!ModuleOf(s)
<1>1. x \in Seq(T) /\ s.module \in 1 .. Len(x) - 1
  BY DEF Scoring!ScoringAssumption
<1>2. m = SubSeq(x, 1, s.module)
  BY DEF Scoring!ModuleOf
<1> HIDE DEF T, x, m
<1>3. PICK k \in Nat : k = s.module /\ k <= Len(x) /\ Len(x) \in Nat
  BY <1>1
<1>4. m \in Seq(T) /\ Len(m) = k /\ \A i \in 1 .. k : m[i] = x[i] /\ i \in 1 .. Len(x)
  BY <1>1, <1>2, <1>3
<1>5. Scoring!Range(m) \subseteq Scoring!Range(x)
  BY <1>1, <1>4, ScoringRange
<1> QED BY <1>1, <1>4, <1>5 DEF T, x, m

\* What names a symbol first, among the words and then among its segments.
LEMMA ScoringFirst ==
  ASSUME Scoring!ScoringAssumption, NEW s \in Scorable, NEW p \in Seq(Scoring!Texts),
         Scoring!NamedBy(s, p) # {}
  PROVE  Scoring!FirstNamed(s, p) \in DOMAIN s.name
<1> DEFINE N == Scoring!NamedBy(s, p)
           t == Scoring!Min({n[1] : n \in N})
           F == {n[2] : n \in {m \in N : m[1] = t}}
<1>1. N \subseteq (DOMAIN p) \X (DOMAIN s.name)
  BY DEF Scoring!NamedBy
<1>2. DOMAIN p \subseteq Nat /\ DOMAIN s.name \subseteq Nat
  <2>1. DOMAIN p \subseteq Nat
    BY Elements
  <2> DEFINE x == s.name
  <2>2. x \in Seq(Scoring!Texts)
    BY ScoringName
  <2> HIDE DEF x
  <2>3. DOMAIN x \subseteq Nat
    BY <2>2, Elements
  <2> QED BY <2>1, <2>3 DEF x
<1>3. Scoring!FirstNamed(s, p) = Scoring!Min(F)
  BY DEF Scoring!FirstNamed
<1> HIDE DEF N
<1>4. {n[1] : n \in N} \in SUBSET Nat /\ {n[1] : n \in N} # {}
  <2>1. \A n \in N : n[1] \in Nat
    BY <1>1, <1>2
  <2>2. N # {}
    BY DEF N
  <2> QED BY <2>1, <2>2
<1>5. t \in {n[1] : n \in N}
  BY <1>4, ScoringMin, Zenon
<1> HIDE DEF t
<1>6. F \in SUBSET (DOMAIN s.name) /\ F # {}
  BY <1>1, <1>5
<1>7. Scoring!Min(F) \in F
  <2> HIDE DEF F
  <2> QED BY <1>2, <1>6, ScoringMin
<1> HIDE DEF F
<1> QED BY <1>3, <1>6, <1>7

\* A word more after those that name a symbol does not change which is the first.
LEMMA ScoringFirstStays ==
  ASSUME Scoring!ScoringAssumption, NEW s \in Scorable,
         NEW p \in Seq(Scoring!Texts), NEW q \in Seq(Scoring!Texts), Begins(q, p)
  PROVE  /\ Scoring!NamedBy(s, p) = {n \in Scoring!NamedBy(s, q) : n[1] <= Len(p)}
         /\ Scoring!NamedBy(s, p) # {} => Scoring!FirstNamed(s, q) = Scoring!FirstNamed(s, p)
<1> DEFINE P == Scoring!NamedBy(s, p)
           Q == Scoring!NamedBy(s, q)
           D == DOMAIN s.name
<1>1. PICK l \in Nat, k \in Nat :
        /\ l = Len(p) /\ k = Len(q) /\ DOMAIN p = 1 .. l /\ DOMAIN q = 1 .. k
  BY Elements
<1>2. l <= k /\ \A i \in 1 .. l : q[i] = p[i]
  BY <1>1 DEF Begins
<1>3. P = {n \in Q : n[1] <= l}
  <2>1. ASSUME NEW n \in (1 .. l) \X D
        PROVE  n \in (1 .. k) \X D /\ n[1] <= l /\ q[n[1]] = p[n[1]]
    BY <1>2
  <2>2. ASSUME NEW n \in (1 .. k) \X D, n[1] <= l PROVE n \in (1 .. l) \X D
    BY <2>2
  <2>3. P = {n \in (1 .. l) \X D : Scoring!Names(p[n[1]], s.name[n[2]])}
    BY <1>1 DEF Scoring!NamedBy
  <2>4. Q = {n \in (1 .. k) \X D : Scoring!Names(q[n[1]], s.name[n[2]])}
    BY <1>1 DEF Scoring!NamedBy
  <2> HIDE DEF P, Q, D
  <2> QED BY <2>1, <2>2, <2>3, <2>4
<1>4. ASSUME P # {} PROVE Scoring!FirstNamed(s, q) = Scoring!FirstNamed(s, p)
  <2> DEFINE A == {n[1] : n \in P}
             B == {n[1] : n \in Q}
             t == Scoring!Min(A)
             u == Scoring!Min(B)
  <2>1. \A n \in Q : n[1] \in Nat
    BY <1>1 DEF Scoring!NamedBy
  <2>2. Scoring!FirstNamed(s, p) = Scoring!Min({n[2] : n \in {m \in P : m[1] = t}})
    BY DEF Scoring!FirstNamed
  <2>3. Scoring!FirstNamed(s, q) = Scoring!Min({n[2] : n \in {m \in Q : m[1] = u}})
    BY DEF Scoring!FirstNamed
  <2> HIDE DEF P, Q
  <2>4. A \in SUBSET Nat /\ A # {} /\ B \in SUBSET Nat /\ B # {} /\ A \subseteq B
    BY <1>3, <1>4, <2>1, Zenon
  <2>5. \A x \in B : x <= l => x \in A
    BY <1>3
  <2>6. \A x \in A : x <= l
    BY <1>3
  <2> HIDE DEF A, B
  <2>7. t \in A /\ u \in B /\ (\A x \in A : t <= x) /\ (\A x \in B : u <= x)
    BY <2>4, ScoringMin
  <2> HIDE DEF t, u
  <2>8. t \in Nat /\ u \in Nat /\ u <= t /\ t <= l
    BY <2>4, <2>6, <2>7
  <2>9. u <= l
    BY <2>8
  <2>10. t = u
    BY <2>5, <2>7, <2>8, <2>9
  <2>11. {m \in P : m[1] = t} = {m \in Q : m[1] = u}
    BY <1>3, <2>8, <2>10
  <2> QED BY <2>2, <2>3, <2>11, Zenon
<1> QED BY <1>1, <1>3, <1>4

\* What begins with words has them among its own.
LEMMA ScoringMoreWords ==
  ASSUME NEW A, NEW p \in Seq(A), NEW q \in Seq(A), Begins(q, p)
  PROVE  Scoring!Range(p) \subseteq Scoring!Range(q)
<1>1. Len(p) \in Nat /\ Len(q) \in Nat /\ Len(p) <= Len(q) /\ \A i \in 1 .. Len(p) : q[i] = p[i]
  BY Elements DEF Begins
<1>2. \A i \in 1 .. Len(p) : i \in 1 .. Len(q)
  BY <1>1
<1> QED BY <1>1, <1>2, ScoringRange

\* A name that is named counts for more than half, another one for half at most.
LEMMA ScoringNameCounts ==
  ASSUME Scoring!ScoringAssumption, NEW s \in Scorable, NEW p \in Seq(Scoring!Texts)
  PROVE  /\ Scoring!NamedBy(s, p) # {} => Scoring!NameRule(s, p) \in Int /\ Scoring!NameRule(s, p) > 50
         /\ Scoring!NamedBy(s, p) = {} => Scoring!NameRule(s, p) \in {0, 50}
<1>1. CASE Scoring!NamedBy(s, p) # {}
  <2>1. PICK i \in DOMAIN s.name : i = Scoring!FirstNamed(s, p)
    BY <1>1, ScoringFirst
  <2>2. PICK d \in Int : d = Scoring!Discount(s, i) /\ d < 50
    BY ScoringDiscount
  <2>3. Scoring!NameRule(s, p) = 100 - d
    BY <1>1, <2>1, <2>2 DEF Scoring!NameRule
  <2> QED BY <1>1, <2>2, <2>3
<1>2. CASE Scoring!NamedBy(s, p) = {}
  BY <1>2 DEF Scoring!NameRule
<1> QED BY <1>1, <1>2

\* More words never count for less.
LEMMA ScoringNameGrows ==
  ASSUME Scoring!ScoringAssumption, NEW s \in Scorable,
         NEW p \in Seq(Scoring!Texts), NEW q \in Seq(Scoring!Texts), Begins(q, p)
  PROVE  /\ Scoring!NameRule(s, p) \in Int /\ Scoring!NameRule(s, q) \in Int
         /\ Scoring!NameRule(s, q) >= Scoring!NameRule(s, p)
<1>1. CASE Scoring!NamedBy(s, p) # {}
  <2>1. Scoring!NamedBy(s, q) # {} /\ Scoring!FirstNamed(s, q) = Scoring!FirstNamed(s, p)
    BY <1>1, ScoringFirstStays
  <2>2. Scoring!NameRule(s, q) = Scoring!NameRule(s, p)
    BY <1>1, <2>1 DEF Scoring!NameRule
  <2>3. Scoring!NameRule(s, p) \in Int
    BY <1>1, ScoringNameCounts
  <2> QED BY <2>2, <2>3
<1>2. CASE Scoring!NamedBy(s, p) = {} /\ Scoring!NamedBy(s, q) # {}
  <2>1. Scoring!NameRule(s, p) \in {0, 50}
    BY <1>2, ScoringNameCounts
  <2>2. Scoring!NameRule(s, q) \in Int /\ Scoring!NameRule(s, q) > 50
    BY <1>2, ScoringNameCounts
  <2> QED BY <2>1, <2>2
<1>3. CASE Scoring!NamedBy(s, p) = {} /\ Scoring!NamedBy(s, q) = {}
  <2>1. Scoring!Range(p) \subseteq Scoring!Range(q)
    BY ScoringMoreWords
  <2>2. Scoring!NameRule(s, p) = IF \E t \in Scoring!Range(p), x \in Scoring!Range(s.name) : Scoring!Within(t, x) THEN 50 ELSE 0
    BY <1>3 DEF Scoring!NameRule
  <2>3. Scoring!NameRule(s, q) = IF \E t \in Scoring!Range(q), x \in Scoring!Range(s.name) : Scoring!Within(t, x) THEN 50 ELSE 0
    BY <1>3 DEF Scoring!NameRule
  <2>4. (\E t \in Scoring!Range(p), x \in Scoring!Range(s.name) : Scoring!Within(t, x))
          => \E t \in Scoring!Range(q), x \in Scoring!Range(s.name) : Scoring!Within(t, x)
    BY <2>1
  <2> QED BY <2>2, <2>3, <2>4
<1> QED BY <1>1, <1>2, <1>3

\* How many words overlap.
LEMMA ScoringOverlaps ==
  ASSUME NEW p \in Seq(Scoring!Texts), NEW segments
  PROVE  /\ IsFiniteSet(Scoring!Overlapping(p, segments))
         /\ Scoring!Cardinality(Scoring!Overlapping(p, segments)) = Cardinality(Scoring!Overlapping(p, segments))
         /\ Cardinality(Scoring!Overlapping(p, segments)) \in Nat
         /\ (Cardinality(Scoring!Overlapping(p, segments)) = 0 <=> Scoring!Overlapping(p, segments) = {})
<1> DEFINE O == Scoring!Overlapping(p, segments)
<1>1. O \subseteq Scoring!Range(p)
  BY DEF Scoring!Overlapping
<1>2. IsFiniteSet(Scoring!Range(p))
  BY ScoringRange
<1> HIDE DEF O
<1>3. IsFiniteSet(O)
  BY <1>1, <1>2, FS_Subset
<1>4. Cardinality(O) \in Nat /\ (Cardinality(O) = 0 <=> O = {})
  BY <1>3, FS_CardinalityType, FS_EmptySet
<1>5. Scoring!Cardinality(O) = Cardinality(O)
  BY ScoringCounts
<1> QED BY <1>3, <1>4, <1>5 DEF O

\* If no fewer overlap, they count for no less.
LEMMA ScoringOverlapGrows ==
  ASSUME NEW p \in Seq(Scoring!Texts), NEW q \in Seq(Scoring!Texts), NEW segments, NEW wider,
         Scoring!Overlapping(p, segments) \subseteq Scoring!Overlapping(q, wider)
  PROVE  Cardinality(Scoring!Overlapping(p, segments)) <= Cardinality(Scoring!Overlapping(q, wider))
BY ScoringOverlaps, FS_Subset

\* What a symbol scores, rule by rule.
ScoringSum(s, p, rule, named, module, test, quality) ==
  /\ rule \in Int /\ named \in Nat /\ module \in Nat /\ test \in {-50, 0, 75} /\ quality \in Int
  /\ rule = Scoring!NameRule(s, p) /\ named = Cardinality(Scoring!Overlapping(p, s.name))
  /\ module = Cardinality(Scoring!Overlapping(p, Scoring!ModuleOf(s)))
  /\ test = Scoring!TestPoints(s, p) /\ quality = Scoring!Quality(s)
  /\ Scoring!ScoreCandidate(s, p) =
       [score |-> rule + 10 * named + (IF module >= 2 THEN 10 * module ELSE 0) + quality + test,
        match |-> IF module >= 2 THEN "module" ELSE IF named > 0 \/ test > 0 THEN "name" ELSE "none"]

\* All that is added up are numbers.
LEMMA ScoringSums ==
  ASSUME Scoring!ScoringAssumption, NEW s \in Scorable, NEW p \in Seq(Scoring!Texts), p # <<>>
  PROVE  \E rule, named, module, test, quality : ScoringSum(s, p, rule, named, module, test, quality)
<1>1. PICK rule \in Int : rule = Scoring!NameRule(s, p)
  BY ScoringNameCounts
<1>2. PICK named \in Nat : /\ named = Cardinality(Scoring!Overlapping(p, s.name))
                           /\ named = Scoring!Cardinality(Scoring!Overlapping(p, s.name))
  BY ScoringOverlaps
<1>3. PICK module \in Nat : /\ module = Cardinality(Scoring!Overlapping(p, Scoring!ModuleOf(s)))
                            /\ module = Scoring!ModuleOverlap(s, p)
  BY ScoringOverlaps DEF Scoring!ModuleOverlap
<1>4. PICK test \in {-50, 0, 75} : test = Scoring!TestPoints(s, p)
  BY DEF Scoring!TestPoints
<1>5. test > 0 <=> Scoring!IsTest(s) /\ Scoring!TargetsTests(p)
  BY <1>4 DEF Scoring!TestPoints
<1>6. PICK quality \in Int : quality = Scoring!Quality(s)
  <2>1. PICK a \in {-10, 5} : a = IF Scoring!IsPrivate(s) THEN -10 ELSE 5
    OBVIOUS
  <2>2. PICK b \in {0, 20} : b = IF Scoring!IsGenerated(s) THEN 20 ELSE 0
    OBVIOUS
  <2>3. Scoring!Quality(s) = 10 + a - b
    BY <2>1, <2>2 DEF Scoring!Quality
  <2>4. 10 + a - b \in Int
    OBVIOUS
  <2> QED BY <2>3, <2>4
<1>7. Scoring!ScoreCandidate(s, p) =
        [score |-> rule + 10 * named + (IF module >= 2 THEN 10 * module ELSE 0) + quality + test,
         match |-> IF module >= 2 THEN "module"
                   ELSE IF named > 0 \/ (Scoring!IsTest(s) /\ Scoring!TargetsTests(p)) THEN "name" ELSE "none"]
  BY <1>1, <1>2, <1>3, <1>4, <1>6 DEF Scoring!ScoreCandidate
<1>8. Scoring!ScoreCandidate(s, p) =
        [score |-> rule + 10 * named + (IF module >= 2 THEN 10 * module ELSE 0) + quality + test,
         match |-> IF module >= 2 THEN "module" ELSE IF named > 0 \/ test > 0 THEN "name" ELSE "none"]
  BY <1>5, <1>7
<1>9. ScoringSum(s, p, rule, named, module, test, quality)
  BY <1>1, <1>2, <1>3, <1>4, <1>6, <1>8 DEF ScoringSum
<1> QED BY <1>9

\* More words never make a symbol score less.
LEMMA ScoringGrows ==
  ASSUME Scoring!ScoringAssumption, NEW s \in Scorable, NEW p \in Seq(Scoring!Texts), p # <<>>,
         NEW q \in Seq(Scoring!Texts), q # <<>>, Begins(q, p)
  PROVE  Scoring!ScoreCandidate(s, q).score >= Scoring!ScoreCandidate(s, p).score
<1>1. Scoring!Range(p) \subseteq Scoring!Range(q)
  BY ScoringMoreWords
<1>2. \A segments : Cardinality(Scoring!Overlapping(p, segments)) <= Cardinality(Scoring!Overlapping(q, segments))
  <2> TAKE segments
  <2>1. Scoring!Overlapping(p, segments) \subseteq Scoring!Overlapping(q, segments)
    BY <1>1 DEF Scoring!Overlapping
  <2> QED BY <2>1, ScoringOverlapGrows
<1>3. Scoring!TestPoints(s, p) <= Scoring!TestPoints(s, q)
  <2>1. Scoring!TargetsTests(p) => Scoring!TargetsTests(q)
    BY <1>1 DEF Scoring!TargetsTests
  <2> QED BY <2>1 DEF Scoring!TestPoints
<1>4. Scoring!NameRule(s, q) >= Scoring!NameRule(s, p)
  BY ScoringNameGrows
<1>5. PICK r, n, m, t, u : ScoringSum(s, p, r, n, m, t, u)
  BY ScoringSums
<1>6. PICK r2, n2, m2, t2, u2 : ScoringSum(s, q, r2, n2, m2, t2, u2)
  BY ScoringSums
<1>7. /\ r \in Int /\ n \in Nat /\ m \in Nat /\ t \in {-50, 0, 75} /\ u \in Int
      /\ r2 \in Int /\ n2 \in Nat /\ m2 \in Nat /\ t2 \in {-50, 0, 75} /\ u2 = u
      /\ Scoring!ScoreCandidate(s, p).score = r + 10 * n + (IF m >= 2 THEN 10 * m ELSE 0) + u + t
      /\ Scoring!ScoreCandidate(s, q).score = r2 + 10 * n2 + (IF m2 >= 2 THEN 10 * m2 ELSE 0) + u2 + t2
  BY <1>5, <1>6 DEF ScoringSum
<1>8. r2 >= r /\ n2 >= n /\ m2 >= m /\ t2 >= t
  <2>1. r2 >= r
    BY <1>4, <1>5, <1>6 DEF ScoringSum
  <2>2. n <= n2 /\ m <= m2
    BY <1>2, <1>5, <1>6 DEF ScoringSum
  <2>3. t <= t2
    BY <1>3, <1>5, <1>6 DEF ScoringSum
  <2> QED BY <1>7, <2>1, <2>2, <2>3
<1>9. PICK a \in Int, b \in Int : /\ a = (IF m >= 2 THEN 10 * m ELSE 0)
                                  /\ b = (IF m2 >= 2 THEN 10 * m2 ELSE 0) /\ a <= b
  BY <1>7, <1>8
<1>10. r + 10 * n + a + u + t <= r2 + 10 * n2 + b + u + t2
  BY <1>7, <1>8, <1>9
<1> QED BY <1>7, <1>9, <1>10

\* What is heard and scored is what was said.
ScoringInv ==
  /\ said \in Seq(Sayable) /\ Len(said) <= MaxWords /\ ScoringHasTexts(said)
  /\ heard = Scoring!NormaliseQueryText(said)
  /\ scored = Scoring!Scores(heard)

\* Where nothing is wanted, nothing is kept.
LEMMA ScoringNothingKept ==
  ASSUME NEW A, NEW texts \in Seq(A), NEW wanted, wanted = {} PROVE Scoring!Distinct(texts, wanted) = <<>>
<1> DEFINE s == Scoring!Distinct(texts, wanted)
<1>1. s \in Seq(A) /\ \A i \in 1 .. Len(s) : s[i] \in wanted
  BY ScoringDistinctHolds DEF ScoringKept
<1> HIDE DEF s
<1>2. Len(s) = 0
  <2>1. PICK n \in Nat : n = Len(s)
    BY <1>1, Elements
  <2>2. 1 .. n = {}
    BY <1>1, <2>1
  <2> QED BY <2>1, <2>2
<1>3. s = <<>>
  BY <1>1, <1>2
<1> QED BY <1>3 DEF s

\* The invariant holds at the prefix.
LEMMA ScoringInitHolds == ASSUME Scoring!ScoringAssumption, Scoring!Init PROVE ScoringInv
<1> DEFINE T == Scoring!Texts
           texts == [i \in DOMAIN <<>> |-> <<>>[i].text]
<1>1. said = <<>> /\ heard = <<>> /\ scored = Scoring!Scores(<<>>)
  BY DEF Scoring!Init
<1>2. Len(<<>>) = 0 /\ 1 .. 0 = {} /\ <<>> \in Seq(Sayable) /\ <<>> \in Seq(T) /\ Scoring!Range(<<>>) = {}
  BY DEF Scoring!Range
<1>3. Scoring!Telling(<<>>) = <<>>
  <2> DEFINE wanted == {t \in Scoring!Range(<<>>) : Scoring!Tells(t)}
  <2>1. wanted = {}
    BY <1>2
  <2>2. Scoring!Telling(<<>>) = Scoring!Distinct(<<>>, wanted)
    BY ScoringNoForms, Zenon DEF Scoring!Telling
  <2> HIDE DEF wanted, T
  <2> QED BY <1>2, <2>1, <2>2, ScoringNothingKept, Zenon
<1>4. Scoring!NormaliseQueryText(<<>>) = <<>>
  <2>1. texts \in Seq(T)
    <3>1. texts \in [1 .. 0 -> T]
      BY <1>2
    <3> HIDE DEF texts, T
    <3> QED BY <3>1
  <2>2. Scoring!Range(texts) = {}
    BY <1>2 DEF Scoring!Range
  <2>3. Scoring!NormaliseQueryText(<<>>) = Scoring!Distinct(texts, Scoring!Range(texts))
    BY <1>3 DEF Scoring!NormaliseQueryText
  <2> HIDE DEF texts, T
  <2> QED BY <2>1, <2>2, <2>3, ScoringNothingKept
<1>5. ScoringHasTexts(<<>>)
  BY <1>2 DEF ScoringHasTexts
<1>6. 0 <= MaxWords
  BY DEF Scoring!ScoringAssumption
<1> QED BY <1>1, <1>2, <1>4, <1>5, <1>6 DEF ScoringInv

\* One word more keeps it.
LEMMA ScoringStepHolds ==
  ScoringInv /\ Scoring!ScoringAssumption /\ [Scoring!Next]_(Scoring!vars) => ScoringInv'
<1> SUFFICES ASSUME ScoringInv, Scoring!ScoringAssumption, [Scoring!Next]_(Scoring!vars) PROVE ScoringInv'
  OBVIOUS
<1>1. CASE Scoring!SayMore
  <2>1. PICK w \in Sayable : said' = Append(said, w)
    BY <1>1 DEF Scoring!SayMore
  <2>2. said \in Seq(Sayable) /\ ScoringHasTexts(said) /\ Len(said) < MaxWords /\ MaxWords \in Nat
    BY <1>1 DEF ScoringInv, Scoring!SayMore, Scoring!ScoringAssumption
  <2>3. said' \in Seq(Sayable) /\ Len(said') <= MaxWords
    <3>1. PICK n \in Nat : n = Len(said) /\ n < MaxWords
      BY <2>2, Elements
    <3>2. said' \in Seq(Sayable) /\ Len(said') = n + 1
      BY <2>1, <2>2, <3>1, Appended
    <3> QED BY <2>2, <3>1, <3>2
  <2>4. ScoringHasTexts(said')
    BY <2>1, <2>2, ScoringHasOneMore
  <2>5. heard' = Scoring!NormaliseQueryText(said') /\ scored' = Scoring!Scores(heard')
    BY <1>1 DEF Scoring!SayMore
  <2> QED BY <2>3, <2>4, <2>5 DEF ScoringInv
<1>2. CASE UNCHANGED Scoring!vars
  <2>1. said' = said /\ heard' = heard /\ scored' = scored
    BY <1>2 DEF Scoring!vars
  <2> QED BY <2>1 DEF ScoringInv
<1> QED BY <1>1, <1>2 DEF Scoring!Next

\* What is heard is a sequence of texts.
LEMMA ScoringHeard ==
  ASSUME Scoring!ScoringAssumption, ScoringInv
  PROVE  /\ heard \in Seq(Scoring!Texts) /\ Scoring!IsInjective(heard) /\ (said # <<>> => heard # <<>>)
         /\ Scoring!WordCounts => heard = Scoring!Telling(said) /\ heard # <<>>
BY ScoringHears DEF ScoringInv, Scoring!WordCounts

\* What is scored is what the rules add up for what is heard.
LEMMA ScoringScores ==
  ASSUME ScoringInv
  PROVE  /\ scored = [s \in Scorable |-> Scoring!ScoreCandidate(s, heard)]
         /\ \A s \in Scorable : scored[s] = Scoring!ScoreCandidate(s, heard)
BY DEF ScoringInv, Scoring!Scores

\* Its types.
LEMMA ScoringTypes == ASSUME Scoring!ScoringAssumption, ScoringInv PROVE Scoring!TypeOK
<1> DEFINE R == [score : Int, match : {"none", "name", "module"}]
<1>1. \A s \in Scorable : Scoring!ScoreCandidate(s, heard) \in R
  <2> TAKE s \in Scorable
  <2>1. CASE heard = <<>>
    <3>1. Scoring!ScoreCandidate(s, heard) = [score |-> 0, match |-> "none"]
      BY <2>1 DEF Scoring!ScoreCandidate
    <3> QED BY <3>1
  <2>2. CASE heard # <<>>
    <3>1. PICK r, n, m, t, u : ScoringSum(s, heard, r, n, m, t, u)
      BY <2>2, ScoringHeard, ScoringSums
    <3>2. r + 10 * n + (IF m >= 2 THEN 10 * m ELSE 0) + u + t \in Int
      <4>1. r \in Int /\ n \in Int /\ m \in Int /\ u \in Int /\ t \in Int
        BY <3>1 DEF ScoringSum
      <4> QED BY <4>1
    <3>3. (IF m >= 2 THEN "module" ELSE IF n > 0 \/ t > 0 THEN "name" ELSE "none") \in {"none", "name", "module"}
      OBVIOUS
    <3>4. Scoring!ScoreCandidate(s, heard) =
            [score |-> r + 10 * n + (IF m >= 2 THEN 10 * m ELSE 0) + u + t,
             match |-> IF m >= 2 THEN "module" ELSE IF n > 0 \/ t > 0 THEN "name" ELSE "none"]
      BY <3>1 DEF ScoringSum
    <3> QED BY <3>2, <3>3, <3>4
  <2> QED BY <2>1, <2>2
<1> HIDE DEF R
<1>2. scored \in [Scorable -> R]
  BY <1>1, ScoringScores
<1> QED BY <1>2, ScoringHeard DEF ScoringInv, Scoring!TypeOK, R

\* What is named by what is heard.
LEMMA ScoringIsNamed ==
  ASSUME Scoring!ScoringAssumption, ScoringInv, NEW s \in Scorable
  PROVE  /\ Scoring!IsNamed(s) <=> Scoring!NamedBy(s, heard) # {}
         /\ Scoring!IsNamed(s) => heard # <<>>
<1>1. Scoring!NamedBy(s, <<>>) = {}
  BY DEF Scoring!NamedBy
<1> QED BY <1>1 DEF Scoring!IsNamed

\* A named symbol stays before the others.
LEMMA ScoringOutranks == ASSUME Scoring!ScoringAssumption, ScoringInv PROVE Scoring!NamedOutranks
<1> SUFFICES ASSUME NEW s \in Scorable, NEW t \in Scorable,
                    Scoring!IsNamed(s), ~Scoring!IsNamed(t), Scoring!Quality(s) = Scoring!Quality(t),
                    Scoring!TestPoints(s, heard) = Scoring!TestPoints(t, heard),
                    Scoring!Overlapping(heard, t.name) \subseteq Scoring!Overlapping(heard, s.name),
                    Scoring!Overlapping(heard, Scoring!ModuleOf(t)) \subseteq Scoring!Overlapping(heard, Scoring!ModuleOf(s))
             PROVE  scored[s].score > scored[t].score
  BY DEF Scoring!NamedOutranks
<1>1. heard # <<>> /\ heard \in Seq(Scoring!Texts) /\ Scoring!NamedBy(s, heard) # {} /\ Scoring!NamedBy(t, heard) = {}
  BY ScoringIsNamed, ScoringHeard
<1>2. PICK r, n, m, x, u : ScoringSum(s, heard, r, n, m, x, u)
  BY <1>1, ScoringSums
<1>3. PICK r2, n2, m2, x2, u2 : ScoringSum(t, heard, r2, n2, m2, x2, u2)
  BY <1>1, ScoringSums
<1>4. r > 50 /\ r2 <= 50
  <2>1. r > 50
    BY <1>1, <1>2, ScoringNameCounts DEF ScoringSum
  <2>2. r2 \in {0, 50}
    BY <1>1, <1>3, ScoringNameCounts DEF ScoringSum
  <2> QED BY <2>1, <2>2
<1>5. n2 <= n /\ m2 <= m
  <2>1. /\ n = Cardinality(Scoring!Overlapping(heard, s.name))
        /\ m = Cardinality(Scoring!Overlapping(heard, Scoring!ModuleOf(s)))
        /\ n2 = Cardinality(Scoring!Overlapping(heard, t.name))
        /\ m2 = Cardinality(Scoring!Overlapping(heard, Scoring!ModuleOf(t)))
    BY <1>2, <1>3 DEF ScoringSum
  <2>2. n2 <= n
    BY <1>1, <2>1, ScoringOverlapGrows
  <2>3. m2 <= m
    BY <1>1, <2>1, ScoringOverlapGrows
  <2> QED BY <2>2, <2>3
<1>6. /\ r \in Int /\ n \in Nat /\ m \in Nat /\ x \in Int /\ u \in Int
      /\ r2 \in Int /\ n2 \in Nat /\ m2 \in Nat /\ x2 = x /\ u2 = u
      /\ scored[s].score = r + 10 * n + (IF m >= 2 THEN 10 * m ELSE 0) + u + x
      /\ scored[t].score = r2 + 10 * n2 + (IF m2 >= 2 THEN 10 * m2 ELSE 0) + u2 + x2
  BY <1>2, <1>3, ScoringScores DEF ScoringSum
<1>7. PICK a \in Int, b \in Int : /\ a = (IF m >= 2 THEN 10 * m ELSE 0)
                                  /\ b = (IF m2 >= 2 THEN 10 * m2 ELSE 0) /\ b <= a
  BY <1>5, <1>6
<1>8. r + 10 * n + a + u + x > r2 + 10 * n2 + b + u + x
  BY <1>4, <1>5, <1>6, <1>7
<1> QED BY <1>6, <1>7, <1>8

\* A named symbol is not cut.
LEMMA ScoringSurvives == ASSUME Scoring!ScoringAssumption, ScoringInv PROVE Scoring!NamedSurvives
<1> SUFFICES ASSUME NEW s \in Scorable, Scoring!IsNamed(s), ~Scoring!IsGenerated(s),
                    Scoring!TestPoints(s, heard) >= 0
             PROVE  scored[s].score >= 1
  BY DEF Scoring!NamedSurvives
<1>1. heard # <<>> /\ heard \in Seq(Scoring!Texts) /\ Scoring!NamedBy(s, heard) # {}
  BY ScoringIsNamed, ScoringHeard
<1>2. PICK r, n, m, x, u : ScoringSum(s, heard, r, n, m, x, u)
  BY <1>1, ScoringSums
<1>3. r > 50
  BY <1>1, <1>2, ScoringNameCounts DEF ScoringSum
<1>4. u >= 0
  <2>1. PICK a \in {-10, 5} : a = IF Scoring!IsPrivate(s) THEN -10 ELSE 5
    OBVIOUS
  <2>2. u = 10 + a - 0
    BY <1>2, <2>1 DEF ScoringSum, Scoring!Quality
  <2> QED BY <2>2
<1>5. /\ r \in Int /\ n \in Nat /\ m \in Nat /\ x \in Int /\ x >= 0 /\ u \in Int
      /\ scored[s].score = r + 10 * n + (IF m >= 2 THEN 10 * m ELSE 0) + u + x
  BY <1>2, ScoringScores DEF ScoringSum
<1>6. PICK a \in Nat : a = (IF m >= 2 THEN 10 * m ELSE 0)
  BY <1>5
<1>7. r + 10 * n + a + u + x >= 1
  BY <1>3, <1>4, <1>5, <1>6
<1> QED BY <1>5, <1>6, <1>7

\* What is relevant is so by a word.
LEMMA ScoringIsRelevant == ASSUME Scoring!ScoringAssumption, ScoringInv PROVE Scoring!RelevantByAWord
<1> SUFFICES ASSUME NEW s \in Scorable
             PROVE  scored[s].match # "none" <=>
                      \/ \E t \in Scoring!Range(heard) : \E i \in DOMAIN s.name : Scoring!Within(t, s.name[i])
                      \/ Scoring!TestPoints(s, heard) > 0
  BY DEF Scoring!RelevantByAWord
<1>1. (\E t \in Scoring!Range(heard) : \E i \in DOMAIN s.name : Scoring!Within(t, s.name[i]))
        <=> Scoring!Overlapping(heard, s.name) # {}
  BY DEF Scoring!Overlapping, Scoring!Range
<1>2. CASE heard = <<>>
  <2>1. Scoring!Range(heard) = {}
    BY <1>2 DEF Scoring!Range
  <2>2. ~(Scoring!TestPoints(s, heard) > 0)
    BY <2>1 DEF Scoring!TestPoints, Scoring!TargetsTests
  <2>3. scored[s].match = "none"
    BY <1>2, ScoringScores DEF Scoring!ScoreCandidate
  <2> QED BY <2>1, <2>2, <2>3
<1>3. CASE heard # <<>>
  <2>0. heard \in Seq(Scoring!Texts)
    BY ScoringHeard
  <2>1. PICK r, n, m, x, u : ScoringSum(s, heard, r, n, m, x, u)
    BY <1>3, <2>0, ScoringSums
  <2>2. n \in Nat /\ m \in Nat /\ x = Scoring!TestPoints(s, heard)
    BY <2>1 DEF ScoringSum
  <2>3. n > 0 <=> Scoring!Overlapping(heard, s.name) # {}
    <3>1. n = Cardinality(Scoring!Overlapping(heard, s.name))
      BY <2>1 DEF ScoringSum
    <3>2. n = 0 <=> Scoring!Overlapping(heard, s.name) = {}
      BY <2>0, <3>1, ScoringOverlaps
    <3> QED BY <2>2, <3>2
  <2>4. m >= 2 => n > 0
    <3> SUFFICES ASSUME m >= 2 PROVE n > 0
      OBVIOUS
    <3>1. Scoring!Overlapping(heard, Scoring!ModuleOf(s)) # {}
      <4>1. m = Cardinality(Scoring!Overlapping(heard, Scoring!ModuleOf(s)))
        BY <2>1 DEF ScoringSum
      <4>2. m = 0 <=> Scoring!Overlapping(heard, Scoring!ModuleOf(s)) = {}
        BY <2>0, <4>1, ScoringOverlaps
      <4> QED BY <2>2, <4>2
    <3>2. Scoring!Overlapping(heard, s.name) # {}
      BY <3>1, ScoringName DEF Scoring!Overlapping
    <3> QED BY <2>3, <3>2
  <2>5. scored[s].match = IF m >= 2 THEN "module" ELSE IF n > 0 \/ x > 0 THEN "name" ELSE "none"
    BY <2>1, ScoringScores DEF ScoringSum
  <2>6. scored[s].match # "none" <=> n > 0 \/ x > 0
    BY <2>4, <2>5
  <2> QED BY <1>1, <2>2, <2>3, <2>6
<1> QED BY <1>2, <1>3

\* So scoring is sound.
LEMMA ScoringSound == ASSUME Scoring!ScoringAssumption, ScoringInv PROVE Scoring!ScoringIsSound
BY ScoringTypes, ScoringOutranks, ScoringSurvives, ScoringIsRelevant DEF Scoring!ScoringIsSound

\* One more word helps.
LEMMA ScoringHelps ==
  ASSUME Scoring!ScoringAssumption, ScoringInv, ScoringInv', Scoring!Next PROVE Scoring!WordsHelp
<1> SUFFICES ASSUME Scoring!WordCounts, NEW s \in Scorable PROVE scored'[s].score >= scored[s].score
  BY DEF Scoring!WordsHelp
<1>1. PICK w \in Sayable : said' = Append(said, w)
  BY DEF Scoring!Next, Scoring!SayMore
<1>2. said \in Seq(Sayable) /\ ScoringHasTexts(said)
  BY DEF ScoringInv
<1>3. heard = Scoring!Telling(said) /\ heard # <<>> /\ heard \in Seq(Scoring!Texts)
  BY ScoringHeard
<1> DEFINE t == Scoring!Telling(said)
           l == Scoring!Telling(said')
<1>4. said' \in Seq(Sayable) /\ l \in Seq(Scoring!Texts) /\ Begins(l, t)
  <2>1. said' \in Seq(Sayable)
    BY <1>1, <1>2, Appended
  <2>2. l \in Seq(Scoring!Texts)
    BY <2>1, ScoringTold
  <2>3. Begins(l, t)
    BY <1>1, <1>2, ScoringTellingGrows
  <2> QED BY <2>1, <2>2, <2>3
<1>5. l # <<>>
  <2> HIDE DEF l, t
  <2>1. Len(t) # 0 /\ Len(t) \in Nat /\ Len(l) \in Nat
    BY <1>3, <1>4 DEF t
  <2>2. Len(t) <= Len(l)
    BY <1>4 DEF Begins
  <2>3. Len(l) # 0
    BY <2>1, <2>2
  <2> QED BY <2>3
<1>6. heard' = l
  <2>1. heard' = Scoring!NormaliseQueryText(said')
    BY DEF ScoringInv
  <2> QED BY <1>5, <2>1 DEF Scoring!NormaliseQueryText
<1>7. scored[s] = Scoring!ScoreCandidate(s, t) /\ scored'[s] = Scoring!ScoreCandidate(s, l)
  <2>1. scored' = Scoring!Scores(heard')
    BY DEF ScoringInv
  <2>2. scored'[s] = Scoring!ScoreCandidate(s, l)
    BY <1>6, <2>1 DEF Scoring!Scores
  <2> QED BY <1>3, <2>2, ScoringScores
<1> HIDE DEF l, t
<1>8. Scoring!ScoreCandidate(s, l).score >= Scoring!ScoreCandidate(s, t).score
  BY <1>3, <1>4, <1>5, ScoringGrows DEF t
<1> QED BY <1>7, <1>8

\* A step while the scores are driven is one of their own.
LEMMA ScoringMoves ==
  ASSUME Is("scoring"), [Next]_vars PROVE [Scoring!Next]_(Scoring!vars) /\ Is("scoring")'
<1>1. driven' = driven
  BY DEF Next, vars
<1>2. CASE Next
  BY <1>1, <1>2 DEF Next, Is
<1>3. CASE UNCHANGED vars
  BY <1>1, <1>3 DEF vars, ScoringVars, Scoring!vars, Is
<1> QED BY <1>2, <1>3

\* The invariant holds for as long as the scores are driven.
LEMMA ScoringHolds == Spec => [](Is("scoring") => ScoringInv)
<1>1. Init => (Is("scoring") => ScoringInv)
  BY FrameworksAssumption, ScoringInitHolds DEF Init
<1>2. (Is("scoring") => ScoringInv) /\ [Next]_vars => (Is("scoring") => ScoringInv)'
  <2> SUFFICES ASSUME Is("scoring") => ScoringInv, [Next]_vars, Is("scoring")' PROVE ScoringInv'
    OBVIOUS
  <2>1. Is("scoring")
    BY DEF Is, Next, vars
  <2>2. [Scoring!Next]_(Scoring!vars)
    BY <2>1, ScoringMoves
  <2> QED BY <2>1, <2>2, FrameworksAssumption, ScoringStepHolds
<1> QED BY <1>1, <1>2, PTL DEF Spec

-----------------------------------------------------------------------------
(* The workflow engine: whatever the graph and whatever its steps do *)

\* Counting is the same in every module.
LEMMA ExecutionCounts ==
  (\A S : Execution!IsFiniteSet(S) <=> IsFiniteSet(S)) /\ (\A S : Execution!Cardinality(S) = Cardinality(S))
BY DEF Execution!IsFiniteSet, Execution!Cardinality, IsFiniteSet, Cardinality

\* A workflow is a finite sequence of nodes, each of them found by its name.
LEMMA ExecutionNodes ==
  ASSUME Execution!WorkflowAssumption, nodes \in Flows
  PROVE  /\ Len(nodes) \in Nat /\ DOMAIN nodes = 1 .. Len(nodes)
         /\ Execution!Ids \in SUBSET Nat /\ IsFiniteSet(Execution!Ids)
         /\ \A n \in Execution!Ids : \E i \in 1 .. Len(nodes) : Execution!NodeOf(n) = nodes[i] /\ nodes[i].id = n
<1>1. nodes \in Seq(Execution!Nodes)
  BY DEF Execution!WorkflowAssumption
<1>2. Len(nodes) \in Nat /\ DOMAIN nodes = 1 .. Len(nodes) /\ \A i \in 1 .. Len(nodes) : nodes[i] \in Execution!Nodes
  BY <1>1, Elements
<1>3. \A i \in 1 .. Len(nodes) : nodes[i].id \in Nat
  BY <1>2 DEF Execution!Nodes
<1>4. Execution!Ids \in SUBSET Nat
  BY <1>2, <1>3 DEF Execution!Ids
<1>5. IsFiniteSet(Execution!Ids)
  <2> DEFINE f == [i \in 1 .. Len(nodes) |-> nodes[i].id]
  <2>1. f \in Surjection(1 .. Len(nodes), Execution!Ids)
    BY <1>2 DEF Surjection, Execution!Ids
  <2>2. IsFiniteSet(1 .. Len(nodes))
    BY <1>2, FS_Interval
  <2> HIDE DEF f
  <2> QED BY <2>1, <2>2, FS_Surjection
<1>6. ASSUME NEW n \in Execution!Ids
      PROVE  \E i \in 1 .. Len(nodes) : Execution!NodeOf(n) = nodes[i] /\ nodes[i].id = n
  <2>1. \E i \in DOMAIN nodes : nodes[i].id = n
    BY DEF Execution!Ids
  <2> QED BY <1>2, <2>1, Zenon DEF Execution!NodeOf
<1> QED BY <1>2, <1>4, <1>5, <1>6, Zenon

\* What a node of a valid workflow depends on are nodes, and never itself.
LEMMA ExecutionValid ==
  ASSUME Execution!WorkflowAssumption, nodes \in Flows, Execution!Valid
  PROVE  /\ Cardinality(Execution!Ids) = Len(nodes)
         /\ \A n \in Execution!Ids : /\ Execution!NodeOf(n).deps \in SUBSET Execution!Ids
                                     /\ n \notin Execution!DependenciesOf(n)
<1>1. Cardinality(Execution!Ids) = Len(nodes)
  BY ExecutionCounts DEF Execution!Valid
<1>2. \A i \in 1 .. Len(nodes) : nodes[i].deps \in SUBSET Execution!Ids
  BY ExecutionNodes DEF Execution!Valid
<1>3. \A n \in Execution!Ids : Execution!NodeOf(n).deps \in SUBSET Execution!Ids
  BY <1>2, ExecutionNodes
<1> QED BY <1>1, <1>3 DEF Execution!Valid

\* What a node depends on holds what it needs, and with a node what that one does.
LEMMA ExecutionClosed ==
  ASSUME NEW n PROVE Execution!Needed({n} \cup Execution!DependenciesOf(n)) \subseteq Execution!DependenciesOf(n)
<1> SUFFICES ASSUME NEW x \in Execution!Needed({n} \cup Execution!DependenciesOf(n)) PROVE x \in Execution!DependenciesOf(n)
  OBVIOUS
<1>1. PICK m \in {n} \cup Execution!DependenciesOf(n) : x \in Execution!NodeOf(m).deps
  BY DEF Execution!Needed
<1>2. x \in Execution!Ids
  BY DEF Execution!Needed
<1>3. ASSUME NEW s \in SUBSET Execution!Ids, Execution!Needed({n} \cup s) \subseteq s PROVE x \in s
  <2>1. m \in {n} \cup s
    BY <1>1, <1>3 DEF Execution!DependenciesOf
  <2>2. x \in Execution!Needed({n} \cup s)
    BY <1>1, <1>2, <2>1 DEF Execution!Needed
  <2> QED BY <1>3, <2>2
<1> QED BY <1>2, <1>3 DEF Execution!DependenciesOf

\* A set of nodes that has what they need and what the node needs has all that the
\* node depends on.
LEMMA ExecutionLeast ==
  ASSUME NEW n, NEW S \in SUBSET Execution!Ids,
         \A m \in {n} \cup S : Execution!NodeOf(m).deps \subseteq S
  PROVE  Execution!DependenciesOf(n) \subseteq S
<1>1. Execution!Needed({n} \cup S) \subseteq S
  BY DEF Execution!Needed
<1> QED BY <1>1 DEF Execution!DependenciesOf

\* A dependency is one of them, and so is what that one depends on.
LEMMA ExecutionTransitive ==
  ASSUME NEW n \in Execution!Ids, NEW d \in Execution!Ids, d \in Execution!NodeOf(n).deps
  PROVE  /\ d \in Execution!DependenciesOf(n)
         /\ Execution!DependenciesOf(d) \subseteq Execution!DependenciesOf(n)
<1>1. d \in Execution!Needed({n} \cup Execution!DependenciesOf(n))
  BY DEF Execution!Needed
<1>2. d \in Execution!DependenciesOf(n)
  BY <1>1, ExecutionClosed
<1>3. Execution!Needed({d} \cup Execution!DependenciesOf(n)) \subseteq Execution!DependenciesOf(n)
  <2>1. Execution!Needed({d} \cup Execution!DependenciesOf(n)) \subseteq Execution!Needed({n} \cup Execution!DependenciesOf(n))
    BY <1>2 DEF Execution!Needed
  <2> QED BY <2>1, ExecutionClosed
<1>4. Execution!DependenciesOf(n) \in SUBSET Execution!Ids
  BY DEF Execution!DependenciesOf
<1>5. Execution!DependenciesOf(d) \subseteq Execution!DependenciesOf(n)
  BY <1>3, <1>4, Zenon DEF Execution!DependenciesOf
<1> QED BY <1>2, <1>5

\* Of the nodes that are left, one depends on none of them: the one that depends on
\* the fewest.
LEMMA ExecutionSomeReady ==
  ASSUME Execution!WorkflowAssumption, nodes \in Flows, Execution!Valid,
         NEW S \in SUBSET Execution!Ids, S # Execution!Ids
  PROVE  \E n \in Execution!Ids \ S : Execution!NodeOf(n).deps \subseteq S
<1> DEFINE Left == Execution!Ids \ S
           Far(m) == Cardinality(Execution!DependenciesOf(m))
<1>1. \A m : IsFiniteSet(Execution!DependenciesOf(m)) /\ Far(m) \in Nat
  <2>1. \A m : Execution!DependenciesOf(m) \in SUBSET Execution!Ids
    BY DEF Execution!DependenciesOf
  <2> QED BY <2>1, ExecutionNodes, FS_Subset, FS_CardinalityType
<1>2. PICK n \in Left : \A o \in Left : Far(n) <= Far(o)
  <2> DEFINE Fars == {Far(o) : o \in Left}
  <2>1. Fars \in SUBSET Nat
    <3> HIDE DEF Far
    <3> QED BY <1>1
  <2>2. Fars # {}
    OBVIOUS
  <2>3. \E a \in Fars : \A b \in Fars : a <= b
    <3> HIDE DEF Fars
    <3> QED BY <2>1, <2>2, LeastNatural
  <2> HIDE DEF Far, Left
  <2> QED BY <2>3
<1>3. ASSUME NEW d \in Execution!NodeOf(n).deps, d \notin S PROVE FALSE
  <2>1. n \in Execution!Ids /\ d \in Execution!Ids /\ d \in Left
    BY <1>3, ExecutionValid
  <2>2. d \in Execution!DependenciesOf(n) /\ Execution!DependenciesOf(d) \subseteq Execution!DependenciesOf(n)
    BY <2>1, ExecutionTransitive
  <2>3. d \notin Execution!DependenciesOf(d)
    BY <2>1, ExecutionValid
  <2>4. Far(d) <= Far(n) /\ Far(n) # Far(d)
    BY <1>1, <2>2, <2>3, FS_Subset
  <2>5. Far(n) <= Far(d)
    BY <1>2, <2>1
  <2>6. Far(n) \in Nat /\ Far(d) \in Nat
    BY <1>1
  <2> HIDE DEF Far
  <2> QED BY <2>4, <2>5, <2>6
<1> QED BY <1>3

\* A finite set of naturals has an increasing enumeration.
LEMMA Enumeration ==
  ASSUME NEW S \in SUBSET Nat, IsFiniteSet(S)
  PROVE  \E s \in [1 .. Cardinality(S) -> S] : \A i, j \in 1 .. Cardinality(S) : i < j => s[i] < s[j]
<1> DEFINE Increasing(s, n) == \A i, j \in 1 .. n : i < j => s[i] < s[j]
           Enumerated(n) == \A U \in SUBSET Nat : IsFiniteSet(U) /\ Cardinality(U) = n
                                                  => \E s \in [1 .. n -> U] : Increasing(s, n)
           N == {n \in Nat : Enumerated(n)}
<1>1. 0 \in N
  <2>1. [i \in 1 .. 0 |-> 0] \in [1 .. 0 -> {}] /\ Increasing([i \in 1 .. 0 |-> 0], 0)
    OBVIOUS
  <2>2. \A U : IsFiniteSet(U) /\ Cardinality(U) = 0 => U = {}
    BY FS_EmptySet
  <2> QED BY <2>1, <2>2, Zenon
<1>2. ASSUME NEW n \in N PROVE n + 1 \in N
  <2> SUFFICES ASSUME NEW U \in SUBSET Nat, IsFiniteSet(U), Cardinality(U) = n + 1
               PROVE  \E s \in [1 .. n + 1 -> U] : Increasing(s, n + 1)
    OBVIOUS
  <2>1. n \in Nat
    OBVIOUS
  <2>2. U # {}
    <3>1. n + 1 # 0
      BY <2>1
    <3> QED BY <3>1, FS_EmptySet
  <2>3. PICK m \in U : \A x \in U : m <= x
    BY <2>2, LeastNatural
  <2>4. IsFiniteSet(U \ {m}) /\ Cardinality(U \ {m}) = n
    BY <2>1, FS_RemoveElement
  <2>5. PICK s \in [1 .. n -> U \ {m}] : Increasing(s, n)
    BY <2>4
  <2> DEFINE t == [i \in 1 .. n + 1 |-> IF i = 1 THEN m ELSE s[i - 1]]
  <2>6. \A i \in 1 .. n + 1 : i # 1 => i - 1 \in 1 .. n
    BY <2>1
  <2>7. t \in [1 .. n + 1 -> U]
    BY <2>6
  <2>8. ASSUME NEW i \in 1 .. n + 1, NEW j \in 1 .. n + 1, i < j PROVE t[i] < t[j]
    <3>1. j # 1 /\ j - 1 \in 1 .. n /\ t[j] = s[j - 1]
      BY <2>1, <2>8
    <3>2. s[j - 1] \in U \ {m} /\ s[j - 1] \in Nat /\ m \in Nat
      BY <3>1, Zenon
    <3>3. CASE i = 1
      <4>1. t[i] = m
        BY <3>3
      <4>2. m <= s[j - 1] /\ m # s[j - 1]
        BY <2>3, <3>2
      <4> HIDE DEF t
      <4> QED BY <3>1, <3>2, <4>1, <4>2
    <3>4. CASE i # 1
      <4>1. t[i] = s[i - 1] /\ i - 1 \in 1 .. n /\ i - 1 < j - 1
        BY <2>1, <2>8, <3>4
      <4> HIDE DEF t
      <4> QED BY <2>5, <3>1, <4>1
    <3> QED BY <3>3, <3>4
  <2> HIDE DEF t
  <2> QED BY <2>7, <2>8
<1>3. N = Nat
  <2>1. N \in SUBSET Nat
    OBVIOUS
  <2> HIDE DEF N
  <2> QED BY <1>1, <1>2, <2>1, SetInduction
<1>4. Cardinality(S) \in N
  BY <1>3, FS_CardinalityType
<1> QED BY <1>4

\* The names of a set, sorted: each of them once, the least first.
LEMMA ExecutionSorted ==
  ASSUME NEW S \in SUBSET Nat, IsFiniteSet(S)
  PROVE  /\ Execution!Sorted(S) \in Seq(S) /\ Len(Execution!Sorted(S)) = Cardinality(S)
         /\ Execution!Range(Execution!Sorted(S)) = S
         /\ \A i, j \in 1 .. Cardinality(S) : i < j => Execution!Sorted(S)[i] < Execution!Sorted(S)[j]
<1> DEFINE n == Cardinality(S)
           q == Execution!Sorted(S)
<1>1. n \in Nat /\ Execution!Cardinality(S) = n
  BY FS_CardinalityType, ExecutionCounts
<1>2. q \in [1 .. n -> S] /\ \A i, j \in 1 .. n : i < j => q[i] < q[j]
  <2>1. \E s \in [1 .. n -> S] : \A i, j \in 1 .. n : i < j => s[i] < s[j]
    BY Enumeration
  <2>2. q = CHOOSE s \in [1 .. n -> S] : \A i, j \in 1 .. n : i < j => s[i] < s[j]
    BY <1>1 DEF Execution!Sorted
  <2> HIDE DEF n, q
  <2> QED BY <2>1, <2>2, Zenon
<1> HIDE DEF n, q
<1>3. q \in Seq(S) /\ Len(q) = n /\ DOMAIN q = 1 .. n
  BY <1>1, <1>2
<1>4. q \in Injection(1 .. n, S)
  <2>1. ASSUME NEW i \in 1 .. n, NEW j \in 1 .. n, q[i] = q[j] PROVE i = j
    <3>1. q[i] \in Nat /\ q[j] \in Nat
      BY <1>2, Zenon
    <3>2. ~(i < j) /\ ~(j < i)
      BY <1>2, <2>1, <3>1
    <3> QED BY <1>1, <3>2
  <2> QED BY <1>2, <2>1 DEF Injection, IsInjective
<1>5. q \in Surjection(1 .. n, S)
  <2>1. Cardinality(1 .. n) = n
    BY <1>1, FS_Interval
  <2> QED BY <1>4, <2>1, FS_Injection DEF n
<1>6. Execution!Range(q) = S
  BY <1>2, <1>3, <1>5, Zenon DEF Surjection, Execution!Range
<1> QED BY <1>2, <1>3, <1>6 DEF n, q

\* The first of them is the least, and the rest are the others.
LEMMA ExecutionHead ==
  ASSUME NEW S \in SUBSET Nat, IsFiniteSet(S), Execution!Sorted(S) # <<>>
  PROVE  /\ Head(Execution!Sorted(S)) \in S
         /\ \A x \in S : Head(Execution!Sorted(S)) <= x
         /\ Execution!Range(Tail(Execution!Sorted(S))) = S \ {Head(Execution!Sorted(S))}
<1> DEFINE n == Cardinality(S)
           q == Execution!Sorted(S)
<1>1. n \in Nat /\ q \in Seq(S) /\ Len(q) = n /\ Execution!Range(q) = S
  BY ExecutionSorted, FS_CardinalityType
<1>2. \A i, j \in 1 .. n : i < j => q[i] < q[j]
  BY ExecutionSorted
<1> HIDE DEF n, q
<1>3. n # 0 /\ 1 \in 1 .. n /\ DOMAIN q = 1 .. n
  BY <1>1, Elements DEF q
<1>4. Head(q) = q[1] /\ Head(q) \in S
  BY <1>1, <1>3
<1>5. \A i \in 1 .. n : q[i] \in S /\ q[i] \in Nat
  <2>1. \A i \in 1 .. n : q[i] \in S
    BY <1>1, Elements
  <2> QED BY <2>1, Zenon
<1>6. ASSUME NEW x \in S PROVE \E i \in 1 .. n : x = q[i]
  BY <1>1, <1>3 DEF Execution!Range
<1>7. ASSUME NEW x \in S PROVE Head(q) <= x
  <2>1. PICK i \in 1 .. n : x = q[i]
    BY <1>6
  <2>2. CASE i = 1
    BY <1>4, <2>1, <2>2
  <2>3. CASE i # 1
    <3>1. 1 < i
      BY <2>3
    <3>2. q[1] < q[i]
      BY <1>2, <1>3, <3>1
    <3>3. q[1] \in Nat /\ q[i] \in Nat
      BY <1>3, <1>5
    <3> QED BY <1>4, <2>1, <3>2, <3>3
  <2> QED BY <2>2, <2>3
<1>8. DOMAIN Tail(q) = 1 .. n - 1 /\ \A i \in 1 .. n - 1 : Tail(q)[i] = q[i + 1]
  BY <1>1, <1>3
<1>9. ASSUME NEW x \in S, x # Head(q) PROVE x \in Execution!Range(Tail(q))
  <2>1. PICK i \in 1 .. n : x = q[i]
    BY <1>6
  <2>2. i # 1
    BY <1>4, <1>9, <2>1
  <2>3. i - 1 \in 1 .. n - 1 /\ (i - 1) + 1 = i
    BY <1>1, <2>2
  <2>4. Tail(q)[i - 1] = x
    BY <1>8, <2>1, <2>3, Zenon
  <2> QED BY <1>8, <2>3, <2>4, Zenon DEF Execution!Range
<1>10. ASSUME NEW x \in Execution!Range(Tail(q)) PROVE x \in S /\ x # Head(q)
  <2>1. PICK i \in 1 .. n - 1 : x = q[i + 1]
    BY <1>8, <1>10, Zenon DEF Execution!Range
  <2>2. i + 1 \in 1 .. n /\ 1 < i + 1
    BY <1>1, <2>1
  <2>3. x \in S
    BY <1>5, <2>1, <2>2
  <2>4. q[1] < q[i + 1]
    BY <1>2, <1>3, <2>2
  <2>5. q[1] \in Nat /\ q[i + 1] \in Nat
    BY <1>3, <1>5, <2>2
  <2>6. q[1] # q[i + 1]
    BY <2>4, <2>5
  <2> QED BY <1>4, <2>1, <2>3, <2>6
<1> QED BY <1>4, <1>7, <1>9, <1>10, Zenon DEF q

ExecutionIsLayering(f) ==
  f = [l \in 0 .. Len(nodes) |-> IF l = 0 THEN {} ELSE f[l - 1] \cup Execution!Ready(f[l - 1])]

\* The first layers, one by one.
LEMMA ExecutionLayers ==
  ASSUME Execution!WorkflowAssumption, nodes \in Flows
  PROVE  /\ Execution!FirstLayers(0) = {}
         /\ \A k \in 1 .. Len(nodes) :
              Execution!FirstLayers(k) = Execution!FirstLayers(k - 1) \cup Execution!Ready(Execution!FirstLayers(k - 1))
         /\ \A k \in 0 .. Len(nodes) : Execution!FirstLayers(k) \in SUBSET Execution!Ids
<1> DEFINE n == Len(nodes)
           A == SUBSET Execution!Ids
           step == [p \in A \X (1 .. n) |-> p[1] \cup Execution!Ready(p[1])]
<1>1. n \in Nat
  BY ExecutionNodes
<1>2. ASSUME NEW s \in A PROVE s \cup Execution!Ready(s) \in A
  BY DEF Execution!Ready
<1>3. step \in [A \X (1 .. n) -> A]
  <2> HIDE DEF A
  <2> QED BY <1>2
<1>4. PICK g : IsRecursive(g, A, n, {}, step)
  <2>1. {} \in A
    OBVIOUS
  <2> HIDE DEF step, n, A
  <2> QED BY <1>1, <1>3, <2>1, Recursion, Zenon
<1>5. ExecutionIsLayering(g)
  <2>1. ASSUME NEW k \in 0 .. n, k # 0 PROVE step[<<g[k - 1], k>>] = g[k - 1] \cup Execution!Ready(g[k - 1])
    <3>1. k - 1 \in 0 .. n /\ k \in 1 .. n
      BY <1>1, <2>1
    <3>2. g[k - 1] \in A
      BY <1>4, <3>1, Zenon DEF IsRecursive
    <3> HIDE DEF A
    <3> QED BY <3>1, <3>2
  <2> HIDE DEF step
  <2> QED BY <1>4, <2>1, Zenon DEF IsRecursive, ExecutionIsLayering
<1>6. PICK f : ExecutionIsLayering(f) /\ \A k : Execution!FirstLayers(k) = f[k]
  <2> DEFINE f == CHOOSE f : ExecutionIsLayering(f)
  <2>1. ExecutionIsLayering(f)
    BY <1>5
  <2>2. \A k : Execution!FirstLayers(k) = f[k]
    BY DEF Execution!FirstLayers, ExecutionIsLayering
  <2> HIDE DEF f
  <2> QED BY <2>1, <2>2
<1>7. f[0] = {}
  BY <1>1, <1>6 DEF ExecutionIsLayering
<1>8. \A k \in 1 .. n : f[k] = f[k - 1] \cup Execution!Ready(f[k - 1])
  <2> SUFFICES ASSUME NEW k \in 1 .. n PROVE f[k] = f[k - 1] \cup Execution!Ready(f[k - 1])
    OBVIOUS
  <2>1. k \in 0 .. n /\ k # 0
    BY <1>1
  <2> QED BY <1>6, <2>1, Zenon DEF ExecutionIsLayering
<1> DEFINE N == {k \in Nat : k <= n => f[k] \in A}
<1>9. 0 \in N
  BY <1>7
<1>10. ASSUME NEW k \in N PROVE k + 1 \in N
  <2> SUFFICES ASSUME k + 1 <= n PROVE f[k + 1] \in A
    OBVIOUS
  <2>1. k <= n /\ k + 1 \in 1 .. n /\ (k + 1) - 1 = k
    BY <1>1
  <2>2. f[k + 1] = f[k] \cup Execution!Ready(f[k])
    BY <1>8, <2>1
  <2> HIDE DEF A
  <2> QED BY <1>2, <2>1, <2>2
<1>11. N = Nat
  <2>1. N \in SUBSET Nat
    OBVIOUS
  <2> HIDE DEF N
  <2> QED BY <1>9, <1>10, <2>1, SetInduction
<1>12. \A k \in 0 .. n : f[k] \in A
  <2> SUFFICES ASSUME NEW k \in 0 .. n PROVE f[k] \in A
    OBVIOUS
  <2>1. k \in N /\ k <= n
    BY <1>1, <1>11
  <2> QED BY <2>1
<1> QED BY <1>6, <1>7, <1>8, <1>12

\* With a node, the first layers hold what it depends on.
LEMMA ExecutionLayersClosed ==
  ASSUME Execution!WorkflowAssumption, nodes \in Flows, NEW k \in 0 .. Len(nodes)
  PROVE  \A n \in Execution!FirstLayers(k) : Execution!NodeOf(n).deps \subseteq Execution!FirstLayers(k)
<1> DEFINE L(i) == Execution!FirstLayers(i)
           N == {i \in Nat : i <= Len(nodes) => \A n \in L(i) : Execution!NodeOf(n).deps \subseteq L(i)}
<1>1. Len(nodes) \in Nat
  BY ExecutionNodes
<1>2. 0 \in N
  BY ExecutionLayers
<1>3. ASSUME NEW i \in N PROVE i + 1 \in N
  <2> SUFFICES ASSUME i + 1 <= Len(nodes), NEW n \in L(i + 1) PROVE Execution!NodeOf(n).deps \subseteq L(i + 1)
    OBVIOUS
  <2>1. i <= Len(nodes) /\ i + 1 \in 1 .. Len(nodes) /\ (i + 1) - 1 = i
    BY <1>1
  <2>2. L(i + 1) = L(i) \cup Execution!Ready(L(i))
    BY <2>1, ExecutionLayers
  <2>3. \A m \in L(i) : Execution!NodeOf(m).deps \subseteq L(i)
    BY <2>1
  <2> HIDE DEF L
  <2> QED BY <2>2, <2>3 DEF Execution!Ready
<1>4. N = Nat
  <2>1. N \in SUBSET Nat
    OBVIOUS
  <2> HIDE DEF N
  <2> QED BY <1>2, <1>3, <2>1, SetInduction
<1>5. k \in N /\ k <= Len(nodes)
  BY <1>1, <1>4
<1> QED BY <1>5

\* While a node is left, every layer takes one.
LEMMA ExecutionLayersGrow ==
  ASSUME Execution!WorkflowAssumption, nodes \in Flows, Execution!Valid
  PROVE  Execution!FirstLayers(Len(nodes)) = Execution!Ids
<1> DEFINE L(i) == Execution!FirstLayers(i)
           Full(i) == L(i) = Execution!Ids \/ i <= Cardinality(L(i))
           N == {i \in Nat : i <= Len(nodes) => Full(i)}
<1>1. /\ Len(nodes) \in Nat /\ IsFiniteSet(Execution!Ids) /\ Cardinality(Execution!Ids) = Len(nodes)
      /\ \A i \in 0 .. Len(nodes) : IsFiniteSet(L(i)) /\ Cardinality(L(i)) \in Nat
  BY ExecutionNodes, ExecutionValid, ExecutionLayers, FS_Subset, FS_CardinalityType
<1>2. 0 \in N
  <2>1. L(0) = {}
    BY ExecutionLayers
  <2>2. 0 <= Cardinality({})
    BY FS_EmptySet
  <2> HIDE DEF L
  <2> QED BY <2>1, <2>2, Zenon
<1>3. ASSUME NEW i \in N PROVE i + 1 \in N
  <2> SUFFICES ASSUME i + 1 <= Len(nodes) PROVE Full(i + 1)
    OBVIOUS
  <2>1. i <= Len(nodes) /\ i + 1 \in 1 .. Len(nodes) /\ (i + 1) - 1 = i /\ i \in 0 .. Len(nodes) /\ i + 1 \in 0 .. Len(nodes)
    BY <1>1
  <2>2. L(i + 1) = L(i) \cup Execution!Ready(L(i))
    BY <2>1, ExecutionLayers
  <2>3. L(i) \in SUBSET Execution!Ids /\ L(i + 1) \in SUBSET Execution!Ids
    BY <2>1, ExecutionLayers
  <2>4. CASE L(i) = Execution!Ids
    BY <2>2, <2>3, <2>4, Zenon
  <2>5. CASE L(i) # Execution!Ids
    <3>1. PICK n \in Execution!Ids \ L(i) : Execution!NodeOf(n).deps \subseteq L(i)
      BY <2>3, <2>5, ExecutionSomeReady
    <3>2. L(i) \cup {n} \subseteq L(i + 1)
      BY <2>2, <3>1 DEF Execution!Ready
    <3> HIDE DEF L
    <3>3. Cardinality(L(i) \cup {n}) = Cardinality(L(i)) + 1
      BY <1>1, <2>1, <3>1, FS_AddElement, Zenon
    <3>4. Cardinality(L(i) \cup {n}) <= Cardinality(L(i + 1))
      BY <1>1, <2>1, <3>2, FS_Subset
    <3>5. i <= Cardinality(L(i))
      BY <2>1, <2>5
    <3>6. Cardinality(L(i)) \in Nat /\ Cardinality(L(i + 1)) \in Nat /\ i \in Nat
      BY <1>1, <2>1
    <3> QED BY <3>3, <3>4, <3>5, <3>6
  <2> QED BY <2>4, <2>5
<1>4. N = Nat
  <2>1. N \in SUBSET Nat
    OBVIOUS
  <2> HIDE DEF N
  <2> QED BY <1>2, <1>3, <2>1, SetInduction
<1>5. Full(Len(nodes))
  <2>1. Len(nodes) \in N /\ Len(nodes) <= Len(nodes)
    BY <1>1, <1>4
  <2> QED BY <2>1
<1>6. L(Len(nodes)) \in SUBSET Execution!Ids
  BY <1>1, ExecutionLayers
<1>7. CASE Len(nodes) <= Cardinality(L(Len(nodes)))
  <2>1. Cardinality(L(Len(nodes))) <= Cardinality(Execution!Ids) /\ Cardinality(L(Len(nodes))) \in Nat
    BY <1>1, <1>6, FS_Subset
  <2>2. Cardinality(L(Len(nodes))) = Cardinality(Execution!Ids)
    <3> HIDE DEF L
    <3> QED BY <1>1, <1>7, <2>1
  <2> QED BY <1>1, <1>6, <2>2, FS_Subset
<1> QED BY <1>5, <1>7

\* A node is in the first layer that comes after all it depends on.
LEMMA ExecutionParallel ==
  ASSUME Execution!WorkflowAssumption, nodes \in Flows, Execution!Valid PROVE Execution!LayersAreParallel
<1> SUFFICES ASSUME NEW k \in 1 .. Len(nodes), NEW n \in Execution!Layer(k)
             PROVE  /\ Execution!DependenciesOf(n) \subseteq Execution!FirstLayers(k - 1)
                    /\ k > 1 => Execution!NodeOf(n).deps \cap Execution!Layer(k - 1) # {}
  BY ExecutionLayersGrow DEF Execution!LayersAreParallel
<1> DEFINE L(i) == Execution!FirstLayers(i)
<1>1. Len(nodes) \in Nat /\ k - 1 \in 0 .. Len(nodes) /\ (k > 1 => k - 1 \in 1 .. Len(nodes) /\ (k - 1) - 1 \in 0 .. Len(nodes))
  BY ExecutionNodes
<1>2. n \in Execution!Ready(L(k - 1)) /\ n \notin L(k - 1)
  BY ExecutionLayers DEF Execution!Layer
<1>3. Execution!NodeOf(n).deps \subseteq L(k - 1) /\ n \in Execution!Ids
  BY <1>2 DEF Execution!Ready
<1>4. Execution!DependenciesOf(n) \subseteq L(k - 1)
  <2>1. L(k - 1) \in SUBSET Execution!Ids /\ \A m \in L(k - 1) : Execution!NodeOf(m).deps \subseteq L(k - 1)
    BY <1>1, ExecutionLayers, ExecutionLayersClosed
  <2> HIDE DEF L
  <2> QED BY <1>3, <2>1, ExecutionLeast
<1>5. ASSUME k > 1 PROVE Execution!NodeOf(n).deps \cap Execution!Layer(k - 1) # {}
  <2>1. L(k - 1) = L((k - 1) - 1) \cup Execution!Ready(L((k - 1) - 1))
    BY <1>1, <1>5, ExecutionLayers
  <2>2. n \notin Execution!Ready(L((k - 1) - 1))
    BY <1>2, <2>1
  <2>3. PICK d \in Execution!NodeOf(n).deps : d \notin L((k - 1) - 1)
    BY <1>3, <2>2 DEF Execution!Ready
  <2>4. d \in L(k - 1)
    BY <1>3
  <2> QED BY <2>3, <2>4 DEF Execution!Layer
<1> QED BY <1>4, <1>5

\* What is sorted so far: each node once, after what it depends on, and before any
\* other that could have come then.
ExecutionOrdered ==
  /\ order \in Seq(Execution!Ids)
  /\ \A i \in 1 .. Len(order) :
       /\ order[i] \notin Execution!Before(i) /\ Execution!NodeOf(order[i]).deps \subseteq Execution!Before(i)
       /\ \A n \in Execution!Ids \ Execution!Before(i) :
            Execution!NodeOf(n).deps \subseteq Execution!Before(i) => order[i] <= n

ExecutionSoFar == Execution!Before(Len(order) + 1)
ExecutionFree(S) == {n \in Execution!Ids \ S : Execution!NodeOf(n).deps \subseteq S}
ExecutionMissing(S) == [n \in Execution!Ids |-> Cardinality(Execution!NodeOf(n).deps \ S)]

\* What is queued is free to come next, what is counted is what is missing, and
\* the sorting ends with every node.
ExecutionQueued ==
  /\ queue = Execution!Sorted(ExecutionFree(ExecutionSoFar))
  /\ indegree = ExecutionMissing(ExecutionSoFar)
  /\ turn # "sort" => ExecutionSoFar = Execution!Ids

\* The steps are those of the order, and the last one only has failed.
ExecutionDone ==
  /\ stepped \in Seq([id : Execution!Ids, failed : BOOLEAN]) /\ Len(stepped) <= Len(order)
  /\ \A i \in 1 .. Len(stepped) : /\ stepped[i].id = order[i]
                                  /\ stepped[i].failed => i = Len(stepped) /\ turn = "reported"
  /\ turn = "sort" => stepped = <<>>
  /\ turn = "reported" => Len(stepped) = Len(order) \/ (Len(stepped) # 0 /\ stepped[Len(stepped)].failed)

ExecutionGoes ==
  /\ Execution!Valid /\ turn \in {"sort", "run", "reported", "raised"}
  /\ ExecutionOrdered /\ ExecutionQueued /\ ExecutionDone

ExecutionInv ==
  /\ nodes \in Flows
  /\ \/ turn \in {"validate", "raised"} /\ queue = <<>> /\ order = <<>> /\ stepped = <<>>
     \/ ExecutionGoes

\* The invariant holds at the start.
LEMMA ExecutionInitHolds == Execution!Init => ExecutionInv
BY DEF Execution!Init, ExecutionInv

\* The graph is the workflow's.
LEMMA ExecutionGraphStays ==
  ASSUME nodes' = nodes
  PROVE  /\ Execution!Ids' = Execution!Ids /\ Execution!Valid' = Execution!Valid
         /\ \A n : Execution!NodeOf(n)' = Execution!NodeOf(n)
         /\ \A n : Execution!DependenciesOf(n)' = Execution!DependenciesOf(n)
         /\ \A S : ExecutionFree(S)' = ExecutionFree(S)
         /\ \A S : ExecutionMissing(S)' = ExecutionMissing(S)
<1>1. Execution!Ids' = Execution!Ids /\ \A n : Execution!NodeOf(n)' = Execution!NodeOf(n)
  BY DEF Execution!Ids, Execution!NodeOf
<1>2. \A S : ExecutionFree(S)' = ExecutionFree(S)
  BY <1>1 DEF ExecutionFree
<1>3. \A S : ExecutionMissing(S)' = ExecutionMissing(S)
  BY <1>1 DEF ExecutionMissing
<1>4. \A n : Execution!DependenciesOf(n)' = Execution!DependenciesOf(n)
  BY <1>1 DEF Execution!DependenciesOf, Execution!Needed
<1>5. Execution!Valid' = Execution!Valid
  BY <1>1, <1>4 DEF Execution!Valid
<1> QED BY <1>1, <1>2, <1>3, <1>4, <1>5

\* What is free is a finite set of names.
LEMMA ExecutionFreeIs ==
  ASSUME Execution!WorkflowAssumption, nodes \in Flows, NEW S
  PROVE  ExecutionFree(S) \in SUBSET Nat /\ IsFiniteSet(ExecutionFree(S)) /\ ExecutionFree(S) \subseteq Execution!Ids
<1>1. ExecutionFree(S) \in SUBSET Execution!Ids
  BY DEF ExecutionFree
<1> QED BY <1>1, ExecutionNodes, FS_Subset

\* A workflow that is refused is never begun; one that is accepted has its roots
\* in the queue.
LEMMA ExecutionValidateKeeps ==
  ASSUME Execution!WorkflowAssumption, ExecutionInv, Execution!Validate PROVE ExecutionInv'
<1>1. nodes' = nodes /\ order' = order /\ stepped' = stepped /\ nodes \in Flows
      /\ queue = <<>> /\ order = <<>> /\ stepped = <<>>
  BY DEF Execution!Validate, ExecutionInv, ExecutionGoes
<1>2. CASE ~(Execution!Valid /\ nodes # <<>>)
  BY <1>1, <1>2 DEF Execution!Validate, ExecutionInv
<1>3. CASE Execution!Valid /\ nodes # <<>>
  <2>1. /\ turn' = "sort"
        /\ indegree' = [n \in Execution!Ids |-> Execution!Cardinality(Execution!NodeOf(n).deps)]
        /\ queue' = Execution!Sorted({n \in Execution!Ids : Execution!NodeOf(n).deps = {}})
    BY <1>3 DEF Execution!Validate
  <2>2. ExecutionSoFar' = {}
    <3>1. Len(order') = 0
      BY <1>1
    <3> QED BY <3>1 DEF ExecutionSoFar, Execution!Before
  <2>3. ExecutionFree({}) = {n \in Execution!Ids : Execution!NodeOf(n).deps = {}}
    BY DEF ExecutionFree
  <2>4. ExecutionMissing({}) = [n \in Execution!Ids |-> Execution!Cardinality(Execution!NodeOf(n).deps)]
    <3>1. \A S : S \ {} = S
      OBVIOUS
    <3> QED BY <3>1, ExecutionCounts DEF ExecutionMissing
  <2>5. ExecutionQueued'
    BY <1>1, <2>1, <2>2, <2>3, <2>4, ExecutionGraphStays, Zenon DEF ExecutionQueued
  <2>6. ExecutionOrdered'
    BY <1>1 DEF ExecutionOrdered
  <2>7. ExecutionDone'
    BY <1>1, <2>1 DEF ExecutionDone
  <2>8. Execution!Valid'
    BY <1>1, <1>3, ExecutionGraphStays
  <2> QED BY <1>1, <2>1, <2>5, <2>6, <2>7, <2>8 DEF ExecutionInv, ExecutionGoes
<1> QED BY <1>2, <1>3

\* A node that is queued comes after all it depends on, and the sorting goes on
\* with the others and what it was the last dependency of.
LEMMA ExecutionReleases ==
  ASSUME Execution!WorkflowAssumption, nodes \in Flows, Execution!Valid,
         NEW S \in SUBSET Execution!Ids, NEW x \in ExecutionFree(S),
         \A n \in S : Execution!NodeOf(n).deps \subseteq S
  PROVE  /\ ExecutionFree(S \cup {x}) =
              (ExecutionFree(S) \ {x}) \cup {n \in Execution!Dependents(x) : ExecutionMissing(S)[n] = 1}
         /\ ExecutionMissing(S \cup {x}) =
              [n \in Execution!Ids |-> IF n \in Execution!Dependents(x) THEN ExecutionMissing(S)[n] - 1
                                       ELSE ExecutionMissing(S)[n]]
<1> DEFINE D(n) == Execution!NodeOf(n).deps
           R == {n \in Execution!Dependents(x) : ExecutionMissing(S)[n] = 1}
<1>1. x \in Execution!Ids /\ x \notin S /\ D(x) \subseteq S
  BY DEF ExecutionFree
<1>2. \A n \in Execution!Ids : ExecutionMissing(S)[n] = Cardinality(D(n) \ S) /\ IsFiniteSet(D(n) \ S)
  <2>1. \A n \in Execution!Ids : D(n) \ S \in SUBSET Execution!Ids
    BY ExecutionValid
  <2> QED BY <2>1, ExecutionNodes, FS_Subset DEF ExecutionMissing
<1>3. \A n : n \in Execution!Dependents(x) <=> n \in Execution!Ids /\ x \in D(n)
  BY DEF Execution!Dependents
<1> HIDE DEF D
<1>4. ASSUME NEW n \in Execution!Ids, x \in D(n)
      PROVE  Cardinality(D(n) \ S) = 1 <=> D(n) \subseteq S \cup {x}
  <2>1. x \in D(n) \ S
    BY <1>1, <1>4
  <2>2. Cardinality(D(n) \ S) = 1 <=> \E y : D(n) \ S = {y}
    BY <1>2, FS_Singleton, Zenon
  <2>3. D(n) \ S = {x} <=> D(n) \subseteq S \cup {x}
    BY <2>1
  <2> QED BY <2>1, <2>2, <2>3
<1>5. ASSUME NEW n PROVE n \in ExecutionFree(S \cup {x}) <=> n \in (ExecutionFree(S) \ {x}) \cup R
  <2>1. n \in ExecutionFree(S \cup {x}) <=> n \in Execution!Ids /\ n \notin S /\ n # x /\ D(n) \subseteq S \cup {x}
    BY DEF ExecutionFree, D
  <2>2. n \in ExecutionFree(S) <=> n \in Execution!Ids /\ n \notin S /\ D(n) \subseteq S
    BY DEF ExecutionFree, D
  <2>3. n \in R <=> n \in Execution!Ids /\ x \in D(n) /\ D(n) \subseteq S \cup {x}
    <3>1. n \in R <=> n \in Execution!Dependents(x) /\ ExecutionMissing(S)[n] = 1
      OBVIOUS
    <3>2. n \in Execution!Ids => ExecutionMissing(S)[n] = Cardinality(D(n) \ S)
      BY <1>2
    <3>3. n \in Execution!Ids /\ x \in D(n) => (Cardinality(D(n) \ S) = 1 <=> D(n) \subseteq S \cup {x})
      BY <1>4
    <3> HIDE DEF R
    <3> QED BY <1>3, <3>1, <3>2, <3>3
  <2>4. n \in R => n \notin S /\ n # x
    <3>1. n \in S => D(n) \subseteq S
      BY DEF D
    <3> QED BY <1>1, <2>3, <3>1
  <2> QED BY <2>1, <2>2, <2>3, <2>4
<1>6. ASSUME NEW n \in Execution!Ids
      PROVE  Cardinality(D(n) \ (S \cup {x})) = IF n \in Execution!Dependents(x) THEN Cardinality(D(n) \ S) - 1
                                                ELSE Cardinality(D(n) \ S)
  <2>1. D(n) \ (S \cup {x}) = (D(n) \ S) \ {x}
    OBVIOUS
  <2>2. x \in D(n) \ S <=> n \in Execution!Dependents(x)
    BY <1>1, <1>3
  <2> QED BY <1>2, <2>1, <2>2, FS_RemoveElement
<1>7. ExecutionMissing(S \cup {x}) =
        [n \in Execution!Ids |-> IF n \in Execution!Dependents(x) THEN ExecutionMissing(S)[n] - 1 ELSE ExecutionMissing(S)[n]]
  BY <1>2, <1>6 DEF ExecutionMissing, D
<1> QED BY <1>5, <1>7, Zenon

\* What is sorted so far are nodes, each after what it depends on.
LEMMA ExecutionBefore ==
  ASSUME ExecutionOrdered
  PROVE  /\ Len(order) \in Nat /\ DOMAIN order = 1 .. Len(order) /\ \A i \in 1 .. Len(order) : order[i] \in Execution!Ids
         /\ Execution!Range(order) = ExecutionSoFar
         /\ \A i \in 1 .. Len(order) + 1 :
              /\ Execution!Before(i) \in SUBSET Execution!Ids
              /\ \A n \in Execution!Before(i) : Execution!NodeOf(n).deps \subseteq Execution!Before(i)
         /\ \A i \in 1 .. Len(order) : \A j \in 1 .. i : Execution!Before(j) \subseteq Execution!Before(i)
<1>1. Len(order) \in Nat /\ DOMAIN order = 1 .. Len(order) /\ \A i \in 1 .. Len(order) : order[i] \in Execution!Ids
  BY Elements DEF ExecutionOrdered
<1>2. Execution!Range(order) = ExecutionSoFar
  <2>1. (Len(order) + 1) - 1 = Len(order)
    BY <1>1
  <2> QED BY <1>1, <2>1 DEF Execution!Range, ExecutionSoFar, Execution!Before
<1>3. ASSUME NEW i \in 1 .. Len(order) + 1
      PROVE  /\ Execution!Before(i) \in SUBSET Execution!Ids
             /\ \A n \in Execution!Before(i) : Execution!NodeOf(n).deps \subseteq Execution!Before(i)
  <2>1. \A j \in 1 .. i - 1 : j \in 1 .. Len(order)
    BY <1>1
  <2>2. Execution!Before(i) \in SUBSET Execution!Ids
    BY <1>1, <2>1 DEF Execution!Before
  <2>3. ASSUME NEW n \in Execution!Before(i) PROVE Execution!NodeOf(n).deps \subseteq Execution!Before(i)
    <3>1. PICK j \in 1 .. i - 1 : n = order[j]
      BY DEF Execution!Before
    <3>2. Execution!NodeOf(n).deps \subseteq Execution!Before(j)
      BY <2>1, <3>1 DEF ExecutionOrdered
    <3>3. \A k \in 1 .. j - 1 : k \in 1 .. i - 1
      BY <1>1
    <3>4. Execution!Before(j) \subseteq Execution!Before(i)
      BY <3>3 DEF Execution!Before
    <3> QED BY <3>2, <3>4
  <2> QED BY <2>2, <2>3
<1>4. ASSUME NEW i \in 1 .. Len(order), NEW j \in 1 .. i PROVE Execution!Before(j) \subseteq Execution!Before(i)
  <2>1. \A k \in 1 .. j - 1 : k \in 1 .. i - 1
    BY <1>1
  <2> QED BY <2>1 DEF Execution!Before
<1> QED BY <1>1, <1>2, <1>3, <1>4

\* One more is sorted.
LEMMA ExecutionOneMore ==
  ASSUME NEW x, order \in Seq(Execution!Ids), order' = Append(order, x)
  PROVE  /\ Len(order') = Len(order) + 1 /\ \A i \in 1 .. Len(order) : order'[i] = order[i]
         /\ order'[Len(order) + 1] = x
         /\ \A i \in 1 .. Len(order) + 1 : Execution!Before(i)' = Execution!Before(i)
         /\ ExecutionSoFar' = ExecutionSoFar \cup {x}
<1>1. Len(order) \in Nat /\ Len(order') = Len(order) + 1 /\ \A i \in 1 .. Len(order) : order'[i] = order[i]
  OBVIOUS
<1>2. order'[Len(order) + 1] = x
  OBVIOUS
<1>3. ASSUME NEW i \in 1 .. Len(order) + 1 PROVE Execution!Before(i)' = Execution!Before(i)
  <2>1. \A j \in 1 .. i - 1 : j \in 1 .. Len(order)
    BY <1>1
  <2> QED BY <1>1, <2>1 DEF Execution!Before
<1>4. ExecutionSoFar' = ExecutionSoFar \cup {x}
  <2>1. (Len(order') + 1) - 1 = Len(order) + 1 /\ (Len(order) + 1) - 1 = Len(order)
    BY <1>1
  <2>2. ExecutionSoFar' = {order'[j] : j \in 1 .. Len(order) + 1} /\ ExecutionSoFar = {order[j] : j \in 1 .. Len(order)}
    BY <2>1 DEF ExecutionSoFar, Execution!Before
  <2>3. \A j : j \in 1 .. Len(order) + 1 <=> j \in 1 .. Len(order) \/ j = Len(order) + 1
    BY <1>1
  <2> QED BY <1>1, <1>2, <2>2, <2>3
<1> QED BY <1>1, <1>2, <1>3, <1>4

\* A turn of the sorting keeps the order and the queue right.
LEMMA ExecutionSortKeeps ==
  ASSUME Execution!WorkflowAssumption, ExecutionInv, Execution!SortNode PROVE ExecutionInv'
<1> DEFINE S == ExecutionSoFar
           x == Head(queue)
<1>1. /\ turn = "sort" /\ queue # <<>> /\ order' = Append(order, x)
      /\ queue' = Execution!Enqueued(Execution!Released(x))
      /\ indegree' = [n \in Execution!Ids |-> IF n \in Execution!Dependents(x) THEN indegree[n] - 1 ELSE indegree[n]]
      /\ nodes' = nodes /\ turn' = turn /\ stepped' = stepped
  BY DEF Execution!SortNode
<1>2. nodes \in Flows /\ Execution!Valid /\ ExecutionOrdered /\ ExecutionQueued /\ ExecutionDone
  BY <1>1 DEF ExecutionInv, ExecutionGoes
<1>3. S \in SUBSET Execution!Ids /\ \A n \in S : Execution!NodeOf(n).deps \subseteq S
  <2>1. Len(order) + 1 \in 1 .. Len(order) + 1
    BY <1>2, ExecutionBefore
  <2> QED BY <1>2, <2>1, ExecutionBefore DEF ExecutionSoFar
<1>4. /\ x \in ExecutionFree(S) /\ \A n \in ExecutionFree(S) : x <= n
      /\ Execution!Range(Tail(queue)) = ExecutionFree(S) \ {x}
  BY <1>1, <1>2, ExecutionFreeIs, ExecutionHead DEF ExecutionQueued
<1>5. indegree = ExecutionMissing(S)
  BY <1>2 DEF ExecutionQueued
<1>6. order \in Seq(Execution!Ids) /\ Len(order) \in Nat
  BY <1>2, ExecutionBefore DEF ExecutionOrdered
<1>7. ExecutionSoFar' = S \cup {x}
  BY <1>1, <1>6, ExecutionOneMore
<1> HIDE DEF S, x
<1>8. queue' = Execution!Sorted(ExecutionFree(S \cup {x}))
  <2>1. Execution!Released(x) = {n \in Execution!Dependents(x) : ExecutionMissing(S)[n] = 1}
    BY <1>5 DEF Execution!Released
  <2>2. ExecutionFree(S \cup {x}) = (ExecutionFree(S) \ {x}) \cup Execution!Released(x)
    BY <1>2, <1>3, <1>4, <2>1, ExecutionReleases, Zenon
  <2> QED BY <1>1, <1>4, <2>2, Zenon DEF Execution!Enqueued
<1>9. indegree' = ExecutionMissing(S \cup {x})
  BY <1>1, <1>2, <1>3, <1>4, <1>5, ExecutionReleases
<1>10. ExecutionQueued'
  BY <1>1, <1>7, <1>8, <1>9, ExecutionGraphStays, Zenon DEF ExecutionQueued
<1>11. x \in Execution!Ids /\ x \notin S /\ Execution!NodeOf(x).deps \subseteq S
  BY <1>4 DEF ExecutionFree
<1>12. ExecutionOrdered'
  <2>1. order' \in Seq(Execution!Ids)'
    BY <1>1, <1>6, <1>11, ExecutionGraphStays
  <2>2. ASSUME NEW i \in 1 .. Len(order')
        PROVE  /\ order'[i] \notin Execution!Before(i)' /\ Execution!NodeOf(order'[i]).deps \subseteq Execution!Before(i)'
               /\ \A n \in Execution!Ids \ Execution!Before(i)' :
                    Execution!NodeOf(n).deps \subseteq Execution!Before(i)' => order'[i] <= n
    <3>1. i \in 1 .. Len(order) + 1 /\ Execution!Before(i)' = Execution!Before(i)
      BY <1>1, <1>6, ExecutionOneMore
    <3>2. CASE i \in 1 .. Len(order)
      <4>1. order'[i] = order[i]
        BY <1>1, <1>6, <3>2, ExecutionOneMore
      <4> QED BY <1>2, <3>1, <3>2, <4>1 DEF ExecutionOrdered
    <3>3. CASE i = Len(order) + 1
      <4>1. order'[i] = x /\ Execution!Before(i) = S
        BY <1>1, <1>6, <3>3, ExecutionOneMore DEF S, ExecutionSoFar
      <4>2. ASSUME NEW n \in Execution!Ids \ S, Execution!NodeOf(n).deps \subseteq S PROVE x <= n
        BY <1>4, <4>2 DEF ExecutionFree
      <4> QED BY <1>11, <3>1, <4>1, <4>2
    <3>4. i \in 1 .. Len(order) \/ i = Len(order) + 1
      BY <1>6, <3>1
    <3> QED BY <3>2, <3>3, <3>4
  <2>3. Execution!Ids' = Execution!Ids /\ nodes' = nodes
    BY <1>1, ExecutionGraphStays
  <2> QED BY <2>1, <2>2, <2>3 DEF ExecutionOrdered, Execution!NodeOf
<1>13. ExecutionDone'
  <2>1. stepped = <<>> /\ Len(order') = Len(order) + 1
    BY <1>1, <1>2, <1>6 DEF ExecutionDone
  <2> QED BY <1>1, <1>6, <2>1 DEF ExecutionDone
<1>14. Execution!Valid'
  BY <1>1, <1>2, ExecutionGraphStays
<1> QED BY <1>1, <1>2, <1>10, <1>12, <1>13, <1>14 DEF ExecutionInv, ExecutionGoes

\* When nothing is queued any more, everything is sorted.
LEMMA ExecutionSortingKeeps ==
  ASSUME Execution!WorkflowAssumption, ExecutionInv, Execution!Sorting PROVE ExecutionInv'
<1>1. /\ turn = "sort" /\ queue = <<>> /\ turn' = "run"
      /\ nodes' = nodes /\ indegree' = indegree /\ queue' = queue /\ order' = order /\ stepped' = stepped
  BY DEF Execution!Sorting
<1>2. nodes \in Flows /\ Execution!Valid /\ ExecutionOrdered /\ ExecutionQueued /\ ExecutionDone
  BY <1>1 DEF ExecutionInv, ExecutionGoes
<1>3. ExecutionSoFar = Execution!Ids
  <2>1. ExecutionFree(ExecutionSoFar) = {}
    <3>1. Execution!Range(queue) = ExecutionFree(ExecutionSoFar)
      BY <1>2, ExecutionFreeIs, ExecutionSorted DEF ExecutionQueued
    <3>2. Execution!Range(<<>>) = {}
      BY DEF Execution!Range
    <3> QED BY <1>1, <3>1, <3>2
  <2>2. ExecutionSoFar \in SUBSET Execution!Ids
    <3>1. Len(order) + 1 \in 1 .. Len(order) + 1
      BY <1>2, ExecutionBefore
    <3> QED BY <1>2, <3>1, ExecutionBefore DEF ExecutionSoFar
  <2> QED BY <1>2, <2>1, <2>2, ExecutionSomeReady DEF ExecutionFree
<1>4. ExecutionSoFar' = ExecutionSoFar /\ \A i : Execution!Before(i)' = Execution!Before(i)
  BY <1>1 DEF ExecutionSoFar, Execution!Before
<1>5. ExecutionQueued'
  BY <1>1, <1>2, <1>3, <1>4, ExecutionGraphStays DEF ExecutionQueued
<1>6. ExecutionOrdered'
  BY <1>1, <1>2, <1>4, ExecutionGraphStays DEF ExecutionOrdered
<1>7. ExecutionDone'
  <2>1. stepped = <<>>
    BY <1>1, <1>2 DEF ExecutionDone
  <2>2. Len(order) \in Nat
    BY <1>2, ExecutionBefore
  <2> QED BY <1>1, <2>1, <2>2 DEF ExecutionDone
<1>8. Execution!Valid'
  BY <1>1, <1>2, ExecutionGraphStays
<1> QED BY <1>1, <1>2, <1>5, <1>6, <1>7, <1>8 DEF ExecutionInv, ExecutionGoes

\* A step that runs is the next of the order; the loop ends with a failure, or with
\* the last step.
LEMMA ExecutionRunKeeps ==
  ASSUME Execution!WorkflowAssumption, ExecutionInv,
         NEW ending \in {"COMPLETED", "FAILED", "raises"}, Execution!Step(ending)
  PROVE  ExecutionInv'
<1>1. /\ turn = "run" /\ Len(stepped) < Len(order)
      /\ nodes' = nodes /\ indegree' = indegree /\ queue' = queue /\ order' = order
  BY DEF Execution!Step
<1>2. nodes \in Flows /\ Execution!Valid /\ ExecutionOrdered /\ ExecutionQueued /\ ExecutionDone
  BY <1>1 DEF ExecutionInv, ExecutionGoes
<1>3. ExecutionSoFar' = ExecutionSoFar /\ \A i : Execution!Before(i)' = Execution!Before(i)
  BY <1>1 DEF ExecutionSoFar, Execution!Before
<1>4. turn' \in {"run", "reported", "raised"}
  BY <1>1 DEF Execution!Step
<1>5. ExecutionQueued'
  BY <1>1, <1>2, <1>3, <1>4, ExecutionGraphStays DEF ExecutionQueued
<1>6. ExecutionOrdered'
  BY <1>1, <1>2, <1>3, ExecutionGraphStays DEF ExecutionOrdered
<1>7. /\ Len(order) \in Nat /\ stepped \in Seq([id : Execution!Ids, failed : BOOLEAN])
      /\ Len(stepped) \in Nat /\ \A i \in 1 .. Len(order) : order[i] \in Execution!Ids
      /\ \A i \in 1 .. Len(stepped) : stepped[i].id = order[i] /\ ~stepped[i].failed
  BY <1>1, <1>2, ExecutionBefore, Elements DEF ExecutionDone
<1>8. Execution!Ids' = Execution!Ids
  BY <1>1, ExecutionGraphStays
<1>9. ExecutionDone'
  <2>1. CASE ending = "raises"
    <3>1. turn' = "raised" /\ stepped' = stepped
      BY <2>1 DEF Execution!Step
    <3> QED BY <1>1, <1>7, <1>8, <3>1 DEF ExecutionDone
  <2>2. CASE ending # "raises"
    <3> DEFINE l == Len(stepped)
               e == [id |-> order[l + 1], failed |-> ending = "FAILED"]
    <3>1. /\ stepped' = Append(stepped, e)
          /\ turn' = IF ending = "FAILED" \/ Len(stepped') = Len(order) THEN "reported" ELSE "run"
      BY <2>2 DEF Execution!Step
    <3>2. l + 1 \in 1 .. Len(order) /\ e \in [id : Execution!Ids, failed : BOOLEAN]
      BY <1>1, <1>7
    <3>3. /\ stepped' \in Seq([id : Execution!Ids, failed : BOOLEAN]) /\ Len(stepped') = l + 1
          /\ \A i \in 1 .. l : stepped'[i] = stepped[i]
          /\ stepped'[l + 1] = e
      <4> HIDE DEF e
      <4> QED BY <1>7, <3>1, <3>2
    <3>4. ASSUME NEW i \in 1 .. l + 1
          PROVE  stepped'[i].id = order[i] /\ (stepped'[i].failed => i = l + 1 /\ turn' = "reported")
      <4>1. CASE i = l + 1
        <5>1. stepped'[i] = e
          BY <3>3, <4>1
        <5>2. e.id = order[l + 1] /\ (e.failed => ending = "FAILED")
          BY Zenon
        <5> QED BY <3>1, <4>1, <5>1, <5>2
      <4>2. CASE i \in 1 .. l
        BY <1>7, <3>3, <4>2
      <4>3. i = l + 1 \/ i \in 1 .. l
        BY <1>7
      <4> QED BY <4>1, <4>2, <4>3
    <3>5. turn' = "reported" => Len(stepped') = Len(order) \/ (Len(stepped') # 0 /\ stepped'[Len(stepped')].failed)
      <4>1. ending = "FAILED" => e.failed
        BY Zenon
      <4>2. l + 1 # 0
        BY <1>7
      <4> HIDE DEF e, l
      <4> QED BY <3>1, <3>3, <4>1, <4>2
    <3>6. turn' # "sort" /\ Len(stepped') <= Len(order)
      BY <1>1, <1>4, <1>7, <3>3
    <3> HIDE DEF e, l
    <3> QED BY <1>1, <1>8, <3>3, <3>4, <3>5, <3>6 DEF ExecutionDone
  <2> QED BY <2>1, <2>2
<1>10. Execution!Valid'
  BY <1>1, <1>2, ExecutionGraphStays
<1> QED BY <1>1, <1>2, <1>4, <1>5, <1>6, <1>9, <1>10 DEF ExecutionInv, ExecutionGoes

\* Every step of the engines keeps the invariant.
LEMMA ExecutionStepHolds ==
  Execution!WorkflowAssumption /\ ExecutionInv /\ [Execution!Next]_(Execution!vars) => ExecutionInv'
<1> SUFFICES ASSUME Execution!WorkflowAssumption, ExecutionInv, [Execution!Next]_(Execution!vars) PROVE ExecutionInv'
  OBVIOUS
<1>1. CASE Execution!Validate
  BY <1>1, ExecutionValidateKeeps
<1>2. CASE Execution!SortNode
  BY <1>2, ExecutionSortKeeps
<1>3. CASE Execution!Sorting
  BY <1>3, ExecutionSortingKeeps
<1>4. CASE \E ending \in {"COMPLETED", "FAILED", "raises"} : Execution!Step(ending)
  BY <1>4, ExecutionRunKeeps
<1>5. CASE UNCHANGED Execution!vars
  <2>1. nodes' = nodes /\ turn' = turn /\ indegree' = indegree /\ queue' = queue /\ order' = order /\ stepped' = stepped
    BY <1>5 DEF Execution!vars
  <2>2. ExecutionSoFar' = ExecutionSoFar /\ \A i : Execution!Before(i)' = Execution!Before(i)
    BY <2>1 DEF ExecutionSoFar, Execution!Before
  <2>3. ExecutionQueued' = ExecutionQueued
    BY <2>1, <2>2, ExecutionGraphStays DEF ExecutionQueued
  <2>4. ExecutionOrdered' = ExecutionOrdered
    BY <2>1, <2>2, ExecutionGraphStays DEF ExecutionOrdered
  <2>5. ExecutionDone' = ExecutionDone
    BY <2>1, ExecutionGraphStays DEF ExecutionDone
  <2>6. Execution!Valid' = Execution!Valid
    BY <2>1, ExecutionGraphStays
  <2> QED BY <2>1, <2>3, <2>4, <2>5, <2>6 DEF ExecutionInv, ExecutionGoes
<1> QED BY <1>1, <1>2, <1>3, <1>4, <1>5 DEF Execution!Next

\* What is queued and what is sorted are different nodes; what is counted are numbers.
LEMMA ExecutionTypes == ASSUME Execution!WorkflowAssumption, ExecutionInv PROVE Execution!TypeOK
<1>1. nodes \in Seq(Execution!Nodes) /\ turn \in {"validate", "sort", "run", "reported", "raised"}
  BY DEF ExecutionInv, ExecutionGoes, Execution!WorkflowAssumption
<1>2. CASE turn \in {"validate", "raised"} /\ queue = <<>> /\ order = <<>> /\ stepped = <<>>
  <2>1. Execution!Range(<<>>) = {}
    BY DEF Execution!Range
  <2>2. Len(stepped) <= Len(order)
    BY <1>2
  <2> QED BY <1>1, <1>2, <2>1, <2>2 DEF Execution!TypeOK
<1>3. CASE ExecutionGoes
  <2>1. nodes \in Flows /\ Execution!Valid /\ ExecutionOrdered /\ ExecutionQueued /\ ExecutionDone
    BY <1>3 DEF ExecutionInv, ExecutionGoes
  <2>2. Execution!Range(order) = ExecutionSoFar /\ ExecutionSoFar \in SUBSET Execution!Ids
    <3>1. Len(order) + 1 \in 1 .. Len(order) + 1
      BY <2>1, ExecutionBefore
    <3> QED BY <2>1, <3>1, ExecutionBefore DEF ExecutionSoFar
  <2>3. Execution!Range(queue) = ExecutionFree(ExecutionSoFar)
    BY <2>1, ExecutionFreeIs, ExecutionSorted DEF ExecutionQueued
  <2>4. /\ Execution!Range(queue) \cap Execution!Range(order) = {}
        /\ Execution!Range(queue) \cup Execution!Range(order) \subseteq Execution!Ids
    BY <2>2, <2>3 DEF ExecutionFree
  <2>5. indegree \in [Execution!Ids -> Nat]
    <3>1. \A n \in Execution!Ids : Cardinality(Execution!NodeOf(n).deps \ ExecutionSoFar) \in Nat
      <4>1. \A n \in Execution!Ids : Execution!NodeOf(n).deps \ ExecutionSoFar \in SUBSET Execution!Ids
        BY <2>1, ExecutionValid
      <4> QED BY <2>1, <4>1, ExecutionNodes, FS_Subset, FS_CardinalityType
    <3> QED BY <2>1, <3>1 DEF ExecutionQueued, ExecutionMissing
  <2>6. Len(stepped) <= Len(order) /\ (turn = "sort" => stepped = <<>>) /\ turn # "validate"
    BY <1>3, <2>1 DEF ExecutionDone, ExecutionGoes
  <2> QED BY <1>1, <2>4, <2>5, <2>6 DEF Execution!TypeOK
<1> QED BY <1>2, <1>3 DEF ExecutionInv

\* Every node of an accepted workflow becomes a step, once.
LEMMA ExecutionAllInOrder == ASSUME Execution!WorkflowAssumption, ExecutionInv PROVE Execution!EveryNodeInOrder
<1> SUFFICES ASSUME turn \in {"run", "reported"} PROVE Execution!EveryNodeInOrder
  BY DEF Execution!EveryNodeInOrder
<1>1. nodes \in Flows /\ Execution!Valid /\ ExecutionOrdered /\ ExecutionQueued
  BY DEF ExecutionInv, ExecutionGoes
<1>2. /\ Len(order) \in Nat /\ DOMAIN order = 1 .. Len(order)
      /\ \A i \in 1 .. Len(order) : order[i] \in Execution!Ids /\ order[i] \notin Execution!Before(i)
      /\ \A i \in DOMAIN order : Execution!NodeOf(order[i]).deps \subseteq Execution!Before(i)
  BY <1>1, ExecutionBefore DEF ExecutionOrdered
<1>3. Execution!Range(order) = Execution!Ids
  BY <1>1, ExecutionBefore DEF ExecutionQueued
<1>4. order \in Injection(1 .. Len(order), Execution!Ids)
  <2>1. ASSUME NEW i \in 1 .. Len(order), NEW j \in 1 .. Len(order), i < j PROVE order[i] # order[j]
    <3>1. i \in 1 .. j - 1
      BY <2>1
    <3> QED BY <1>2, <3>1 DEF Execution!Before
  <2>2. \A i, j \in 1 .. Len(order) : order[i] = order[j] => i = j
    <3> SUFFICES ASSUME NEW i \in 1 .. Len(order), NEW j \in 1 .. Len(order), order[i] = order[j] PROVE i = j
      OBVIOUS
    <3>1. ~(i < j) /\ ~(j < i)
      BY <2>1
    <3> QED BY <3>1
  <2>3. order \in [1 .. Len(order) -> Execution!Ids]
    BY <1>1, <1>2 DEF ExecutionOrdered
  <2> QED BY <1>2, <2>2, <2>3 DEF Injection, IsInjective
<1>5. order \in Surjection(1 .. Len(order), Execution!Ids)
  BY <1>2, <1>3, <1>4 DEF Surjection, Injection, Execution!Range
<1>6. Len(order) = Len(nodes)
  <2>1. Cardinality(1 .. Len(order)) = Len(order)
    BY <1>2, FS_Interval
  <2>2. Cardinality(1 .. Len(order)) = Cardinality(Execution!Ids)
    BY <1>1, <1>4, <1>5, ExecutionNodes, FS_Injection
  <2> QED BY <1>1, <2>1, <2>2, ExecutionValid
<1> QED BY <1>2, <1>3, <1>6 DEF Execution!EveryNodeInOrder

\* Each is the first by name of those that could have come next.
LEMMA ExecutionFirst == ASSUME Execution!WorkflowAssumption, ExecutionInv PROVE Execution!FirstByName
<1>1. CASE order = <<>>
  BY <1>1 DEF Execution!FirstByName
<1>2. CASE order # <<>>
  <2>1. nodes \in Flows /\ ExecutionOrdered
    BY <1>2 DEF ExecutionInv, ExecutionGoes
  <2>2. Len(order) \in Nat /\ DOMAIN order = 1 .. Len(order) /\ \A i \in 1 .. Len(order) : order[i] \in Execution!Ids
    BY <2>1, ExecutionBefore
  <2>3. ASSUME NEW i \in DOMAIN order, NEW n \in Execution!Ids \ Execution!Before(i + 1),
               Execution!NodeOf(n).deps \subseteq Execution!Before(i)
        PROVE  order[i] < n
    <3>1. i \in 1 .. Len(order) /\ (i + 1) - 1 = i /\ i \in 1 .. i /\ \A j \in 1 .. i - 1 : j \in 1 .. i
      BY <2>2
    <3>2. n # order[i] /\ n \notin Execution!Before(i)
      BY <3>1 DEF Execution!Before
    <3>3. order[i] <= n
      BY <2>1, <2>3, <3>1, <3>2 DEF ExecutionOrdered
    <3>4. order[i] \in Nat /\ n \in Nat
      BY <2>1, <2>2, <3>1, ExecutionNodes
    <3> QED BY <3>2, <3>3, <3>4
  <2> QED BY <2>3 DEF Execution!FirstByName
<1> QED BY <1>1, <1>2

\* A step has run when all that its node depends on has succeeded.
LEMMA ExecutionStops == ASSUME Execution!WorkflowAssumption, ExecutionInv PROVE Execution!FailureStopsTheRest
<1>1. CASE stepped = <<>> /\ turn # "reported"
  BY <1>1 DEF Execution!FailureStopsTheRest
<1>2. CASE ~(stepped = <<>> /\ turn # "reported")
  <2>1. nodes \in Flows /\ Execution!Valid /\ ExecutionOrdered /\ ExecutionQueued /\ ExecutionDone
    BY <1>2 DEF ExecutionInv, ExecutionGoes
  <2> DEFINE l == Len(stepped)
  <2>2. stepped \in Seq([id : Execution!Ids, failed : BOOLEAN]) /\ l <= Len(order) /\ Len(order) \in Nat
    BY <2>1, ExecutionBefore DEF ExecutionDone
  <2>3. l \in Nat /\ DOMAIN stepped = 1 .. l /\ \A i \in 1 .. l : stepped[i] \in [id : Execution!Ids, failed : BOOLEAN]
    <3> HIDE DEF l
    <3> QED BY <2>2, Elements, Zenon DEF l
  <2>4. \A i \in 1 .. l : stepped[i].failed \in BOOLEAN /\ (stepped[i].failed => i = l)
    <3>1. \A i \in 1 .. l : stepped[i].failed \in BOOLEAN
      BY <2>3
    <3>2. \A i \in 1 .. l : stepped[i].failed => i = l
      BY <2>1 DEF ExecutionDone
    <3> QED BY <3>1, <3>2, Zenon
  <2>5. \A i \in 1 .. l : stepped[i].id = order[i]
    BY <2>1 DEF ExecutionDone
  <2> HIDE DEF l
  <2>6. \A i \in 1 .. l : i \in 1 .. Len(order) /\ i \in 1 .. Len(order) + 1
    BY <2>2, <2>3
  <2>7. ASSUME NEW i \in 1 .. l, NEW d \in Execution!DependenciesOf(stepped[i].id)
        PROVE  \E j \in 1 .. i - 1 : stepped[j].id = d /\ ~stepped[j].failed
    <3>1. i \in 1 .. Len(order) /\ i \in 1 .. Len(order) + 1 /\ stepped[i].id = order[i]
      BY <2>5, <2>6, Zenon
    <3>2. /\ Execution!Before(i) \in SUBSET Execution!Ids
          /\ \A n \in {order[i]} \cup Execution!Before(i) : Execution!NodeOf(n).deps \subseteq Execution!Before(i)
      BY <2>1, <3>1, ExecutionBefore DEF ExecutionOrdered
    <3>3. d \in Execution!Before(i)
      BY <3>1, <3>2, ExecutionLeast
    <3>4. PICK j \in 1 .. i - 1 : d = order[j]
      BY <3>3, Zenon DEF Execution!Before
    <3>5. j \in 1 .. l /\ j # l
      <4>1. l \in Nat
        BY <2>3, Zenon
      <4> QED BY <4>1
    <3>6. stepped[j].id = d /\ ~stepped[j].failed
      BY <2>4, <2>5, <3>4, <3>5, Zenon
    <3> QED BY <3>6, Zenon
  <2>8. ASSUME turn = "reported", Execution!Success PROVE {stepped[i].id : i \in 1 .. l} = Execution!Ids
    <3>1. l = Len(order)
      <4>1. l = Len(order) \/ (l # 0 /\ stepped[l].failed)
        BY <2>1, <2>8 DEF ExecutionDone, l
      <4>2. CASE l # 0
        <5>1. l \in Nat
          BY <2>3, Zenon
        <5>2. l \in 1 .. l
          BY <4>2, <5>1
        <5>3. ~stepped[l].failed
          BY <2>3, <2>8, <5>2, Zenon DEF Execution!Success
        <5> QED BY <4>1, <5>3, Zenon
      <4> QED BY <4>1, <4>2, Zenon
    <3>2. {stepped[i].id : i \in 1 .. l} = Execution!Range(order)
      <4>1. DOMAIN order = 1 .. l
        BY <2>1, <3>1, ExecutionBefore, Zenon
      <4> QED BY <2>5, <4>1, Zenon DEF Execution!Range
    <3>3. Execution!Range(order) = Execution!Ids
      BY <2>1, <2>8, ExecutionBefore DEF ExecutionQueued
    <3> QED BY <3>2, <3>3, Zenon
  <2>9. ASSUME turn = "reported", ~Execution!Success PROVE \A i \in 1 .. l : stepped[i].failed = (i = l)
    <3>1. PICK k \in 1 .. l : stepped[k].failed
      BY <2>3, <2>9, Zenon DEF Execution!Success
    <3>2. k = l
      BY <2>4, <3>1, Zenon
    <3>3. ASSUME NEW i \in 1 .. l PROVE stepped[i].failed = (i = l)
      <4>1. stepped[i].failed \in BOOLEAN /\ (stepped[i].failed => i = l) /\ (i = l => stepped[i].failed)
        BY <2>4, <3>1, <3>2, Zenon
      <4> QED BY <4>1
    <3> QED BY <3>3, Zenon
  <2> QED BY <2>3, <2>7, <2>8, <2>9, Zenon DEF Execution!FailureStopsTheRest, l
<1> QED BY <1>1, <1>2

\* The steps are ordered.
LEMMA ExecutionIsOrdered == ASSUME Execution!WorkflowAssumption, ExecutionInv PROVE Execution!StepsAreOrdered
<1>1. Execution!LayersAreParallel
  <2> SUFFICES ASSUME turn = "run" PROVE Execution!LayersAreParallel
    BY DEF Execution!LayersAreParallel
  <2>1. nodes \in Flows /\ Execution!Valid
    BY DEF ExecutionInv, ExecutionGoes
  <2> QED BY <2>1, ExecutionParallel
<1> QED BY <1>1, ExecutionTypes, ExecutionAllInOrder, ExecutionFirst, ExecutionStops DEF Execution!StepsAreOrdered

\* A step while a workflow is driven is one of its own.
LEMMA ExecutionMoves ==
  ASSUME Is("execution"), [Next]_vars PROVE [Execution!Next]_(Execution!vars) /\ Is("execution")'
<1>1. driven' = driven
  BY DEF Next, vars
<1>2. CASE Next
  BY <1>1, <1>2 DEF Next, Is
<1>3. CASE UNCHANGED vars
  BY <1>1, <1>3 DEF vars, ExecutionVars, Execution!vars, Is
<1> QED BY <1>2, <1>3

\* The invariant holds for as long as a workflow is driven.
LEMMA ExecutionHolds == Spec => [](Is("execution") => ExecutionInv)
<1>1. Init => (Is("execution") => ExecutionInv)
  BY FrameworksAssumption, ExecutionInitHolds DEF Init
<1>2. (Is("execution") => ExecutionInv) /\ [Next]_vars => (Is("execution") => ExecutionInv)'
  <2> SUFFICES ASSUME Is("execution") => ExecutionInv, [Next]_vars, Is("execution")' PROVE ExecutionInv'
    OBVIOUS
  <2>1. Is("execution")
    BY DEF Is, Next, vars
  <2>2. [Execution!Next]_(Execution!vars)
    BY <2>1, ExecutionMoves
  <2> QED BY <2>1, <2>2, FrameworksAssumption, ExecutionStepHolds
<1> QED BY <1>1, <1>2, PTL DEF Spec

-----------------------------------------------------------------------------
(* What the frameworks promise *)

\* Neither the memory file nor the log forgets more than what a kill cut off,
\* however many scripts overlap and are killed.
THEOREM MemoryIsNotLost == Spec => []MemoryIsKept
<1>1. (Is("memory") => MemoryInv) => MemoryIsKept
  BY FrameworksAssumption, MemoryKeeps DEF MemoryIsKept
<1> QED BY <1>1, MemoryHolds, PTL

\* A session is handed back with a verdict it has earned and a true story, its
\* retries within the bound, for all configurations, calls and resumptions.
THEOREM VerdictsHold == Spec => []VerdictsAreEarned
<1>1. (Is("controller") => ControllerInv) => VerdictsAreEarned
  BY ControllerEarns DEF VerdictsAreEarned
<1> QED BY <1>1, ControllerHolds, PTL

\* What is listed as changed is what was, for every workspace and patch set, but
\* for the one file in which it failed or was killed, and the last backup holds
\* what it is to bring back, so that only what was written over is lost.
THEOREM ChangesHold == Spec => []ChangesAreTold
<1>1. (Is("modification") => ModificationInv) => ChangesAreTold
  BY ModificationTells DEF ChangesAreTold
<1> QED BY <1>1, ModificationHolds, PTL

\* The goal loop takes no more iterations than its maximum and the failures
\* allowed, whatever the policies, and obeys each of them.
THEOREM LoopEnds == Spec => []LoopIsBounded
<1>1. (Is("autonomous") => AutonomousInv) => LoopIsBounded
  BY FrameworksAssumption, AutonomousEnds DEF LoopIsBounded
<1> QED BY <1>1, AutonomousHolds, PTL

\* A session's artifacts are those of its own life, and one that is completed
\* has come the whole way, through every restart.
THEOREM LivesStayApart == Spec => []LivesAreApart
<1>1. (Is("session") => SessionInv) => LivesAreApart
  BY SessionLivesApart DEF LivesAreApart
<1> QED BY <1>1, SessionHolds, PTL

\* Two arms of any experiment the launcher accepts read the same settings but for
\* the one under test, each as it is written unless it is a text that is let
\* through, and log apart unless a path makes a detour; and a run of the probe
\* that was alone is judged by its own two requests.
THEOREM ScriptsCompareFairly == Spec => []ScriptsAreFair
<1>1. (Is("launch") => LaunchInv) /\ (Is("probe") => ProbeInv) => ScriptsAreFair
  BY FrameworksAssumption, LaunchIsIsolated, ProbeJudges DEF ScriptsAreFair
<1> QED BY <1>1, LaunchHolds, ProbeHolds, PTL

\* Whatever is registered and in whatever order it is resolved, each name has one
\* instance, made of those of its dependencies; and whatever registries, handlers
\* and requests the platform gets, its validators agree and its log, results and
\* sessions tell the same.
THEOREM InstancesStayShared == Spec => []InstancesAreShared
<1>1. (Is("container") => ContainerInv) /\ (Is("platform") => PlatformInv) => InstancesAreShared
  BY ContainerShares DEF InstancesAreShared, PlatformInv, Platform!PlatformIsSound
<1> QED BY <1>1, ContainerHolds, PlatformHolds, PTL

\* Whatever symbols there are and whatever is said, a symbol that is named comes
\* before one as good that is not, and is kept unless a penalty meets it; and
\* whatever the graph of a workflow, its steps are all its nodes, each once, after
\* those it depends on, the first by name first, and nothing runs after a failure.
THEOREM OrderStaysKept == Spec => []OrderIsKept
<1>1. (Is("scoring") => ScoringInv) /\ (Is("execution") => ExecutionInv) => OrderIsKept
  BY FrameworksAssumption, ScoringSound, ExecutionIsOrdered DEF OrderIsKept
<1> QED BY <1>1, ScoringHolds, ExecutionHolds, PTL

\* No step undoes a catch-up, a restoration, the end of a session, for a name that
\* stays registered its instance or, for a symbol, what a word has earned it.
THEOREM NothingComesUndone == Spec => NothingIsUndone
<1> DEFINE A == /\ Is("memory") => Memory!CatchesUp
                /\ Is("modification") => Modification!Undoes
                /\ Is("session") => Session!StaysTerminal
                /\ Is("container") => Container!KeepsInstances
                /\ Is("scoring") => Scoring!WordsHelp
<1>1. ASSUME Is("memory") => MemoryInv, Is("modification") => ModificationInv, Is("session") => SessionInv,
             Is("container") => ContainerInv, Is("scoring") => ScoringInv,
             (Is("scoring") => ScoringInv)', [Next]_vars
      PROVE  [A]_vars
  <2>1. Is("memory") => Memory!CatchesUp
    BY <1>1, MemoryCatchesUp
  <2>2. Is("modification") => Modification!Undoes
    BY <1>1, ModificationLastRestores
  <2>3. Is("session") => Session!StaysTerminal \/ UNCHANGED SessionVars
    <3>1. SUFFICES ASSUME Is("session") PROVE Session!StaysTerminal \/ UNCHANGED SessionVars
      OBVIOUS
    <3>2. [Session!Next]_(Session!vars)
      BY <1>1, <3>1, SessionMoves
    <3> QED BY <1>1, <3>1, <3>2, FrameworksAssumption, SessionEndIsFinal DEF Session!vars, SessionVars
  <2>4. UNCHANGED SessionVars => Session!StaysTerminal
    BY DEF SessionVars, Session!StaysTerminal
  <2>5. Is("container") => Container!KeepsInstances
    BY <1>1, ContainerMoves, ContainerKeepsInstances, FrameworksAssumption
  <2>6. CASE UNCHANGED vars
    BY <2>6
  <2>7. CASE Next
    <3>1. Is("scoring") => Scoring!WordsHelp
      <4> SUFFICES ASSUME Is("scoring") PROVE Scoring!WordsHelp
        OBVIOUS
      <4>1. Scoring!Next /\ Is("scoring")'
        BY <2>7 DEF Next, Is
      <4> QED BY <1>1, <4>1, FrameworksAssumption, ScoringHelps
    <3> QED BY <2>1, <2>2, <2>3, <2>4, <2>5, <3>1
  <2> QED BY <1>1, <2>6, <2>7
<1> QED BY <1>1, MemoryHolds, ModificationHolds, SessionHolds, ContainerHolds, ScoringHolds, PTL
        DEF Spec, NothingIsUndone
=============================================================================
