--------------------------- MODULE ChatRequestProofs ---------------------------
(* Theorems about a chat completion: whatever each stage, the cap, the       *)
(* stream and the log do, and however many events the stream has.           *)
EXTENDS ChatRequest, FiniteSetTheorems, TLAPS

StageNames == {"model_resolution", "planning", "repository_context", "provider"}

\* What each stage may leave as data.
DataOf(s) ==
  IF s = "provider" THEN {"answer"}
  ELSE IF s = "repository_context" THEN Contexts \cup {None} ELSE {"resolved", "plan", None}

\* What a stage that succeeded or failed leaves behind.
Sound ==
  /\ DOMAIN results = Ran
  /\ \A s \in Ran :
       /\ ~results[s].success => results[s].data = None
       /\ results[s].success => results[s].data \in DataOf(s)

\* A stage that fails is the last to run.
OnlyTheLastFails == \A s \in Ran : ~results[s].success => s = Stages[next - 1]

\* Where the request is tells how far it came.
Progress ==
  /\ at \in {"stage", "cap"} => Success
  /\ at = "stage" => next <= 4
  /\ at = "cap" => next = 4
  /\ at = "respond" => next = 5 \/ ~Success

\* What the client has been told, and what the record says of it.
Told ==
  /\ at \in {"stage", "cap", "respond"} => status = 0 /\ surfaced = None
  /\ at = "stream" => status = 200
  /\ at = "log" => status # 0
  /\ at # "done" => records = <<>>
  /\ status = 200 => next = 5 /\ Success /\ body = "answer" /\ surfaced = ContextStatus
  /\ status # 200 => surfaced = None
  /\ records # <<>> => at = "done" /\ status # 0 /\ records = <<Record>>

IInv == TypeOK /\ Sound /\ OnlyTheLastFails /\ Progress /\ Told /\ BlameIsTheClients

LEMMA StagesFacts ==
  /\ Len(Stages) = 4
  /\ Stages[1] = "model_resolution" /\ Stages[2] = "planning"
  /\ Stages[3] = "repository_context" /\ Stages[4] = "provider"
BY DEF Stages

LEMMA OkIsResult ==
  ASSUME NEW s \in StageNames, NEW d \in DataOf(s)
  PROVE  Ok(d) \in Result /\ Ok(d).success /\ Ok(d).data = d
BY DEF Ok, Result, DataOf, Contexts, None, StageNames

LEMMA FailedIsResult ==
  ASSUME NEW e \in Exceptions PROVE Failed(e) \in Result /\ ~Failed(e).success /\ Failed(e).data = None
BY DEF Failed, Result

\* A stage leaves its data or an exception.
LEMMA OutcomeIsResult ==
  ASSUME NEW s \in StageNames, NEW streaming \in BOOLEAN, NEW r \in Outcomes(s, streaming)
  PROVE  /\ r \in Result
         /\ ~r.success => r.data = None
         /\ r.success => r.data \in DataOf(s)
<1>1. (\E d \in DataOf(s) : r = Ok(d)) \/ (\E e \in Exceptions : r = Failed(e))
  <2>1. CASE s = "model_resolution"
    BY <2>1 DEF Outcomes, DataOf, Exceptions
  <2>2. CASE s = "planning"
    BY <2>2 DEF Outcomes, DataOf
  <2>3. CASE s = "repository_context"
    BY <2>3 DEF Outcomes, DataOf
  <2>4. CASE s = "provider"
    BY <2>4 DEF Outcomes, DataOf, Exceptions
  <2> QED BY <2>1, <2>2, <2>3, <2>4 DEF StageNames
<1> QED BY <1>1, OkIsResult, FailedIsResult

\* A result recorded for the stage that runs next, or for the one that ran
\* last, keeps the results well formed.
LEMMA RecordKeeps ==
  ASSUME TypeOK, Sound, NEW s, NEW r \in Result, NEW n \in 1 .. 5,
         Ran \cup {s} = {Stages[i] : i \in 1 .. n - 1},
         RecordResult(s, r), next' = n, UNCHANGED <<stream, capped>>,
         ~r.success => r.data = None, r.success => r.data \in DataOf(s)
  PROVE  /\ Ran' = {Stages[i] : i \in 1 .. next' - 1}
         /\ \A t \in Ran' : results'[t] \in Result
         /\ Sound'
<1>1. Ran' = Ran \cup {s}
  BY DEF RecordResult, Ran
<1>2. \A t \in Ran' : results'[t] = IF t = s THEN r ELSE results[t]
  BY <1>1 DEF RecordResult
<1>3. \A t \in Ran' : results'[t] \in Result
  BY <1>1, <1>2 DEF TypeOK
<1>4. Sound'
  BY <1>1, <1>2 DEF Sound, Ran
<1> QED BY <1>1, <1>3, <1>4

\* The provider's answer is the last data there is.
LEMMA DataIsAnswer == ASSUME TypeOK, Sound, Success, next = 5 PROVE Data = "answer"
<1> DEFINE having == {i \in 1 .. 4 : /\ Stages[i] \in Ran
                                     /\ results[Stages[i]].success /\ results[Stages[i]].data # None}
<1>1. "provider" \in Ran /\ results["provider"].data = "answer" /\ results["provider"].success
  BY StagesFacts DEF TypeOK, Sound, Success, DataOf
<1>2. 4 \in having
  BY <1>1, StagesFacts DEF None
<1>3. (CHOOSE i \in having : \A j \in having : i >= j) = 4
  BY <1>2
<1>4. Data = results[Stages[CHOOSE i \in having : \A j \in having : i >= j]].data
  BY StagesFacts DEF Data
<1> QED BY <1>1, <1>3, <1>4, StagesFacts

\* An exception that is answered is one of a stage's.
LEMMA FirstExceptionIsAnothers ==
  ASSUME TypeOK PROVE FirstException = None \/ \E s \in Ran : results[s].exception = FirstException
<1> DEFINE failing == {i \in 1 .. 4 : Stages[i] \in Ran /\ ~results[Stages[i]].success
                                        /\ results[Stages[i]].exception # None}
<1>1. FirstException = IF failing = {} THEN None
                       ELSE results[Stages[CHOOSE i \in failing : \A j \in failing : i <= j]].exception
  BY StagesFacts DEF FirstException
<1>2. ASSUME failing # {} PROVE \E i \in failing : \A j \in failing : i <= j
  <2>0. failing \subseteq 1 .. 4
    OBVIOUS
  <2> HIDE DEF failing
  <2>1. CASE 1 \in failing
    BY <2>0, <2>1
  <2>2. CASE 1 \notin failing /\ 2 \in failing
    BY <2>0, <2>2
  <2>3. CASE 1 \notin failing /\ 2 \notin failing /\ 3 \in failing
    BY <2>0, <2>3
  <2>4. CASE 1 \notin failing /\ 2 \notin failing /\ 3 \notin failing
    <3>1. PICK i \in failing : TRUE
      BY <1>2
    <3> QED BY <2>0, <2>4, <3>1
  <2> QED BY <2>1, <2>2, <2>3, <2>4
<1>3. ASSUME failing # {} PROVE (CHOOSE i \in failing : \A j \in failing : i <= j) \in failing
  BY <1>2, <1>3
<1>4. CASE failing = {}
  BY <1>1, <1>4
<1>5. CASE failing # {}
  <2>1. PICK i \in failing : FirstException = results[Stages[i]].exception
    BY <1>1, <1>3, <1>5
  <2>2. Stages[i] \in Ran
    OBVIOUS
  <2> QED BY <2>1, <2>2
<1> QED BY <1>4, <1>5

LEMMA InitHolds == Init => IInv
<1> SUFFICES ASSUME Init PROVE IInv
  OBVIOUS
<1>1. Ran = {}
  BY DEF Init, Ran
<1>2. TypeOK
  BY <1>1, StagesFacts, ChatRequestAssumption DEF Init, TypeOK
<1> QED BY <1>1, <1>2 DEF Init, IInv, Sound, Ran, OnlyTheLastFails, Progress, Success, Told, BlameIsTheClients

\* What a step that records a result of stage s leaves of the invariant.
LEMMA RecordingHolds ==
  ASSUME IInv, NEW s \in StageNames, NEW r \in Result, NEW n \in 1 .. 5,
         at \in {"stage", "cap"}, Ran \cup {s} = {Stages[i] : i \in 1 .. n - 1}, s = Stages[n - 1],
         RecordResult(s, r), next' = n, UNCHANGED <<request, response, records>>,
         at' \in {"stage", "cap", "respond"},
         ~r.success => r.data = None /\ at' = "respond", r.success => r.data \in DataOf(s),
         at' = "stage" => n <= 4, at' = "cap" => n = 4, at' = "respond" => n = 5 \/ ~r.success
  PROVE  IInv'
<1> USE DEF IInv, request, response
<1>1. Ran' = Ran \cup {s} /\ \A t \in Ran' : results'[t] = IF t = s THEN r ELSE results[t]
  BY DEF RecordResult, Ran
<1>2. /\ Ran' = {Stages[i] : i \in 1 .. next' - 1}
      /\ \A t \in Ran' : results'[t] \in Result
      /\ Sound'
  BY RecordKeeps
<1>3. TypeOK'
  BY <1>2, StagesFacts DEF TypeOK
<1>4. Success
  BY DEF Progress
<1>5. OnlyTheLastFails'
  BY <1>1, <1>4 DEF OnlyTheLastFails, Success
<1>6. Success' = r.success
  BY ZenonT(30), <1>1, <1>4 DEF Success, Result
<1>7. Progress'
  BY <1>6 DEF Progress, Result
<1>8. Told' /\ BlameIsTheClients'
  <2>1. status = 0 /\ surfaced = None /\ records = <<>>
    BY DEF Told
  <2>2. status' = 0 /\ surfaced' = None /\ records' = <<>> /\ at' \notin {"stream", "log"}
    BY <2>1
  <2> QED BY <2>2 DEF Told, BlameIsTheClients
<1> QED BY <1>2, <1>3, <1>5, <1>7, <1>8

LEMMA StepHolds == ASSUME IInv, [Next]_vars PROVE IInv'
<1> USE DEF IInv
<1>0. \A i \in 1 .. 4 : Stages[i] \in StageNames
  BY StagesFacts DEF StageNames
<1>1. CASE StageReturns
  <2>1. next \in 1 .. 4 /\ at = "stage" /\ Stages[next] \in StageNames
    BY <1>0, <1>1, StagesFacts DEF StageReturns, Progress, TypeOK
  <2>2. PICK r \in Outcomes(Stages[next], stream) :
          RecordResult(Stages[next], r) /\ at' = IF r.success THEN After(Stages[next]) ELSE "respond"
    BY <1>1 DEF StageReturns
  <2>3. r \in Result /\ (~r.success => r.data = None) /\ (r.success => r.data \in DataOf(Stages[next]))
    BY <2>1, <2>2, OutcomeIsResult DEF TypeOK
  <2>4. Ran \cup {Stages[next]} = {Stages[i] : i \in 1 .. (next + 1) - 1}
    BY <2>1 DEF TypeOK
  <2>5. next' = next + 1 /\ next + 1 \in 1 .. 5 /\ UNCHANGED <<request, response, records>>
    BY <1>1, <2>1 DEF StageReturns
  <2>6. /\ After(Stages[next]) \in {"stage", "cap", "respond"}
        /\ After(Stages[next]) = "stage" => next + 1 <= 4
        /\ After(Stages[next]) = "cap" => next + 1 = 4
        /\ After(Stages[next]) = "respond" => next + 1 = 5
    BY <2>1, StagesFacts DEF After
  <2> QED BY <2>1, <2>2, <2>3, <2>4, <2>5, <2>6, RecordingHolds
<1>2. CASE StageRaises
  <2>1. next \in 1 .. 4 /\ at = "stage" /\ Stages[next] \in StageNames
    BY <1>0, <1>2, StagesFacts DEF StageRaises, Progress, TypeOK
  <2>2. Failed("other") \in Result /\ ~Failed("other").success /\ Failed("other").data = None
    BY FailedIsResult DEF Exceptions
  <2>3. Ran \cup {Stages[next]} = {Stages[i] : i \in 1 .. (next + 1) - 1}
    BY <2>1 DEF TypeOK
  <2>4. /\ RecordResult(Stages[next], Failed("other")) /\ at' = "respond"
        /\ next' = next + 1 /\ next + 1 \in 1 .. 5 /\ UNCHANGED <<request, response, records>>
    BY <1>2, <2>1 DEF StageRaises
  <2> QED BY <2>1, <2>2, <2>3, <2>4, RecordingHolds
<1>3. CASE Cap
  <2>1. /\ at = "cap" /\ at' = "stage" /\ next' = next /\ results' = results /\ stream' = stream
        /\ capped' = capped /\ status' = status /\ body' = body /\ events' = events
        /\ surfaced' = surfaced /\ records' = records
    BY <1>3 DEF Cap, pipeline, request, response
  <2> QED BY <2>1 DEF TypeOK, Ran, Sound, OnlyTheLastFails, Progress, Success, Told, BlameIsTheClients
<1>4. CASE CapRaises
  <2>1. /\ at = "cap" /\ next = 4 /\ at' = "respond" /\ next' = 4
        /\ RecordResult("repository_context", Failed("other")) /\ UNCHANGED <<request, response, records>>
    BY <1>4 DEF CapRaises, Progress
  <2>2. "repository_context" = Stages[4 - 1] /\ "repository_context" \in StageNames
    BY StagesFacts DEF StageNames
  <2>3. Ran \cup {"repository_context"} = {Stages[i] : i \in 1 .. 4 - 1}
    BY <2>1, <2>2 DEF TypeOK
  <2>4. Failed("other") \in Result /\ ~Failed("other").success /\ Failed("other").data = None
    BY FailedIsResult DEF Exceptions
  <2> QED BY <2>1, <2>2, <2>3, <2>4, RecordingHolds
<1>5. CASE RespondError
  <2>1. /\ at = "respond" /\ at' = "log" /\ ~Success /\ status' = StatusFor(FirstException)
        /\ body' = "error" /\ UNCHANGED <<next, results, stream, capped, events, surfaced, records>>
    BY <1>5 DEF RespondError, pipeline, request
  <2>2. status' \in {400, 404, 501, 502, 503}
    BY <2>1 DEF StatusFor
  <2>3. status' \in 400 .. 499 => FirstException \in {"unknown_model", "refused"}
    BY <2>1 DEF StatusFor
  <2>4. BlameIsTheClients'
    BY <2>1, <2>3, FirstExceptionIsAnothers DEF BlameIsTheClients, Ran, None
  <2>5. Told'
    BY <2>1, <2>2 DEF Told
  <2>6. TypeOK' /\ Sound' /\ OnlyTheLastFails' /\ Progress'
    BY <2>1, <2>2 DEF TypeOK, Ran, Sound, OnlyTheLastFails, Progress, Success
  <2> QED BY <2>4, <2>5, <2>6
<1>6. CASE RespondJSON \/ RespondStream
  <2>1. /\ at = "respond" /\ at' \in {"log", "stream"} /\ Success /\ status' = 200 /\ body' = Data
        /\ surfaced' = ContextStatus /\ UNCHANGED <<next, results, stream, capped, events, records>>
    BY <1>6 DEF RespondJSON, RespondStream, pipeline, request
  <2>2. next = 5 /\ Data = "answer"
    BY <2>1, DataIsAnswer DEF Progress
  <2>3. Success' /\ surfaced' = ContextStatus'
    BY <2>1 DEF Success, Ran, ContextStatus
  <2>4. Told'
    BY <2>1, <2>2, <2>3 DEF Told
  <2>5. TypeOK' /\ Sound' /\ OnlyTheLastFails' /\ Progress' /\ BlameIsTheClients'
    BY <2>1 DEF TypeOK, Ran, Sound, OnlyTheLastFails, Progress, BlameIsTheClients
  <2> QED BY <2>4, <2>5
<1>7. CASE StreamEvent \/ StreamEnds \/ StreamRaises \/ ClientLeaves
  <2>1. /\ at = "stream" /\ at' \in {"stream", "log", "done"} /\ events' \in 0 .. MaxEvents
        /\ UNCHANGED <<next, results, stream, capped, status, body, surfaced, records>>
    BY <1>7, ChatRequestAssumption
       DEF StreamEvent, StreamEnds, StreamRaises, ClientLeaves, pipeline, request, TypeOK
  <2>2. Success' = Success /\ ContextStatus' = ContextStatus
    BY <2>1 DEF Success, Ran, ContextStatus
  <2> QED BY <2>1, <2>2 DEF TypeOK, Ran, Sound, OnlyTheLastFails, Progress, Told, BlameIsTheClients
<1>8. CASE Log \/ LogFails
  <2>1. /\ at = "log" /\ at' = "done" /\ records = <<>> /\ records' \in {<<>>, <<Record>>}
        /\ UNCHANGED <<next, results, stream, capped, status, body, events, surfaced>>
    BY <1>8 DEF Log, LogFails, pipeline, request, response, Told
  <2>2. Success' = Success /\ ContextStatus' = ContextStatus /\ Record' = Record
    BY <2>1 DEF Success, Ran, ContextStatus, Record
  <2>3. Len(records') <= 1
    BY <2>1
  <2>4. TypeOK' /\ Sound' /\ OnlyTheLastFails' /\ Progress' /\ BlameIsTheClients'
    BY <2>1, <2>3 DEF TypeOK, Ran, Sound, OnlyTheLastFails, Progress, BlameIsTheClients
  <2>5. Told'
    BY <2>1, <2>2 DEF Told
  <2> QED BY <2>4, <2>5
<1>9. CASE UNCHANGED vars
  BY <1>9 DEF vars, TypeOK, Ran, Sound, OnlyTheLastFails, Progress, Success, Told, BlameIsTheClients,
              ContextStatus, Record
<1> QED BY <1>1, <1>2, <1>3, <1>4, <1>5, <1>6, <1>7, <1>8, <1>9 DEF Next

LEMMA Invariance == Spec => []IInv
BY InitHolds, StepHolds, PTL DEF Spec

-----------------------------------------------------------------------------
\* The state of a request is well formed, for every length of a stream.
THEOREM TypeCorrect == Spec => []TypeOK
<1>1. IInv => TypeOK
  BY DEF IInv
<1> QED BY <1>1, Invariance, PTL

\* At most one stage fails, and if the provider ran it is the one.
LEMMA OneFailure == IInv => ProviderAfterSuccess
<1> SUFFICES ASSUME IInv PROVE ProviderAfterSuccess
  OBVIOUS
<1> DEFINE failed == {s \in Ran : ~results[s].success}
<1>1. ASSUME "provider" \in Ran, NEW s \in Ran \ {"provider"} PROVE results[s].success
  <2>1. next = 5
    BY <1>1, StagesFacts DEF IInv, TypeOK
  <2> QED BY <1>1, <2>1, StagesFacts DEF IInv, OnlyTheLastFails
<1>2. failed \subseteq {Stages[next - 1]}
  BY DEF IInv, OnlyTheLastFails
<1>3. IsFiniteSet({Stages[next - 1]}) /\ Cardinality({Stages[next - 1]}) = 1
  BY FS_Singleton
<1>4. Cardinality(failed) <= 1
  BY <1>2, <1>3, FS_Subset, FS_CardinalityType
<1> QED BY <1>1, <1>4 DEF ProviderAfterSuccess

\* What the client is told is what happened: 200 is the provider's answer after
\* all stages, a 4xx is the client's own doing, and the provider is not called
\* after a failure.
THEOREM AnswersTrue == Spec => []AnswersAreTrue
<1>1. IInv => AnswersAreTrue
  BY OneFailure, StagesFacts DEF IInv, AnswersAreTrue, Told, SuccessIsTheAnswer, TypeOK
<1> QED BY <1>1, Invariance, PTL

\* A record says ok exactly when the client was told 200, and tells of the
\* context the request was answered with.
THEOREM RecordsAgree == Spec => []RecordAgrees
<1>1. ASSUME IInv, records # <<>> PROVE RecordAgrees
  <2>1. at = "done" /\ status # 0 /\ records = <<Record>> /\ records[1] = Record
    BY <1>1 DEF IInv, Told
  <2>2. Record.status = "ok" <=> status = 200
    BY <1>1, <2>1 DEF IInv, TypeOK, Record
  <2>3. CASE status = 200
    <3>1. Success /\ next = 5 /\ surfaced = ContextStatus
      BY <1>1, <2>3 DEF IInv, Told
    <3>2. "repository_context" \in Ran
      BY <1>1, <3>1, StagesFacts DEF IInv, TypeOK
    <3>3. results["repository_context"].success /\ results["repository_context"].data \in Contexts \cup {None}
      BY <1>1, <3>1, <3>2 DEF IInv, Sound, Success, DataOf
    <3>4. Record.context = "assembled" <=> results["repository_context"].data = "assembled"
      BY <3>1, <3>2, <3>3 DEF Record, ContextStatus, Contexts, None
    <3> QED BY <2>1, <2>2, <2>3, <3>4 DEF RecordAgrees
  <2>4. CASE status # 200
    <3>1. Record.context = "disabled"
      BY <1>1, <2>4 DEF IInv, Told, Record
    <3> QED BY <2>1, <2>2, <2>4, <3>1 DEF RecordAgrees
  <2> QED BY <2>3, <2>4
<1>2. IInv => RecordAgrees
  BY <1>1 DEF RecordAgrees
<1> QED BY <1>2, Invariance, PTL
=============================================================================
