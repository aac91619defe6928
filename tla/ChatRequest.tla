----------------------------- MODULE ChatRequest -----------------------------
(***************************************************************************)
(* One chat completion through the gateway: PipelineEngine.execute over    *)
(* the four live stages, PipelineResponse.from_context, the mapping to an  *)
(* HTTP status and the streaming wrapper of apps/gateway/api/chat.py, and  *)
(* the record SessionLoggerMiddleware writes.                              *)
(*                                                                         *)
(* before, execute and after of a stage are one step: no live after hook   *)
(* replaces a result, and a short circuit of before is a result like any   *)
(* other.  Payloads are abstracted to the stage that produced them.        *)
(***************************************************************************)
EXTENDS Integers, Sequences, FiniteSets

CONSTANT MaxEvents   \* bound on the events of a stream

ASSUME ChatRequestAssumption == MaxEvents \in Nat

Stages == <<"model_resolution", "planning", "repository_context", "provider">>

None == "none"

\* the exceptions _status_for_exception tells apart; refused and broken are
\* ProviderResponseError with a 4xx and a 5xx status
Exceptions ==
    {"unknown_model", "unknown_provider", "auth", "connection", "refused",
     "broken", "other"}

\* contexts are the payloads of the repository_context stage
Contexts == {"assembled", "empty", "switched_off"}

Result == [success : BOOLEAN, data : Contexts \cup {"resolved", "plan", "answer", None},
           exception : Exceptions \cup {None}]

Ok(d)     == [success |-> TRUE, data |-> d, exception |-> None]
Failed(e) == [success |-> FALSE, data |-> None, exception |-> e]

\* what a live stage returns; planning and context assembly answer their own
\* exceptions with a success that has no data, and a provider that streams
\* returns before it connects
Outcomes(s, streaming) ==
    CASE s = "model_resolution" ->
            {Ok("resolved")} \cup {Failed(e) : e \in {"unknown_model", "unknown_provider", "other"}}
      [] s = "planning" -> {Ok("plan"), Ok(None)}
      [] s = "repository_context" -> {Ok(c) : c \in Contexts} \cup {Ok(None)}
      [] s = "provider" ->
            {Ok("answer"), Failed("other")} \cup
                {Failed(e) : e \in IF streaming THEN {}
                                   ELSE {"auth", "connection", "refused", "broken"}}

VARIABLES
    stream,     \* the request asks for a stream
    capped,     \* history_cap_enabled
    at,         \* what happens next
    next,       \* index of the stage that runs next
    results,    \* stage results of the pipeline context
    status,     \* HTTP status sent, 0 before
    body,       \* which payload the client was sent
    events,     \* events of the stream passed on
    surfaced,   \* session_context_status on the scope, None if never written
    records     \* session log

vars == <<stream, capped, at, next, results, status, body, events,
          surfaced, records>>

pipeline == <<next, results>>
response == <<status, body, events, surfaced>>
request  == <<stream, capped>>

-----------------------------------------------------------------------------
Ran == DOMAIN results

\* PipelineResponse.from_context: all stages must have succeeded
Success == \A s \in Ran : results[s].success

\* from_context takes the data of the first stage that has any
FirstData ==
    LET having == {i \in 1..Len(Stages) : Stages[i] \in Ran /\ results[Stages[i]].data # None}
    IN  results[Stages[CHOOSE i \in having : \A j \in having : i <= j]].data

\* the data of the last successful stage that produced some
Data ==
    LET having == {i \in 1..Len(Stages) :
                    /\ Stages[i] \in Ran
                    /\ results[Stages[i]].success /\ results[Stages[i]].data # None}
    IN  results[Stages[CHOOSE i \in having : \A j \in having : i >= j]].data

\* the first failing stage's exception
FirstException ==
    LET failing == {i \in 1..Len(Stages) :
                    Stages[i] \in Ran /\ ~results[Stages[i]].success /\ results[Stages[i]].exception # None}
    IN  IF failing = {} THEN None
        ELSE results[Stages[CHOOSE i \in failing : \A j \in failing : i <= j]].exception

\* an upstream failure keeps the status it came with
StatusForAny(e) ==
    CASE e = "unknown_provider" -> 501
      [] e = "unknown_model" -> 404
      [] e = "auth" -> 401
      [] e = "connection" -> 503
      [] e = "refused" -> 400
      [] OTHER -> 502

\* _status_for_exception
StatusFor(e) ==
    CASE e = "unknown_provider" -> 501
      [] e = "unknown_model" -> 404
      [] e = "connection" -> 503
      [] e = "refused" -> 400
      [] OTHER -> 502

\* _surface_session_metadata, the context part
ContextStatus ==
    IF "repository_context" \notin Ran \/ results["repository_context"].data = None
       \/ results["repository_context"].data = "switched_off"
    THEN IF "repository_context" \in Ran /\ ~results["repository_context"].success
         THEN "degraded" ELSE "disabled"
    ELSE results["repository_context"].data

-----------------------------------------------------------------------------
Init ==
    /\ stream \in BOOLEAN
    /\ capped \in BOOLEAN
    /\ at = "stage"
    /\ next = 1
    /\ results = << >>
    /\ status = 0
    /\ body = None
    /\ events = 0
    /\ surfaced = None
    /\ records = << >>

RecordResult(s, r) == results' = [t \in Ran \cup {s} |-> IF t = s THEN r ELSE results[t]]

\* where the engine goes from a stage that returned
After(s) ==
    IF s = "repository_context" /\ capped THEN "cap"
    ELSE IF next = Len(Stages) THEN "respond" ELSE "stage"

\* a failed result does not halt the pipeline
StageReturnsOn ==
    /\ at = "stage"
    /\ \E r \in Outcomes(Stages[next], stream) :
        /\ RecordResult(Stages[next], r)
        /\ at' = After(Stages[next])
    /\ next' = next + 1
    /\ UNCHANGED <<request, response, records>>

StageReturns ==
    /\ at = "stage"
    /\ \E r \in Outcomes(Stages[next], stream) :
        /\ RecordResult(Stages[next], r)
        /\ at' = IF r.success THEN After(Stages[next]) ELSE "respond"
    /\ next' = next + 1
    /\ UNCHANGED <<request, response, records>>

\* an exception that escapes a stage is recorded and halts the pipeline
StageRaises ==
    /\ at = "stage"
    /\ RecordResult(Stages[next], Failed("other"))
    /\ at' = "respond"
    /\ next' = next + 1
    /\ UNCHANGED <<request, response, records>>

Cap ==
    /\ at = "cap"
    /\ at' = "stage"
    /\ UNCHANGED <<pipeline, request, response, records>>

\* the exception of a failed cap is swallowed and the pipeline goes on
CapRaisesOn ==
    /\ at = "cap"
    /\ RecordResult("repository_context", Failed("other"))
    /\ at' = "stage"
    /\ UNCHANGED <<next, request, response, records>>

\* a message whose fields are not text makes the cap raise: the stage's success
\* is overwritten
CapRaises ==
    /\ at = "cap"
    /\ RecordResult("repository_context", Failed("other"))
    /\ at' = "respond"
    /\ UNCHANGED <<next, request, response, records>>

\* an exception the mapping does not list is not answered
RespondListed ==
    /\ at = "respond" /\ ~Success /\ FirstException # "other"
    /\ status' = StatusFor(FirstException)
    /\ body' = "error"
    /\ at' = "log"
    /\ UNCHANGED <<pipeline, request, events, surfaced, records>>

RespondError ==
    /\ at = "respond" /\ ~Success
    /\ status' = StatusFor(FirstException)
    /\ body' = "error"
    /\ at' = "log"
    /\ UNCHANGED <<pipeline, request, events, surfaced, records>>

RespondJSON ==
    /\ at = "respond" /\ Success /\ ~stream
    /\ surfaced' = ContextStatus
    /\ status' = 200
    /\ body' = Data
    /\ at' = "log"
    /\ UNCHANGED <<pipeline, request, events, records>>

RespondStream ==
    /\ at = "respond" /\ Success /\ stream
    /\ surfaced' = ContextStatus
    /\ status' = 200
    /\ body' = Data
    /\ at' = "stream"
    /\ UNCHANGED <<pipeline, request, events, records>>

StreamEvent ==
    /\ at = "stream"
    /\ events < MaxEvents
    /\ events' = events + 1
    /\ UNCHANGED <<pipeline, request, at, status, body, surfaced, records>>

StreamEnds ==
    /\ at = "stream"
    /\ at' = "log"
    /\ UNCHANGED <<pipeline, request, status, body, events, surfaced, records>>

\* the generator raises: the wrapper re-raises, and the middleware drops the
\* record with the exception
StreamRaises ==
    /\ at = "stream"
    /\ at' = "done"
    /\ UNCHANGED <<pipeline, request, status, body, events, surfaced, records>>

\* the client goes away: the server stops the response, which ends normally
\* for the middleware
ClientLeaves ==
    /\ at = "stream"
    /\ at' = "log"
    /\ UNCHANGED <<pipeline, request, status, body, events, surfaced, records>>

\* only a failure of the gateway is an error
RecordServerErrors ==
    [status |-> IF status < 500 THEN "ok" ELSE "error",
     context |-> IF surfaced = None THEN "disabled" ELSE surfaced]

\* _build_record
Record ==
    [status |-> IF status < 400 THEN "ok" ELSE "error",
     context |-> IF surfaced = None THEN "disabled" ELSE surfaced]

Log ==
    /\ at = "log"
    /\ records' = Append(records, Record)
    /\ at' = "done"
    /\ UNCHANGED <<pipeline, request, response>>

LogFails ==
    /\ at = "log"
    /\ at' = "done"
    /\ UNCHANGED <<pipeline, request, response, records>>

Next ==
    \/ StageReturns \/ StageRaises \/ Cap \/ CapRaises
    \/ RespondError \/ RespondJSON \/ RespondStream
    \/ StreamEvent \/ StreamEnds \/ StreamRaises \/ ClientLeaves
    \/ Log \/ LogFails

\* the engine and the middleware run on; the backend answers, fails or times out
Fairness == WF_vars(Next)

Spec == Init /\ [][Next]_vars /\ Fairness

-----------------------------------------------------------------------------
TypeOK ==
    /\ stream \in BOOLEAN /\ capped \in BOOLEAN
    /\ at \in {"stage", "cap", "respond", "stream", "log", "done"}
    /\ next \in 1..(Len(Stages) + 1)
    /\ Ran = {Stages[i] : i \in 1..(next - 1)}
    /\ \A s \in Ran : results[s] \in Result
    /\ status \in {0, 200, 400, 404, 501, 502, 503}
    /\ events \in 0..MaxEvents
    /\ Len(records) <= 1

\* The provider is called only for a request every earlier stage of which, the
\* history cap included, succeeded; at most one stage ever fails.
ProviderAfterSuccess ==
    /\ "provider" \in Ran => \A s \in Ran \ {"provider"} : results[s].success
    /\ Cardinality({s \in Ran : ~results[s].success}) <= 1

\* A client that is told 200 is sent the provider's answer, never the plan or
\* the context of an earlier stage, and only after all stages ran.
SuccessIsTheAnswer ==
    status = 200 => body = "answer" /\ Ran = {Stages[i] : i \in 1..Len(Stages)}

\* A client is blamed (4xx) only for what it asked: an unknown model or what
\* the backend refused with a 4xx; a bad API key of the gateway is not its fault.
BlameIsTheClients ==
    status \in 400..499 =>
        \E s \in Ran : results[s].exception \in {"unknown_model", "refused"}

\* A record says ok exactly when the client was told 200, and states the context
\* the request was answered with; only a request that was answered has one.
RecordAgrees ==
    records # << >> =>
        /\ at = "done" /\ status # 0
        /\ records[1].status = "ok" <=> status = 200
        /\ records[1].context = "assembled" <=>
            status = 200 /\ results["repository_context"].data = "assembled"

\* Every request comes to an end, whatever stage, cap, stream or log fails.
EveryRequestEnds == <>(at = "done")

\* "status - disabled, assembled, no_new_symbols, empty, degraded": a request
\* whose repository-context stage failed is recorded as degraded.
DegradedIsRecorded ==
    records # << >> /\ "repository_context" \in Ran /\ ~results["repository_context"].success
        => records[1].context = "degraded"

\* What the client is told is what happened to its request.
AnswersAreTrue == ProviderAfterSuccess /\ SuccessIsTheAnswer /\ BlameIsTheClients
=============================================================================
