----------------------- MODULE EngineeringController -----------------------
(***************************************************************************)
(* The control loop of EngineeringControllerV2                              *)
(* (packages/controller/controller_v2.py, decision.py, retry_policy.py,     *)
(* models_v2.py): select a workflow, execute, verify, evaluate, decide -    *)
(* until a verdict, with retries, exceptions of any engine, and sessions    *)
(* that are handed back and resumed.                                        *)
(*                                                                          *)
(* Abstractions: a report is what the decision reads of it; an evaluation   *)
(* score is the band it falls into; a history entry is its kind, or the     *)
(* decision it records.                                                     *)
(***************************************************************************)
EXTENDS Integers, Sequences, FiniteSets

CONSTANTS
  Configs,    \* the [retries, iterations] of the configurations in use
  NoConfig,   \* a request without a configuration of its own
  OwnConfig,  \* the controller's configuration
  DefaultConfig,  \* ControllerConfig()
  MaxCalls    \* bound: how often the session is executed or resumed

ConfigAssumption ==
  /\ Configs \subseteq [retries : Nat, iterations : Nat]
  /\ {OwnConfig, DefaultConfig} \subseteq Configs
  /\ NoConfig \notin Configs
  /\ MaxCalls \in Nat

Decisions == {"COMPLETE", "RETRY", "REQUEST_REVIEW", "FAIL"}
Statuses == {"ACTIVE", "COMPLETED", "REVIEW_REQUIRED", "FAILED"}

Bands == {"complete", "review", "low"}  \* by the two thresholds
Reports == [execution : {"ok", "failed"}, verification : {"passed", "failed"},
            evaluation : Bands \cup {"none"}]
NoReports == [execution |-> "ok", verification |-> "passed", evaluation |-> "none"]

VARIABLES
  memory,   \* whether an EngineeringMemory was injected
  at,       \* where the controller is
  request,  \* the configuration of the request
  initial,  \* the session the call began with
  session,  \* the session as the loop has rebuilt it
  retry,    \* the loop's own retry_count
  reports,  \* what the engines have said in this iteration
  result,   \* the last EngineeringResultV2
  stored,   \* the decisions of the sessions stored in memory
  calls

vars == <<memory, at, request, initial, session, retry, reports, result, stored, calls>>

Fresh(config) == [status |-> "ACTIVE", iteration |-> 0, limit |-> config.iterations,
                  retries |-> 0, history |-> <<>>]
Result(decision, status, s) == [decision |-> decision, status |-> status, session |-> s]

Init ==
  /\ memory \in BOOLEAN
  /\ at = "idle"
  /\ request = NoConfig
  /\ initial = Fresh(DefaultConfig)
  /\ session = initial
  /\ retry = 0
  /\ reports = NoReports
  /\ result = Result("RETRY", "ACTIVE", initial)
  /\ stored = {}
  /\ calls = 0

Default(config, otherwise) == IF config = NoConfig THEN otherwise ELSE config

\* The loop's config is the request's or the controller's.
Config == Default(request, OwnConfig)

-----------------------------------------------------------------------------
(* Calls *)

Begin(config, s) ==
  /\ at = "idle" /\ calls < MaxCalls
  /\ at' = "looping"
  /\ request' = config
  /\ initial' = s
  /\ session' = s
  /\ retry' = s.retries
  /\ reports' = NoReports
  /\ calls' = calls + 1
  /\ UNCHANGED <<memory, result, stored>>

\* execute: a new session, sized by the request or by the defaults.
Execute == \E config \in Configs \cup {NoConfig} :
             Begin(config, Fresh(Default(config, DefaultConfig)))

\* execute_with_session: a session is resumed where its last result left it.
Resume == calls > 0 /\ \E config \in Configs \cup {NoConfig} : Begin(config, result.session)

Return(r) ==
  /\ result' = r
  /\ at' = "idle"

\* The _build_..._result methods store the session first.  Without a memory
\* that is a no-op; with one it names a class that was imported for type
\* checking only, and the NameError is turned into a failure by execute().
StoreAndReturn(decision, r) ==
  /\ Return(IF memory THEN Result("FAIL", "FAILED", initial) ELSE r)
  /\ UNCHANGED stored

\* Mutant: the session takes the decision for its status.
VerdictUntranslated(decision, status, s) ==
  /\ session' = [s EXCEPT !.status = decision]
  /\ StoreAndReturn(decision, Result(decision, status, session'))

Verdict(decision, status, s) ==
  /\ session' = [s EXCEPT !.status = status]
  /\ StoreAndReturn(decision, Result(decision, status, session'))

-----------------------------------------------------------------------------
(* One iteration *)

SelectWorkflow ==
  /\ at = "looping" /\ session.iteration < session.limit
  /\ session' = [session EXCEPT !.iteration = @ + 1]
  /\ at' = "executing"
  /\ UNCHANGED <<memory, request, initial, retry, reports, result, stored, calls>>

\* Mutant: the limit itself is neither iterated nor given up on.
MaxIterationsPast ==
  /\ at = "looping" /\ session.iteration > session.limit
  /\ Verdict("FAIL", "FAILED", session)
  /\ UNCHANGED <<memory, request, initial, retry, reports, calls>>

\* The iterations are used up.
MaxIterations ==
  /\ at = "looping" /\ session.iteration >= session.limit
  /\ Verdict("FAIL", "FAILED", session)
  /\ UNCHANGED <<memory, request, initial, retry, reports, calls>>

Reports1(next) ==
  /\ at' = next
  /\ UNCHANGED <<memory, request, initial, retry, session, result, stored, calls>>

ExecuteWorkflow ==
  /\ at = "executing"
  /\ \E e \in {"ok", "failed"} : reports' = [reports EXCEPT !.execution = e]
  /\ Reports1("verifying")

Verify ==
  /\ at = "verifying"
  /\ \E v \in {"passed", "failed"} : reports' = [reports EXCEPT !.verification = v]
  /\ Reports1("evaluating")

Evaluate ==
  /\ at = "evaluating"
  /\ \E s \in Bands \cup {"none"} : reports' = [reports EXCEPT !.evaluation = s]
  /\ Reports1("deciding")

\* Mutant: the evaluation is read before the verification.
DecisionByScore(r, n) ==
  CASE r.execution = "failed" -> "FAIL"
    [] r.execution # "failed" /\ r.evaluation = "complete" -> "COMPLETE"
    [] r.execution # "failed" /\ r.evaluation = "low" -> "FAIL"
    [] OTHER -> IF r.verification = "failed" /\ n < Config.retries THEN "RETRY" ELSE "REQUEST_REVIEW"

\* ControllerDecisionMaker.make_decision, rule by rule.
Decision(r, n) ==
  IF r.execution = "failed" THEN "FAIL"
  ELSE IF r.verification = "failed" THEN IF n < Config.retries THEN "RETRY" ELSE "FAIL"
  ELSE IF r.evaluation \in {"complete", "none"} THEN "COMPLETE"
  ELSE IF r.evaluation = "review" THEN "REQUEST_REVIEW" ELSE "FAIL"

\* RetryPolicy.should_retry, asked again once the decision is a RETRY.
ShouldRetry(decision, n) == decision = "RETRY" /\ n < Config.retries

\* The history gets an entry for the iteration and one for its decision.
Recorded(decision) == [session EXCEPT !.history = @ \o <<"iteration", decision>>]

\* Mutant: the count the session carries is not kept up to date.
DecideUncounted ==
  /\ at = "deciding"
  /\ \/ /\ Decision(reports, retry) = "RETRY"
        /\ retry' = retry + 1
        /\ session' = Recorded("RETRY")
        /\ at' = "looping"
        /\ UNCHANGED <<result, stored>>
     \/ /\ \E d \in {<<"COMPLETE", "COMPLETED">>, <<"FAIL", "FAILED">>,
                     <<"REQUEST_REVIEW", "REVIEW_REQUIRED">>} :
             /\ Decision(reports, retry) = d[1]
             /\ Verdict(d[1], d[2], Recorded(d[1]))
        /\ UNCHANGED retry
  /\ UNCHANGED <<memory, request, initial, reports, calls>>

\* A RETRY is only decided while retries remain, so that the policy agrees and
\* the loop's own answer to exhausted retries is never reached.
Decide ==
  /\ at = "deciding"
  /\ \/ /\ ShouldRetry(Decision(reports, retry), retry)
        /\ retry' = retry + 1
        /\ session' = [Recorded("RETRY") EXCEPT !.retries = retry + 1]
        /\ at' = "looping"
        /\ UNCHANGED <<result, stored>>
     \/ /\ \E d \in {<<"COMPLETE", "COMPLETED">>, <<"FAIL", "FAILED">>,
                     <<"REQUEST_REVIEW", "REVIEW_REQUIRED">>} :
             /\ Decision(reports, retry) = d[1]
             /\ Verdict(d[1], d[2], Recorded(d[1]))
        /\ UNCHANGED retry
  /\ UNCHANGED <<memory, request, initial, reports, calls>>

\* Mutant: the failure carries the session the loop was working on.
EngineRaisesLate ==
  /\ at \in {"executing", "verifying", "evaluating"}
  /\ Return(Result("FAIL", "FAILED", session))
  /\ UNCHANGED <<memory, request, initial, session, retry, reports, stored, calls>>

\* An engine or the selector raises: execute() returns a failure that carries
\* the session the call began with.
EngineRaises ==
  /\ at \in {"executing", "verifying", "evaluating"}
  /\ Return(Result("FAIL", "FAILED", initial))
  /\ UNCHANGED <<memory, request, initial, session, retry, reports, stored, calls>>

Loop == \/ SelectWorkflow \/ MaxIterations \/ ExecuteWorkflow \/ Verify \/ Evaluate
        \/ Decide \/ EngineRaises

Next == Execute \/ Resume \/ Loop

\* Every engine returns or raises.
Spec == Init /\ [][Next]_vars /\ WF_vars(Loop)

-----------------------------------------------------------------------------
(* Properties *)

Retried(s) == Cardinality({i \in 1 .. Len(s.history) : s.history[i] = "RETRY"})
Session == [status : Statuses, iteration : Nat, limit : Nat, retries : Nat,
            history : Seq({"iteration"} \cup Decisions)]

\* Types.
TypeOK ==
  /\ memory \in BOOLEAN
  /\ at \in {"idle", "looping", "executing", "verifying", "evaluating", "deciding"}
  /\ request \in Configs \cup {NoConfig}
  /\ initial \in Session /\ session \in Session
  /\ retry \in Nat
  /\ reports \in Reports
  /\ result \in [decision : Decisions, status : Statuses, session : Session]
  /\ stored \subseteq Decisions
  /\ calls \in 0 .. MaxCalls

\* A session that is handed back tells its own story, through retries,
\* resumptions and exceptions: two entries for every iteration, in turn, and a
\* retry counted for every RETRY recorded.
SessionTellsItsStory ==
  LET s == result.session IN
  /\ Len(s.history) = 2 * s.iteration
  /\ s.retries = Retried(s)
  /\ s.iteration <= s.limit
  /\ \A i \in 1 .. Len(s.history) : s.history[i] = "iteration" <=> i % 2 = 1

\* COMPLETE is decided on this iteration's reports: executed, verified and not
\* scored below the threshold.
CompletedIsEarned ==
  at = "idle" /\ result.decision = "COMPLETE" =>
    /\ reports.execution = "ok" /\ reports.verification = "passed"
    /\ reports.evaluation \in {"complete", "none"}

\* "Maximum number of retry attempts": a session that has used up its retries
\* is not given new ones when it is resumed.
RetriesAreBounded ==
  at # "idle" => Retried(session) <= Config.retries \/ Retried(session) <= Retried(initial)

\* Every call returns.
CallReturns == at # "idle" ~> at = "idle"

\* "Called after the control loop completes to persist session facts": with a
\* memory, a call that has come to a verdict has stored it.
VerdictsAreStored ==
  memory /\ at = "idle" /\ session.status # "ACTIVE" => stored # {}

\* A session is handed back with a verdict it has earned and a true story.
VerdictsAreEarned == TypeOK /\ SessionTellsItsStory /\ CompletedIsEarned /\ RetriesAreBounded
=============================================================================
