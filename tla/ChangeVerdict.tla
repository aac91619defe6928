---------------------------- MODULE ChangeVerdict ----------------------------
(***************************************************************************)
(* The verdict on a change. The modification engine lists what it applied   *)
(* and counts it (packages/modification/engine.py), the rules of the self   *)
(* verification look for contradictions in the list                         *)
(* (packages/verification), and the evaluator scores the execution behind   *)
(* it (packages/evaluation).                                                *)
(*                                                                          *)
(* Abstractions: a finding is its rule and its severity; scores are in      *)
(* 600ths, where the code has floating point numbers, and rounded down; a   *)
(* warning counts by the word that the rules look for.                      *)
(***************************************************************************)
EXTENDS Integers, Sequences, FiniteSets, SequencesExt

CONSTANTS
  None,         \* no change, no finding, no capability, no provider answer
  Applied,      \* the changes in use: files applied, and how it ended
  Executions    \* the execution reports in use, with what goes with them

Unit == 600

VerdictAssumption ==
  /\ \A a \in Applied : \A i, j \in DOMAIN a.files : a.files[i].path = a.files[j].path => i = j
  /\ \A e \in Executions : e.success = (e.failures = 0) /\ e.failures <= Len(e.steps)

VARIABLES
  work,           \* the WorkspaceChanges, None from the pipeline stage
  judging,        \* verifying, evaluating, judged
  rules,          \* the rules that have not run
  findings,
  verification,   \* status, score and the counts of the report
  executed,       \* the execution report that was evaluated
  evaluation      \* its overall score

vars == <<work, judging, rules, findings, verification, executed, evaluation>>

-----------------------------------------------------------------------------
(* What the engine lists and counts *)

NoCount == [modified |-> 0, created |-> 0, deleted |-> 0, total |-> 0]

\* A rename counts as a modification.
Accumulate(count, file) ==
  LET counted == [count EXCEPT !.total = @ + 1] IN
  CASE file.op = "ADD" -> [counted EXCEPT !.created = @ + 1]
    [] file.op = "DELETE" -> [counted EXCEPT !.deleted = @ + 1]
    [] file.op \in {"MODIFY", "RENAME"} -> [counted EXCEPT !.modified = @ + 1]

\* A file that failed is not listed: it ends the application, with a warning.
Changes(a) ==
  [files |-> a.files, statistics |-> FoldLeft(Accumulate, NoCount, a.files),
   success |-> a.success, untracked |-> a.untracked]

\* What the rules see of a change that is None.
NoChanges == [files |-> <<>>, statistics |-> None, success |-> TRUE, untracked |-> FALSE]

-----------------------------------------------------------------------------
(* Self verification *)

NoDuplicateChanges(w) ==
  IF \E i, j \in DOMAIN w.files : i < j /\ w.files[i].path = w.files[j].path THEN "MEDIUM" ELSE "INFO"

NoUnexpectedFiles(w) == IF w.untracked THEN "LOW" ELSE "INFO"

\* Every file listed has been applied, so that this rule never finds one that
\* failed; of an application that did not succeed it says nothing.
PatchApplied(w) ==
  CASE w.files = <<>> -> None
    [] \E i \in DOMAIN w.files : w.files[i].status = "FAILED" -> "MEDIUM"
    [] w.success -> "INFO"
    [] OTHER -> None

\* Lines are not counted, so that none is negative.
PatchStatisticsConsistency(w) ==
  IF w.statistics = None THEN None
  ELSE IF w.statistics.total # Len(w.files) THEN "MEDIUM" ELSE "INFO"

Count(files, op) == Cardinality({i \in DOMAIN files : files[i].op = op})

\* Mutant: deleted files are not compared.
WorkspaceConsistencyOfTwo(w) ==
  CASE w.statistics = None -> "HIGH"
    [] w.statistics.created # Count(w.files, "ADD") -> "MEDIUM"
    [] OTHER -> "INFO"

\* The counts against the operations of the files, where a rename is none.
WorkspaceConsistency(w) ==
  CASE w.statistics = None -> "HIGH"
    [] \/ w.statistics.modified # Count(w.files, "MODIFY")
       \/ w.statistics.created # Count(w.files, "ADD")
       \/ w.statistics.deleted # Count(w.files, "DELETE") -> "MEDIUM"
    [] OTHER -> "INFO"

\* Sorted by rule id.
SortedRules == <<"NoDuplicateChanges", "NoUnexpectedFiles", "PatchApplied",
                 "PatchStatisticsConsistency", "WorkspaceConsistency">>
Verify(rule, w) ==
  CASE rule = "NoDuplicateChanges" -> NoDuplicateChanges(w)
    [] rule = "NoUnexpectedFiles" -> NoUnexpectedFiles(w)
    [] rule = "PatchApplied" -> PatchApplied(w)
    [] rule = "PatchStatisticsConsistency" -> PatchStatisticsConsistency(w)
    [] rule = "WorkspaceConsistency" -> WorkspaceConsistency(w)

Of(severities) == Cardinality({i \in DOMAIN findings : findings[i].severity \in severities})

\* Percent.
Penalty == [INFO |-> 0, LOW |-> 5, MEDIUM |-> 15, HIGH |-> 30, CRITICAL |-> 50]
CalculateScore ==
  LET left == FoldLeft(LAMBDA score, f : score - Penalty[f.severity], 100, findings)
  IN IF left < 0 THEN 0 ELSE left

CalculateStatus ==
  CASE findings = <<>> -> "SKIPPED"
    [] Of({"HIGH", "CRITICAL"}) > 0 -> "FAILED"
    [] Of({"MEDIUM"}) > 0 -> "WARNING"
    [] OTHER -> "PASSED"

RunRule ==
  /\ judging = "verifying" /\ rules # <<>>
  /\ LET severity == Verify(Head(rules), work) IN
       findings' = IF severity = None THEN findings
                   ELSE Append(findings, [rule |-> Head(rules), severity |-> severity])
  /\ rules' = Tail(rules)
  /\ UNCHANGED <<work, judging, verification, executed, evaluation>>

\* Mutant: a low finding is no warning.
ReportWithoutLow ==
  [status |-> CalculateStatus, score |-> CalculateScore, executed |-> Len(findings),
   passed |-> Of({"INFO"}), warnings |-> Of({"MEDIUM"}), failed |-> Of({"HIGH", "CRITICAL"})]

VerificationReport ==
  [status |-> CalculateStatus, score |-> CalculateScore, executed |-> Len(findings),
   passed |-> Of({"INFO"}), warnings |-> Of({"LOW", "MEDIUM"}), failed |-> Of({"HIGH", "CRITICAL"})]

Verified ==
  /\ judging = "verifying" /\ rules = <<>>
  /\ verification' = VerificationReport
  /\ judging' = "evaluating"
  /\ UNCHANGED <<work, rules, findings, executed, evaluation>>

\* VerificationReportValidator.
ValidReport(report) ==
  /\ \A i, j \in DOMAIN findings : findings[i].rule = findings[j].rule => i = j
  /\ report.score \in 0 .. 100
  /\ report.status \in {"PASSED", "FAILED", "WARNING", "SKIPPED"}
  /\ report.executed = report.passed + report.failed + report.warnings

-----------------------------------------------------------------------------
(* Evaluation *)

Clamp(value) == IF value < 0 THEN 0 ELSE IF value > Unit THEN Unit ELSE value
Metric(name, value, weight) == [name |-> name, value |-> value, weight |-> weight]
When(condition, metrics) == IF condition THEN metrics ELSE {}

\* How much of what was planned for the prompt it took.
Utilization(e) == (e.answer.prompt * Unit) \div e.capability.tokens

ContextMetrics(e) ==
  When(e.capability # None,
    When(e.capability.symbols > 0, {Metric("selected_symbols_count", e.capability.symbols * Unit, 25)})
    \cup When(e.capability.modules > 0, {Metric("selected_modules_count", e.capability.modules * Unit, 25)})
    \cup When(e.capability.tokens > 0 /\ e.answer # None,
           {Metric("context_compression_ratio", Clamp(Utilization(e)), 50),
            Metric("context_utilization", Utilization(e), 50)}))

\* A step result has slots, so that its duration is looked for in its metadata.
Duration(e) == FoldLeft(LAMBDA sum, s : sum + s.noted, 0, e.steps)
Tokens(e) == IF e.answer = None THEN 0 ELSE e.answer.prompt + e.answer.completion
TotalDuration(e) == FoldLeft(LAMBDA sum, s : sum + s.took, 0, e.steps)

ExecutionMetrics(e) ==
  When(e.steps # <<>>, {Metric("execution_duration_ms", Duration(e) * Unit, 30)})
  \cup When(Tokens(e) > 0, {Metric("total_tokens", Tokens(e) * Unit, 30)})

PerformanceMetrics(e) ==
  When(Tokens(e) > 0 /\ TotalDuration(e) > 0,
    {Metric("throughput", (Tokens(e) * 1000 * Unit) \div TotalDuration(e), 50)})

\* Mutant: what failed is counted instead of what was done.
CompletenessOfFailures(e) ==
  CASE e.success \/ e.steps = <<>> -> Unit
    [] OTHER -> (e.failures * Unit) \div Len(e.steps)

WorkflowCompleteness(e) ==
  CASE e.success \/ e.steps = <<>> -> Unit
    [] OTHER -> ((Len(e.steps) - e.failures) * Unit) \div Len(e.steps)

\* Diagnostics and architecture findings count the parts of one report.
EngineeringMetrics(e) ==
  {Metric("workflow_completeness", WorkflowCompleteness(e), 40)}
  \cup When(e.capability # None /\ e.capability.report > 0,
         {Metric(name, e.capability.report * Unit, 30) :
            name \in {"diagnostics_collected", "architecture_findings_count"}})

DeterminismMetrics == {Metric(name, Unit, 50) : name \in {"execution_consistency", "identifier_stability"}}

Metrics(e) == ContextMetrics(e) \cup ExecutionMetrics(e) \cup EngineeringMetrics(e)
              \cup PerformanceMetrics(e) \cup DeterminismMetrics

CategoryMetrics ==
  [context |-> {"context_compression_ratio", "context_utilization",
                "selected_symbols_count", "selected_modules_count"},
   execution |-> {"execution_duration_ms", "total_tokens", "throughput"},
   engineering |-> {"diagnostics_collected", "architecture_findings_count", "workflow_completeness"},
   performance |-> {"throughput", "execution_duration_ms"},
   determinism |-> {"execution_consistency", "identifier_stability"}]
CategoryWeight == [context |-> 25, execution |-> 20, engineering |-> 30, performance |-> 10, determinism |-> 15]

\* The values are raw counts, milliseconds and tokens, whatever the category
\* makes of them: one of 1 or more fills it.
CategoryScore(metrics, category) ==
  LET relevant == {m \in metrics : m.name \in CategoryMetrics[category]} IN
  IF relevant = {} THEN 0
  ELSE Clamp(MapThenSumSet(LAMBDA m : m.value * m.weight, relevant)
             \div MapThenSumSet(LAMBDA m : m.weight, relevant))

OverallScore(metrics) ==
  MapThenSumSet(LAMBDA category : CategoryScore(metrics, category) * CategoryWeight[category],
                DOMAIN CategoryWeight) \div 100

\* The stage after the one that verifies, which had no change to look at.
Evaluate(e) ==
  /\ judging = "evaluating" /\ work = NoChanges
  /\ executed' = e
  /\ evaluation' = OverallScore(Metrics(e))
  /\ judging' = "judged"
  /\ UNCHANGED <<work, rules, findings, verification>>

Init ==
  /\ work \in {Changes(a) : a \in Applied} \cup {NoChanges}
  /\ judging = "verifying" /\ rules = SortedRules /\ findings = <<>>
  /\ verification = None /\ executed = None /\ evaluation = None

Next == RunRule \/ Verified \/ \E e \in Executions : Evaluate(e)

Spec == Init /\ [][Next]_vars

-----------------------------------------------------------------------------
(* Properties *)

\* What the report says of a change the engine applied as a whole: it passes,
\* unless it renames a file, which engine and rule count differently; without a
\* change it fails. And the report is one its validator accepts, also of a change
\* applied in part, of which nothing else is claimed
\* (verification/engine.py, rules.py, validator.py, modification/engine.py).
Renames == \E i \in DOMAIN work.files : work.files[i].op = "RENAME"
VerificationIsTold ==
  verification # None =>
    /\ ValidReport(verification)
    /\ work.success =>
         /\ verification.status = CASE work.statistics = None -> "FAILED" [] Renames -> "WARNING" [] OTHER -> "PASSED"
         /\ verification.score = 100 <=> ~Renames /\ ~work.untracked /\ work.statistics # None

\* A failure never pays: an execution scores no more than one that took the same
\* steps and succeeded, nor, without the tokens that make haste count, than one
\* that failed a step later (evaluation/evaluator.py, scoring.py).
Succeeding(e) == [e EXCEPT !.success = TRUE, !.failures = 0]
Later(e, s) == [e EXCEPT !.steps = <<s>> \o @, !.answer = None]
FailureNeverPays ==
  judging = "judged" =>
    /\ evaluation <= OverallScore(Metrics(Succeeding(executed)))
    /\ \A s \in ToSet(executed.steps) :
         OverallScore(Metrics([executed EXCEPT !.answer = None])) <= OverallScore(Metrics(Later(executed, s)))

VerdictIsSound == VerificationIsTold /\ FailureNeverPays
=============================================================================
