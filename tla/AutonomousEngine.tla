--------------------------- MODULE AutonomousEngine ---------------------------
(***************************************************************************)
(* The goal loop of packages/autonomous: plan a sequence of workflows, then *)
(* ask the stopping conditions and the policies, run the next workflow and  *)
(* record how it went, until something stops it.                            *)
(*                                                                          *)
(* Abstractions: a score is the band the code compares it with - low, below *)
(* 0.5; fair; high, from 0.8 - and a verification status is whether it is   *)
(* one of the three that count as success. What the adapters of an          *)
(* iteration do, an exception included, is the score and the status.        *)
(***************************************************************************)
EXTENDS Integers, Sequences

CONSTANTS
  Goals    \* the goals pursued: see Goal

\* The built-in policies; "custom" is one of the caller's, which may decide
\* anything.
Policies == {"sequential", "maximum", "stop_on_failure", "verification_gate", "custom"}

\* workflows: how many the planner selects; own: planned by the engine's own
\* planner, which refuses to plan none.
Goal == [max : Nat, policies : Seq(Policies), workflows : Nat, own : BOOLEAN]

GoalAssumption == Goals \subseteq Goal

Iterations == [number : Nat, workflow : Nat, score : {"low", "fair", "high"},
               verified : BOOLEAN, failed : BOOLEAN]

VARIABLES
  goal,
  done,      \* completed_iterations
  current,   \* current_iteration
  phase,     \* "plan", "check", "iterate"; "reported" or "raised" at the end
  status     \* the final status

vars == <<goal, done, current, phase, status>>

Init == /\ goal \in Goals
        /\ done = <<>> /\ current = 0
        /\ phase = "plan" /\ status = "none"

Plan ==
  /\ phase = "plan"
  /\ phase' = IF goal.own /\ goal.workflows = 0 THEN "raised" ELSE "check"
  /\ UNCHANGED <<goal, done, current, status>>

-----------------------------------------------------------------------------
(* One turn of the loop *)

Newest(its) == its[Len(its)]

GoalAchieved(its) == \E i \in DOMAIN its : its[i].score = "high"

VerificationSuccessful(its) == its # <<>> /\ Newest(its).verified

MaxIterationsReached(n) == n >= goal.max

\* Mutant: len(recent) <= threshold is too short.
RepeatedFailureLate(its) ==
  Len(its) > 3 /\ \A i \in Len(its) - 2 .. Len(its) : its[i].failed

RepeatedFailure(its) ==
  Len(its) >= 3 /\ \A i \in Len(its) - 2 .. Len(its) : its[i].failed

\* check_all_stopping_conditions; no iteration of this engine carries the
\* policy_stop metadata the fifth one looks for.
\* Mutant: the iteration count is left to MaximumIterationPolicy.
StopsWithoutMaximum(its, n) ==
  GoalAchieved(its) \/ VerificationSuccessful(its) \/ RepeatedFailure(its)

Stops(its, n) ==
  GoalAchieved(its) \/ VerificationSuccessful(its) \/ MaxIterationsReached(n) \/ RepeatedFailure(its)

\* What a policy may decide.
Decisions(policy) ==
  CASE policy = "sequential" -> {"CONTINUE"}
    [] policy = "maximum" -> {IF MaxIterationsReached(current) THEN "STOP" ELSE "CONTINUE"}
    [] policy = "stop_on_failure" ->
         {IF done # <<>> /\ Newest(done).failed THEN "STOP" ELSE "CONTINUE"}
    [] policy = "verification_gate" ->
         {IF done # <<>> /\ ~Newest(done).verified THEN "STOP" ELSE "CONTINUE"}
    [] policy = "custom" -> {"CONTINUE", "SKIP", "STOP"}

\* Mutant: the last decision is the one that counts.
LastDecides(decided) == decided = <<>> \/ Newest(decided) # "STOP"

\* The loop over the policies comes through without a STOP: it ends at the
\* first SKIP.
ComesThrough(decided) ==
  \E n \in 0 .. Len(decided) :
    /\ \A i \in 1 .. n : decided[i] = "CONTINUE"
    /\ n < Len(decided) => decided[n + 1] = "SKIP"

FinalStatus(its) ==
  IF its = <<>> THEN "EMPTY"
  ELSE IF GoalAchieved(its) THEN "COMPLETED"
  ELSE IF \E i \in DOMAIN its : ~its[i].failed THEN "PARTIAL" ELSE "FAILED"

Report == /\ phase' = "reported"
          /\ status' = FinalStatus(done)
          /\ UNCHANGED <<goal, done, current>>

Check ==
  /\ phase = "check"
  /\ IF Stops(done, current) THEN Report ELSE
     \E decided \in {d \in [DOMAIN goal.policies -> {"CONTINUE", "SKIP", "STOP"}] :
                       \A i \in DOMAIN d : d[i] \in Decisions(goal.policies[i])} :
       IF ~ComesThrough(decided) \/ goal.workflows = 0 THEN Report ELSE
         /\ phase' = "iterate"
         /\ UNCHANGED <<goal, done, current, status>>

\* _execute_workflow_iteration: the score decides, whatever the verification
\* says; an exception leaves score 0 and "SKIPPED".
Outcome(score, verified) ==
  [number |-> current + 1, workflow |-> current % goal.workflows,
   score |-> score, verified |-> verified, failed |-> score = "low"]

\* Mutant: a failure is counted and not listed.
RecordUnlisted(it) ==
  /\ done' = IF it.failed THEN done ELSE Append(done, it)
  /\ current' = current + 1

\* Mutant: a failure leaves no trace.
RecordSuccessOnly(it) ==
  /\ done' = IF it.failed THEN done ELSE Append(done, it)
  /\ current' = IF it.failed THEN current ELSE current + 1

\* record_failure and advance_iteration: only a success is counted.
Record(it) ==
  /\ done' = Append(done, it)
  /\ current' = IF it.failed THEN current ELSE current + 1

Iterate ==
  /\ phase = "iterate"
  /\ \E score \in {"low", "fair", "high"}, verified \in BOOLEAN : Record(Outcome(score, verified))
  /\ phase' = "check"
  /\ UNCHANGED <<goal, status>>

Next == Plan \/ Check \/ Iterate

Spec == Init /\ [][Next]_vars
FairSpec == Spec /\ WF_vars(Next)

-----------------------------------------------------------------------------
(* Properties *)

\* Types; a success that is counted is listed, and the final status is there
\* when the loop has ended.
TypeOK ==
  /\ goal \in Goals
  /\ done \in Seq(Iterations)
  /\ current \in 0 .. Len(done)
  /\ phase \in {"plan", "check", "iterate", "reported", "raised"}
  /\ status \in {"none", "EMPTY", "COMPLETED", "PARTIAL", "FAILED"}
  /\ (status # "none") = (phase = "reported")

\* The limit on the work a goal can cause: a success counts against
\* max_iterations and three failures in a row end the loop, so that there are
\* at most max successes with at most two failures before each, and a run of
\* three at the end.
WorkIsBounded ==
  /\ current <= goal.max
  /\ Len(done) <= IF goal.max = 0 THEN 0 ELSE 3 * goal.max

\* Nothing is run after what should have ended the loop: only the last
\* iteration can have reached the goal or passed its verification, and only
\* the last three can all have failed.
OnlyTheLastEnds ==
  \A n \in 1 .. Len(done) - 1 :
    /\ done[n].score # "high" /\ ~done[n].verified
    /\ n >= 3 => \E i \in n - 2 .. n : ~done[i].failed

\* A policy before which no other can SKIP is obeyed: StopOnFailure leaves no
\* iteration after a failed one, and VerificationGate none at all after the
\* first - one that passed has stopped the loop by itself.
PoliciesAreObeyed ==
  \A i \in DOMAIN goal.policies :
    (\A j \in 1 .. i - 1 : goal.policies[j] # "custom") =>
      /\ goal.policies[i] = "stop_on_failure" => \A n \in 1 .. Len(done) - 1 : ~done[n].failed
      /\ goal.policies[i] = "verification_gate" => Len(done) <= 1

\* "Must never allow infinite loops": whatever the workflows do and a custom
\* policy decides, the loop ends.
Ends == <>(phase \in {"reported", "raised"})

\* "max_iterations: Maximum number of iterations allowed."
IterationsAllowed == Len(done) <= goal.max

\* The loop goes on no longer than the goal, the stopping conditions and the
\* policies allow.
LoopIsBounded == TypeOK /\ WorkIsBounded /\ OnlyTheLastEnds /\ PoliciesAreObeyed
=============================================================================
