----------------------------- MODULE Frameworks -----------------------------
(***************************************************************************)
(* Frameworks and scripts that share nothing with the request path or with  *)
(* each other, side by side: a behaviour drives one of them, with all its   *)
(* interleavings, and the variables of the others are parked. A module that *)
(* composes more of them names these Elsewhere.                             *)
(***************************************************************************)
EXTENDS Integers, Sequences, FiniteSets

CONSTANTS
  LogLine, Ingester, Evaluator, NoLine, MaxCrashes,       \* EngineeringMemory
  Configs, NoConfig, OwnConfig, DefaultConfig, MaxCalls,  \* EngineeringController
  Path, Content, Torn, PatchSets, MaxSeconds,             \* CodeModification
  Goals,                                                  \* AutonomousEngine
  Request, MaxLives, MaxArtifacts,                        \* EngineeringSession (and Torn)
  Setup, Leftovers, Unset,                                \* AbLaunch
  Patience, MaxRuns, MaxOthers,                           \* DeltaProbe
  Dependency, DependencyLists, MaxMade,                   \* DependencyContainer
  Requests, Configurations, Containers, Offered, Touched, MaxServed,  \* Platform
  Scorable, Sayable, Length, StopWords, TestWords, Generated, TestFile, MaxWords,  \* SymbolScoring
  Task, Flows, StepsOf, StepInName,                       \* WorkflowExecution
  None, Parked,
  Elsewhere   \* the names of what another module drives beside these

VARIABLES
  driven,
  log, file, run, remembered, lapped, returned, crashes,                    \* EngineeringMemory
  memory, at, request, initial, session, retry, reports, result, stored, calls,   \* EngineeringController
  files, backups, second, job, start, changes,                              \* CodeModification
  goal, done, current, phase, status,                                       \* AutonomousEngine
  registry, artifacts, statistics, disk, lives,                             \* EngineeringSession
  experiment, worktree, stage, gateways,                                    \* AbLaunch
  lines, pending, started, asking, scores, offset, looks, verdict, judged, quiet, others, \* DeltaProbe
  registered, resolved, stack, todo, outcome, made, replaced,               \* DependencyContainer
  registries, platform, handlers, workflows, initialized, telemetry, sessions, events, response, served, \* Platform
  said, heard, scored,                                                      \* SymbolScoring
  nodes, turn, indegree, queue, order, stepped                              \* WorkflowExecution

-----------------------------------------------------------------------------
(* The instances *)

Memory == INSTANCE EngineeringMemory WITH Line <- LogLine, stored <- remembered
Controller == INSTANCE EngineeringController
Modification == INSTANCE CodeModification
Autonomous == INSTANCE AutonomousEngine
Session == INSTANCE EngineeringSession
Launch == INSTANCE AbLaunch WITH Terminal <- Leftovers, tree <- worktree, phase <- stage, running <- gateways
Probe == INSTANCE DeltaProbe WITH log <- lines, run <- started, at <- asking, result <- verdict
Container == INSTANCE DependencyContainer WITH Name <- Dependency, Lists <- DependencyLists
Platform == INSTANCE Platform WITH built <- platform, result <- response, calls <- served, MaxCalls <- MaxServed
Scoring == INSTANCE SymbolScoring WITH Symbols <- Scorable
Execution == INSTANCE WorkflowExecution WITH Workflows <- Flows, phase <- turn, results <- stepped

ASSUME FrameworksAssumption ==
  /\ Memory!NamesAssumption
  /\ Controller!ConfigAssumption
  /\ Modification!PatchAssumption
  /\ Autonomous!GoalAssumption
  /\ Session!SessionAssumption
  /\ Launch!LaunchAssumption
  /\ Probe!ProbeAssumption
  /\ Container!ContainerAssumption
  /\ Platform!PlatformAssumption
  /\ Scoring!ScoringAssumption
  /\ Execution!WorkflowAssumption

-----------------------------------------------------------------------------
(* One of them runs *)

\* By component, its variables.
MemoryVars == <<log, file, run, remembered, lapped, returned, crashes>>
ControllerVars == <<memory, at, request, initial, session, retry, reports, result, stored, calls>>
ModificationVars == <<files, backups, second, job, start, changes>>
AutonomousVars == <<goal, done, current, phase, status>>
SessionVars == <<registry, artifacts, statistics, disk, lives>>
LaunchVars == <<experiment, worktree, stage, gateways>>
ProbeVars == <<lines, pending, started, asking, scores, offset, looks, verdict, judged, quiet, others>>
ContainerVars == <<registered, resolved, stack, todo, outcome, made, replaced>>
PlatformVars == <<registries, platform, handlers, workflows, initialized, telemetry, sessions, events, response, served>>
ScoringVars == <<said, heard, scored>>
ExecutionVars == <<nodes, turn, indegree, queue, order, stepped>>

ParkMemory == /\ log = Parked /\ file = Parked /\ run = Parked /\ remembered = Parked
              /\ lapped = Parked /\ returned = Parked /\ crashes = Parked
ParkController ==
  /\ memory = Parked /\ at = Parked /\ request = Parked /\ initial = Parked /\ session = Parked
  /\ retry = Parked /\ reports = Parked /\ result = Parked /\ stored = Parked /\ calls = Parked
ParkModification == /\ files = Parked /\ backups = Parked /\ second = Parked
                    /\ job = Parked /\ start = Parked /\ changes = Parked
ParkAutonomous == goal = Parked /\ done = Parked /\ current = Parked /\ phase = Parked /\ status = Parked
ParkSession == /\ registry = Parked /\ artifacts = Parked /\ statistics = Parked
               /\ disk = Parked /\ lives = Parked
ParkLaunch == experiment = Parked /\ worktree = Parked /\ stage = Parked /\ gateways = Parked
ParkProbe == /\ lines = Parked /\ pending = Parked /\ started = Parked /\ asking = Parked
             /\ scores = Parked /\ offset = Parked /\ looks = Parked /\ verdict = Parked
             /\ judged = Parked /\ quiet = Parked /\ others = Parked
ParkContainer == /\ registered = Parked /\ resolved = Parked /\ stack = Parked /\ todo = Parked
                 /\ outcome = Parked /\ made = Parked /\ replaced = Parked
ParkPlatform == /\ registries = Parked /\ platform = Parked /\ handlers = Parked
                /\ workflows = Parked /\ initialized = Parked /\ telemetry = Parked
                /\ sessions = Parked /\ events = Parked /\ response = Parked /\ served = Parked
ParkScoring == said = Parked /\ heard = Parked /\ scored = Parked
ParkExecution == /\ nodes = Parked /\ turn = Parked /\ indegree = Parked
                 /\ queue = Parked /\ order = Parked /\ stepped = Parked

Is(framework) == driven = framework

Init ==
  /\ driven \in {"memory", "controller", "modification", "autonomous", "session", "launch", "probe",
                "container", "platform", "scoring", "execution"} \cup Elsewhere
  /\ IF Is("memory") THEN Memory!Init ELSE ParkMemory
  /\ IF Is("controller") THEN Controller!Init ELSE ParkController
  /\ IF Is("modification") THEN Modification!Init ELSE ParkModification
  /\ IF Is("autonomous") THEN Autonomous!Init ELSE ParkAutonomous
  /\ IF Is("session") THEN Session!Init ELSE ParkSession
  /\ IF Is("launch") THEN Launch!Init ELSE ParkLaunch
  /\ IF Is("probe") THEN Probe!Init ELSE ParkProbe
  /\ IF Is("container") THEN Container!Init ELSE ParkContainer
  /\ IF Is("platform") THEN Platform!Init ELSE ParkPlatform
  /\ IF Is("scoring") THEN Scoring!Init ELSE ParkScoring
  /\ IF Is("execution") THEN Execution!Init ELSE ParkExecution

Next ==
  /\ UNCHANGED driven
  /\ IF Is("memory") THEN Memory!Next ELSE UNCHANGED MemoryVars
  /\ IF Is("controller") THEN Controller!Next ELSE UNCHANGED ControllerVars
  /\ IF Is("modification") THEN Modification!Next ELSE UNCHANGED ModificationVars
  /\ IF Is("autonomous") THEN Autonomous!Next ELSE UNCHANGED AutonomousVars
  /\ IF Is("session") THEN Session!Next ELSE UNCHANGED SessionVars
  /\ IF Is("launch") THEN Launch!Next ELSE UNCHANGED LaunchVars
  /\ IF Is("probe") THEN Probe!Next ELSE UNCHANGED ProbeVars
  /\ IF Is("container") THEN Container!Next ELSE UNCHANGED ContainerVars
  /\ IF Is("platform") THEN Platform!Next ELSE UNCHANGED PlatformVars
  /\ IF Is("scoring") THEN Scoring!Next ELSE UNCHANGED ScoringVars
  /\ IF Is("execution") THEN Execution!Next ELSE UNCHANGED ExecutionVars

vars == <<driven, MemoryVars, ControllerVars, ModificationVars, AutonomousVars,
          SessionVars, LaunchVars, ProbeVars, ContainerVars, PlatformVars, ScoringVars,
          ExecutionVars>>

\* The fairness that two of them state.
Fair == /\ WF_(ControllerVars)(Is("controller") /\ Controller!Loop)
        /\ WF_(AutonomousVars)(Is("autonomous") /\ Autonomous!Next)

Spec == Init /\ [][Next]_vars /\ Fair

-----------------------------------------------------------------------------
(* Properties: what each module says of its component *)

\* Neither the memory file nor the log forgets more than what a kill cut off.
MemoryIsKept == Is("memory") => Memory!MemoryIsKept

\* A session is handed back with a verdict it has earned and a true story.
VerdictsAreEarned == Is("controller") => Controller!VerdictsAreEarned

\* The workspace, the changes listed and the last backup belong together, also
\* after a failure or a kill: but for one file, what is listed is what was done,
\* and but for what was written over, what is gone can be brought back.
ChangesAreTold == Is("modification") => Modification!ChangesAreTold

\* The goal loop goes on no longer than goal, conditions and policies allow.
LoopIsBounded == Is("autonomous") => Autonomous!LoopIsBounded

\* What a session has is its own, and so is the way it came.
LivesAreApart == Is("session") => Session!LivesAreApart

\* The scripts compare like with like: two arms read the same settings but for
\* what is under test, as they are written unless the launcher lets them through,
\* and a probe is judged by its own records.
ScriptsAreFair == /\ Is("launch") => Launch!LaunchIsIsolated
                  /\ Is("probe") => Probe!ProbeIsFair

\* What the container resolves has the instances of its dependencies in it, and
\* it is resolved once; the platform built around it accepts what its validators
\* do, and its controller's log, results and sessions tell the same.
InstancesAreShared == /\ Is("container") => Container!InstancesAreShared
                      /\ Is("platform") => Platform!PlatformIsSound

\* What comes first is what should: what the words of a request name outranks
\* what they do not, whatever is discounted, and is kept, and what counts as
\* relevant has a word of the request; the steps of a workflow run in an order
\* that respects its graph, as far as they succeed.
OrderIsKept == /\ Is("scoring") => Scoring!ScoringIsSound
               /\ Is("execution") => Execution!StepsAreOrdered

\* What a step may not undo: a run alone catches up with what it read, a backup
\* restored brings its files back, an ended session stays ended, a name of the
\* container keeps its instance for as long as it is registered, and a word more
\* takes nothing from a symbol.
NothingIsUndone ==
  [][/\ Is("memory") => Memory!CatchesUp
     /\ Is("modification") => Modification!Undoes
     /\ Is("session") => Session!StaysTerminal
     /\ Is("container") => Container!KeepsInstances
     /\ Is("scoring") => Scoring!WordsHelp]_vars
=============================================================================
