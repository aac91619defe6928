--------------------------- MODULE EngineeringTasks ---------------------------
(***************************************************************************)
(* The shipped workflows (packages/workflows/workflows) and the tasks of    *)
(* their nodes (packages/tasks): a workflow checks its request, resolves    *)
(* the classes of its nodes, lets the task of each node plan in the order   *)
(* of the dependencies and merges the contexts. WorkflowExecution has the   *)
(* engine for workflows of any shape.                                       *)
(*                                                                          *)
(* Abstractions: of a step the symbols and modules it requires are kept; of *)
(* a request whether it has a query, and its options: a list, something     *)
(* else (Invalid) or missing (Unset).                                       *)
(***************************************************************************)
EXTENDS Integers, Sequences, SequencesExt, FiniteSets

CONSTANTS
  Requests,
  Named,       \* the symbols of the index: name and full name
  Indexed,     \* its modules
  Relations,   \* pairs of full names and modules
  Ranked,      \* what the context builder ranks, with the module of each
  Advice,      \* what the refactoring advisor reports
  Invalid, Unset

VARIABLES workflow, asked, progress, planned, fault

vars == <<workflow, asked, progress, planned, fault>>

-----------------------------------------------------------------------------
(* The tasks *)

\* An option that is no list is passed over.
Listed(option) == IF option \in {Invalid, Unset} THEN <<>> ELSE option

\* Mutant: what is suspected comes first.
SuspectedFirst(changed, suspected) == IF suspected \in {Unset, <<>>} THEN changed ELSE suspected

FirstGiven(changed, suspected) == IF changed \in {Unset, <<>>} THEN suspected ELSE changed

Found(name) == \E s \in Named : name \in {s.name, s.full}

Step(symbols, modules) == [symbols |-> symbols, modules |-> modules]

TaskPlan(task, steps, tokens, anything, package) ==
  [task |-> task, steps |-> steps, tokens |-> tokens, complexity |-> IF anything THEN "MEDIUM" ELSE "LOW", package |-> package]

Identify(symbols, modules) == <<Step(symbols, {}), Step({}, modules)>>

\* Mutant: what is not in the index is reviewed as well.
ReviewAnything(r) ==
  LET symbols == Listed(r.symbols)
      modules == Listed(r.files)
  IN TaskPlan("review-pull-request",
              Identify(Range(symbols), Range(modules)) \o <<Step(Range(symbols), Range(modules))>>,
              50 * Len(symbols) + 100 * Len(modules), symbols # <<>> \/ modules # <<>>, FALSE)

ReviewPullRequest(r) ==
  LET symbols == SelectSeq(Listed(r.symbols), Found)
      modules == SelectSeq(Listed(r.files), LAMBDA f : f \in Indexed)
  IN TaskPlan("review-pull-request",
              Identify(Range(symbols), Range(modules)) \o <<Step(Range(symbols), Range(modules))>>,
              50 * Len(symbols) + 100 * Len(modules), symbols # <<>> \/ modules # <<>>, FALSE)

Paths(symbols) == {p \in Relations : p[1] \in symbols \/ p[2] \in symbols}
Cycles(modules) == {p \in Relations : p[1] \in modules /\ <<p[2], p[1]>> \in Relations}

\* Neither the symbols nor the modules are looked up. An index marks nothing
\* as dead, orphaned, large or coupled, so that there are no such findings.
InvestigateBug(r) ==
  LET symbols == Listed(FirstGiven(r.symbols, r.suspectedSymbols))
      modules == Listed(FirstGiven(r.files, r.suspectedModules))
      total == Len(symbols) + Len(modules) + Cardinality(Paths(Range(symbols))) + Cardinality(Cycles(Range(modules)))
  IN TaskPlan("investigate-bug",
              Identify(Range(symbols), Range(modules)) \o [i \in 1 .. 4 |-> Step(Range(symbols), Range(modules))],
              100 * total, total > 0, FALSE)

ImpactAnalysis(r) ==
  LET symbols == Listed(r.symbols)
  IN TaskPlan("impact-analysis", <<Step(Range(symbols), {})>>, 100 * Len(symbols), symbols # <<>>, FALSE)

\* The engine is made without analyzers and finds nothing.
Diagnostics(r) == TaskPlan("diagnostics", [i \in 1 .. 4 |-> Step({}, {})], 0, FALSE, FALSE)

ArchitectureReview(r) ==
  TaskPlan("architecture-review", <<Step({}, Indexed)>> \o [i \in 1 .. 4 |-> Step({}, {})],
           100 * Cardinality(Indexed), Indexed # {}, FALSE)

RefactoringAdvisor(r) ==
  LET symbols == UNION {a.symbols : a \in Advice}
      modules == UNION {a.modules : a \in Advice}
  IN TaskPlan("refactoring-advisor", [i \in 1 .. 2 |-> Step(symbols, modules)], 100 * Cardinality(Advice), Advice # {}, FALSE)

ContextBuilder(r) ==
  LET scope == Step({c.name : c \in Range(Ranked)}, {c.module : c \in Range(Ranked)})
  IN TaskPlan("context-builder", <<scope, scope>>, 50 * Len(Ranked), Ranked # <<>>, TRUE)

ExecutionPlanner(r) ==
  LET symbols == Listed(r.symbols)
      modules == Listed(r.files)
      total == Len(symbols) + Len(modules)
  IN TaskPlan("execution-planner", [i \in 1 .. 5 |-> Step(Range(symbols), Range(modules))], 100 * total, total > 0, FALSE)

PlanOf(task, r) ==
  CASE task = "review-pull-request" -> ReviewPullRequest(r)
    [] task = "investigate-bug" -> InvestigateBug(r)
    [] task = "impact-analysis" -> ImpactAnalysis(r)
    [] task = "diagnostics" -> Diagnostics(r)
    [] task = "architecture-review" -> ArchitectureReview(r)
    [] task = "refactoring-advisor" -> RefactoringAdvisor(r)
    [] task = "context-builder" -> ContextBuilder(r)
    [] task = "execution-planner" -> ExecutionPlanner(r)

-----------------------------------------------------------------------------
(* The workflows *)

Node(id, task, deps) == [id |-> id, task |-> task, deps |-> deps]

\* A node whose class does not exist has the task Invalid.
PullRequestReview ==
  <<Node("repository-search", "review-pull-request", {}),
    Node("architecture-review", "architecture-review", {"repository-search"}),
    Node("diagnostics", "diagnostics", {"repository-search"}),
    Node("impact-analysis", "impact-analysis", {"repository-search"}),
    Node("refactoring-advisor", "refactoring-advisor", {"architecture-review", "diagnostics", "impact-analysis"}),
    Node("context-builder", "context-builder", {"refactoring-advisor"}),
    Node("execution-planner", "execution-planner", {"context-builder"})>>

BugInvestigation ==
  <<Node("repository-search", "investigate-bug", {}),
    Node("architecture-review", "architecture-review", {"repository-search"}),
    Node("diagnostics", "diagnostics", {"repository-search"}),
    Node("impact-analysis", "impact-analysis", {"repository-search"}),
    Node("cross-reference", "review-pull-request", {"architecture-review", "diagnostics", "impact-analysis"}),
    Node("context-builder", "context-builder", {"cross-reference"})>>

ImplementFeature ==
  <<Node("architecture-review", "architecture-review", {}), Node("impact-analysis", "impact-analysis", {"architecture-review"}),
    Node("implementation-task", Invalid, {"impact-analysis"})>>

Refactor ==
  <<Node("impact-analysis", "impact-analysis", {}), Node("refactoring-advisor", "refactoring-advisor", {"impact-analysis"}),
    Node("refactor-task", Invalid, {"refactoring-advisor"})>>

Review ==
  <<Node("architecture-review", "architecture-review", {}), Node("diagnostics", "diagnostics", {"architecture-review"}),
    Node("review-task", Invalid, {"diagnostics"})>>

Workflows == {PullRequestReview, BugInvestigation, ImplementFeature, Refactor, Review}

-----------------------------------------------------------------------------
(* Planning a workflow *)

Init == /\ workflow \in Workflows /\ asked \in Requests
        /\ progress = "requested" /\ planned = <<>> /\ fault = Unset

Raise(error) == progress' = "raised" /\ fault' = error

Resolvable == \A i \in DOMAIN workflow : workflow[i].task # Invalid

Refuse ==
  /\ progress = "requested" /\ (~asked.query \/ ~Resolvable)
  /\ Raise(IF asked.query THEN "ModuleNotFoundError" ELSE "ValueError")
  /\ UNCHANGED <<workflow, asked, planned>>

Resolve ==
  /\ progress = "requested" /\ asked.query /\ Resolvable
  /\ progress' = "planning"
  /\ UNCHANGED <<workflow, asked, planned, fault>>

Done == {p.id : p \in Range(planned)}

Ready == {i \in DOMAIN workflow : workflow[i].id \notin Done /\ workflow[i].deps \subseteq Done}

PlanNode ==
  /\ progress = "planning"
  /\ \E i \in Ready :
       /\ \A j \in Ready : i <= j
       /\ planned' = Append(planned, [id |-> workflow[i].id, plan |-> PlanOf(workflow[i].task, asked)])
  /\ UNCHANGED <<workflow, asked, progress, fault>>

\* What the context builder returns is no package with a query.
Merge ==
  /\ progress = "planning" /\ Ready = {}
  /\ IF \E i \in DOMAIN planned : planned[i].plan.package THEN Raise("AttributeError")
     ELSE progress' = "planned" /\ UNCHANGED fault
  /\ UNCHANGED <<workflow, asked, planned>>

Next == Refuse \/ Resolve \/ PlanNode \/ Merge

Spec == Init /\ [][Next]_vars

-----------------------------------------------------------------------------
(* Properties *)

TypeOK == /\ progress \in {"requested", "planning", "planned", "raised"}
          /\ Len(planned) <= Len(workflow)

Plans(task) == {p.plan : p \in {q \in Range(planned) : q.plan.task = task}}
SymbolsOf(plan) == UNION {s.symbols : s \in Range(plan.steps)}
ModulesOf(plan) == UNION {s.modules : s \in Range(plan.steps)}

\* Each node plans once, after the nodes it depends on, and whatever it finds
\* has its price: a plan is of medium complexity if and only if it takes tokens.
OrderAndWeight ==
  \A i \in DOMAIN planned :
    /\ \A w \in Range(workflow) : w.id = planned[i].id => w.deps \subseteq {planned[j].id : j \in 1 .. i - 1}
    /\ (planned[i].plan.complexity = "MEDIUM") = (planned[i].plan.tokens > 0)

\* The tasks of one workflow speak of the same change, though each reads the
\* options for itself: what is reviewed is in the index and is what the impact
\* was analyzed of, and a cross-reference stays within the investigation.
TasksAgree ==
  \A p \in Plans("review-pull-request") :
    /\ \A s \in SymbolsOf(p) : Found(s)
    /\ ModulesOf(p) \subseteq Indexed
    /\ \A q \in Plans("impact-analysis") : SymbolsOf(p) = {s \in SymbolsOf(q) : Found(s)}
    /\ \A q \in Plans("investigate-bug") \cup Plans("execution-planner") :
         SymbolsOf(p) \subseteq SymbolsOf(q) /\ ModulesOf(p) \subseteq ModulesOf(q)

\* Both.
PlansAreGrounded == TypeOK /\ OrderAndWeight /\ TasksAgree

\* Every shipped workflow can be planned (the docstring of WorkflowEngine). It
\* does not hold: three name classes that do not exist, and the merger of the
\* other two reads an attribute the context builder's result does not have.
WorkflowsPlan == progress # "raised" \/ ~asked.query
=============================================================================
