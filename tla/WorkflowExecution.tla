--------------------------- MODULE WorkflowExecution ---------------------------
(***************************************************************************)
(* From a workflow to the report of its execution: WorkflowGraph validates  *)
(* the nodes and sorts them (packages/workflows), WorkflowEngine turns the  *)
(* order into steps with a task plan each, ExecutionEngine runs the steps   *)
(* through an adapter until one fails, and ExecutionPlanner flattens the    *)
(* same plan into execution steps (packages/execution).                     *)
(*                                                                          *)
(* Abstractions: a node id is a number, in the order of its name; a task    *)
(* plan is the task it was made by; what an adapter does in a step is its   *)
(* outcome, an exception included.                                          *)
(***************************************************************************)
EXTENDS Integers, Sequences, FiniteSets, Functions

CONSTANTS
  Task,          \* task names
  Workflows,     \* the workflows executed: sequences of nodes
  StepsOf,       \* how many steps the plan of a task has
  StepInName     \* {<<task, id>>}: the name of the task contains "step-<id>"

Nodes == [id : Nat, task : Task, deps : SUBSET Nat]

WorkflowAssumption ==
  /\ Workflows \subseteq Seq(Nodes)
  /\ StepsOf \in [Task -> Nat]
  /\ StepInName \subseteq Task \X Nat

VARIABLES
  nodes,      \* the workflow
  phase,      \* "validate", "sort", "run"; "reported" or "raised" at the end
  indegree,   \* of each node: dependencies that are not sorted yet
  queue,      \* nodes whose dependencies are sorted, by name
  order,      \* the nodes in the order of their steps
  results     \* the step results: the node and whether its step failed

vars == <<nodes, phase, indegree, queue, order, results>>

Ids == {nodes[i].id : i \in DOMAIN nodes}
NodeOf(id) == nodes[CHOOSE i \in DOMAIN nodes : nodes[i].id = id]
Dependents(id) == {n \in Ids : id \in NodeOf(n).deps}

Init == /\ nodes \in Workflows
        /\ phase = "validate"
        /\ indegree = <<>> /\ queue = <<>> /\ order = <<>> /\ results = <<>>

-----------------------------------------------------------------------------
(* WorkflowGraph *)

\* get_transitive_dependencies: the least set with what the node and everything
\* in the set depends on.
Needed(ids) == {m \in Ids : \E n \in ids : m \in NodeOf(n).deps}
DependenciesOf(id) == {m \in Ids : \A s \in SUBSET Ids : Needed({id} \cup s) \subseteq s => m \in s}

\* Mutant: a node that depends on itself is no cycle.
ValidUpToSelf ==
  /\ Cardinality(Ids) = Len(nodes)
  /\ \A i \in DOMAIN nodes : nodes[i].deps \subseteq Ids
  /\ \A n \in Ids : \A m \in DependenciesOf(n) \ {n} : n \notin DependenciesOf(m)

\* validate: no id twice, no unknown dependency, no cycle. What is left to
\* _check_unreachable_nodes is nothing: without a cycle, a chain of
\* dependencies ends in a root.
Valid ==
  /\ Cardinality(Ids) = Len(nodes)
  /\ \A i \in DOMAIN nodes : nodes[i].deps \subseteq Ids
  /\ \A n \in Ids : n \notin DependenciesOf(n)

Sorted(ids) ==
  CHOOSE s \in [1 .. Cardinality(ids) -> ids] : \A i, j \in 1 .. Cardinality(ids) : i < j => s[i] < s[j]

Validate ==
  /\ phase = "validate"
  /\ IF Valid /\ nodes # <<>>
     THEN /\ phase' = "sort"
          /\ indegree' = [n \in Ids |-> Cardinality(NodeOf(n).deps)]
          /\ queue' = Sorted({n \in Ids : NodeOf(n).deps = {}})
     ELSE /\ phase' = "raised"
          /\ UNCHANGED <<indegree, queue>>
  /\ UNCHANGED <<nodes, order, results>>

\* Mutant: a node is released by the first of its dependencies.
ReleasedEarly(id) == {n \in Dependents(id) : n \notin Range(queue) \cup Range(order)}

\* The dependents whose last unsorted dependency is the node.
Released(id) == {n \in Dependents(id) : indegree[n] = 1}

\* Mutant: what is released goes to the end of the queue.
EnqueuedLast(ids) == Tail(queue) \o Sorted(ids)

\* _insert_sorted of each
Enqueued(ids) == Sorted(Range(Tail(queue)) \cup ids)

\* Mutant: the node stays in the queue.
SortNodeKept ==
  /\ phase = "sort" /\ queue # <<>>
  /\ order' = Append(order, Head(queue))
  /\ queue' = Sorted(Range(queue) \cup Released(Head(queue)))
  /\ indegree' = [n \in Ids |-> IF n \in Dependents(Head(queue)) THEN indegree[n] - 1 ELSE indegree[n]]
  /\ UNCHANGED <<nodes, phase, results>>

\* One turn of topological_sort; generate_plan makes the node a step.
SortNode ==
  /\ phase = "sort" /\ queue # <<>>
  /\ order' = Append(order, Head(queue))
  /\ queue' = Enqueued(Released(Head(queue)))
  /\ indegree' = [n \in Ids |-> IF n \in Dependents(Head(queue)) THEN indegree[n] - 1 ELSE indegree[n]]
  /\ UNCHANGED <<nodes, phase, results>>

Sorting == /\ phase = "sort" /\ queue = <<>>
           /\ phase' = "run"
           /\ UNCHANGED <<nodes, indegree, queue, order, results>>

\* Mutant: a node is in the layer after that of any of its dependencies.
ReadyEarly(before) == {n \in Ids : NodeOf(n).deps = {} \/ NodeOf(n).deps \cap before # {}}

Ready(before) == {n \in Ids : NodeOf(n).deps \subseteq before}

\* get_execution_layers: the nodes of the first k layers, and the k-th layer.
FirstLayers(k) ==
  LET upTo[l \in 0 .. Len(nodes)] == IF l = 0 THEN {} ELSE upTo[l - 1] \cup Ready(upTo[l - 1]) IN upTo[k]

Layer(k) == FirstLayers(k) \ FirstLayers(k - 1)

-----------------------------------------------------------------------------
(* ExecutionEngine *)

\* Mutant: a failed step does not end the loop.
StepOn(outcome) ==
  /\ phase = "run" /\ Len(results) < Len(order)
  /\ IF outcome = "raises"
     THEN phase' = "raised" /\ UNCHANGED results
     ELSE /\ results' = Append(results, [id |-> order[Len(results) + 1], failed |-> outcome = "FAILED"])
          /\ phase' = IF Len(results') = Len(order) THEN "reported" ELSE "run"
  /\ UNCHANGED <<nodes, indegree, queue, order>>

\* The next step, with the first task plan of its task's name - there is one,
\* made by the same task. An exception of the adapter is the caller's.
Step(outcome) ==
  /\ phase = "run" /\ Len(results) < Len(order)
  /\ IF outcome = "raises"
     THEN phase' = "raised" /\ UNCHANGED results
     ELSE /\ results' = Append(results, [id |-> order[Len(results) + 1], failed |-> outcome = "FAILED"])
          /\ phase' = IF outcome = "FAILED" \/ Len(results') = Len(order) THEN "reported" ELSE "run"
  /\ UNCHANGED <<nodes, indegree, queue, order>>

\* What the report says: execution_status and success.
Success == \A i \in DOMAIN results : ~results[i].failed

Next == \/ Validate \/ SortNode \/ Sorting
        \/ \E outcome \in {"COMPLETED", "FAILED", "raises"} : Step(outcome)

Spec == Init /\ [][Next]_vars

-----------------------------------------------------------------------------
(* ExecutionPlanner *)

\* _find_task_plan, which compares the id of the step with the names of the
\* tasks: the position in order of the first plan it finds, or 0.
PlanFound(id) ==
  LET named == {i \in DOMAIN order : <<NodeOf(order[i]).task, id>> \in StepInName} IN
  IF named = {} THEN 0 ELSE CHOOSE i \in named : \A j \in named : i <= j

\* _flatten_task_plans: the steps of the plans found, numbered from 0.
ExecutionSteps ==
  LET PlanSteps(id) ==
        IF PlanFound(id) = 0 THEN <<>>
        ELSE LET task == NodeOf(order[PlanFound(id)]).task IN [k \in 1 .. StepsOf[task] |-> <<task, k>>]
      upTo[i \in 0 .. Len(order)] == IF i = 0 THEN <<>> ELSE upTo[i - 1] \o PlanSteps(order[i])
  IN upTo[Len(order)]

-----------------------------------------------------------------------------
(* Properties *)

\* Types, and what is queued, sorted and run at each point.
TypeOK ==
  /\ nodes \in Seq(Nodes)
  /\ phase \in {"validate", "sort", "run", "reported", "raised"}
  /\ phase \in {"sort", "run", "reported"} => indegree \in [Ids -> Nat]
  /\ Range(queue) \cap Range(order) = {} /\ Range(queue) \cup Range(order) \subseteq Ids
  /\ Len(results) <= Len(order)
  /\ phase \notin {"run", "reported"} => phase = "raised" \/ results = <<>>

\* The engine gets past a workflow that Kahn's algorithm cannot sort only by
\* refusing it: every node of an accepted workflow becomes a step, once, after
\* all the nodes it depends on.
Before(i) == {order[j] : j \in 1 .. i - 1}
EveryNodeInOrder ==
  phase \in {"run", "reported"} =>
    /\ Len(order) = Len(nodes) /\ Range(order) = Ids
    /\ \A i \in DOMAIN order : NodeOf(order[i]).deps \subseteq Before(i)

\* The order is deterministic, and the one a reader of the names expects: each
\* step is the first by name of those that could have come next.
FirstByName ==
  \A i \in DOMAIN order :
    \A n \in Ids \ Before(i + 1) : NodeOf(n).deps \subseteq Before(i) => order[i] < n

\* A layer can run in parallel: the layers hold every node, none with one it
\* depends on, and none later than it has to be.
LayersAreParallel ==
  phase = "run" =>
    /\ FirstLayers(Len(nodes)) = Ids
    /\ \A k \in 1 .. Len(nodes) : \A n \in Layer(k) :
         /\ DependenciesOf(n) \subseteq FirstLayers(k - 1)
         /\ k > 1 => NodeOf(n).deps \cap Layer(k - 1) # {}

\* A step has run only when every step its node depends on has succeeded; a
\* report of success covers every node, one of failure ends with the failure.
FailureStopsTheRest ==
  /\ \A i \in DOMAIN results : \A d \in DependenciesOf(results[i].id) :
       \E j \in 1 .. i - 1 : results[j].id = d /\ ~results[j].failed
  /\ phase = "reported" =>
       IF Success THEN {results[i].id : i \in DOMAIN results} = Ids
       ELSE \A i \in DOMAIN results : results[i].failed = (i = Len(results))

\* "It flattens all TaskPlan steps from the workflow into a single ordered list
\* of ExecutionSteps."
PlannerFlattensAll ==
  phase = "reported" =>
    \A n \in Ids : \A k \in 1 .. StepsOf[NodeOf(n).task] :
      <<NodeOf(n).task, k>> \in Range(ExecutionSteps)

\* Steps run in an order that respects the graph, as far as they succeed.
StepsAreOrdered ==
  TypeOK /\ EveryNodeInOrder /\ FirstByName /\ LayersAreParallel /\ FailureStopsTheRest
=============================================================================
