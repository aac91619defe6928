--------------------------- MODULE DependencyGraph ---------------------------
(***************************************************************************)
(* packages/repository/dependencies: the graph built from the index, and    *)
(* its bounded traversal in either direction, one node of the queue a step. *)
(*                                                                          *)
(* Abstractions: names are numbers in their sorted order.                   *)
(***************************************************************************)
EXTENDS Integers, Sequences, SequencesExt, FiniteSets, FiniteSetsExt

CONSTANTS
  Query   \* [symbols, rels, start, towards, depth]: an index, and the traversal asked for

Unlimited == -1

GraphAssumption ==
  \A q \in Query : /\ q.start \in q.symbols /\ q.towards \in {"dependencies", "dependents"}
                   /\ q.depth \in Nat \cup {Unlimited}

VARIABLES
  query,    \* the index, and the arguments of the traversal
  edges,    \* the edges of the graph
  queue,    \* the names to expand, with their distance
  reached   \* the names queued so far

vars == <<query, edges, queue, reached>>

\* DependencyGraphBuilder.build: relationships of an edge type between symbols
\* that are both indexed, without their duplicates.
EdgeTypes == {"CALLS", "IMPORTS", "INHERITS", "DEFINES"}
Edges(q) ==
  {[source |-> r.source, target |-> r.target] :
     r \in {s \in q.rels : s.type \in EdgeTypes /\ s.source \in q.symbols /\ s.target \in q.symbols}}

Init == /\ query \in Query
        /\ edges = Edges(query)
        /\ queue = <<[name |-> query.start, distance |-> 0]>>
        /\ reached = {query.start}

\* The adjacency list of n, sorted.
Neighbours(n) ==
  IF query.towards = "dependencies" THEN {e.target : e \in {f \in edges : f.source = n}}
                                    ELSE {e.source : e \in {f \in edges : f.target = n}}

Entry(n, distance) == [name |-> n, distance |-> distance]

\* _bfs_traversal, at one name: the neighbours to queue, sorted, within the
\* depth only.
Batch ==
  LET head == Head(queue)
      within == query.depth = Unlimited \/ head.distance < query.depth
      found == {n \in Neighbours(head.name) : within /\ n \notin reached}
  IN [i \in 1 .. Cardinality(found) |->
        Entry(SetToSortSeq(found, LAMBDA m, n : m < n)[i], head.distance + 1)]

Marked == reached \cup {Batch[i].name : i \in DOMAIN Batch}

\* A plausible bug: a stack where a queue belongs.
ExpandDepthFirst ==
  /\ queue # <<>>
  /\ queue' = Batch \o Tail(queue)
  /\ reached' = Marked
  /\ UNCHANGED <<query, edges>>

\* A plausible bug: marked when expanded, not when queued.
ExpandMarkingLate ==
  /\ queue # <<>>
  /\ queue' = Tail(queue) \o Batch
  /\ reached' = reached \cup {Head(queue).name}
  /\ UNCHANGED <<query, edges>>

\* Marked when queued.
Expand ==
  /\ queue # <<>>
  /\ queue' = Tail(queue) \o Batch
  /\ reached' = Marked
  /\ UNCHANGED <<query, edges>>

Next == Expand

Spec == Init /\ [][Next]_vars

\* transitive_dependencies, transitive_dependents: what is returned.
Returned == queue = <<>>
Result == reached \ {query.start}

-----------------------------------------------------------------------------
(* Properties *)

\* The variables range over what graph.py can put in them.
TypeOK ==
  /\ query \in Query /\ edges = Edges(query)
  /\ reached \subseteq query.symbols
  /\ \A i \in DOMAIN queue : queue[i].name \in reached

\* The names at most k edges away.
Within(k) ==
  LET ball[i \in 0 .. k] ==
        IF i = 0 THEN {query.start} ELSE ball[i - 1] \cup UNION {Neighbours(n) : n \in ball[i - 1]}
  IN ball[k]

\* A traversal with a depth returns exactly what is that many edges away or
\* fewer, whatever cycles and shortcuts there are: a name marked on a long way
\* round would hide what lies behind it.
TraversalIsExact ==
  Returned => Result = Within(IF query.depth = Unlimited THEN Cardinality(query.symbols)
                                                         ELSE query.depth) \ {query.start}

\* The queue is in order of distance, without names twice.
QueueIsOrdered ==
  \A i, j \in DOMAIN queue :
    i < j => /\ queue[i].distance <= queue[j].distance /\ queue[j].distance <= queue[1].distance + 1
             /\ queue[i].name # queue[j].name

GraphIsWalked == TypeOK /\ TraversalIsExact /\ QueueIsOrdered
=============================================================================
