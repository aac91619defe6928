--------------------------- MODULE RepositoryReview ---------------------------
(***************************************************************************)
(* What is said of a repository: the analyzers of DiagnosticsEngine and     *)
(* their merge (packages/repository/diagnostics), the ArchitectureAnalyzer  *)
(* (packages/architecture) and the RefactoringAdvisor (packages/advisors),  *)
(* one after the other on one index.                                        *)
(*                                                                          *)
(* Abstractions: names of symbols and modules are numbers in their order;   *)
(* findings are sets, and sequences where their order is chosen; averages   *)
(* are compared as fractions and confidences are in hundredths. An index    *)
(* has no relations of type IMPORTS, as the extractors make none.           *)
(***************************************************************************)
EXTENDS Integers, Sequences, SequencesExt, FiniteSets, FiniteSetsExt

CONSTANTS
  Indexes,          \* [modules: set, symbols: set, rels: set]
  RootModules,      \* modules outside any package
  InitModules,      \* the __init__.py of packages
  LargeModule,      \* symbols of a large module, to the diagnostics
  HugeModule,       \* and to the advisor
  ManyDependencies, \* relations that are not yet excessive
  None

ReviewAssumption ==
  /\ LargeModule \in Nat /\ HugeModule \in Nat /\ ManyDependencies \in Nat
  /\ LargeModule <= HugeModule

VARIABLES
  inspected,   \* the index
  remaining,     \* the analyzers registered that have not run
  diagnosis,   \* their merged findings
  overview,    \* the review of the architecture
  advice       \* the report of the advisor

vars == <<inspected, remaining, diagnosis, overview, advice>>

SymbolsIn(repo, m) == {s \in repo.symbols : s.module = m}
Calls(repo) == {r \in repo.rels : r.type = "CALLS"}
Callable(repo) == {s \in repo.symbols : s.kind \in {"function", "method"}}
Ends(rels) == {r.source : r \in rels} \cup {r.target : r \in rels}
Sorted(S) == [i \in 1 .. Cardinality(S) |-> CHOOSE x \in S : Cardinality({y \in S : y < x}) = i - 1]

-----------------------------------------------------------------------------
(* The analyzers *)

\* A main() of a root module and abstract methods are excused; the others are
\* dead if no call starts or ends at them.
DeadCode(repo) ==
  {s.name : s \in {t \in Callable(repo) : /\ ~(t.main /\ t.module \in RootModules) /\ ~t.abstract
                                         /\ t.name \notin Ends(Calls(repo))}}

OrphanModules(repo) == repo.modules \ (InitModules \cup RootModules)

LargeModules(repo) == {m \in repo.modules : Cardinality(SymbolsIn(repo, m)) >= LargeModule}

Nodes(repo) == {s.name : s \in Callable(repo)} \cup Ends(Calls(repo))

\* All that is reached from n, whichever way the calls go.
Component(rels, n) ==
  LET far[k \in Nat] ==
        IF k = 0 THEN {n}
        ELSE LET near == far[k - 1]
             IN near \cup {r.target : r \in {q \in rels : q.source \in near}}
                     \cup {r.source : r \in {q \in rels : q.target \in near}}
  IN far[Cardinality(rels)]

ConnectedComponents(repo) == Cardinality({Component(Calls(repo), n) : n \in Nodes(repo)})

\* _dfs: a callee seen before adds nothing, even if it is finished.
RECURSIVE Dfs(_, _, _)
Dfs(rels, node, s) ==
  LET callees == Sorted({r.target : r \in {q \in rels : q.source = node}})
      Visit(t, n) == IF t.color[n] # "white" THEN t
                     ELSE LET u == Dfs(rels, n, t) IN [u EXCEPT !.memo[node] = Max({@, 1 + u.memo[n]})]
      walked == FoldLeft(Visit, [s EXCEPT !.color[node] = "gray"], callees)
  IN [walked EXCEPT !.color[node] = "black"]

\* Mutant: the start counts.
DepthInNodes(repo) ==
  LET nodes == Nodes(repo)
      white == [color |-> [n \in nodes |-> "white"], memo |-> [n \in nodes |-> 0]]
      black == FoldLeft(LAMBDA s, n : IF s.color[n] = "white" THEN Dfs(Calls(repo), n, s) ELSE s, white, Sorted(nodes))
  IN Max({black.memo[n] + 1 : n \in nodes} \cup {0})

MaxCallDepth(repo) ==
  LET nodes == Nodes(repo)
      white == [color |-> [n \in nodes |-> "white"], memo |-> [n \in nodes |-> 0]]
      black == FoldLeft(LAMBDA s, n : IF s.color[n] = "white" THEN Dfs(Calls(repo), n, s) ELSE s, white, Sorted(nodes))
  IN Max({black.memo[n] : n \in nodes} \cup {0})

\* The first of the largest.
LargestModule(repo) ==
  LET Size(m) == Cardinality(SymbolsIn(repo, m))
      most == Max({Size(m) : m \in repo.modules} \cup {0})
  IN IF most = 0 THEN None ELSE Min({m \in repo.modules : Size(m) = most})

NoFindings == [dead |-> {}, orphans |-> {}, large |-> {}, largest |-> None, components |-> 0, depth |-> 0]

Analyzers == {"dead_code", "orphan", "large_modules", "module_statistics", "graph_statistics"}

Findings(analyzer, repo) ==
  CASE analyzer = "dead_code" -> [NoFindings EXCEPT !.dead = DeadCode(repo)]
    [] analyzer = "orphan" -> [NoFindings EXCEPT !.orphans = OrphanModules(repo)]
    [] analyzer = "large_modules" -> [NoFindings EXCEPT !.large = LargeModules(repo)]
    [] analyzer = "module_statistics" -> [NoFindings EXCEPT !.largest = LargestModule(repo)]
    [] analyzer = "graph_statistics" -> [NoFindings EXCEPT !.components = ConnectedComponents(repo), !.depth = MaxCallDepth(repo)]

\* Mutant: the statistics are those of the analyzer that ran last.
MergeLast(d, f) ==
  [dead |-> d.dead \cup f.dead, orphans |-> d.orphans \cup f.orphans, large |-> d.large \cup f.large,
   largest |-> f.largest, components |-> f.components, depth |-> f.depth]

\* Statistics replace earlier ones if they are of something.
Merge(d, f) ==
  [dead |-> d.dead \cup f.dead, orphans |-> d.orphans \cup f.orphans, large |-> d.large \cup f.large,
   largest |-> IF f.largest # None THEN f.largest ELSE d.largest,
   components |-> IF f.components > 0 THEN f.components ELSE d.components,
   depth |-> IF f.components > 0 THEN f.depth ELSE d.depth]

-----------------------------------------------------------------------------
(* The architecture *)

Outgoing(repo, m) == Cardinality({r \in repo.rels : r.source \in {s.name : s \in SymbolsIn(repo, m)}})
Incoming(repo, m) == Cardinality({r \in repo.rels : r.target \in {s.name : s \in SymbolsIn(repo, m)}})
Connections(repo, m) == Outgoing(repo, m) + Incoming(repo, m)
AllConnections(repo) == MapThenSumSet(LAMBDA m : Connections(repo, m), repo.modules)

\* Relations count both ways, so that every two names that are related are
\* reported as a cycle, whether or not they depend on each other in a circle.
RECURSIVE CyclesFrom(_, _, _, _)
CyclesFrom(rels, node, path, s) ==
  LET around == Sorted({r.target : r \in {q \in rels : q.source = node}} \cup {r.source : r \in {q \in rels : q.target = node}})
      closed == SubSeq(path, CHOOSE i \in DOMAIN path : path[i] = node, Len(path))
  IN IF node \in Range(path)
     THEN [s EXCEPT !.cycles = IF Len(closed) >= 2 THEN @ \cup {Range(closed)} ELSE @]
     ELSE IF node \in s.visited THEN s
     ELSE LET walked == FoldLeft(LAMBDA t, n : CyclesFrom(rels, n, Append(path, node), t), s, around)
          IN [walked EXCEPT !.visited = @ \cup {node}]

\* Mutant: the walk begins at one name only.
DependencyCyclesOfOne(repo) ==
  FoldLeft(LAMBDA s, n : CyclesFrom(repo.rels, n, <<>>, s),
           [visited |-> {}, cycles |-> {}], SubSeq(Sorted(Ends(repo.rels)), 1, 1)).cycles

DependencyCycles(repo) ==
  FoldLeft(LAMBDA s, n : IF n \in s.visited THEN s ELSE CyclesFrom(repo.rels, n, <<>>, s),
           [visited |-> {}, cycles |-> {}], Sorted(Ends(repo.rels))).cycles

\* More connections than the average, and two at least.
HighCoupling(repo) ==
  LET many == {m \in repo.modules : /\ Connections(repo, m) * Cardinality(repo.modules) > AllConnections(repo)
                                    /\ Connections(repo, m) >= 2}
  IN SetToSortSeq(many, LAMBDA a, b : \/ Connections(repo, a) > Connections(repo, b)
                                      \/ Connections(repo, a) = Connections(repo, b) /\ a < b)

Overview(repo) ==
  [cycles |-> DependencyCycles(repo), orphans |-> repo.modules \ Ends(repo.rels), coupled |-> HighCoupling(repo)]

-----------------------------------------------------------------------------
(* The advisor *)

BaseScore == [HIGH_COUPLING |-> 80, LARGE_MODULE |-> 70, DEAD_CODE |-> 90, ORPHAN_MODULE |-> 85, EXCESSIVE_DEPENDENCIES |-> 75]

Confidence(category, evidence, completeness) ==
  LET factor == CASE evidence >= 3 -> 10 [] evidence = 2 -> 9 [] evidence = 1 -> 8 [] OTHER -> 5
  IN (BaseScore[category] * factor * completeness + 50) \div 100

Opportunity(category, severity, module, symbols, evidence, completeness) ==
  [category |-> category, severity |-> severity, module |-> module, symbols |-> symbols,
   confidence |-> Confidence(category, evidence, completeness)]

\* One and a half times the average.
FindHighCoupling(repo) ==
  {Opportunity("HIGH_COUPLING", "high", m, {s.name : s \in SymbolsIn(repo, m)}, 2, 10) :
     m \in {n \in repo.modules : /\ Connections(repo, n) * Cardinality(repo.modules) * 2 > AllConnections(repo) * 3
                                 /\ Connections(repo, n) >= 2}}

FindLargeModules(repo) ==
  {Opportunity("LARGE_MODULE", "medium", m, {s.name : s \in SymbolsIn(repo, m)}, 1, 9) :
     m \in {n \in repo.modules : Cardinality(SymbolsIn(repo, n)) >= HugeModule}}

FindDeadCode(repo, d) ==
  {Opportunity("DEAD_CODE", "high", m, {s.name : s \in SymbolsIn(repo, m)} \cap d.dead,
               1 + Min({5, Cardinality({s.name : s \in SymbolsIn(repo, m)} \cap d.dead)}), 10) :
     m \in {s.module : s \in {t \in repo.symbols : t.name \in d.dead}}}

FindOrphanModules(d) == {Opportunity("ORPHAN_MODULE", "medium", m, {}, 1, 10) : m \in d.orphans}

\* A source that is no symbol stands for its module.
FindExcessiveDependencies(repo) ==
  LET ModuleOf(n) == IF \E s \in repo.symbols : s.name = n THEN (CHOOSE s \in repo.symbols : s.name = n).module ELSE n
  IN {Opportunity("EXCESSIVE_DEPENDENCIES", "medium", ModuleOf(n), {n}, 1, 9) :
        n \in {m \in Ends(repo.rels) : Cardinality({r \in repo.rels : r.source = m}) > ManyDependencies}}

\* Mutant: nothing is left out.
EachOpportunity(found) == found

\* Of one category and module the most confident, and the first of those.
Deduplicate(found) ==
  {o \in found :
     \A p \in found : p.category = o.category /\ p.module = o.module /\ p # o =>
       \/ o.confidence > p.confidence
       \/ o.confidence = p.confidence /\ Min(o.symbols) < Min(p.symbols)}

\* The diagnostics it asks for are those of an engine without analyzers.
Report(repo) ==
  LET found == FindHighCoupling(repo) \cup FindLargeModules(repo) \cup FindDeadCode(repo, NoFindings)
               \cup FindOrphanModules(NoFindings) \cup FindExcessiveDependencies(repo)
      kept == Deduplicate(found)
  IN [opportunities |-> kept, found |-> Cardinality(found), total |-> Cardinality(kept),
      high |-> Cardinality({o \in kept : o.severity = "high"}), medium |-> Cardinality({o \in kept : o.severity = "medium"})]

-----------------------------------------------------------------------------
(* The steps *)

Init == /\ inspected \in Indexes
        /\ remaining = Analyzers /\ diagnosis = NoFindings /\ overview = None /\ advice = None

\* Analyzers run in the order they are registered in, which may be any.
Analyze ==
  /\ \E a \in remaining : /\ diagnosis' = Merge(diagnosis, Findings(a, inspected))
                        /\ remaining' = remaining \ {a}
  /\ UNCHANGED <<inspected, overview, advice>>

ReviewArchitecture ==
  /\ remaining = {} /\ overview = None
  /\ overview' = Overview(inspected)
  /\ UNCHANGED <<inspected, remaining, diagnosis, advice>>

Advise ==
  /\ overview # None /\ advice = None
  /\ advice' = Report(inspected)
  /\ UNCHANGED <<inspected, remaining, diagnosis, overview>>

Next == Analyze \/ ReviewArchitecture \/ Advise

Spec == Init /\ [][Next]_vars

-----------------------------------------------------------------------------
(* Properties *)

TypeOK == remaining \subseteq Analyzers /\ diagnosis.components \in Nat /\ diagnosis.depth \in Nat

\* The merge does not depend on the order of the analyzers: what one of them
\* found is in the result as it found it.
OrderDoesNotMatter ==
  \A a \in Analyzers \ remaining : Merge(diagnosis, Findings(a, inspected)) = diagnosis

\* Chains of calls between different functions.
Chains(rels) == {p \in SeqOf(Ends(rels), Cardinality(Ends(rels))) :
                   /\ p # <<>> /\ \A i, j \in DOMAIN p : i # j => p[i] # p[j]
                   /\ \A i \in 1 .. Len(p) - 1 : \E r \in rels : r.source = p[i] /\ r.target = p[i + 1]}

\* The statistics of the call graph are not made up: there is a chain of calls
\* as long as the depth, and what is dead is a component of its own.
GraphIsMeasured ==
  remaining = {} =>
    /\ diagnosis.depth > 0 => \E p \in Chains(Calls(inspected)) : Len(p) = diagnosis.depth + 1
    /\ Cardinality(diagnosis.dead) <= diagnosis.components
    /\ diagnosis.components <= Cardinality(Nodes(inspected))

\* What a name depends on, directly or through others.
DependsOn(rels, name) ==
  LET within[k \in Nat] ==
        LET nearer == IF k = 0 THEN {name} ELSE within[k - 1]
        IN (IF k = 0 THEN {} ELSE nearer) \cup {r.target : r \in {q \in rels : q.source \in nearer}}
  IN within[Cardinality(Ends(rels))]

\* No circle is missed: two names that depend on each other, one of them
\* directly, are in a cycle reported; and the names of a cycle reported are
\* connected. (That they depend on each other is not said: see CyclesFrom.)
NoCircleIsMissed ==
  overview # None =>
    /\ \A r \in inspected.rels : r.source # r.target /\ r.source \in DependsOn(inspected.rels, r.target) =>
         \E c \in overview.cycles : {r.source, r.target} \subseteq c
    /\ \A c \in overview.cycles : \A n \in c : c \subseteq Component(inspected.rels, n)

\* The reports agree: what the advisor calls coupled or large the review and
\* the diagnostics do too, and a module is listed once for a reason.
ReportsAgree ==
  advice # None =>
    /\ \A o \in advice.opportunities :
         /\ o.category = "HIGH_COUPLING" => o.module \in Range(overview.coupled)
         /\ o.category = "LARGE_MODULE" => o.module \in diagnosis.large
         /\ \A p \in advice.opportunities : p.category = o.category /\ p.module = o.module => p = o
    /\ advice.high + advice.medium = advice.total /\ advice.total <= advice.found

\* All of it.
ReviewIsSound == TypeOK /\ OrderDoesNotMatter /\ GraphIsMeasured /\ NoCircleIsMissed /\ ReportsAgree

\* The depth is that of the longest chain of calls (maximum_call_depth). It does
\* not hold: a caller whose callee was visited before it counts as a leaf.
DepthIsLongest == remaining = {} => \A p \in Chains(Calls(inspected)) : Len(p) <= diagnosis.depth + 1
=============================================================================
