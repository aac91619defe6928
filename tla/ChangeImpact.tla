---------------------------- MODULE ChangeImpact ----------------------------
(***************************************************************************)
(* packages/repository/impact/analyzer.py: what a change of some symbols    *)
(* reaches, by one breadth-first traversal per root, relationship type and  *)
(* direction, all of which write into one dictionary.                       *)
(*                                                                          *)
(* Abstractions: a traversal takes one step per distance, since what its    *)
(* queue holds at one distance may be taken in any order; the confidence    *)
(* is left out.                                                             *)
(***************************************************************************)
EXTENDS Integers, Sequences, SequencesExt, FiniteSets, FiniteSetsExt, TLC

CONSTANTS
  Question,   \* [symbols, rels, roots, depth]: an index, and what is asked of it
  ModuleOf,   \* by name, the module of the symbol
  TestModule, \* the modules under tests/
  None,       \* no report yet
  Invalid     \* the answer to a question without symbols: ValueError

Unlimited == -1

ImpactAssumption ==
  \A q \in Question : q.depth = Unlimited \/ q.depth \in Nat \ {0}

VARIABLES
  question,  \* the index and the arguments of analyze()
  pass,      \* the traversal in progress
  level,     \* the names its queue holds, all at one distance
  distance,  \* that distance
  visited,   \* the names it has taken from the queue
  impacted,  \* by name, distance and reason: shared by the traversals
  report     \* None, Invalid, or the report returned

vars == <<question, pass, level, distance, visited, impacted, report>>

-----------------------------------------------------------------------------
(* The traversals, in order *)

RelTypes == <<"CALLS", "IMPORTS", "INHERITS", "DEFINES">>
Directions == <<"outgoing", "incoming">>

Known(name) == name \in question.symbols
Roots == SelectSeq(question.roots, Known)

\* root by root, type by type, both directions
Passes == Len(Roots) * Len(RelTypes) * Len(Directions)
Root(p) == Roots[((p - 1) \div 8) + 1]
Type(p) == RelTypes[(((p - 1) \div 2) % 4) + 1]
Direction(p) == Directions[((p - 1) % 2) + 1]

Reason(p) ==
  CASE Type(p) = "CALLS" -> IF Direction(p) = "outgoing" THEN "CALLEE" ELSE "CALLER"
    [] Type(p) = "IMPORTS" -> "IMPORT"
    [] Type(p) = "INHERITS" -> "INHERITANCE"
    [] OTHER -> "DEPENDENCY"

\* The names one relationship away from those of s, as traversal p goes.
Next1(p, s) ==
  IF Direction(p) = "outgoing"
  THEN {r.target : r \in {q \in question.rels : q.type = Type(p) /\ q.source \in s}}
  ELSE {r.source : r \in {q \in question.rels : q.type = Type(p) /\ q.target \in s}}

-----------------------------------------------------------------------------
(* analyze() *)

Init ==
  /\ question \in Question
  /\ pass = 1 /\ level = IF Roots = <<>> THEN {} ELSE {Root(1)}
  /\ distance = 0 /\ visited = {} /\ impacted = <<>> /\ report = None

NothingImpacted == [modules |-> {}, tests |-> {}, distance |-> 0]

\* No symbol given, or none that the index knows.
NoRoots ==
  /\ report = None /\ Roots = <<>>
  /\ report' = IF question.roots = <<>> THEN Invalid ELSE NothingImpacted
  /\ UNCHANGED <<question, pass, level, distance, visited, impacted>>

Within == question.depth = Unlimited \/ distance < question.depth

\* The neighbours that the level in hand leads to and that were not taken.
Ahead == {n \in Next1(pass, level \ visited) : n \notin visited \cup level}

\* A plausible bug: the first distance recorded stays.
FoundFirst == {n \in Ahead : Within /\ n \notin DOMAIN impacted}

\* A plausible bug: one level too many.
FoundBeyond ==
  {n \in Ahead : /\ question.depth = Unlimited \/ distance <= question.depth
                 /\ n \in DOMAIN impacted => distance + 1 < impacted[n].distance}

\* A neighbour is recorded, and queued, if it was not reached before or only
\* farther away, by whichever traversal.
Found == {n \in Ahead : Within /\ (n \in DOMAIN impacted => distance + 1 < impacted[n].distance)}

Level ==
  /\ report = None /\ level # {}
  /\ visited' = visited \cup level
  /\ level' = Found /\ distance' = distance + 1
  /\ impacted' = [n \in Found |-> [distance |-> distance + 1, reason |-> Reason(pass)]] @@ impacted
  /\ UNCHANGED <<question, pass, report>>

NextPass ==
  /\ report = None /\ level = {} /\ pass < Passes
  /\ pass' = pass + 1 /\ level' = {Root(pass + 1)} /\ distance' = 0 /\ visited' = {}
  /\ UNCHANGED <<question, impacted, report>>

\* A plausible bug: only the ends that lead to what changed.
TestsOfSources(rels) ==
  LET scope == DOMAIN impacted \cup ToSet(Roots)
  IN {ModuleOf[r.source] : r \in {q \in rels : q.target \in scope /\ q.source \in question.symbols}} \cap TestModule

\* _discover_tests: from both ends of every relationship that touches a root
\* or an impacted name.
Tests(rels) ==
  LET scope == DOMAIN impacted \cup ToSet(Roots)
      ends == UNION {{r.source, r.target} : r \in {q \in rels : q.source \in scope \/ q.target \in scope}}
  IN {ModuleOf[n] : n \in ends \cap question.symbols} \cap TestModule

Report ==
  /\ report = None /\ level = {} /\ Roots # <<>> /\ pass = Passes
  /\ report' = [modules |-> {ModuleOf[n] : n \in DOMAIN impacted \cap question.symbols},
                tests |-> Tests(question.rels),
                distance |-> Max({0} \cup {impacted[n].distance : n \in DOMAIN impacted})]
  /\ UNCHANGED <<question, pass, level, distance, visited, impacted>>

Next == NoRoots \/ Level \/ NextPass \/ Report

Spec == Init /\ [][Next]_vars

-----------------------------------------------------------------------------
(* Properties *)

Done == report \notin {None, Invalid}

\* The variables range over what analyzer.py can put in them.
TypeOK ==
  /\ question \in Question /\ pass \in Nat /\ distance \in Nat
  /\ \A n \in DOMAIN impacted : impacted[n].distance \in Nat \ {0}
  /\ report \in {None, Invalid} \/ DOMAIN report = {"modules", "tests", "distance"}

\* The names k relationships of one type and direction away from a root.
Away(p, k) ==
  LET walk[i \in 0 .. k] == IF i = 0 THEN {Root(p)} ELSE Next1(p, walk[i - 1]) IN walk[k]

\* Nothing is reported as impacted, or as near, without a chain of that many
\* relationships of one type and direction that begins at a root (the distance
\* _bfs_traverse records), and none is longer than the depth asked for.
ImpactHasAChain ==
  \A n \in DOMAIN impacted :
    LET d == impacted[n].distance IN
    /\ question.depth = Unlimited \/ d <= question.depth
    /\ \E p \in 1 .. Passes : n \in Away(p, d) /\ Reason(p) = impacted[n].reason

\* What is one relationship away from a root is reported at distance one,
\* however far away an earlier traversal had met it.
NeighboursAreDirect ==
  Done => \A p \in 1 .. Passes : \A n \in Next1(p, {Root(p)}) \ {Root(p)} :
            n \in DOMAIN impacted /\ impacted[n].distance = 1

\* A test module is reported if what is impacted is defined in it.
TestsFollowImpact ==
  Done => \A n \in DOMAIN impacted \cap question.symbols :
            ModuleOf[n] \in TestModule => ModuleOf[n] \in report.tests

\* A report names what is impacted, at its distance and with its tests.
ImpactIsReal == TypeOK /\ ImpactHasAChain /\ NeighboursAreDirect /\ TestsFollowImpact

\* What change-impact.md says of the traversal, "Distance 2: Relationships from
\* distance-1 nodes (transitive)": every name within the depth asked for, along
\* relationships of one type and direction, is reported. It is not, when a name
\* on the way was met by an earlier traversal: it is not queued again.
ReachesAll ==
  Done => \A p \in 1 .. Passes : \A k \in 1 .. 2 :
            question.depth = Unlimited \/ k <= question.depth
              => Away(p, k) \ ToSet(Roots) \subseteq DOMAIN impacted

=============================================================================
