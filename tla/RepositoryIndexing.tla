-------------------------- MODULE RepositoryIndexing --------------------------
(***************************************************************************)
(* The index of a repository: the walk over its files and the extraction of *)
(* definitions (packages/repository/symbols/python_ast.py), the extraction  *)
(* of calls (relationships), the index built from both (index/builder.py),  *)
(* the queries of the index (index/models.py) and those of the view the     *)
(* context builder and the advisors put on its modules (symbols/graph.py).  *)
(*                                                                          *)
(* Abstractions: names are numbers, in their order, and a qualified name is *)
(* the sequence of the module's name and the names of the definitions down  *)
(* to the last; a file is the sequence of the nodes of its syntax tree that *)
(* matter, each with the index of its parent (0 is the module), in the      *)
(* order of the text; texts, decorators and signatures are left out.        *)
(* Relations are a set: that an index keeps a DEFINES per redefinition is   *)
(* not seen.                                                                *)
(***************************************************************************)
EXTENDS Integers, Sequences, SequencesExt, FiniteSets, FiniteSetsExt

CONSTANTS
  Repositories, \* trees of files, see RepositoryIndexingAssumption; hidden is a root with such a part
  Self,         \* the name "self"
  MaxBuilds,    \* bound: builds of one builder
  None

File(f) ==
  /\ f.module \in Nat \ {0}
  /\ \A p \in {"test", "globbed", "hidden", "parses"} : f[p] \in BOOLEAN
  /\ \A i \in DOMAIN f.nodes :
       /\ f.nodes[i].kind \in {"class", "def", "block", "import", "call"}
       /\ f.nodes[i].parent \in 0 .. i - 1
RepositoryIndexingAssumption ==
  /\ MaxBuilds \in Nat
  /\ \A r \in Repositories : /\ \A f \in r.files : File(f)
                             /\ \A f, g \in r.files : f.module = g.module => f = g

VARIABLES
  walked,      \* the repository last walked
  catalogue, \* the index of the last build that succeeded, or None
  skipped,   \* [tests, globs]: the extractor's counters
  reported,  \* what the builder says of them
  builds,
  reply      \* of the last query

vars == <<walked, catalogue, skipped, reported, builds, reply>>

-----------------------------------------------------------------------------
(* The extraction of definitions *)

Defines(n) == n.kind \in {"class", "def"}

\* The definition around node i: blocks and expressions are looked through.
Owner(file) ==
  LET owner[i \in 1 .. Len(file.nodes)] ==
        LET p == file.nodes[i].parent
        IN IF p = 0 \/ Defines(file.nodes[p]) THEN p ELSE owner[p]
  IN owner

QualifiedName(file) ==
  LET name[i \in 0 .. Len(file.nodes)] ==
        IF i = 0 THEN <<file.module>> ELSE Append(name[Owner(file)[i]], file.nodes[i].name)
  IN name

\* A function right under a class is a method.
SymbolAt(file, i) ==
  LET owner == Owner(file)[i]
  IN [q |-> QualifiedName(file)[i], name |-> file.nodes[i].name, module |-> file.module, line |-> i,
      kind |-> IF file.nodes[i].kind = "class" THEN "class"
               ELSE IF owner # 0 /\ file.nodes[owner].kind = "class" THEN "method" ELSE "function"]

ExtractDefinitions(file) ==
  LET Line(i) == IF Defines(file.nodes[i]) THEN <<SymbolAt(file, i)>> ELSE <<>>
  IN FlattenSeq([i \in DOMAIN file.nodes |-> Line(i)])

\* Functions and methods are defined by what is around them; a class inherits
\* from its bases as they are written.
ExtractRelationships(file) ==
  LET name == QualifiedName(file)
      nodes == {i \in DOMAIN file.nodes : Defines(file.nodes[i])}
  IN {[source |-> name[Owner(file)[i]], target |-> name[i], type |-> "DEFINES"] :
        i \in {n \in nodes : file.nodes[n].kind = "def"}}
     \cup UNION {{[source |-> name[i], target |-> b, type |-> "INHERITS"] : b \in file.nodes[i].bases} :
                  i \in {n \in nodes : file.nodes[n].kind = "class"}}

Imports(file) == {i \in DOMAIN file.nodes : file.nodes[i].kind = "import"}

-----------------------------------------------------------------------------
(* The walk over the files, in the order of their paths *)

\* No part of the absolute path may begin with a dot or be a dunder.
Considered(repo) == IF repo.hidden THEN {} ELSE {f \in repo.files : ~f.hidden}
Kept(repo) == {f \in Considered(repo) : ~f.test /\ ~f.globbed}

\* The first file that cannot be read or parsed ends the walk.
Failing(repo) == {f.module : f \in {g \in Kept(repo) : ~g.parses}}
Walked(repo) ==
  IF Failing(repo) = {} THEN Considered(repo) ELSE {f \in Considered(repo) : f.module < Min(Failing(repo))}

\* Mutant: a file that is a test and excluded by a pattern counts twice.
SkippedBoth(repo) ==
  [tests |-> Cardinality({f \in Walked(repo) : f.test}), globs |-> Cardinality({f \in Walked(repo) : f.globbed})]

Skipped(repo) ==
  [tests |-> Cardinality({f \in Walked(repo) : f.test}),
   globs |-> Cardinality({f \in Walked(repo) : f.globbed /\ ~f.test})]

-----------------------------------------------------------------------------
(* The queries of the index *)

Precedes(a, b) ==
  \/ Len(a) < Len(b) /\ SubSeq(b, 1, Len(a)) = a
  \/ \E i \in 1 .. Min({Len(a), Len(b)}) : SubSeq(a, 1, i - 1) = SubSeq(b, 1, i - 1) /\ a[i] < b[i]
First(S) == CHOOSE s \in S : \A t \in S : t = s \/ Precedes(s.q, t.q)

\* The last definition of each name.
Symbols(index) ==
  LET list == index.symbols
  IN {list[i] : i \in {n \in DOMAIN list : ~\E m \in n + 1 .. Len(list) : list[m].q = list[n].q}}

Named(index, q) == {s \in Symbols(index) : s.q = q}

\* The first definition of each name.
Find(index, name) ==
  LET list == index.symbols
      hits == {n \in DOMAIN list : list[n].q = name \/ <<list[n].name>> = name}
  IN {list[n] : n \in {h \in hits : ~\E m \in hits : m < h /\ list[m].q = list[h].q}}

OfKind(index, kind) == SelectSeq(index.symbols, LAMBDA s : s.kind = kind)

ComputeStatistics(symbols, files) ==
  [modules |-> Cardinality(files), symbols |-> Len(symbols),
   classes |-> Len(SelectSeq(symbols, LAMBDA s : s.kind = "class")),
   functions |-> Len(SelectSeq(symbols, LAMBDA s : s.kind = "function")),
   methods |-> Len(SelectSeq(symbols, LAMBDA s : s.kind = "method"))]

\* The module's text stands for a symbol's own, up to its last line.
GetSymbolLocation(index, q) ==
  LET hits == {f \in index.files : \E i \in DOMAIN f.nodes : Defines(f.nodes[i]) /\ QualifiedName(f)[i] = q}
      home == CHOOSE f \in hits : \A g \in hits : f.module <= g.module
      line == Min({i \in DOMAIN home.nodes : Defines(home.nodes[i]) /\ QualifiedName(home)[i] = q})
  IN IF hits = {} THEN None ELSE [module |-> home.module, line |-> line, end |-> Len(home.nodes)]

-----------------------------------------------------------------------------
(* The extraction of calls *)

Prefix(chain, i) == SubSeq(chain, 1, i)

\* Mutant: the outermost class of the scope.
OutermostClass(around) == Min(around)

SelfClass(around) == Max(around)

\* A bare name is a function or a method of the same module, and if nothing
\* there has the name, whatever has it anywhere. self is the innermost class
\* of the scope; other names are never those of a class, for want of the module;
\* a chain of three or more is cut at the first class it names.
ResolveCallTargets(index, module, scope, chain) ==
  LET symbols == Symbols(index)
      known == {s.q : s \in symbols}
      here == {s \in symbols : s.module = module /\ s.name = chain[1]}
      around == {i \in DOMAIN scope : scope[i].kind = "class"}
      classes == {i \in DOMAIN chain : \E s \in Named(index, Prefix(chain, i)) : s.kind = "class"}
      Member(class) == {Append(class, Last(chain))} \cap known
  IN CASE Len(chain) = 1 -> IF here # {} THEN {s.q : s \in {t \in here : t.kind # "class"}}
                            ELSE {s.q : s \in {t \in symbols : t.name = chain[1]}}
       [] Len(chain) = 2 -> IF /\ chain[1] = Self
                               /\ around # {} THEN Member(scope[SelfClass(around)].q) ELSE {}
       [] OTHER -> IF classes = {} THEN {} ELSE Member(Prefix(chain, Min(classes)))

\* What visiting a definition puts on the stack: the first function of the
\* module with its name, the first class of the repository with its name.
Pushed(index, file, i) ==
  LET same == {s \in Symbols(index) : s.name = file.nodes[i].name}
      class == {s \in same : s.kind = "class"}
      function == {s \in same : s.module = file.module /\ s.kind # "class"}
      found == IF file.nodes[i].kind = "class" THEN class ELSE function
  IN IF found = {} THEN <<>> ELSE <<First(found)>>

\* The stack inside node i.
ScopeIn(index, file) ==
  LET scope[i \in 0 .. Len(file.nodes)] ==
        IF i = 0 THEN <<>>
        ELSE scope[Owner(file)[i]] \o (IF Defines(file.nodes[i]) THEN Pushed(index, file, i) ELSE <<>>)
  IN scope

\* Calls outside of every definition have no caller.
CallsAt(index, file, i) ==
  LET scope == ScopeIn(index, file)[i]
  IN IF scope = <<>> THEN {}
     ELSE {[source |-> Last(scope).q, target |-> t, type |-> "CALLS"] :
             t \in ResolveCallTargets(index, file.module, scope, file.nodes[i].chain)}

ExtractCalls(index) ==
  UNION {UNION {CallsAt(index, f, i) : i \in {n \in DOMAIN f.nodes : f.nodes[n].kind = "call"}} :
          f \in index.files}

-----------------------------------------------------------------------------
(* The view of the modules *)

ViewSymbols(index) == Symbols(index)

Children(index, q) ==
  {s \in ViewSymbols(index) : \E r \in index.definitions : r.type = "DEFINES" /\ r.source = q /\ r.target = s.q}
Parents(index, q) ==
  {s \in ViewSymbols(index) : \E r \in index.definitions : r.type = "DEFINES" /\ r.target = q /\ r.source = s.q}

\* The modules' own relations: the calls are the index's.
Callers(index, q) ==
  {s \in ViewSymbols(index) : \E r \in index.definitions : r.type = "CALLS" /\ r.target = q /\ r.source = s.q}
Callees(index, q) ==
  {s \in ViewSymbols(index) : \E r \in index.definitions : r.type = "CALLS" /\ r.source = q /\ r.target = s.q}

-----------------------------------------------------------------------------
(* Builds and queries *)

Indexed(files) ==
  LET Rank(f) == Cardinality({g \in files : g.module <= f.module})
      order == [i \in 1 .. Cardinality(files) |-> CHOOSE f \in files : Rank(f) = i]
      symbols == FlattenSeq([i \in DOMAIN order |-> ExtractDefinitions(order[i])])
      own == UNION {ExtractRelationships(f) : f \in files}
      bare == [files |-> files, symbols |-> symbols, definitions |-> own]
  IN [files |-> files, symbols |-> symbols, definitions |-> own, relations |-> own \cup ExtractCalls(bare),
      statistics |-> ComputeStatistics(symbols, files)]

Init ==
  /\ walked = None
  /\ catalogue = None
  /\ skipped = [tests |-> 0, globs |-> 0]
  /\ reported = [tests |-> 0, globs |-> 0]
  /\ builds = 0
  /\ reply = None

\* The extractor's counters go on from build to build.
Count(repo) ==
  skipped' = [tests |-> skipped.tests + Skipped(repo).tests, globs |-> skipped.globs + Skipped(repo).globs]

Build(repo) ==
  /\ builds < MaxBuilds /\ Failing(repo) = {}
  /\ catalogue' = Indexed(Kept(repo))
  /\ Count(repo)
  /\ reported' = skipped'
  /\ walked' = repo
  /\ builds' = builds + 1
  /\ reply' = None

\* The exception leaves the builder before it has read the counters.
BuildFails(repo) ==
  /\ builds < MaxBuilds /\ Failing(repo) # {}
  /\ Count(repo)
  /\ builds' = builds + 1
  /\ reply' = None
  /\ walked' = repo
  /\ UNCHANGED <<catalogue, reported>>

AskForName(name) ==
  /\ catalogue # None
  /\ reply' = [asked |-> "find", of |-> name, found |-> Find(catalogue, name)]
  /\ UNCHANGED <<walked, catalogue, skipped, reported, builds>>

AskForKind(kind) ==
  /\ catalogue # None
  /\ reply' = [asked |-> "kind", of |-> kind, listed |-> OfKind(catalogue, kind)]
  /\ UNCHANGED <<walked, catalogue, skipped, reported, builds>>

AskForRelatives(q) ==
  /\ catalogue # None /\ Named(catalogue, q) # {}
  /\ reply' = [asked |-> "relatives", of |-> q,
               children |-> Children(catalogue, q), parents |-> Parents(catalogue, q),
               callers |-> Callers(catalogue, q), callees |-> Callees(catalogue, q),
               location |-> GetSymbolLocation(catalogue, q)]
  /\ UNCHANGED <<walked, catalogue, skipped, reported, builds>>

Names == {s.q : s \in Symbols(catalogue)} \cup {<<s.name>> : s \in Symbols(catalogue)}

Next ==
  \/ \E repo \in Repositories : Build(repo) \/ BuildFails(repo)
  \/ catalogue # None /\ \E name \in Names : AskForName(name) \/ AskForRelatives(name)
  \/ \E kind \in {"class", "function", "method"} : AskForKind(kind)

Spec == Init /\ [][Next]_vars

-----------------------------------------------------------------------------
(* Properties *)

TypeOK ==
  /\ catalogue = None \/ DOMAIN catalogue = {"files", "symbols", "definitions", "relations", "statistics"}
  /\ \A c \in {skipped, reported} : c.tests \in Nat /\ c.globs \in Nat
  /\ builds \in 0 .. MaxBuilds
  /\ reply = None \/ reply.asked \in {"find", "kind", "relatives"}

\* The definition a node of a file is really in.
Encloses(file, i) == QualifiedName(file)[Owner(file)[i]]
CallNodes(file) == {i \in DOMAIN file.nodes : file.nodes[i].kind = "call" /\ Owner(file)[i] # 0}
CallsOf(index) == {r \in index.relations : r.type = "CALLS"}

\* While no two definitions of a repository share a short name, each CALLS
\* relation is a call that is written: it begins at the definition around the
\* call and ends at the one definition with the called name; and no call of a
\* function by its name, or of a method by self in its class, is lost.
Unambiguous(index) ==
  \A i, j \in DOMAIN index.symbols : i # j => index.symbols[i].name # index.symbols[j].name
Written(f, i, s) ==
  \/ f.nodes[i].chain = <<s.name>> /\ s.kind # "class"
  \/ f.nodes[i].chain = <<Self, s.name>> /\ s.kind = "method" /\ Front(Encloses(f, i)) = Front(s.q)
UnambiguousIsRight ==
  catalogue # None /\ Unambiguous(catalogue) =>
    /\ \A r \in CallsOf(catalogue) :
         \E f \in catalogue.files : \E i \in CallNodes(f) :
           Encloses(f, i) = r.source /\ Last(f.nodes[i].chain) = Last(r.target)
    /\ \A f \in catalogue.files : \A i \in CallNodes(f) : \A s \in Symbols(catalogue) :
         Written(f, i, s) => [source |-> Encloses(f, i), target |-> s.q, type |-> "CALLS"] \in catalogue.relations

\* The calls join definitions of the index; a call in a function is put on a
\* function of that module and that name, though not always on the right one.
CallsJoinSymbols ==
  catalogue # None =>
    \A r \in CallsOf(catalogue) :
      /\ Named(catalogue, r.source) # {} /\ Named(catalogue, r.target) # {}
      /\ \E f \in catalogue.files : \E i \in CallNodes(f) :
           Last(Encloses(f, i)) = Last(r.source) /\ Last(f.nodes[i].chain) = Last(r.target)

\* What find() answers and what symbols() lists name the same definitions, the
\* lists by kind name no fewer, a symbol's children have it as their parent and
\* a method its class, and no symbol is located past its last definition.
QueriesAgree ==
  reply # None =>
    /\ reply.asked = "find" =>
         {s.q : s \in reply.found} = {s.q : s \in {t \in Symbols(catalogue) : t.q = reply.of \/ <<t.name>> = reply.of}}
    /\ reply.asked = "kind" =>
         {s.q : s \in {t \in Symbols(catalogue) : t.kind = reply.of}} \subseteq {s.q : s \in ToSet(reply.listed)}
    /\ reply.asked = "relatives" =>
         /\ \A c \in reply.children : reply.of \in {p.q : p \in Parents(catalogue, c.q)}
         /\ \A s \in Named(catalogue, reply.of) :
              /\ s.kind = "method" => Front(reply.of) \in {p.q : p \in reply.parents}
              /\ reply.location # None /\ reply.location.module = s.module /\ reply.location.line <= s.line

\* After the first build each file of the walk is in the index or counted as
\* excluded, once.
NothingUncounted ==
  builds = 1 /\ catalogue # None =>
    Cardinality(Considered(walked)) = Cardinality(catalogue.files) + reported.tests + reported.globs

IndexIsTrue == TypeOK /\ UnambiguousIsRight /\ CallsJoinSymbols /\ QueriesAgree /\ NothingUncounted

\* docs/relationship-extraction.md:146: self is the class the call is written
\* in. Not so if a class of that name comes earlier in the repository.
SelfIsTheClassAround ==
  catalogue # None =>
    \A f \in catalogue.files : \A i \in CallNodes(f) :
      Len(f.nodes[i].chain) = 2 /\ f.nodes[i].chain[1] = Self =>
        \A r \in CallsAt(catalogue, f, i) : r.target[1] = f.module

\* relationships/call_extractor.py:35-36: a call is put on the symbol that is
\* doing the calling. Not so if two methods of a module share their name.
CallerIsAround ==
  catalogue # None =>
    \A f \in catalogue.files : \A i \in CallNodes(f) : \A r \in CallsAt(catalogue, f, i) : r.source = Encloses(f, i)

\* index/builder.py:146: the files skipped during indexing. From the second
\* build of a builder on, those of all its builds.
ReportIsOfTheBuild == catalogue # None /\ Failing(walked) = {} => reported = Skipped(walked)

\* docs/relationship-ranking.md:103: the callers of a symbol may be included.
\* The view never finds one.
CallersAreFound ==
  reply # None /\ reply.asked = "relatives" =>
    {s.q : s \in reply.callers} = {r.source : r \in {c \in CallsOf(catalogue) : c.target = reply.of}}
=============================================================================
