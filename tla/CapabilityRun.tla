---------------------------- MODULE CapabilityRun ----------------------------
(***************************************************************************)
(* The capabilities (packages/capabilities): each plans a query, looks it   *)
(* up in the index, builds a context, assembles a package of its own and    *)
(* serializes it. Seven classes repeat the same stages and differ in what   *)
(* they ask of the context builder and what they answer.                    *)
(*                                                                          *)
(* Abstractions: of a query the intent its text is planned with, the names  *)
(* equal to it and the scored symbols, the best first, are kept; a context  *)
(* costs one token for each symbol.                                         *)
(***************************************************************************)
EXTENDS OpenAIMessages, FiniteSets, FiniteSetsExt

CONSTANTS Inquiries, DefaultSymbols

VARIABLES
  capability, inquiry,
  working,      \* planning, searching, building, assembling, answering, answered
  intended,     \* the plan: intent and depth
  matches,      \* what the index finds under the name
  built,        \* the context result
  assembled,    \* the package
  answer

vars == <<capability, inquiry, working, intended, matches, built, assembled, answer>>

CapabilityAssumption ==
  /\ DefaultSymbols \in Nat \ {0}
  /\ \A q \in Inquiries : Len(q.scored) <= DefaultSymbols

-----------------------------------------------------------------------------
(* The capabilities *)

\* own: its intent; override: the intent it plans with; asks: what bounds its
\* context; answers: the intent of its result.
Explain == [own |-> "EXPLAIN", override |-> None, asks |-> "plan", answers |-> "plan"]
Debug == [own |-> "DEBUG", override |-> None, asks |-> "plan", answers |-> "plan"]
Refactor == [own |-> "REFACTOR", override |-> None, asks |-> "plan", answers |-> "plan"]
BugInvestigation == [own |-> "DEBUG", override |-> None, asks |-> "plan", answers |-> "plan"]
ImplementFeature == [own |-> "IMPLEMENT", override |-> "IMPLEMENT", asks |-> "profile", answers |-> "plan"]
GenerateTests == [own |-> "GENERATE_TESTS", override |-> "TEST", asks |-> "profile", answers |-> "own"]
Review == [own |-> "REVIEW", override |-> "SEARCH", asks |-> "profile", answers |-> "own"]
ArchitectureReview == [own |-> "REVIEW", override |-> None, asks |-> "modules", answers |-> "own"]

Capabilities ==
  [explain |-> Explain, debug |-> Debug, refactor |-> Refactor, bug_investigation |-> BugInvestigation,
   implement_feature |-> ImplementFeature, generate_tests |-> GenerateTests, review |-> Review,
   architecture_review |-> ArchitectureReview]

Do == Capabilities[capability]

\* The depth a plan has by its intent.
PlanDepth(intent) ==
  CASE intent = "DEBUG" -> 2 [] intent \in {"EXPLAIN", "IMPLEMENT", "REFACTOR", "TEST"} -> 1 [] OTHER -> 0

PlanFor(c, q) ==
  LET intent == IF c.override = None THEN q.intent ELSE c.override IN [intent |-> intent, depth |-> PlanDepth(intent)]

\* The review of the architecture makes its plan of its own profile.
ReviewPlan(c) == [intent |-> c.own, depth |-> 3]

\* Mutant: a plan without depth gets no symbols.
DepthBounds(plan) == plan.depth

\* A plan's depth is also the number of symbols it gets, if it has one.
PlannedSymbols(plan) == IF plan.depth > 0 THEN plan.depth ELSE DefaultSymbols

\* As many symbols as there are modules.
ReviewedSymbols(q) == IF q.modules = {} THEN DefaultSymbols ELSE Cardinality(q.modules)

MaxSymbols(c, plan, q) ==
  CASE c.asks = "plan" -> PlannedSymbols(plan) [] c.asks = "profile" -> DefaultSymbols [] OTHER -> ReviewedSymbols(q)

Ranking(q) == LET first == SelectSeq([i \in DOMAIN q.scored |-> i],
                                     LAMBDA i : \A j \in 1 .. i - 1 : q.scored[j].name # q.scored[i].name)
              IN [n \in DOMAIN first |-> q.scored[first[n]]]

\* Mutant: the number of symbols bounds nothing.
BuildUnbounded(symbols, q) == [candidates |-> Ranking(q), modules |-> {c.module : c \in Range(Ranking(q))}]

\* Each symbol once, the best score first. Related symbols are only added
\* around a primary symbol, which no capability passes, whatever it asks for.
Build(symbols, q) ==
  LET kept == SubSeq(Ranking(q), 1, Min({symbols, Len(Ranking(q))}))
  IN [candidates |-> kept, modules |-> {c.module : c \in Range(kept)}]

-----------------------------------------------------------------------------
(* The packages they assemble, without callers and callees *)

Assemble(candidates) ==
  LET primary == IF candidates = <<>> THEN None ELSE Head(candidates).name
      named == [i \in DOMAIN candidates |-> candidates[i].name]
      Earlier(i) == {named[j] : j \in 1 .. i - 1}
      first == SelectSeq([i \in DOMAIN candidates |-> i], LAMBDA i : named[i] \notin Earlier(i) /\ i > 1)
      supporting == [n \in DOMAIN first |-> named[first[n]]]
  IN [NoPackage EXCEPT !.primary = primary, !.supporting = supporting, !.modules = {c.module : c \in Range(candidates)}]

\* Mutant: the primary symbol supports itself.
AssembleReviewTwice(candidates) ==
  IF candidates = <<>> THEN NoPackage
  ELSE [NoPackage EXCEPT !.primary = Head(candidates).name,
                         !.supporting = Supporting([name |-> None], candidates),
                         !.modules = {c.module : c \in Range(candidates)}]

\* The review of the architecture returns early without candidates.
AssembleReview(candidates) ==
  IF candidates = <<>> THEN NoPackage
  ELSE [NoPackage EXCEPT !.primary = Head(candidates).name,
                         !.supporting = Supporting(Head(candidates), Tail(candidates)),
                         !.modules = {c.module : c \in Range(candidates)}]

Symbols(package) == (IF package.primary = None THEN {} ELSE {package.primary}) \cup Range(package.supporting)

Report(package, context, found) ==
  [modules |-> context.modules, symbols |-> found, diagnosed |-> Len(context.candidates),
   supporting |-> Len(package.supporting), related |-> Cardinality(package.modules), total |-> Cardinality(Symbols(package))]

-----------------------------------------------------------------------------
(* The stages *)

Init ==
  /\ capability \in DOMAIN Capabilities /\ inquiry \in Inquiries
  /\ working = "planning" /\ intended = None /\ matches = None /\ built = None /\ assembled = None /\ answer = None

Plan ==
  /\ working = "planning"
  /\ intended' = IF Do.asks = "modules" THEN ReviewPlan(Do) ELSE PlanFor(Do, inquiry)
  /\ working' = "searching"
  /\ UNCHANGED <<capability, inquiry, matches, built, assembled, answer>>

\* Only a symbol with the whole query for its name is found; the review of the
\* architecture names the modules instead.
Search ==
  /\ working = "searching"
  /\ matches' = IF Do.asks = "modules" THEN inquiry.modules ELSE inquiry.named
  /\ working' = "building"
  /\ UNCHANGED <<capability, inquiry, intended, built, assembled, answer>>

BuildContext ==
  /\ working = "building"
  /\ built' = Build(MaxSymbols(Do, intended, inquiry), inquiry)
  /\ working' = "assembling"
  /\ UNCHANGED <<capability, inquiry, intended, matches, assembled, answer>>

AssemblePackage ==
  /\ working = "assembling"
  /\ assembled' = IF Do.asks = "modules" THEN AssembleReview(built.candidates) ELSE Assemble(built.candidates)
  /\ working' = "answering"
  /\ UNCHANGED <<capability, inquiry, intended, matches, built, answer>>

Question == [role |-> "user", content |-> "text", calls |-> FALSE, number |-> 1]

Answer ==
  /\ working = "answering"
  /\ answer' = [intent |-> IF Do.answers = "plan" THEN intended.intent ELSE Do.own,
                messages |-> Serialize(assembled, <<Question>>), symbols |-> matches, modules |-> built.modules,
                tokens |-> Len(built.candidates),
                report |-> IF capability = "bug_investigation" THEN Report(assembled, built, matches) ELSE None]
  /\ working' = "answered"
  /\ UNCHANGED <<capability, inquiry, intended, matches, built, assembled>>

Next == Plan \/ Search \/ BuildContext \/ AssemblePackage \/ Answer

Spec == Init /\ [][Next]_vars

-----------------------------------------------------------------------------
(* Properties *)

TypeOK == working \in {"planning", "searching", "building", "assembling", "answering", "answered"}

\* The assemblies of the capabilities are copies of one another and of the
\* composer of the pipeline: from one context all make the same package, except
\* that only the composer names neighbours.
AssembliesAgree ==
  assembled # None => assembled = [Compose(built.candidates) EXCEPT !.callers = {}, !.callees = {}]

\* The best match leads, there is a context if there is a match, and a plan or a
\* profile bounds the context and nothing else does.
ProfileIsHonoured ==
  built # None =>
    /\ (built.candidates # <<>>) = (inquiry.scored # <<>>)
    /\ inquiry.scored # <<>> => Head(built.candidates) = Head(inquiry.scored)
    /\ Do.asks = "profile" => Range(built.candidates) = Range(inquiry.scored)
    /\ Do.asks = "plan" /\ intended.depth > 0 => Len(built.candidates) <= intended.depth

\* The parts of an answer tell of one context: the messages carry the package
\* and end with the question, and a report counts what is in the package.
AnswerIsConsistent ==
  answer # None =>
    /\ Last(answer.messages) = Question
    /\ (Len(answer.messages) = 2) = (answer.tokens > 0)
    /\ answer.tokens > 0 => answer.messages[1].context = assembled
    /\ answer.modules = assembled.modules
    /\ answer.report # None =>
         /\ answer.report.total <= answer.report.diagnosed /\ answer.report.related = Cardinality(answer.modules)
         /\ answer.report.total = (IF answer.tokens = 0 THEN 0 ELSE answer.report.supporting + 1)

\* All of it.
AnswersAreConsistent == TypeOK /\ AssembliesAgree /\ ProfileIsHonoured /\ AnswerIsConsistent
=============================================================================
