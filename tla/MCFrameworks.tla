---------------------------- MODULE MCFrameworks ----------------------------
(* The frameworks that Frameworks composes, and beside them those nothing is *)
(* proved about, in the same way: a behaviour drives one component, and the  *)
(* variables of the others are parked.                                       *)
EXTENDS Frameworks, FiniteSetsExt

CONSTANTS
  Garbage, Invalid, Bad, v1, v2, m1, t1

VARIABLES
  tree, detect, capture, seen, tokens, position, parsed, error,             \* GitChanges
  question, pass, level, distance, visited, impacted, report,               \* ChangeImpact
  query, edges, waiting, reached,                                           \* DependencyGraph
  messages, reading, looked, announced, answered, room, beyond, kept,       \* ToolTranscript
  plan, drafting, patches, faults, target, text, original, hunk,            \* PatchPlan
  work, judging, rules, findings, verification, executed, evaluation,       \* ChangeVerdict
  conversation, wanted, planning, selected, matched, contextPlan, search,   \* RequestPlanning
  client, ranked, sending, normalized, package, payload,                    \* ContextMessages
  capability, inquiry, working, intended, matches, built, assembled, answer, \* CapabilityRun
  workflow, asked, progress, planned, fault,                                \* EngineeringTasks
  inspected, remaining, diagnosis, overview, advice,                        \* RepositoryReview
  walked, catalogue, skipped, reported, builds, reply                       \* RepositoryIndexing

-----------------------------------------------------------------------------
(* What the frameworks are given *)

\* No retry, fewer retries than iterations, as many.
MCConfigs == {[retries |-> 0, iterations |-> 2], [retries |-> 1, iterations |-> 3], [retries |-> 2, iterations |-> 2]}

\* Two files, there or not; sets of each operation that succeed or fail at
\* either file, and an invalid one.
Patch(path, op, arg) == <<[path |-> path, op |-> op, arg |-> arg]>>
MCPatchSets ==
  { Patch(1, "MODIFY", v2) \o Patch(2, "DELETE", None), Patch(1, "RENAME", 2) \o Patch(2, "ADD", v2),
    Patch(1, "MODIFY", v1) \o Patch(1, "DELETE", None)}

\* Up to three successes and two workflows, under the built-in policies and a
\* custom one on either side of them.
MCGoals ==
  {[max |-> m, policies |-> p, workflows |-> w, own |-> o] :
     m \in 0 .. 3, w \in 0 .. 2, o \in BOOLEAN,
     p \in {<<"sequential", "maximum">>, <<"custom", "stop_on_failure">>, <<"stop_on_failure", "custom">>,
            <<"verification_gate">>, <<>>}}

\* A sound experiment, and what up to two slips make of it.
SharedSettings ==
  [DEFAULT_MODEL |-> "m", MODELS_CONFIG |-> "m", REPOSITORY_PATH |-> "here", COMPARISON_ENABLED |-> "true",
   RANKING_ENABLED |-> "true", INTENT_RULES |-> "{}", INTENT_BUDGETS |-> "", MAX_TOKENS |-> "7",
   HISTORY_CAP_TOKENS |-> "0", SESSION_LOG_PATH |-> Unset, CHANGED_FILES_ENABLED |-> Unset,
   VLLM_API_KEY |-> Unset, EXTRA |-> Unset]
NoSetting == [k \in DOMAIN SharedSettings |-> Unset]
Arm(id, port, path, flag) ==
  [id |-> id, port |-> port, log |-> path, flag |-> flag, env |-> NoSetting, setsTimeout |-> FALSE]
SoundExperiment ==
  [name |-> "changed files", worktree |-> "here", shared |-> SharedSettings, sharesTimeout |-> FALSE,
   arms |-> <<Arm("off", 8001, "/log", FALSE), Arm("on", 8002, "/log2", TRUE)>>,
   provider |-> 300, harness |-> 330, repeat |-> 1, maxTokens |-> Unset, wrong |-> {}]

Slips == [DEFAULT_MODEL |-> {Unset, "", "n"}, MODELS_CONFIG |-> {Unset, "n", "twice", "slow", "junk"},
          REPOSITORY_PATH |-> {"HERE", "variable", "elsewhere", "x"}, COMPARISON_ENABLED |-> {"True", "true ", "false ", "off", "junk"},
          RANKING_ENABLED |-> {"false", "false ", "true ", "True"}, INTENT_RULES |-> {"unknown intent", "[]"},
          INTENT_BUDGETS |-> {"EXPLAIN:7", "EXPLAIN"}, MAX_TOKENS |-> {"7 ", "0", "junk"}, HISTORY_CAP_TOKENS |-> {"7", "-1"},
          SESSION_LOG_PATH |-> {"/log"}, CHANGED_FILES_ENABLED |-> {"true"}, VLLM_API_KEY |-> {"k"}, EXTRA |-> {"x"}]
ArmSlips(arm) ==
  {[arm EXCEPT !.id = "on"], [arm EXCEPT !.port = 8002], [arm EXCEPT !.port = 0], [arm EXCEPT !.log = "/./log"],
   [arm EXCEPT !.log = "/x/../log"],
   [arm EXCEPT !.log = "log"], [arm EXCEPT !.flag = ~@], [arm EXCEPT !.setsTimeout = TRUE]}
  \cup {[arm EXCEPT !.env[k] = t] : k \in DOMAIN Slips, t \in {"x"}}
  \cup {[arm EXCEPT !.env.EXTRA = "7"]}
OneSlip(e) ==
  {[e EXCEPT !.name = ""], [e EXCEPT !.worktree = "elsewhere"], [e EXCEPT !.worktree = "HERE"], [e EXCEPT !.sharesTimeout = TRUE],
   [e EXCEPT !.arms = <<@[1]>>], [e EXCEPT !.provider = Unset], [e EXCEPT !.provider = 0], [e EXCEPT !.provider = 301],
   [e EXCEPT !.harness = Unset], [e EXCEPT !.harness = 329], [e EXCEPT !.harness = 631], [e EXCEPT !.repeat = 0],
   [e EXCEPT !.maxTokens = 0], [e EXCEPT !.wrong = {"harness_repeat"}]}
  \cup UNION {{[e EXCEPT !.shared[k] = t] : t \in Slips[k]} : k \in DOMAIN Slips}
  \cup UNION {{[e EXCEPT !.arms[i] = a] : a \in ArmSlips(e.arms[i])} : i \in DOMAIN e.arms}

Checkout(exists, git, gitdir, head, complete, dotenv) ==
  [exists |-> exists, git |-> git, gitdir |-> gitdir, head |-> head, complete |-> complete, dotenv |-> dotenv]
Checkouts ==
  {Checkout(TRUE, "file", "worktrees", "commit", TRUE, d) : d \in {Unset, [NoSetting EXCEPT !.COMPARISON_ENABLED = "off"], [NoSetting EXCEPT !.EXTRA = "x"]}}
  \cup {Checkout(FALSE, "none", "none", "none", FALSE, Unset), Checkout(TRUE, "directory", "none", "none", TRUE, Unset),
        Checkout(TRUE, "file", "gone", "none", TRUE, Unset), Checkout(TRUE, "file", "elsewhere", "none", TRUE, Unset),
        Checkout(TRUE, "file", "worktrees", "branch", TRUE, Unset), Checkout(TRUE, "file", "worktrees", "commit", FALSE, Unset)}
MCSetups ==
  [experiment : OneSlip(SoundExperiment) \cup {SoundExperiment}, tree : Checkouts]
  \cup [experiment : UNION {OneSlip(e) : e \in OneSlip(SoundExperiment)}, tree : {Checkout(TRUE, "file", "worktrees", "commit", TRUE, Unset)}]
MCLeftovers == {NoSetting, [k \in DOMAIN NoSetting |-> "x"]}
MCOwnConfig == [retries |-> 1, iterations |-> 3]
MCDefaultConfig == [retries |-> 2, iterations |-> 2]
\* Chains, forks and cycles of three names.
MCDependencies == 1 .. 3
MCDependencyLists == {<<>>, <<1>>, <<2>>, <<3>>, <<2, 3>>}

\* Requests of three operations, well formed or not, for two sessions; containers
\* that are empty, lack a name or have two that depend on each other; registries
\* that are gone, empty, unlike one or hold something twice.
Ask(id, op, name, description, where, many) ==
  [id |-> id, operation |-> op, workflow |-> name, description |-> description, workspace |-> where,
   context |-> many, metadata |-> many]
Needs(names, a, b) == [names |-> names, needs |-> [n \in {"a", "b"} |-> IF n = "a" THEN a ELSE b]]
Listing(entries) == [public |-> TRUE, entries |-> entries]
MCRequests ==
  {Ask("r", "review", "", "text", "path", "few"), Ask("r", "explain", "mine", "text", "", "few"),
   Ask("s", "execute", "", "text", "", "few"), Ask("odd", "debug", "", "long", "odd", "many"),
   Ask("s", "implement", "", "text", "path", "few")}
MCConfigurations == [limits : {{}, {"max_symbols"}}, observability : {TRUE}]
MCContainers ==
  {Needs({}, {}, {}), Needs({"a"}, {}, {}), Needs({"a"}, {"b"}, {}), Needs({"a", "b"}, {"b"}, {"a"}),
   Needs({"a", "b"}, {"b"}, {})}
MCOffered ==
  {"workflow", "session", "verification"} \X {None} \cup {"provider"} \X {Listing(<<>>), Listing(<<"vllm">>)}
  \cup {"workflow"} \X {[public |-> FALSE], Listing(<<"code-review">>)}
  \cup {<<"observability", Listing(<<"e", "e">>)>>, <<"task", Listing(<<>>)>>}
MCTouched == {"review", "explain"}

\* Names in names, a private generated one, a module that passes for a test and
\* one whose name is long; what is said names them in capitals, with underscores,
\* partly, or with stop words only.
NamedIn(name, inModule) == [name |-> name, module |-> inModule]
Said(word, camel) == [text |-> word, camel |-> camel]
MCScorable ==
  {NamedIn(<<<<3>>, <<1>>, <<2, 1>>>>, 2), NamedIn(<<<<3>>, <<2, 0, 1>>, <<1>>>>, 2),
   NamedIn(<<<<3>>, <<2>>, <<0, 9, 0, 7>>>>, 2), NamedIn(<<<<3>>, <<8, 4, 0, 1>>, <<5>>>>, 2),
   NamedIn(<<<<3>>, <<11, 8>>, <<8>>>>, 2), NamedIn(<<<<2>>, <<11, 8>>>>, 1)}
MCSayable ==
  {Said(<<1>>, FALSE), Said(<<2, 1>>, TRUE), Said(<<2, 0, 1>>, FALSE), Said(<<3>>, FALSE),
   Said(<<5>>, FALSE), Said(<<10>>, FALSE), Said(<<8>>, FALSE), Said(<<7>>, FALSE)}
MCLength == [w \in 0 .. 11 |-> IF w \in {0, 7} THEN 1 ELSE IF w = 8 THEN 2 ELSE IF w = 11 THEN 60 ELSE 7]
MCStopWords == {5}
MCTestWords == {4, 10}
MCGenerated == {<<0, 9>>, <<9, 0>>}
MCTestFile == <<4, 0>>

\* Every graph of three nodes with an unknown dependency 4, the empty one, a
\* duplicate id, and graphs of four nodes with up to three layers.
MCTask == {"t", "u"}
MCNodes(deps) == [i \in DOMAIN deps |-> [id |-> i, task |-> IF i = 2 THEN "u" ELSE "t", deps |-> deps[i]]]
MCFlows ==
  {MCNodes(d) : d \in [1 .. 3 -> SUBSET (1 .. 4)]} \cup {MCNodes(<<{}>>) \o MCNodes(<<{}>>), <<>>}
  \cup {MCNodes(<<s, t, v, w>>) : s \in SUBSET (2 .. 4), t \in SUBSET (3 .. 4),
                                  v \in {{1}, {2}, {1, 2}, {}}, w \in SUBSET (1 .. 3)}
MCStepsOf == [t \in MCTask |-> IF t = "u" THEN 2 ELSE 1]
MCStepInName == {}

MCElsewhere ==
  {"capture", "impact", "graph", "transcript", "drafts", "verdict", "planning", "sending",
   "capability", "tasks", "review", "indexing"}

-----------------------------------------------------------------------------
(* The instances, and what they are given *)

\* Three paths, one of them no module: a modified, staged, deleted, renamed,
\* copied or untracked file beside another, and a conflict. No content is
\* new in two files, so that Git has one source to choose.
FileIn(h, i, w, c) == [head |-> h, index |-> i, work |-> w, conflict |-> c]
Conflict == FileIn(1, None, 1, TRUE)
Trees ==
  {t \in [1 .. 3 -> {FileIn(h, i, w, FALSE) : h \in {1, None}, i \in {1, 2, None}, w \in {1, 2, None}} \cup {Conflict}] :
     /\ t[2].work # 2 /\ (t[2].head = None => t[2].index # 2)
     /\ t[3] \in {FileIn(None, 1, 1, FALSE), FileIn(None, None, None, FALSE), Conflict}
     /\ ~(t[1].head = None /\ t[1].index = 2 /\ t[2].index = 2)
     /\ \A p, q \in 1 .. 3 : p # q /\ t[p].head = None /\ t[q].head = None
                               => t[p].index = None \/ t[p].index # t[q].index}
Capture == INSTANCE GitChanges WITH
  Path <- 1 .. 3, Module <- {1, 3}, Limit <- 1, phase <- capture, changes <- parsed

\* Three names, the third in a test module, under every choice of up to three
\* relationships of two types; without a root, or without a known one.
Rels == {[source |-> s, type |-> t, target |-> d] : s \in 1 .. 3, t \in {"CALLS", "IMPORTS"}, d \in 1 .. 3}
Questions ==
  {[symbols |-> s, rels |-> r, roots |-> o, depth |-> d] :
     s \in {{1, 3}, {1, 2, 3}}, r \in UNION {kSubset(k, {q \in Rels : q.source # q.target}) : k \in 0 .. 3},
     o \in {<<1>>, <<1, 2>>}, d \in {1, 2, -1}}
  \cup {[symbols |-> {1}, rels |-> {}, roots |-> o, depth |-> 2] : o \in {<<>>, <<2>>}}
Impact == INSTANCE ChangeImpact WITH
  Question <- Questions, ModuleOf <- [n \in 1 .. 3 |-> IF n = 3 THEN t1 ELSE m1], TestModule <- {t1}

\* Every graph of four names with up to four edges, and one whose fourth name
\* is not indexed.
Arrows == {[source |-> s, type |-> "CALLS", target |-> d] : s \in 1 .. 4, d \in 1 .. 4}
Queries ==
  {[symbols |-> s, rels |-> r, start |-> 1, towards |-> t, depth |-> d] :
     s \in {1 .. 4, 1 .. 3}, r \in UNION {kSubset(k, {q \in Arrows : q.source # q.target}) : k \in 0 .. 4},
     t \in {"dependencies", "dependents"}, d \in {0, 1, 2, -1}}
Graph == INSTANCE DependencyGraph WITH Query <- Queries, queue <- waiting

\* Reads of up to four files, an edit, ids used again, tools that are not
\* recognized, arguments that cannot be read, results for all or by file, and
\* reports in a user message: every transcript of up to three messages, and
\* those of four that begin with two calls.
Says(form, says) == [form |-> form, says |-> says]
Use(id, tool, targets) == [id |-> id, tool |-> tool, targets |-> targets]
Assistant(uses) == [role |-> "assistant", body |-> uses]
Tool(id, content) == [role |-> "tool", body |-> [id |-> id, content |-> content]]
User(body) == [role |-> "user", body |-> body]
Calling ==
  {Assistant(<<Use(1, "read_files", <<"f", Bad>>), Use(2, "run_commands", None)>>),
   Assistant(<<Use(1, "editor", <<"g">>), Use(2, "other", <<"g">>)>>),
   Assistant(<<Use(1, "editor", <<>>), Use(1, "read_files", <<"f", "g", "h", "f">>)>>),
   Assistant(<<Use(2, "read_files", None)>>)}
Message ==
  Calling \cup {Tool(1, Says("object", <<"ok">>)), Tool(1, Says("object", <<"failed">>)), Tool(2, Says("text", <<>>)),
               Tool(1, Says("list", <<"ok", "failed">>)), Tool(1, Says("list", <<"failed", "failed", "ok">>)),
               User(None), User([activity |-> "modified", target |-> "f", outcome |-> "confirmed"])}
Transcripts == UNION {[1 .. n -> Message] : n \in 0 .. 3} \cup {<<c, d, e, f>> : c, d \in Calling, e, f \in Message}
Transcript == INSTANCE ToolTranscript WITH
  Transcript <- Transcripts, Bound <- 3,
  phase <- reading, position <- looked, calls <- announced

\* Plans of up to two steps over two files, and a file of four lines.
Diff(n) == [i \in 1 .. n |-> [mark |-> "+", line |-> n + i]]
PlanSteps == [path : {1, None}, op : {"MODIFY"}, start : {0, 1, 3}, count : 0 .. 2, diff : {Diff(0), Diff(2)}]
             \cup [path : {2}, op : {"junk", "DELETE"}, start : {-1, 2}, count : {1}, diff : {Diff(1)}]
Drafts == INSTANCE PatchPlan WITH
  Path <- {1, 2}, Plans <- UNION {[1 .. n -> PlanSteps] : n \in 0 .. 2}, Contents <- {<<11, 12, 13, 14>>}

\* Changes of up to two files; executions of up to two steps, with or without
\* a context, an answer and what a step notes of its own duration.
AppliedFile(path, op) == [path |-> path, op |-> op, status |-> "APPLIED"]
Ops == {"ADD", "MODIFY", "DELETE", "RENAME"}
AppliedChanges ==
  [files : {<<>>} \cup {<<AppliedFile(1, o)>> : o \in Ops} \cup {<<AppliedFile(1, o), AppliedFile(2, q)>> : o, q \in Ops},
   success : BOOLEAN, untracked : BOOLEAN]
Took(n, noted) == [took |-> n, noted |-> noted]
StepResults == {<<>>} \cup [1 .. 1 -> {Took(0, 0), Took(2000, 0), Took(2, 2)}] \cup [1 .. 2 -> {Took(0, 0), Took(2000, 2)}]
ExecutionReports ==
  {e \in [steps : StepResults, success : BOOLEAN, failures : 0 .. 1,
          capability : [symbols : {0, 1}, modules : {0, 2}, tokens : {0, 4}, report : {0, 3}] \cup {None},
          answer : [prompt : {0, 1, 8}, completion : {0, 1}] \cup {None}] :
     e.failures = (IF e.success THEN 0 ELSE 1) /\ (e.success \/ e.steps # <<>>)}
Verdict == INSTANCE ChangeVerdict WITH Applied <- AppliedChanges, Executions <- ExecutionReports

\* Conversations of up to two messages, and of three that follow one another:
\* typed texts, tasks and tool results, commands negated once, twice and in
\* the message before.
Texts == {<<>>, <<"explain">>, <<"dont", "fix">>, <<"how", "does", "fix">>, <<"dont">>, <<"never", "dont", "add">>,
          <<"refactor", "dont", "plan", "plan">>, <<"refactoring", "above">>, <<"test", "above">>, <<"modify", "files">>}
Chat(role, envelope, words, blocks) == [role |-> role, envelope |-> envelope, text |-> words, tasks |-> blocks]
ChatMessages ==
  {Chat("user", e, t, <<>>) : e \in BOOLEAN, t \in Texts} \cup {Chat("assistant", FALSE, <<"fix">>, <<>>)}
  \cup {Chat("user", e, <<"find", "test">>, <<<<"test">>>>) : e \in BOOLEAN}
OwnRules ==
  << [intent |-> "junk", keywords |-> {<<"explain">>}], [intent |-> "TEST", keywords |-> None],
     [intent |-> "SEARCH", keywords |-> {<<"test">>, <<"modify", "files">>}] >>
Planning == INSTANCE RequestPlanning WITH
  Conversations <- UNION {[1 .. n -> ChatMessages] : n \in 0 .. 2}
                   \cup [1 .. 3 -> {Chat("user", FALSE, <<"explain">>, <<>>), Chat("user", FALSE, <<"fix", "above">>, <<>>),
                                    Chat("user", TRUE, <<"find">>, <<>>)}],
  Demands <- {[intent |-> i, custom |-> c, enabled |-> TRUE] : i \in {None, "DEBUG", "junk"}, c \in {<<>>, OwnRules}}
             \cup {[intent |-> None, custom |-> <<>>, enabled |-> FALSE]}

\* Conversations of up to three messages, sound, unusual and refused ones; the
\* parameters of a body present, absent and of a wrong type; and rankings of
\* up to four symbols, one of them twice.
Words(role, content, tool, n) == [role |-> role, content |-> content, calls |-> tool, number |-> n]
Sent(n) ==
  {Words(r, c, FALSE, n) : r \in {"system", "user", "tool"}, c \in {"text", "parts"}}
  \cup {Words("assistant", "absent", b, n) : b \in BOOLEAN}
  \cup {Words("system", "empty", FALSE, n), Words(Invalid, "absent", FALSE, n), Words(None, "text", FALSE, n)}
Opening == {Words("system", c, FALSE, 1) : c \in {"text", "parts"}}
Threads ==
  {<<>>, Invalid} \cup {<<m>> : m \in Sent(1)} \cup {<<m, n>> : m \in Sent(1), n \in Sent(2)}
  \cup {<<m, n, o>> : m \in Opening, n \in Sent(2), o \in {Words("system", "text", FALSE, 3), Words("user", "text", FALSE, 3)}}
Body(thread, stream, options, field) ==
  [messages |-> thread, stream |-> stream, stream_options |-> options, seed |-> field, tools |-> field,
   temperature |-> field, max_tokens |-> field, tool_choice |-> field, stop |-> field]
Symbol(name, module) == [name |-> name, module |-> module]
Sending == INSTANCE ContextMessages WITH
  Bodies <- {Body(t, "true", "dict", "good") : t \in Threads}
            \cup {Body(<<m>>, s, o, f) : m \in Opening, s \in {"true", "false", "junk", Unset},
                                         o \in {Unset, "dict", "junk"}, f \in {Unset, "good", "bad"}},
  Rankings <- {<<>>, <<Symbol(1, 1)>>, <<Symbol(1, 1), Symbol(1, 1)>>,
               <<Symbol(2, 1), Symbol(3, 2), Symbol(1, 1), Symbol(3, 2)>>}

\* Questions of four intents, a SEARCH having no depth, and scored symbols of up
\* to four, one of them twice.
Scored == {<<>>, <<Symbol(1, 1)>>, <<Symbol(1, 1), Symbol(1, 1)>>, <<Symbol(2, 1), Symbol(3, 2)>>,
           <<Symbol(2, 1), Symbol(3, 2), Symbol(2, 1), Symbol(4, 3)>>}
Inquiry(intent, symbols, modules) ==
  [intent |-> intent, named |-> IF symbols = <<>> THEN {} ELSE {1}, scored |-> symbols, modules |-> modules]
Capability == INSTANCE CapabilityRun WITH
  DefaultSymbols <- 4,
  Inquiries <- {Inquiry(i, s, {1, 2, 3}) : i \in {"EXPLAIN", "DEBUG", "SEARCH", "TEST"}, s \in Scored}
               \cup {Inquiry("EXPLAIN", <<>>, {})}

\* Two modules that refer to each other, two symbols in them; options with
\* known and unknown names, twice the same one, missing and of a wrong type.
Options(names) == {Unset, Invalid, <<>>} \cup {<<n>> : n \in names} \cup {<<n, m>> : n, m \in names}
Tasks == INSTANCE EngineeringTasks WITH
  Named <- {[name |-> "f", full |-> "x.f"], [name |-> "g", full |-> "y.g"]}, Indexed <- {"x", "y"},
  Relations <- {<<"x", "y">>, <<"y", "x">>, <<"x.f", "y.g">>, <<"x", "x.f">>},
  Ranked <- <<[name |-> "x.f", module |-> "x"], [name |-> "y.g", module |-> "y"]>>,
  Advice <- {[symbols |-> {"x.f"}, modules |-> {"x"}]},
  Requests <- [query : BOOLEAN, symbols : Options({"f", "x.f", "none"}), files : {Unset, Invalid, <<"x">>, <<"x", "z">>},
               suspectedSymbols : {Unset, <<>>, <<"g">>}, suspectedModules : {Unset, <<"y">>}]

\* Four functions and methods and a class in three modules, one of them a root
\* module, with a main(), and up to three calls between them.
Definition(name, module, kind, main, abstract) ==
  [name |-> name, module |-> module, kind |-> kind, main |-> main, abstract |-> abstract]
Relation(ty, src, tgt) == [type |-> ty, source |-> src, target |-> tgt]
Definitions ==
  {Definition(11, 10, "function", TRUE, FALSE), Definition(21, 20, "function", FALSE, FALSE),
   Definition(22, 20, "function", FALSE, FALSE), Definition(31, 30, "class", FALSE, FALSE),
   Definition(32, 30, "method", FALSE, TRUE)}
Defines ==
  {Relation("DEFINES", 10, 11), Relation("DEFINES", 20, 21), Relation("DEFINES", 20, 22),
   Relation("DEFINES", 30, 31), Relation("DEFINES", 31, 32)}
SomeCalls == {Relation("CALLS", s, t) : s, t \in {11, 21, 22, 32}} \ {Relation("CALLS", s, s) : s \in {11, 22, 32}}
Review == INSTANCE RepositoryReview WITH
  RootModules <- {10}, InitModules <- {}, LargeModule <- 1, HugeModule <- 2, ManyDependencies <- 1,
  Indexes <- {[modules |-> {10, 20, 30, 40}, symbols |-> Definitions, rels |-> Defines \cup C] :
                C \in {{}} \cup {{c} : c \in SomeCalls} \cup {{c, d} : c, d \in SomeCalls}
                      \cup {{c, d, e} : c, d, e \in SomeCalls}}

\* Repositories of up to four files: nested classes and blocks, calls by name, by
\* self and by a chain, two classes of one name, a method defined twice, a file
\* that is excluded twice, one that does not parse and a hidden root.
ClassNode(name, parent, bases) == [kind |-> "class", name |-> name, parent |-> parent, bases |-> bases]
DefNode(name, parent) == [kind |-> "def", name |-> name, parent |-> parent]
CallNode(chain, parent) == [kind |-> "call", chain |-> chain, parent |-> parent]
BlockNode(parent) == [kind |-> "block", parent |-> parent]
PythonFile(module, ast) ==
  [module |-> module, nodes |-> ast, test |-> FALSE, globbed |-> FALSE, hidden |-> FALSE, parses |-> TRUE]
Repository(sources) == [hidden |-> FALSE, files |-> sources]
Service ==
  <<ClassNode(10, 0, {<<90>>}), DefNode(11, 1), CallNode(<<0, 12>>, 2), DefNode(12, 1), BlockNode(4),
    CallNode(<<20>>, 5), ClassNode(13, 1, {}), DefNode(14, 7), CallNode(<<0, 15>>, 8), DefNode(15, 7),
    CallNode(<<0, 11>>, 10)>>
Helpers ==
  <<[kind |-> "import", parent |-> 0], DefNode(20, 0), CallNode(<<10>>, 2), CallNode(<<1, 10, 99, 12>>, 2),
    CallNode(<<30>>, 2), CallNode(<<8, 7>>, 0), CallNode(<<20>>, 0), BlockNode(0), DefNode(21, 8),
    CallNode(<<20>>, 9)>>
Twins ==
  <<ClassNode(16, 0, {}), DefNode(11, 1), CallNode(<<0, 17>>, 2), DefNode(17, 1), DefNode(17, 1),
    ClassNode(18, 0, {<<16>>}), DefNode(11, 6), DefNode(17, 6), CallNode(<<0, 11>>, 8), CallNode(<<11>>, 7)>>
Checks == <<DefNode(40, 0), CallNode(<<20>>, 1)>>
Namesake == <<ClassNode(10, 0, {}), DefNode(12, 1)>>
Indexing == INSTANCE RepositoryIndexing WITH
  Self <- 0, MaxBuilds <- 2,
  Repositories <-
    {Repository({PythonFile(1, Service), PythonFile(2, Helpers)}),
     Repository({PythonFile(1, Service), PythonFile(2, Helpers), PythonFile(3, Twins),
                 [PythonFile(4, Checks) EXCEPT !.test = TRUE, !.globbed = TRUE]}),
     Repository({PythonFile(1, Namesake), PythonFile(2, Service)}),
     Repository({[PythonFile(1, Checks) EXCEPT !.globbed = TRUE], [PythonFile(2, <<>>) EXCEPT !.parses = FALSE],
                 [PythonFile(3, Checks) EXCEPT !.test = TRUE]}),
     Repository({[PythonFile(1, Checks) EXCEPT !.hidden = TRUE], PythonFile(3, Helpers)}),
     [Repository({PythonFile(1, Checks)}) EXCEPT !.hidden = TRUE]}

ASSUME /\ Capture!GitAssumption
       /\ Impact!ImpactAssumption /\ Graph!GraphAssumption /\ Transcript!TranscriptAssumption
       /\ Drafts!PlanAssumption /\ Verdict!VerdictAssumption
       /\ Planning!PlanningAssumption /\ Capability!CapabilityAssumption /\ Review!ReviewAssumption
       /\ Indexing!RepositoryIndexingAssumption

-----------------------------------------------------------------------------
(* One of them runs *)

\* By component, its variables.
CaptureVars == <<tree, detect, capture, seen, tokens, position, parsed, error>>
ImpactVars == <<question, pass, level, distance, visited, impacted, report>>
GraphVars == <<query, edges, waiting, reached>>
TranscriptVars == <<messages, reading, looked, announced, answered, room, beyond, kept>>
DraftsVars == <<plan, drafting, patches, faults, target, text, original, hunk>>
VerdictVars == <<work, judging, rules, findings, verification, executed, evaluation>>
PlanningVars == <<conversation, wanted, planning, selected, matched, contextPlan, search>>
SendingVars == <<client, ranked, sending, normalized, package, payload>>
CapabilityVars == <<capability, inquiry, working, intended, matches, built, assembled, answer>>
TasksVars == <<workflow, asked, progress, planned, fault>>
ReviewVars == <<inspected, remaining, diagnosis, overview, advice>>
IndexingVars == <<walked, catalogue, skipped, reported, builds, reply>>

ParkCapture == /\ tree = Parked /\ detect = Parked /\ capture = Parked /\ seen = Parked
               /\ tokens = Parked /\ position = Parked /\ parsed = Parked /\ error = Parked
ParkImpact == /\ question = Parked /\ pass = Parked /\ level = Parked /\ distance = Parked
              /\ visited = Parked /\ impacted = Parked /\ report = Parked
ParkGraph == query = Parked /\ edges = Parked /\ waiting = Parked /\ reached = Parked
ParkTranscript == /\ messages = Parked /\ reading = Parked /\ looked = Parked /\ announced = Parked
                  /\ answered = Parked /\ room = Parked /\ beyond = Parked /\ kept = Parked
ParkDrafts == /\ plan = Parked /\ drafting = Parked /\ patches = Parked /\ faults = Parked
              /\ target = Parked /\ text = Parked /\ original = Parked /\ hunk = Parked
ParkVerdict == /\ work = Parked /\ judging = Parked /\ rules = Parked /\ findings = Parked
               /\ verification = Parked /\ executed = Parked /\ evaluation = Parked
ParkPlanning == /\ conversation = Parked /\ wanted = Parked /\ planning = Parked
                /\ selected = Parked /\ matched = Parked /\ contextPlan = Parked
                /\ search = Parked
ParkSending == /\ client = Parked /\ ranked = Parked /\ sending = Parked /\ normalized = Parked
               /\ package = Parked /\ payload = Parked
ParkCapability == /\ capability = Parked /\ inquiry = Parked /\ working = Parked
                  /\ intended = Parked /\ matches = Parked /\ built = Parked /\ assembled = Parked
                  /\ answer = Parked
ParkTasks == /\ workflow = Parked /\ asked = Parked /\ progress = Parked /\ planned = Parked
             /\ fault = Parked
ParkReview == /\ inspected = Parked /\ remaining = Parked /\ diagnosis = Parked
              /\ overview = Parked /\ advice = Parked
ParkIndexing == /\ walked = Parked /\ catalogue = Parked /\ skipped = Parked /\ reported = Parked
                /\ builds = Parked /\ reply = Parked

AllInit ==
  /\ Init
  /\ IF Is("capture") THEN Capture!Init ELSE ParkCapture
  /\ IF Is("impact") THEN Impact!Init ELSE ParkImpact
  /\ IF Is("graph") THEN Graph!Init ELSE ParkGraph
  /\ IF Is("transcript") THEN Transcript!Init ELSE ParkTranscript
  /\ IF Is("drafts") THEN Drafts!Init ELSE ParkDrafts
  /\ IF Is("verdict") THEN Verdict!Init ELSE ParkVerdict
  /\ IF Is("planning") THEN Planning!Init ELSE ParkPlanning
  /\ IF Is("sending") THEN Sending!Init ELSE ParkSending
  /\ IF Is("capability") THEN Capability!Init ELSE ParkCapability
  /\ IF Is("tasks") THEN Tasks!Init ELSE ParkTasks
  /\ IF Is("review") THEN Review!Init ELSE ParkReview
  /\ IF Is("indexing") THEN Indexing!Init ELSE ParkIndexing

AllNext ==
  /\ Next
  /\ IF Is("capture") THEN Capture!Next ELSE UNCHANGED CaptureVars
  /\ IF Is("impact") THEN Impact!Next ELSE UNCHANGED ImpactVars
  /\ IF Is("graph") THEN Graph!Next ELSE UNCHANGED GraphVars
  /\ IF Is("transcript") THEN Transcript!Next ELSE UNCHANGED TranscriptVars
  /\ IF Is("drafts") THEN Drafts!Next ELSE UNCHANGED DraftsVars
  /\ IF Is("verdict") THEN Verdict!Next ELSE UNCHANGED VerdictVars
  /\ IF Is("planning") THEN Planning!Next ELSE UNCHANGED PlanningVars
  /\ IF Is("sending") THEN Sending!Next ELSE UNCHANGED SendingVars
  /\ IF Is("capability") THEN Capability!Next ELSE UNCHANGED CapabilityVars
  /\ IF Is("tasks") THEN Tasks!Next ELSE UNCHANGED TasksVars
  /\ IF Is("review") THEN Review!Next ELSE UNCHANGED ReviewVars
  /\ IF Is("indexing") THEN Indexing!Next ELSE UNCHANGED IndexingVars

AllVars ==
  <<vars, CaptureVars, ImpactVars, GraphVars, TranscriptVars, DraftsVars,
    VerdictVars, PlanningVars, SendingVars, CapabilityVars, TasksVars, ReviewVars,
    IndexingVars>>

\* The fairness that one more of them states.
CaptureFair ==
  /\ WF_(CaptureVars)(Is("capture") /\ (Capture!CommandFails \/ Capture!RootResolved \/ Capture!StatusRead))
  /\ WF_(CaptureVars)(Is("capture") /\ (Capture!Parse \/ Capture!Parsed))

AllSpec == AllInit /\ [][AllNext]_AllVars /\ Fair /\ CaptureFair

\* Two of them by themselves.
DraftsSpec == Is("drafts") /\ AllInit /\ [][AllNext]_AllVars
SendingSpec == Is("sending") /\ AllInit /\ [][AllNext]_AllVars

-----------------------------------------------------------------------------
(* Properties: what each module says of its component *)

\* The tasks of a shipped workflow plan in an order that respects its graph, for
\* one change, a plan is what its patches do, and a change and its execution are
\* judged by what was done.
WorkIsAsPlanned == /\ Is("tasks") => Tasks!PlansAreGrounded
                   /\ Is("drafts") => Drafts!PlanIsApplied
                   /\ Is("verdict") => Verdict!VerdictIsSound

\* What comes from outside is read for what it says: a snapshot and the modules
\* derived from it are those of one tree, the newest tool results of a
\* transcript are read with their own calls, a request is planned by what the
\* user said, what the client sent is what the provider gets, and the parts
\* of a capability's answer tell of one context.
\* So is a repository: what a change is said to reach it reaches, at the
\* distance given, a bounded walk of the graph finds all that is as near, what
\* its analyses report is in the graph, the same in each of them, and the calls
\* in the graph are calls that are written.
InputIsRead == /\ Is("capture") => Capture!SnapshotIsTrue
               /\ Is("transcript") => Transcript!TranscriptIsRead
               /\ Is("planning") => Planning!PlanAnswersTheUser
               /\ Is("sending") => Sending!RequestIsKept
               /\ Is("capability") => Capability!AnswersAreConsistent
               /\ Is("impact") => Impact!ImpactIsReal
               /\ Is("graph") => Graph!GraphIsWalked
               /\ Is("review") => Review!ReviewIsSound
               /\ Is("indexing") => Indexing!IndexIsTrue

\* The calls that loop or wait end: the controller's, the goal's, the capture's.
CallsEnd == /\ Is("controller") => Controller!CallReturns
            /\ Is("autonomous") => Autonomous!Ends
            /\ Is("capture") => Capture!CaptureEnds

-----------------------------------------------------------------------------
(* What two comments of the code say and the code does not do *)

\* A hunk is about the lines of the old file: "Starting line number in the old
\* file (1-based)" (packages/patches/models.py).
HunksMeanTheOldFile == Is("drafts") => Drafts!HunksMeanTheOldFile

\* "Client system messages are preserved in order, placed first."
\* (packages/serializers/openai.py)
SystemMessagesKept == Is("sending") => Sending!SystemMessagesKept
=============================================================================
