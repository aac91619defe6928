# Verification of the local AI platform

TLA+ models of the parts of this repository that carry its logic, the TLC runs
that check them, and TLAPS proofs of what matters most about them.
`PROJECT.json` holds the same information for tools: components, runs, the
mutants that show each property can fail, the lines every definition stands
for, hazards, findings and theorems.

    tlasany M.tla                          # parse
    tlc -workers 2 -config X.cfg M         # model-check a run of PROJECT.json
    tlapm M.tla                            # check proofs

## 1. Inventory

The gateway is an OpenAI-compatible HTTP server in front of a local model
server. It adds repository context to chat requests and trims their history.
One asyncio event loop serves all requests; worker threads only run Git.

```
client -> SessionLogger > Timing > Request middleware -> api/chat.py
       -> PipelineEngine: model_resolution -> planning -> repository_context
                          -> [history cap] -> provider -> vLLM / OpenAI
scripts: launcher, quality harness, ingest, log analysis  <-> session log, memory file
dormant: controller, sessions, autonomous loop, workflows, modification, ...
```

The handler of a stage does not await, except that of the provider; between the
await points a request is atomic. What the requests share is in memory: two LRU
trackers, the change signal, the symbol index, the router. What outlives the
process is two files: the session log and the engineering memory.

### Parts on the live path

| Part | State | Operations | Talks to | What is hard | What makes it correct |
|---|---|---|---|---|---|
| File activity (`pipeline/file_activity.py`) | ordered cache, transcript fingerprint -> conversation state with three bounded sets | `observe`, `snapshot` | called by the context stage; result goes to the session record | re-sent transcripts, retries, branches, eviction, sliding parse window, full sets | credits exactly what was operated on after being supplied; never claims a whole lineage that it did not see |
| Tool transcript (`pipeline/cline_activity.py`) | none; two passes over one request | `parse_envelopes` | feeds file activity | ids used again, results late, twice or for several targets, a bound in the middle | the newest results are read, each with its own call, and what the bound kept out is counted |
| Delta context (`context/delta.py`) | ordered cache, hash of user texts -> symbols believed sent | `get`, `filter_candidates`, `store` | called by the context stage before it composes | conversations without an identity, failure after `store`, eviction | withholds only what an earlier turn composed; forgetting costs a resend and never a symbol |
| Change signal (`repository/changed_files.py`, `changed_files_refresh.py`, `main.py`) | `_primed`, `_captured_at`, `_paths`; the refresh task | `prime`, `refresh`, `module_paths`, `start`, `stop` | worker threads run Git; requests read the set | a thread captures while the tree changes, requests read and the application stops | one capture at a time, requests never run Git, nothing older replaces something newer, changes surface, `stop` returns |
| Working tree capture (`repository/git_changes.py`) | one snapshot in the making | `capture` | Git, under one deadline | failures of each command, records of two tokens, paths of two names | the snapshot and the keys are those of one tree, or there is none |
| Selection (`context/` without delta; the context stage) | a package in the making, the record of it | rank, promote, guard, attach, trim, withhold, compare | index, changed set, delta | promotions after the guard, ratios of two budgets, a comparison that may fail | the guard survives, the budget holds, the record is true of what was sent |
| Scoring (`context/scoring.py`, `query.py`) | none | `score` by the words of the request | selection | thirty rules that add up, discounts and caps | one more word takes nothing away; what is named outranks what is not |
| Index (`repository/symbols`, `relationships`, `index`) | built at start-up, then immutable | walk, extract, build, look up | read by selection | short names that are not unique, files that do not parse | calls in the graph are written calls, every query finds what the others find |
| Planning (`planning/`, `pipeline/user_messages.py`) | none | select texts, detect an intent, plan | context stage | envelopes, negation, overrides, texts joined together | the plan answers what the user said |
| Messages (`serializers/`, `normalized.py`, `composer.py`) | the request on its way | normalize, compose, serialize | provider | rebuilt twice, each time from a part of it | what the client sent is what the provider gets |
| History cap (`pipeline/history.py`, `engine.py`) | none; a function of the re-sent conversation | `cap_history`, `_apply_history_cap` | between planning and the provider | calls with several or late results, reused identifiers, no user message, budgets at zero | exchanges stay whole, the current turn survives, the newest that fits is kept, stable over the turns |
| vLLM streaming (`providers/vllm.py`) | `pending_chunks`, `pending_text`, decision flag | `chat_stream` | upstream lines in, events out | tags cut anywhere, other chunks in between, failures while text is held back | the client is told what the unstreamed answer says, once and in order |
| Request pipeline and record (`pipeline/engine.py`, `response.py`, `api/chat.py`, `session_log.py`) | stage results; the request scope; the log file | `execute`, `from_context`, the handler, the middleware | runs the stages; writes one JSON line per request | a failure at each point, streamed bodies, an error after success | the provider runs after success only; a 200 carries its answer; the record agrees with the response |
| Memory (`engineering_memory/`, its scripts and routes) | a JSON file, and in every process a dictionary of what it read | `load`, `store`, ingest, evaluate | session log in, runtime context out | one lock per process, files written in place, kills | nothing read from the log is lost but by a kill |
| Launcher and harness (`scripts/`) | experiment, worktrees; two requests and a log being written | `validate`, blocks; the delta probe | gateways through their environment, the session log | leftovers of a terminal, records that come late | two arms read the same but for what is under test; a probe is judged by its own records |

### Dormant parts

These packages are complete and tested but the gateway does not reach them.

| Part | State and operations | Hard behaviour | Correctness |
|---|---|---|---|
| Engineering controller (`controller/controller_v2.py`) | session record; select, execute, verify, evaluate, decide, retry | sessions handed back and resumed under another configuration, exceptions anywhere | a verdict is earned, a session tells its own story, retries are bounded, calls return |
| First controller, bootstrap, platform validators | registries, services, a controller with handlers and an event log | lazy registration that fails half-way, two validators of one thing | the platform that is accepted works, log, results and sessions tell the same |
| Bootstrap container | registered and resolved names, a recursion | cycles, replaced registrations | one instance for a name, with the instances of its dependencies |
| Engineering session (`session/`) | registry, artifacts, statistics, metadata files | creating twice, restarts that load some | what a session has is its own; ended is ended |
| Autonomous engine (`autonomous/`) | iterations, counters, policies, stopping conditions | failures that are not counted, custom policies | always stops, for the stated reason |
| Modification, patches (`modification/`, `patches/`) | files, backups, plan, hunks | failure in the middle, backups within a second, numbers of lines that move | what is listed was applied; a restored backup undoes it |
| Verification, evaluation | rules, scores | half applied changes, wrong inputs of the metrics | the verdict is about what was done |
| Workflows, execution, tasks, capabilities | step graph, plans, reports | unknown and cyclic dependencies, steps that fail, options of any shape | every step after those it depends on; parts of an answer tell of one context |
| Dependency graph, impact, diagnostics, architecture, advice | reports on the index | traversals that share a dictionary; cycles | what is reported is in the graph |
| Observability, benchmark, other scripts | append-only registries, statistics | none | left out, see section 7 |

The rows of `components` in `PROJECT.json` say for each part which operations
its modules have and which they leave out; those that are not modelled are
listed with the reason.

## 2. Plan

Order: what every request of the running gateway depends on, then the files
that outlive it and the scripts that share them, then the dormant frameworks.

1. **Done, modelled and proved about:** FileActivity, SentSymbols over
   SentMemory, ContextSelection, ChangedFilesRefresh, HistoryCap, VLLMStream,
   ChatRequest, and the eleven components of Frameworks.
2. **Done, modelled:** the components that MCFrameworks adds to those of
   Frameworks.
3. **Next, to prove:** the working tree capture, the dependency graph and the
   request's way to the provider (parts of InputIsRead), patches against their
   plan (part of WorkIsAsPlanned).
4. **Next, to model:** two requests whose stages overlap a capture, in one
   composition of ContextSelection, SentSymbols and ChangedFilesRefresh;
   the cache of settings across the routes; the OpenAI provider's stream.

Abstract specification: SentMemory, a memory that may forget anything and
invents nothing, is stated, and SentSymbols implements it.

## 3. Modules

Modules with a run of their own:

| Module | Models | Correspondence |
|---|---|---|
| `OrderedDict` | the recency order of a Python `OrderedDict` | `MoveToEnd` on a sequence of distinct keys; oldest first |
| `FileActivity` | `FileActivityTracker` | `Observe` = `observe` with correlation, merge, store and eviction; `Snapshot` = `snapshot`; `Restart` = loss of the process. `Admitted` gives every set a bounded `_add` loop may end with |
| `SentMemory` | the promise of delta injection | `Request`, `Forget` |
| `SentSymbols` | `SentSymbolTracker` as `execute()` drives it | `Request` = get, filter, store, then compose, which may fail; `Restart`; `ImplementsMemory` is the refinement |
| `ContextSelection` | the context builder, ranking, budget and composer, the context stage, and the promotion report of `scripts/analyze_sessions.py` | `Rank` = scores, bonus, guard and promotions, `Render` = content and trimming under a budget, `Send` = withholding, composition and comparison with the package without the bonus, `Degrade` = an exception between them; the report is a set of operators on the record it leaves |
| `ChangedFilesRefresh` | signal, refresher, lifespan | one action per step of a thread (`Begin`, `Snapshot`, `SnapshotFails`, `Publish`, `Abandoned`) and of the event loop (`Prime` ... `Stopped`), with `Edit` and `Tick` as environment |
| `HistoryCap` | `cap_history`, `_apply_history_cap` | operators for the linking, grouping, walking and truncating; `Say` and `Request` grow a conversation and cap it turn by turn |
| `VLLMStream` | `chat_stream` | one action per kind of line and per way a stream ends |
| `ChatRequest` | engine, response, handler, session logger | one action per return or exception of a stage, of the cap, of the stream and of the log |

`Frameworks` puts components that share nothing side by side. Its variable
`driven` names the one a behaviour drives; the variables of the others are
parked. So a behaviour is a behaviour of exactly one of them, its interleavings
included, and the state space is the sum of theirs and not the product.
`Frameworks` has the eleven that are proved about, and its constants are free;
`MCFrameworks` extends it, gives a name for each of the others to its constant
`Elsewhere`, and drives those in the same way. Its `AllSpec` is the conjunction
of both, so what is proved of the `Spec` of `Frameworks` holds in it.

| Module in `Frameworks` (F) or added by `MCFrameworks` | Models | `driven` |
|---|---|---|
| `EngineeringMemory` (F) | loading, storing, rewriting the memory file; session log; processes that are killed | memory |
| `EngineeringController` (F) | `EngineeringControllerV2`: loop, sessions, retries, resumption | controller |
| `CodeModification` (F) | validation of paths, backup file by file, application with failures and kills within a write, restoration | modification |
| `PatchPlan` | plan to patches, patch validation, hunks to lines | drafts |
| `AutonomousEngine` (F) | the goal loop | autonomous |
| `EngineeringSession` (F) | lifecycle, artifacts, persistence | session |
| `WorkflowExecution` (F) | graph, layers, steps, flattened plans | execution |
| `EngineeringTasks` | the eight tasks, the five shipped workflows | tasks |
| `CapabilityRun` | the context capabilities | capability |
| `ChangeVerdict` | self-verification and evaluation | verdict |
| `DependencyContainer` (F) | the bootstrap container | container |
| `Platform` (F) | bootstrap, validators, first controller | platform |
| `GitChanges` | one capture of the working tree and its module keys | capture |
| `RepositoryIndexing` | walk, extraction, index, queries | indexing |
| `DependencyGraph`, `ChangeImpact`, `RepositoryReview` | traversals, impact, diagnostics and advice | graph, impact, review |
| `SymbolScoring` (F) | the words of a request and the rules that score them | scoring |
| `RequestPlanning` | texts, intents, plans, the query | planning |
| `OpenAIMessages`, `ContextMessages` | package, serializer, normalized request, payload | sending |
| `ToolTranscript` | `parse_envelopes` | transcript |
| `AbLaunch`, `DeltaProbe` (F) | A/B launcher, delta probe of the quality harness | launch, probe |

A property of these two conjoins what their modules say of one concern (for
example, `ScriptsAreFair` is `LaunchIsIsolated` and `ProbeIsFair`, each guarded
by its `driven`); every conjunct has a mutant of its own that breaks it, in
`PROJECT.json`. `*Proofs` hold the theorems about the module they are named
after, other `MC*` the alphabets and small sets for TLC.

Shared abstractions: a digest is the value it is taken of, so hash collisions
do not exist here; texts, symbols and files are model values, numbers or small
sets; sizes are small numbers, so the ratio of characters to tokens is left
out; wording, logging and timing fields are left out. The header of each module
names what else it abstracts.

History variables (`lineage`, `withheld`, `sent`, `carried`, `blocked`,
`lapped`, `original` and the like) exist for properties only. No action reads
them to decide anything.

## 4. Runs

| Run | Bounds | Shows |
|---|---|---|
| `file_activity` | 2 files, 5 transcripts that branch, 2 stored states, 1 file per set, 2 parsed envelopes | TypeOK, CreditedWasSupplied, ExactUnlessClipped, CompleteMeansWholeLineage, NoPriorContextIsTrue |
| `sent_symbols` | 2 symbols, 4 histories (none, two turns, another), 2 keys | TypeOK, SuppressionEarned, refinement of SentMemory |
| `context_selection` | 4 symbols of 3 modules, 5 kinds of match, 6 queries, 2 budgets, 2 slots with content | TypeOK, GuardHolds, BudgetHolds, RecordIsTrue |
| `changed_files` | 2 worker threads, TTL 3, 3 changes of the tree | TypeOK, RequestsNeverRunGit, NeverBackwards, ChangesSurface, StopReturns |
| `history_cap` | every conversation of up to 5 messages over 6 kinds, 3 settings | TypeOK, TurnIsKept, CallsTravelWithResults, KeepsTheNewest, DroppedStaysDropped |
| `history_cap_order` | the same | **violated** OriginalOrder |
| `vllm_stream` | streams of up to 4 lines from 8 contents, tags split in two | StreamSaysTheSame, NothingIsLost |
| `vllm_stream_refusal` | the same | **violated** RefusalIsReported |
| `chat_request` | every outcome of every stage, 2 stream events | TypeOK, AnswersAreTrue, RecordAgrees, EveryRequestEnds |
| `frameworks` | `MCFrameworks`; see below | MemoryIsKept, VerdictsAreEarned, ChangesAreTold, LoopIsBounded, LivesAreApart, ScriptsAreFair, InstancesAreShared, OrderIsKept, NothingIsUndone (of `Frameworks`); WorkIsAsPlanned, InputIsRead, CallsEnd |
| `hunks_meet_their_lines` | `MCFrameworks`, patches only | **violated** HunksMeanTheOldFile |
| `system_messages_kept` | `MCFrameworks`, messages only | **violated** SystemMessagesKept |

Why the bounds are enough for the cases that matter:

* *File activity:* two stored states and transcripts three turns deep make
  eviction hit the prefix in use as well as a retry; one file per set makes
  every set full as soon as the second file comes; three operations against two
  parsed envelopes make the window slide.
* *Sent symbols:* the histories hold a turn, its continuation, a stranger and
  the request without user messages, and two keys are too few for them.
* *Selection:* four symbols compete for two slots with content and a budget that
  is exhausted by names alone or by the last source text; every assignment of
  scores and matches is tried, so the bonus, the guard and each promotion
  overtake one another. The memory holds nothing or two of the four symbols, so
  the first package may be emptied.
* *Change signal:* with two threads a second capture could overlap the first; a
  TTL of 3 lets a capture last longer than a window; three edits let one fall
  before a snapshot, one behind it and one behind the next.
* *History cap:* five messages hold two exchanges around a user message, an
  exchange whose result comes late and an identifier used twice; the settings
  are an explicit budget, a derived one and one that leaves nothing to spend.
* *Stream:* a tag arrives whole, in halves, glued to text, and around an empty
  chunk; the decision limit is just long enough for a block.
* *Request:* there is one request, because requests share no state here.
* *Memory:* an ingest and an evaluation over two log lines, each repeated after
  up to two kills, so that one writes between the other's read and write.
* *Controller:* no retry, fewer retries than iterations, as many; three calls,
  so that a session is handed back, resumed under another configuration and
  resumed again. *Goal loop:* up to three successes, policies in both orders.
* *Modification:* two files, a set that fails at either, each write ended, torn
  or not begun, a backup that stops anywhere, and two applications in one second;
  *patches:* two steps over a file of four lines.
* *Workflow:* every graph of three nodes with an unknown dependency, and graphs
  of four in up to three layers. *Container:* every chain, fork and cycle of
  three names. *Dependency graph:* every graph of four names with up to four
  edges; *impact:* of three names with up to three; *review:* up to three calls
  between four symbols of four modules.
* *Capture:* three paths in every combination of commit, index and tree that
  has one reading, so that a rename or copy stands before, between and behind
  ordinary records, and the limit of keys is passed.
* *Transcript:* every one of up to three messages and those of four that begin
  with two calls, under a bound of three envelopes.
* *Planning, messages:* conversations of up to two messages, chosen ones of
  three; *indexing:* six repositories that have nested classes, namesakes,
  overridden methods, tests and a file that does not parse; *scoring:* up to
  three words; *launcher:* a sound experiment and every combination of one or
  two slips; *probe:* two runs, another client's record.
* *Platform:* up to four requests of three operations, and ten contents of
  the registries. *Tasks, capabilities, verdicts:* every request that
  the listed options, rankings and reports make.

Deadlock is checked where the system runs forever (`file_activity`,
`sent_symbols`, `changed_files`). In the other runs a conversation, stream,
request or call really ends, so it is switched off there.

### Fairness

* `LoopFairness` (ChangedFilesRefresh): the event loop runs what is ready and
  time passes. `Wake` is strongly fair: starting a thread may fail, but not
  every time. This is all `StopReturns` needs.
* `GitFairness`: threads are scheduled, every Git command ends because
  `git_changes.py` kills it at its deadline, and a repository asked again and
  again answers at some point. Only `ChangesSurface` needs it.
* `ChatRequest` has weak fairness of its next-state relation: a backend
  answers, fails or runs into the provider's timeout, and a stream is finite.
* `MCFrameworks`: the loops of the controller and of the autonomous engine are
  straight-line code in one thread, so a step that is possible is taken; a Git
  command of a capture ends, if only by its deadline, and parsing is code
  without waits. `CallsEnd` needs nothing else. No other component has fairness.

## 5. Findings

Each is a `violation` run, whose counterexample is short.

1. **Index -1** (`history_cap_order`). With assistant messages only, the
   fallback index is -1: the last message is forwarded first, and again in
   place, and the dropped count is one short.
2. **A refused stream raises** (`vllm_stream_refusal`). The handler of an HTTP
   error reads the text of an unread streamed response, which raises past the
   sibling handlers. The unit test uses a mock that has a text.
3. **Hunks drift** (`hunks_meet_their_lines`). Hunks are applied one after the
   other with line numbers of the old file, so a hunk below one that inserts or
   removes lines replaces the wrong ones.
4. **System messages are dropped** (`system_messages_kept`). A system message
   whose content is a list of parts is lost as soon as repository context is
   added.

Other disagreements met while modelling. Those in parentheses are stated as a
definition in the module and TLC shows a counterexample when it is put in a cfg;
none of them is a run.

* Delta context: symbols are marked as sent before composing, which may fail
  (`WithheldWasCarried`). Three listed hazards have no property: this one, the
  record of a response that breaks off, and a platform with a cycle that its
  validators pass over (`CyclesAreCritical`). Two conversations with the same user texts are one to the tracker, and a
  request without user messages stores under the key every new one looks up.
* Change signal: a worker thread may outlive the application
  (`NoThreadOutlivesTheApplication`), as `stop()`'s docstring concedes and
  `main.py` does not.
* Session record: a failed context stage is recorded as `disabled`
  (`DegradedIsRecorded`), and with a dirty tree its baseline comparison is
  recorded as having had nothing to compare; what the application raises in
  mid-stream costs the record.
* Selection: a difference the record counts need not be in the text sent, as
  delta injection withholds it (`DifferenceIsInTheText`); the report counts
  packages that lost a symbol as "reorder only" (`ReorderOnlyKeepsMembers`);
  an excerpt adds its marker past its own budget.
* File activity: an operation refused by the full operations map is new again
  on the next re-send; `observe` reads the prefix without moving it to the end,
  so the store evicts by age of storing.
* History cap: the call of a protected tool result may be dropped when there is
  no user message; an identifier used again joins an older exchange.
* Stream: `[DONE]` or a line that is not JSON flushes the pending chunks but
  keeps the pending text, so an open tag may reach the client, and if content
  follows, the decision tells the flushed text again (`ToldTwice`; no stream that
  ends with `[DONE]` does this). A think block longer than the decision limit is
  told, though the unstreamed answer cuts it. `StreamSaysTheSame` excludes these
  two and nothing else.
* Scoring: the bonuses for docstring, size and `__init__.py`, the module match and the exact
  qualified name never apply on this path (`docs/scoring-rules.md`); a segment
  of the module path counts as an exact symbol name, so the name of the root
  package gives every symbol 100 points; `latest_` passes for `test_`.
* Planning: negated words still match the engineering rules; once a message has
  a `<task>` block later ones without are not planned for; the intent is read
  from all texts while the query is the last one.
* Index: one file that does not parse aborts the build; a builder's counters
  include its earlier builds (`ReportIsOfTheBuild`); `self` may be taken for a
  class of the same name elsewhere (`SelfIsTheClassAround`), and a call put on
  another method of the same name (`CallerIsAround`);
  `self.service.method()` never resolves; the view finds no callers at all
  (`CallersAreFound`); a root below a hidden directory gives an empty index.
* Impact, review: a name an earlier traversal met is not queued again, which
  hides what is behind it (`ReachesAll`); depth is not the longest chain (`DepthIsLongest`); diagnostics
  and architecture count one dictionary. Cycles are looked for in an undirected
  graph (`analyzer.py:204-205`), so two modules of which only one calls the other
  are reported as a cycle, against `architecture/models.py:100` and
  `docs/architecture-review.md:50`. `NoCircleIsMissed` asks what holds either way:
  names that depend on each other are in a reported cycle, and the names of a
  reported cycle are connected.
* Memory: the file is written in place (`SavedAtomically`).
* Controller: storing a session's record raises NameError, as the class is
  imported for type checking only (`VerdictsAreStored`); telemetry never
  records its events.
* Modification: a failure leaves the files before it changed
  (`FailureRollsBack`), and of the file it failed in maybe half, or a rename that
  is not listed; an ADD or a RENAME onto a file destroys what no backup has; context lines of a hunk are dropped and a negative line
  number is masked; a rename counts as a modification in one place only.
* Verification, evaluation: a change applied by half (`success` false) passes
  with full marks, as the rule only looks at the files listed as applied, though
  `rules.py:120` and `docs/self-verification.md:66` say it verifies that all
  patches were applied. `VerificationIsTold` says nothing of such a change.
  Metrics are not normalized and durations are read from metadata, so that every
  run is below the threshold of an automatic review.
* Goal loop: a failed iteration is not counted against the limit
  (`IterationsAllowed`), SKIP does not skip, and `execute(goal)` with its
  default arguments raises.
* Workflows, tasks, capabilities: the planner compares step ids with task names
  and always returns an empty plan (`PlannerFlattensAll`); no shipped workflow
  can be planned (`WorkflowsPlan`: three name modules that do not exist, two
  call a merger that raises); the depth of a plan is used as the number of
  symbols.
* Platform, container: a validation that recurses on a cycle is swallowed
  (`CyclesAreCritical`), a request one validator accepts may not be answered
  (`ValidIsAnswered`), sessions of the first controller are never closed,
  `all()` leaves out names on a cycle, and dependents keep a replaced instance.
* Scripts: the launcher strips a text before it checks it, and lets through what
  a gateway does not strip: `"false "` means true to `ranking_enabled`, and `"true "`
  as COMPARISON_ENABLED stops a gateway. It lets through rules for an intent there is
  none of (ignored), a registry that declares a model twice (no gateway starts)
  and a variable in REPOSITORY_PATH, which it expands and the gateway does not.
  These texts are in the alphabet (`LetThrough`): `LaunchIsIsolated` claims that
  both arms read them alike, not that they are read as written. Two log paths of
  which one makes a detour (`/x/../log`, and in the same way a link or, on
  Windows, another case) are accepted as different and lead to one file
  (`Detour`): the arms' logs are claimed apart for paths without one. Another
  client's record may be read as the probe's own after a timeout.

## 6. Proofs

| Theorem | Statement | Argument |
|---|---|---|
| `FileActivityProofs!TypeCorrect`, `BoundsHold` | types, bounds | inductive as they stand; cardinalities of bounded sets by `FiniteSetTheorems` |
| `!CreditIsExact`, `CreditNeedsSupply`, `CompletenessIsHonest`, `NoPriorContextIsHonest` | the four correlation properties | a lineage invariant: for every stored state, what was examined, supplied and credited is tied to the history of its own lineage. The properties alone are not inductive, since a turn starts from a state whose *examined* counts they do not mention |
| `SentSymbolsProofs!TypeCorrect`, `SuppressionIsEarned` | types, bound, earned suppression | invariant `TypeOK /\ Believed`: everything a stored key holds was composed under that key or a prefix. It is needed because the property speaks of the last request only |
| `SentSymbolsProofs!RefinesMemory` | `Spec => Memory!Spec` | step simulation; eviction maps to forgetting in the same step |
| `ContextSelectionProofs!SelectionIsTyped` | the candidates and the package name every symbol once | invariant `SelectionInv`: what stands at each step is the function of the request that the step computed (`RankedPart`, `RenderedPart`, `SentPart`). The sort, every promotion and the guard permute the candidates (`OrderIsRanking`); `Kept`, of which they are built, keeps places and their order (`KeptProperties`) |
| `!SlotsAreGuarded` | a module match that a clean tree gives text does not lose it to the bonus | it is among the candidates with the bonus too, is not before the last slot, and held a slot by the guard's own count, which the rank of a sorted sequence is (`SortedProperties`); so the guard either restores someone into that slot or finds it free of the bonus (`GuardedSlots`) |
| `!BudgetIsKept` | what is rendered fits, or is the first candidate cut to its names | the sum over the texts is a recursive function, natural by induction (`TotalNat`); the prefix chosen is one that fits, else what trimming leaves is the space after names, modules and slack, or nothing (`TrimmedFits`) |
| `!RecordsAreTrue` | what is recorded and reported is true of what was sent | without the bonus both orders are one, so a comparison that is skipped has nothing to tell (`CleanComparison`); the first candidate is never withheld, so both packages have a head |
| `ChangedFilesRefreshProofs!TypeCorrect`, `OneCapture`, `PublishesForward`, `RequestsAreFree` | types, single capture, no going back, no Git in a request | invariant: whoever is awaited is the only busy job, the loop sleeps only when no job is busy, and a captured version lies between the published one and the tree; a thread that has begun has primed the signal |
| `HistoryCapProofs!ExchangesStayWhole`, `TurnSurvives` | exchanges whole, turn kept | groups are closed under links, so a union of groups is; shape of `CapHistory`; no induction over messages |
| `!CapIsTyped`, `NewestAreKept` | types; the budget holds and the newest that fit are kept | the size of a set of messages, a fold, grows with the set: an induction over finite sets (below). Then the walk keeps a maximal suffix of groups that fits. Invariant `CapInv`: what was kept is the cap of what was asked |
| `!DroppedStays` | what a turn dropped no later turn brings back, but by a late result | the conversation asked before is a prefix of the one asked now (`Extends`), whose exchanges are those of the prefix and new ones unless a result is late (`ClassesMoveOn`), and whose last user message has not moved back; what it keeps of the prefix would have fitted before |
| `VLLMStreamProofs!HeldBackIsNotLost` | every line is yielded once, content in order, only an undecided prefix waits | invariant `HeldInv`: output and held lines cover what was received, what waits is increasing, and what overtook it is not content |
| `!ChunksSayTheSame` | chunks tell what the unstreamed answer says, for every alphabet, cutting and limit, with `[DONE]` or without; but for blocks longer than the limit and streams that go on after a flushed prefix | invariant `Says`: before the decision the text is all that was received and has no empty block; afterwards it is told without its longest block, and so is every continuation of it (`BlocksStay`, `ShortBlock`: a block that is still to grow has not been decided about). Texts one after another are a fold; what it computes is proved by induction on its positions |
| `ChatRequestProofs!TypeCorrect`, `AnswersTrue`, `RecordsAgree` | types; a 200 carries the provider's answer, a 4xx is the client's doing, a failed request calls no provider; record and response agree | invariant: results are sound for the stage that made them, only the last may be a failure (`OnlyTheLastFails`), control stands where the number of results says (`Progress`), what was sent is what the response says (`Told`). Without `OnlyTheLastFails` a provider's result could follow a failure |
| `FrameworksProofs!MemoryIsNotLost` | the memory file holds what was stored unless runs overlapped; the log loses no more lines than kills cut | invariant `MemoryInv`: a run alone is undisturbed (it holds what the file holds, or the file is torn by it), and lines lost plus the tail that is cut are paid for by kills |
| `!VerdictsHold` | verdicts, stories, retries of the controller, for every configuration and number of resumptions | invariant `TypeOK /\ Stories /\ CompletedIsEarned /\ RetriesAreBounded`: the story of the session in hand and of every session in memory is true of its own iteration |
| `!ChangesHold` | what is listed was applied in order and, after a failure or a kill, at most one file is half written or changed without being listed; the last backup holds what was modified, deleted or renamed, so that only what was written over is lost | invariant (`ModificationInv`): the workspace is the initial one after the patches applied so far (`After`, a recursive function whose existence and steps are proved by induction over the number of patches); while files are saved, those no longer to be saved are in the backup as they were (`ModificationSaving`), whatever an earlier application of the same second, ended or killed, left there, and the manifest is written after them. A step, even one broken off, touches no file but those of its patch (`ModificationTouches`), each of which is saved or written over (`ModificationLoses`) |
| `!LoopEnds` | work of the goal loop is bounded, nothing runs after what ended it, policies obeyed | invariant: fewer than three failures follow the last success while the loop goes on, so that there are at most three iterations per counted one and three more (`AutonomousCounted`), and neither a stopping condition nor a policy has ended it (`AutonomousGoes`, `AutonomousLimited`); the bound is then arithmetic |
| `!LivesStayApart` | a session has its own artifacts, statistics and way | invariant: every path, in memory or on disk, is a walk along the one way to completion that may be left once (`SessionWalked`); saved lives are not of the future |
| `!ScriptsCompareFairly` | the two arms of an experiment the launcher accepts read the same settings but for the one under test, as written but for the texts it lets through, and log apart but for a detour; a probe is judged by its own records | launcher: gateways run only once the file was found valid, and run what `Started` computes, whatever their terminal carries; then one case for each kind of setting. Probe: each request of a run is pending or logged at most once and behind the offset, so that the records read are its own if no other client wrote |
| `!InstancesStayShared` | each name of the container has one instance, made of those of its dependencies, and no cycle is entered; the validators of the platform agree, and log, results, sessions and registries tell the same | container (`ContainerInv`): whoever is being resolved is reachable from whoever waits for it and on no cycle, what a call has passed is resolved, and the instances have ids of their own; that sorting ends with every name that is on no cycle is an argument about a least one left over. Platform (`PlatformInv`): its five parts are inductive together; that the validators agree holds for any registries |
| `!OrderStaysKept` | a symbol the request names outranks one as good that it does not, and is kept; steps run in an order that respects the workflow's graph | scores (`ScoringInv`): what was heard and scored is a function of what was said. Points are sums of rules; what a discount takes is less than what an exact name is worth more than a partial one. Workflow (`ExecutionInv`): the queue is exactly the nodes whose dependencies are sorted, the count of a node what it still lacks, the order the first by name of those free each time. Of nodes left over in a graph without a cycle, the one that depends on the fewest (`DependenciesOf`, the least closed set) is free (`ExecutionSomeFree`), so the sort and the layers end with every node |
| `!NothingComesUndone` | a run alone catches up, a restored backup brings its files back, an ended session stays ended, a registered name keeps its instance, a word more takes no point from a symbol | from the five invariants above, action by action. For the word: the forms of a longer request begin with those of the shorter (`ScoringTellingGrows`), so what was counted is counted again, and the first word that names a symbol stays the first |

*Recursion.* Sums, concatenations and the effect of a list of patches are
recursive functions. The induction theorems of the library take an operator as
a parameter, which no installed prover can instantiate. The proofs here do
induction over a set instead: the n that fail are a set of natural numbers, a
nonempty one has a least element (`LeastNatural`, from the well-foundedness of
`<` in `WellFoundedInduction`), and there is none before it. The same argument
gives the function that a recursive definition chooses (`SmallSumExists`,
`ConcatExists`, `ModificationAfterExists`).

*Composition.* A theorem about `Frameworks` is about eleven components. Each has
a section with its invariant `XInv`, `XInitHolds`, a lemma for each action and
`XStepHolds`, all from the assumption of that component alone; `XMoves` says that
a step of the composition is then one of the component, and `XHolds` that `XInv`
is invariant while the component is driven. The theorems follow. The names of
operators of an instance (`Memory!Cardinality`) are tied to those of the library
by lemmas such as `MemoryCounts`. Components that are proved about use no
operator whose community definition is recursive: `WorkflowExecution` takes the
closure of the dependencies as the least closed set and a sorted sequence as the
increasing one, and folds are recursive functions.

*Assumptions* are those of the modules: finite sets of files, symbols, lines and
jobs, lists of targets that name no symbol twice, symbols below the score
minimum that count as unmatched, bounds that are natural numbers (positive where the code requires it),
sentinels that are not members, well-formed configurations, goals and patch
sets, ports and settings of the types the launcher reads. TLC evaluates them in
every run; `FrameworksAssumption` conjoins those of its components.

*Only model-checked:* the liveness properties (StopReturns, ChangesSurface,
EveryRequestEnds, CallsEnd), which the prover cannot reach, and what
`MCFrameworks` says of the components that are not in `Frameworks`:
WorkIsAsPlanned (shipped workflows, patches, verdicts) and InputIsRead (capture,
transcript, planning, messages, capabilities, graph, impact, review, index). Of
these `RepositoryReview` is built on recursive operators, which the prover
cannot reason about; about the others nothing has been proved yet. What a mapping
of the code's recursion computes for every input is beyond the induction that
the prover has: the proofs above do it over sets instead.

## 7. Not modelled, and why

The definitions stand for about a third of the implementation's lines.
The rest is of these kinds:

* Records, base classes, registries, factories, adapters: data and dispatch, no
  behaviour a property could be about. Observability and benchmarks append to
  lists and print them.
* Scripts other than the ones above, and most of the quality harness and of the
  session log analysis: statistics, tables, I/O.
* Parsing of HTTP requests, Python syntax and YAML; wording; log formatting;
  timings; hash collisions.
* The second provider, a client of the same protocol that keeps no state; the
  model router, a fixed table.
* Of the selection, the caps on the preview of a candidate and of its relatives;
  of the request, what its handler catches outside the engine; of the history
  cap, `"tool_calls": null`, at which it raises (`CapRaises` of `ChatRequest`); of
  the patches, the validator's rules for names and statistics and the exception
  made for lines that begin with `+++`.
* The relationship rules of scoring and the expansion of candidates: the gateway
  builds without a primary symbol, so they are never reached.
* Two requests interleaved: the shared trackers are only touched between await
  points, so a turn of the context stage is one step. The change signal is the
  one structure shared with threads, and there the steps are separate. Worker
  threads other than captures: the gateway starts none.
