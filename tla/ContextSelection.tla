-------------------------- MODULE ContextSelection --------------------------
(***************************************************************************)
(* How one request's repository context is chosen and measured              *)
(* (packages/context: builder, ranking, budget, composer, and               *)
(* RepositoryContextStage.execute): symbols are scored, those in locally    *)
(* modified files get a bonus that a guard bounds, named files are moved    *)
(* to the front, source text is attached under a shared budget, the tail is *)
(* dropped until it fits, what the conversation has already been sent is    *)
(* left out - and what the bonus changed is counted.                        *)
(*                                                                          *)
(* Abstractions: a symbol is the rank of its qualified name; what the       *)
(* scoring rules make of a query is its profile, a score and the strongest  *)
(* kind of match; texts are their lengths.  The gateway builds without a    *)
(* primary symbol, so no relationship is scored and nothing is expanded.    *)
(***************************************************************************)
EXTENDS Integers, Sequences, FiniteSets, SequencesExt

CONSTANTS
  Symbol,          \* the symbols of the index, in the order of their names
  Modules,         \* the modules, in the order of the index
  ModuleOf,        \* the module of every symbol
  Imports,         \* the modules every module imports
  Length,          \* of every symbol: its names and signature, docstring, source
  Profiles,        \* per query: what every symbol scores and how it matches
  Queries,         \* per query: the symbols and modules its words promote
  Budgets,         \* per request: context tokens, characters per token
  Memories,        \* what a conversation may have been sent before
  MinScore, Weight, Slots,      \* RankingConfig: MINIMUM_CANDIDATE_SCORE,
                                \* WEIGHT_CHANGED_FILE, PROMOTION_ANCHOR_SLOTS
  MaxSymbols, MaxModules, HelperWindow,
  PrimaryTokens, SupportTokens, Marker, Slack

Matches == {"none", "name", "module"}

\* No element occurs twice.
Distinct(s) == \A i, j \in DOMAIN s : s[i] = s[j] => i = j

\* Names are unique in the index; the targets of a query are tuples of
\* different names; what the minimum cuts counts as unmatched.
ASSUME SelectionAssumption ==
  /\ Symbol \subseteq Nat /\ IsFiniteSet(Symbol)
  /\ Modules \in Seq(Range(Modules)) /\ ModuleOf \in [Symbol -> Range(Modules)]
  /\ \A m \in Range(Modules) : Imports[m] \in Seq(Range(Modules))
  /\ Length \in [Symbol -> [names : Nat \ {0}, doc : Nat, source : Nat]]
  /\ \A p \in Profiles :
       /\ p \in [Symbol -> [score : Nat, match : Matches]]
       /\ \A s \in Symbol : p[s].score < MinScore => p[s] = [score |-> 0, match |-> "none"]
  /\ \A q \in Queries :
       /\ q.named \in Seq(Symbol) /\ Distinct(q.named)
       /\ q.ensured \in Seq(Symbol) /\ Distinct(q.ensured)
       /\ q.again \in Seq(Symbol) /\ Distinct(q.again)
       /\ q.files \in Seq(Range(Modules))
  /\ \A b \in Budgets : b.tokens \in Nat /\ b.chars \in Nat \ {0}
  /\ Memories \subseteq SUBSET Symbol
  /\ MinScore \in Nat \ {0} /\ Weight \in Nat /\ Slots \in Nat \ {0}
  /\ MaxSymbols \in Nat \ {0} /\ MaxModules \in Nat /\ HelperWindow \in Nat
  /\ PrimaryTokens \in Nat /\ SupportTokens \in Nat /\ Marker \in Nat /\ Slack \in Nat

VARIABLES
  at,        \* how far execute() is
  asked,     \* the profile, the words, the budget and what was sent before
  changed,   \* the source of the change signal and the modules it names
  ranked,    \* the candidates, best first
  bonuses,   \* changed_bonus_count
  rendered,  \* the candidates with the text they are rendered with
  tokens,    \* the estimate of the budget check
  package,   \* the package that is sent; empty if none
  record     \* what the session record says of the bonus

vars == <<at, asked, changed, ranked, bonuses, rendered, tokens, package, record>>

-----------------------------------------------------------------------------
(* Ranking *)

Smaller(i, j) == IF i < j THEN i ELSE j
Least(S) == CHOOSE i \in S : \A j \in S : i <= j

Score(profile, dirty, s) ==
  profile[s].score + IF s \in dirty THEN Weight ELSE 0

\* The candidates in modified files that already match the query.
Bonused(profile, modules) ==
  {s \in Symbol : /\ profile[s].score >= MinScore
                  /\ profile[s].match # "none"
                  /\ ModuleOf[s] \in modules}

\* Whether s is ranked before t: by its score, by name among equals.
Outranks(profile, dirty, s, t) ==
  \/ Score(profile, dirty, s) > Score(profile, dirty, t)
  \/ Score(profile, dirty, s) = Score(profile, dirty, t) /\ s < t

\* What the minimum leaves.
Candidates(profile, dirty) == {s \in Symbol : Score(profile, dirty, s) >= MinScore}

\* The sort: as many candidates are before one as outrank it.
Sorted(profile, dirty) ==
  LET all == Candidates(profile, dirty)
  IN  [i \in 1 .. Cardinality(all) |->
         CHOOSE s \in all : Cardinality({t \in all : Outranks(profile, dirty, t, s)}) = i - 1]

\* _held_a_content_slot: how many would outrank c without the bonus.
HeldSlot(profile, dirty, order, c) ==
  Cardinality({s \in Range(order) \ {c} :
    /\ s \in dirty => profile[s].score >= MinScore
    /\ \/ profile[s].score > profile[c].score
       \/ profile[s].score = profile[c].score /\ s < c}) < Slots

\* Whom _protect_promotion_anchor may restore.
Anchors(profile, dirty, order) ==
  {i \in Slots + 1 .. Len(order) :
     /\ order[i] \notin dirty
     /\ profile[order[i]].match = "module"
     /\ HeldSlot(profile, dirty, order, order[i])}

\* The strongest displaced candidate is put back into the last slot, if one
\* with the bonus holds that.
Guarded(profile, dirty, order) ==
  IF \/ dirty = {} \/ Len(order) < Slots \/ order[Slots] \notin dirty
     \/ Anchors(profile, dirty, order) = {}
  THEN order
  ELSE LET i == Least(Anchors(profile, dirty, order))
       IN  InsertAt(RemoveAt(order, i), Slots, order[i])

-----------------------------------------------------------------------------
(* The promotions by the words of the query *)

\* The elements of s at the places P, in their order.
Kept(s, P) ==
  [k \in 1 .. Cardinality(P) |-> s[CHOOSE i \in P : Cardinality({j \in P : j < i}) = k - 1]]

Among(s, S)   == Kept(s, {i \in DOMAIN s : s[i] \in S})
Without(s, S) == Kept(s, {i \in DOMAIN s : s[i] \notin S})

\* Mutant: what is promoted also keeps its place.
PromoteNamedTwice(order, targets) == Among(targets, Range(order)) \o order

\* _promote_named_symbols, which ranking may have missed ones.
PromoteNamed(order, targets) ==
  Among(targets, Range(order)) \o Without(order, Range(targets))

\* _ensure_named_candidates: targets ranking has cut are appended.
Ensured(order, targets) == order \o Without(targets, Range(order))

\* The best candidate of every module, in the order of the modules.
FirstOf(order, modules) ==
  LET own(m) == {i \in DOMAIN order : ModuleOf[order[i]] = m}
      found  == Kept(modules, {k \in DOMAIN modules :
                                 /\ own(modules[k]) # {}
                                 /\ \A j \in 1 .. k - 1 : modules[j] # modules[k]})
  IN  [k \in DOMAIN found |-> order[Least(own(found[k]))]]

Importers(modules) ==
  Among(Modules, {m \in Range(Modules) \ Range(modules) : Range(Imports[m]) \cap Range(modules) # {}})

PromoteModules(order, modules) ==
  LET first == FirstOf(order, modules \o Importers(modules)) IN first \o Without(order, Range(first))

\* _promote_shared_helper_imports: the modules the first candidates import,
\* as far as the query names them.
Helpers(order, terms) ==
  LET window == Smaller(HelperWindow, Len(order))
      found[n \in 0 .. window] ==
        IF n = 0 THEN <<>>
        ELSE found[n - 1] \o Among(Imports[ModuleOf[order[n]]], terms \ Range(found[n - 1]))
  IN  found[window]

\* The passes of build(), in its order; the history cap's runs twice, and what it
\* promotes again are its own targets only.
Promoted(order, words) ==
  LET named   == PromoteNamed(order, words.named)
      capped  == PromoteNamed(Ensured(named, words.ensured), words.ensured)
      located == IF words.files = <<>> THEN capped ELSE PromoteModules(capped, words.files)
      helped  == IF words.files = <<>>
                 THEN PromoteModules(located, Helpers(located, words.helpers)) ELSE located
  IN  PromoteNamed(helped, words.again)

\* Mutant: the guard is not asked again after the promotions.
OrderUnguarded(profile, words, modules) ==
  LET dirty == Bonused(profile, modules)
  IN  Promoted(Guarded(profile, dirty, Sorted(profile, dirty)), words)

\* rank, the promotions, and the guard again.
Order(profile, words, modules) ==
  LET dirty == Bonused(profile, modules)
  IN  Guarded(profile, dirty,
              Promoted(Guarded(profile, dirty, Sorted(profile, dirty)), words))

-----------------------------------------------------------------------------
(* Text and budget *)

\* get_symbol_source_excerpts.
Excerpt(s, share, chars) ==
  IF Length[s].source > share * chars THEN share * chars + Marker ELSE Length[s].source

\* A preview as long as the shared budget lasts.
Preview(s, share, chars) == IF share > 0 THEN Excerpt(s, share, chars) ELSE 0

Text(s, source, preview) ==
  [symbol |-> s, names |-> Length[s].names, doc |-> Length[s].doc,
   source |-> source, preview |-> preview]

\* What the previews up to place n leave of the shared budget.
Left(order, chars) ==
  LET left[n \in 0 .. Len(order)] ==
        IF n <= 1 THEN SupportTokens
        ELSE left[n - 1] - Smaller(left[n - 1], Preview(order[n], left[n - 1], chars) \div chars)
  IN  left

\* _enrich_with_source_data: the primary's source, then previews for the
\* others while the shared budget lasts.
Enriched(order, chars) ==
  [i \in DOMAIN order |->
     IF i = 1 THEN Text(order[i], Smaller(Length[order[i]].source, PrimaryTokens * chars), 0)
     ELSE Text(order[i], 0, Preview(order[i], Left(order, chars)[i - 1], chars))]

\* The modules of the first places, up to MaxModules of them.
SelectedModules(order) ==
  {ModuleOf[order[i]] : i \in {j \in DOMAIN order :
     Cardinality({ModuleOf[order[k]] : k \in 1 .. j - 1}) < MaxModules}}

Chars(text) == text.names + text.doc + text.source + text.preview
Used(texts) == {ModuleOf[texts[i].symbol] : i \in DOMAIN texts}

TotalChars(texts) ==
  LET total[n \in 0 .. Len(texts)] == IF n = 0 THEN 0 ELSE total[n - 1] + Chars(texts[n])
  IN  total[Len(texts)]

\* ContextBudget.estimate; a module path costs one character here.
Estimate(texts, modules, chars) == (TotalChars(texts) + Cardinality(modules)) \div chars

\* Mutant: the module paths are not reserved.
TrimmedWithoutModules(text, modules, budget) ==
  LET room == budget.tokens * budget.chars - text.names
      free == IF room > 0 THEN room ELSE 0
  IN  IF text.source > free THEN [text EXCEPT !.source = free, !.preview = 0, !.doc = 0]
      ELSE [text EXCEPT !.doc = Smaller(@, IF free > text.source + text.preview
                                         THEN free - text.source - text.preview ELSE 0)]

\* _trim_candidate_content_to_budget.
Trimmed(text, modules, budget) ==
  LET room == budget.tokens * budget.chars - Slack - text.names - Cardinality(modules)
      free == IF room > 0 THEN room ELSE 0
  IN  IF text.source > free THEN [text EXCEPT !.source = free, !.preview = 0, !.doc = 0]
      ELSE [text EXCEPT !.doc = Smaller(@, IF free > text.source + text.preview
                                         THEN free - text.source - text.preview ELSE 0)]

\* _enforce_budget: the longest prefix that fits; if not even the primary
\* does, its text is cut.
Enforced(texts, modules, budget) ==
  LET kept(n) == SubSeq(texts, 1, n)
      fits(n) == Estimate(kept(n), modules \cap Used(kept(n)), budget.chars) <= budget.tokens
      fitting == {n \in 1 .. Len(texts) : fits(n)}
  IN  IF texts = <<>> THEN <<>>
      ELSE IF fitting # {} THEN kept(CHOOSE n \in fitting : \A k \in fitting : k <= n)
      ELSE <<Trimmed(texts[1], modules \cap Used(kept(1)), budget)>>

\* ContextBuilder.build up to the budget, as a function of the request.
Rendered(order, budget) ==
  LET cut == SubSeq(order, 1, Smaller(MaxSymbols, Len(order)))
  IN  Enforced(Enriched(cut, budget.chars), SelectedModules(cut), budget)

\* The estimate that the package carries.
Tokens(order, texts, budget) ==
  Estimate(texts, SelectedModules(order) \cap Used(texts), budget.chars)

\* filter_candidates.
Unsent(texts, known) ==
  Kept(texts, {i \in DOMAIN texts : i = 1 \/ texts[i].symbol \notin known})

-----------------------------------------------------------------------------
(* A request *)

NoRecord == [signal |-> "off", status |-> "none", selected |-> 0, primary |-> FALSE,
             promoted |-> 0, differs |-> FALSE]
NotAsked == [profile |-> [s \in Symbol |-> [score |-> 0, match |-> "none"]],
             words |-> CHOOSE q \in Queries : TRUE, budget |-> CHOOSE b \in Budgets : TRUE,
             known |-> {}, compare |-> FALSE]

Init ==
  /\ at = "idle"
  /\ asked = NotAsked
  /\ changed = [signal |-> "unread", modules |-> {}]
  /\ ranked = <<>> /\ rendered = <<>> /\ package = <<>>
  /\ bonuses = 0 /\ tokens = 0
  /\ record = NoRecord

\* _read_changed_signal: off, unavailable, or the modules of the source.
ReadChangedSignal(signal, modules) ==
  changed' = [signal |-> signal, modules |-> IF signal = "ok" THEN modules ELSE {}]

Rank(profile, words) ==
  /\ at = "idle"
  /\ \E signal \in {"off", "ok", "unavailable"}, modules \in SUBSET Range(Modules) :
       ReadChangedSignal(signal, modules)
  /\ asked' = [asked EXCEPT !.profile = profile, !.words = words]
  /\ bonuses' = Cardinality(Bonused(profile, changed'.modules))
  /\ ranked' = Order(profile, words, changed'.modules)
  /\ at' = "ranked"
  /\ UNCHANGED <<rendered, tokens, package, record>>

Render(budget) ==
  /\ at = "ranked"
  /\ asked' = [asked EXCEPT !.budget = budget]
  /\ rendered' = Rendered(ranked, budget)
  /\ tokens' = Tokens(ranked, rendered', budget)
  /\ at' = "rendered"
  /\ UNCHANGED <<changed, ranked, bonuses, package, record>>

\* _build_baseline_package: the same request without the changed modules.
Baseline(known) ==
  LET order == Order(asked.profile, asked.words, {})
      texts == Rendered(order, asked.budget)
  IN  [texts |-> Unsent(texts, known), tokens |-> Tokens(order, texts, asked.budget)]

Symbols(texts) == {texts[i].symbol : i \in DOMAIN texts}

\* Mutant: what is not compared reads as skipped.
StatusUnsampled(compare, built) ==
  IF changed.modules = {} THEN "none"
  ELSE IF built THEN "built"
  ELSE IF bonuses = 0 \/ ~compare THEN "skipped_no_bonus" ELSE "failed"

Status(compare, built) ==
  IF changed.modules = {} THEN "none"
  ELSE IF built THEN "built"
  ELSE IF bonuses = 0 THEN "skipped_no_bonus"
  ELSE IF compare THEN "failed" ELSE "not_sampled"

\* changed_file_promotion_counts; packages are compared with their estimates.
Promotion(sent, baseline, compare, built) ==
  [signal |-> changed.signal, status |-> Status(compare, built),
   selected |-> Cardinality(Symbols(sent) \cap Bonused(asked.profile, changed.modules)),
   primary |-> built /\ Head(sent).symbol # Head(baseline.texts).symbol,
   promoted |-> IF built THEN Cardinality(Symbols(sent) \ Symbols(baseline.texts)) ELSE 0,
   differs |-> built /\ baseline # [texts |-> sent, tokens |-> tokens]]

\* Delta injection, the composer, the comparison - which may raise - and the
\* record.  Without candidates nothing is composed and nothing compared.
Send(known, compare) ==
  /\ at = "rendered"
  /\ asked' = [asked EXCEPT !.known = known, !.compare = compare]
  /\ package' = Unsent(rendered, known)
  /\ IF rendered = <<>>
     THEN record' = [NoRecord EXCEPT !.signal = changed.signal,
                       !.status = IF changed.modules = {} THEN "none" ELSE "skipped_no_bonus"]
     ELSE \E built \in {FALSE, bonuses > 0 /\ compare} :
            record' = Promotion(package', Baseline(known), compare, built)
  /\ at' = "sent"
  /\ UNCHANGED <<changed, ranked, bonuses, rendered, tokens>>

\* Mutant: the signal that was read is lost with the exception.
DegradeAsDisabled ==
  /\ at \in {"idle", "ranked", "rendered"}
  /\ package' = <<>>
  /\ record' = NoRecord
  /\ at' = "degraded"
  /\ UNCHANGED <<asked, changed, ranked, bonuses, rendered, tokens>>

\* execute() swallows any exception: the request goes on without a context,
\* with the state of the signal it had read, "unavailable" before that.
Degrade ==
  /\ at \in {"idle", "ranked", "rendered"}
  /\ package' = <<>>
  /\ record' = [NoRecord EXCEPT !.signal = IF at = "idle" THEN "unavailable" ELSE changed.signal]
  /\ at' = "degraded"
  /\ UNCHANGED <<asked, changed, ranked, bonuses, rendered, tokens>>

Next ==
  \/ \E profile \in Profiles, words \in Queries : Rank(profile, words)
  \/ \E budget \in Budgets : Render(budget)
  \/ \E known \in Memories, compare \in BOOLEAN : Send(known, compare)
  \/ Degrade

Spec == Init /\ [][Next]_vars

-----------------------------------------------------------------------------
(* What the log analysis makes of a record's promotion fields               *)
(* (scripts/analyze_sessions.py, changed_file_promotion_summary): it counts *)
(* the records of a log of which one of these holds.  All that are written  *)
(* here have the fields; older ones are left out of its counts, and here.   *)

Measured == {"built", "skipped_no_bonus"}

\* Mutant: what was never compared counts as compared.
UsableUnsampled(rec) == rec.signal = "ok" /\ rec.status \in Measured \cup {"not_sampled"}

Usable(rec) == rec.signal = "ok" /\ rec.status \in Measured

\* A record of no comparison has no verdict; "none" says that there was
\* nothing to compare.
Unmeasured(rec) == rec.status \notin Measured \cup {"none"}

\* The bonus changed the context.  A comparison that was built had files.
Proved(rec) == Usable(rec) /\ rec.status = "built" /\ rec.differs

\* Symbols with the bonus were sent, and changed nothing.
Inert(rec) == Usable(rec) /\ rec.selected > 0 /\ ~rec.differs

ProvedPrimary(rec) == Proved(rec) /\ rec.primary
ProvedMembership(rec) == Proved(rec) /\ rec.promoted > 0
ProvedReorderOnly(rec) == Proved(rec) /\ ~rec.primary /\ rec.promoted = 0

-----------------------------------------------------------------------------
(* Properties *)

Texts == [symbol : Symbol, names : Nat, doc : Nat, source : Nat, preview : Nat]

\* Types: the candidates and the package name every symbol once.
TypeOK ==
  /\ at \in {"idle", "ranked", "rendered", "sent", "degraded"}
  /\ ranked \in Seq(Symbol) /\ Cardinality(Range(ranked)) = Len(ranked)
  /\ rendered \in Seq(Texts) /\ package \in Seq(Texts)
  /\ Cardinality(Symbols(package)) = Len(package)
  /\ bonuses \in 0 .. Cardinality(Symbol) /\ tokens \in Nat
  /\ record.status \in {"none", "built", "skipped_no_bonus", "not_sampled", "failed"}

InSlots(order) == {order[i] : i \in 1 .. Slots \cap DOMAIN order}

\* The bonus may not be the reason a module the question pointed at stops
\* contributing source text: whatever the promotions by name do to the order,
\* no symbol with the bonus ends in the last content slot while one that
\* matched by its module, and that the same ranking puts into the slots on a
\* clean tree, waits behind it.
GuardHolds ==
  at = "ranked" /\ Len(ranked) >= Slots =>
    LET dirty == Bonused(asked.profile, changed.modules)
    IN  \A s \in InSlots(Sorted(asked.profile, {})) \ (InSlots(ranked) \cup dirty) :
          asked.profile[s].match = "module" => ranked[Slots] \notin dirty

\* What is rendered fits the budget, or is one symbol reduced to its names;
\* what was dropped is the tail of the ranking.
BudgetHolds ==
  at = "rendered" =>
    /\ \A i \in DOMAIN rendered : rendered[i].symbol = ranked[i]
    /\ ranked # <<>> => rendered # <<>>
    /\ \/ tokens <= asked.budget.tokens
       \/ Len(rendered) = 1 /\ Chars(rendered[1]) = rendered[1].names

\* "Only built and skipped_no_bonus make the three difference fields a
\* reading": whenever the record is one, the counts say how the package that
\* was sent differs from the one the clean tree would have sent; no difference
\* is missed, and one is claimed of equal texts only in a conversation that was
\* sent symbols before.
ReadingIsTrue ==
  at = "sent" /\ record.status \in {"none", "built", "skipped_no_bonus"} =>
    LET clean == Baseline(asked.known).texts
    IN  /\ record.promoted = Cardinality(Symbols(package) \ Symbols(clean))
        /\ record.primary = (package # <<>> /\ package[1].symbol # clean[1].symbol)
        /\ package # clean => record.differs
        /\ record.differs => package # clean \/ asked.known # {}

\* The comment on the comparison: what it compares beyond the text "cannot
\* differ unless the text differs".
DifferenceIsInTheText ==
  at = "sent" /\ record.differs => package # Baseline(asked.known).texts

\* Degraded or not, a configured source is never recorded as a disabled one,
\* a failure before the read is recorded as such, and counts are reported only
\* of a package that was sent.
RecordIsHonest ==
  at \in {"sent", "degraded"} =>
    /\ record.signal = IF changed.signal = "unread" THEN "unavailable" ELSE changed.signal
    /\ package = <<>> => record.selected = 0 /\ record.promoted = 0

\* "An unmeasurable request looks exactly like a zero only when nobody
\* separates them": a request whose context the bonus changed is reported as
\* proved or as unmeasured, never as inert and never as neither; one reported
\* as inert was sent what a clean tree would have been sent, symbols with the
\* bonus among it; one reported as a changed primary has another.
VerdictsAreTrue ==
  at = "sent" =>
    LET clean == Baseline(asked.known).texts
    IN  /\ package # clean => Proved(record) \/ Unmeasured(record)
        /\ Inert(record) =>
             /\ package = clean
             /\ Symbols(package) \cap Bonused(asked.profile, changed.modules) # {}
        /\ ProvedPrimary(record) => package[1].symbol # clean[1].symbol
        /\ ProvedMembership(record) => Symbols(package) \ Symbols(clean) # {}

\* What is recorded and reported of a request is true of what was sent.
RecordIsTrue == ReadingIsTrue /\ RecordIsHonest /\ VerdictsAreTrue

\* "reorder only": the same symbols in another order.  A reorder may also cost
\* a symbol its place under the budget without bringing one in, and is counted
\* here too.
ReorderOnlyKeepsMembers ==
  at = "sent" /\ ProvedReorderOnly(record) =>
    Symbols(package) = Symbols(Baseline(asked.known).texts)
=============================================================================
