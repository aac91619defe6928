--------------------------- MODULE RequestPlanning ---------------------------
(***************************************************************************)
(* What a chat request is taken to ask for: the texts of the user are       *)
(* selected (packages/pipeline/user_messages.py), an intent is detected in  *)
(* them (packages/planning/intent.py), the planner turns the intent into a  *)
(* plan (planner.py, rules.py, intent_rules.py), all in the planning stage, *)
(* and the repository stage takes its query from the same texts.            *)
(*                                                                          *)
(* Abstractions: a text is a sequence of words of a small vocabulary, "do   *)
(* not" one of them; of the keyword and trigger tables the entries that     *)
(* interact with one another are kept; a bookkeeping envelope is a flag.    *)
(***************************************************************************)
EXTENDS Integers, Sequences, FiniteSets, SequencesExt

CONSTANTS
  None,
  Conversations,   \* sequences of messages
  Demands          \* what the metadata says: an intent, rules of the user's own

VARIABLES
  conversation, wanted,
  planning,        \* selecting, detecting, planning, done
  selected,        \* the task texts
  matched,         \* the intent and the keyword it was detected by
  contextPlan,
  search           \* the query of the repository stage

vars == <<conversation, wanted, planning, selected, matched, contextPlan, search>>

Intents == {"EXPLAIN", "IMPLEMENT", "REFACTOR", "DEBUG", "TEST", "SEARCH", "DEFAULT"}

PlanningAssumption ==
  \A c \in Conversations : \A i \in DOMAIN c : \A t \in Range(c[i].tasks) : t # <<>>

-----------------------------------------------------------------------------
(* The texts of the user *)

\* A message of another role, or without text, has none.
UserMessages(c) == SelectSeq(c, LAMBDA m : m.role = "user" /\ m.text # <<>>)

\* Mutant: the envelopes are filtered out of the tasks only.
TasksOrAll(messages) ==
  LET filtered == SelectSeq(messages, LAMBDA m : ~m.envelope)
      tasks == FlattenSeq([i \in DOMAIN filtered |-> filtered[i].tasks])
  IN IF tasks # <<>> THEN tasks ELSE [i \in DOMAIN messages |-> messages[i].text]

\* Blocks marked as tasks outrank everything else, the results of tools come
\* last.
TaskTexts(messages) ==
  LET filtered == SelectSeq(messages, LAMBDA m : ~m.envelope)
      tasks == FlattenSeq([i \in DOMAIN filtered |-> filtered[i].tasks])
      Texts(ms) == [i \in DOMAIN ms |-> ms[i].text]
  IN IF tasks # <<>> THEN tasks
     ELSE IF filtered # <<>> THEN Texts(filtered) ELSE Texts(messages)

FollowsUp(t) == "above" \in Range(t)

\* Mutant: a follow-up is searched for alone.
LastText(texts) == IF texts = <<>> THEN <<>> ELSE Last(texts)

\* What the repository stage searches for.
Query(texts) ==
  IF texts = <<>> THEN <<>>
  ELSE IF Len(texts) > 1 /\ FollowsUp(Last(texts)) THEN texts[Len(texts) - 1] \o Last(texts)
  ELSE Last(texts)

-----------------------------------------------------------------------------
(* The intent *)

Negation == {"dont", "never"}
Gap == " "

\* Mutant: a negation takes the word after it, another negation or not.
EveryNegationTakes(t) ==
  [i \in DOMAIN t |-> IF t[i] \in Negation \/ (i > 1 /\ t[i - 1] \in Negation) THEN Gap ELSE t[i]]

\* From the left, a negation takes the word that follows it, also one of the
\* next message; what is left in their place is white space.
WithoutNegated(t) ==
  LET starts[i \in 0 .. Len(t)] == i \in 1 .. Len(t) - 1 /\ t[i] \in Negation /\ ~starts[i - 1]
  IN [i \in DOMAIN t |-> IF starts[i] \/ starts[i - 1] THEN Gap ELSE t[i]]

Occurs(k, t) == \E i \in 1 .. Len(t) - Len(k) + 1 : SubSeq(t, i, i + Len(k) - 1) = k

\* In the order they are tried.
KeywordPatterns ==
  << [intent |-> "EXPLAIN", keywords |-> {<<"explain">>, <<"how", "does">>}],
     [intent |-> "REFACTOR", keywords |-> {<<"refactor">>}],
     [intent |-> "DEBUG", keywords |-> {<<"fix">>}],
     [intent |-> "TEST", keywords |-> {<<"test">>}],
     [intent |-> "SEARCH", keywords |-> {<<"find">>}],
     [intent |-> "IMPLEMENT", keywords |-> {<<"add">>}] >>

\* Phrases that outrank the order; their words may be any white space apart.
ExplicitPhrases ==
  << [intent |-> "REFACTOR", keywords |-> {<<"refactor", "plan">>, <<"refactoring", "plan">>}],
     [intent |-> "IMPLEMENT", keywords |-> {<<"modify", "files">>}] >>

\* The first entry of the table with a keyword in the text, None without one.
FirstIn(table, t) ==
  LET hits == {i \in DOMAIN table : \E k \in table[i].keywords : Occurs(k, t)}
      first == table[CHOOSE i \in hits : \A j \in hits : i <= j]
  IN IF hits = {} THEN None
     ELSE [intent |-> first.intent, keyword |-> CHOOSE k \in first.keywords : Occurs(k, t)]

\* Rules of the user's own: an unknown intent, or patterns that are no list,
\* are passed over.
UsableRules(custom) ==
  SelectSeq(custom, LAMBDA r : r.intent \in Intents /\ r.keywords # None)

DetectMatch(texts, custom) ==
  LET combined == WithoutNegated(FlattenSeq(texts))
      own == FirstIn(UsableRules(custom), combined)
      explicit == FirstIn(ExplicitPhrases, SelectSeq(combined, LAMBDA w : w # Gap))
      keyword == FirstIn(KeywordPatterns, combined)
      found == SelectSeq(<<own, explicit, keyword>>, LAMBDA m : m # None)
  IN IF found = <<>> THEN [intent |-> "DEFAULT", keyword |-> None] ELSE found[1]

\* An intent in the metadata wins if there is such an intent.
Match(texts, demand) ==
  IF demand.intent \in Intents THEN [intent |-> demand.intent, keyword |-> "context_intent"]
  ELSE DetectMatch(texts, demand.custom)

-----------------------------------------------------------------------------
(* The plan *)

Rule(expansion, depth, callers, callees, modules, diagnostics) ==
  [expansion |-> expansion, depth |-> depth, callers |-> callers, callees |-> callees,
   modules |-> modules, diagnostics |-> diagnostics]

PlanningRules ==
  [EXPLAIN |-> Rule(TRUE, 1, TRUE, TRUE, TRUE, FALSE), IMPLEMENT |-> Rule(TRUE, 1, FALSE, TRUE, TRUE, FALSE),
   REFACTOR |-> Rule(TRUE, 1, TRUE, TRUE, TRUE, FALSE), DEBUG |-> Rule(TRUE, 2, TRUE, TRUE, TRUE, TRUE),
   TEST |-> Rule(TRUE, 1, TRUE, FALSE, TRUE, TRUE), SEARCH |-> Rule(FALSE, 0, FALSE, FALSE, FALSE, FALSE),
   DEFAULT |-> Rule(FALSE, 0, FALSE, FALSE, TRUE, FALSE)]

\* Triggers are looked for as parts of words, in the text as it was written.
Stem(w) == IF w = "refactoring" THEN "refactor" ELSE w

RetrievalRules ==
  << [profile |-> "EXECUTION_FLOW", priority |-> 10, triggers |-> {<<"how", "does">>}],
     [profile |-> "TEST", priority |-> 10, triggers |-> {<<"test">>}],
     [profile |-> "IMPLEMENTATION", priority |-> 4, triggers |-> {<<"add">>}],
     [profile |-> "CORRECTION", priority |-> 20, triggers |-> {<<"fix">>}],
     [profile |-> "RESTRUCTURE", priority |-> 20, triggers |-> {<<"refactor">>}],
     [profile |-> "DEFAULT", priority |-> 100, triggers |-> {}] >>

\* By priority, and in the order of the table where it is equal.
Profile(texts) ==
  LET t == FlattenSeq(texts)
      stems == [i \in DOMAIN t |-> Stem(t[i])]
      hits == {i \in DOMAIN RetrievalRules :
                 RetrievalRules[i].triggers = {} \/ \E k \in RetrievalRules[i].triggers : Occurs(k, stems)}
      Before(i, j) == \/ RetrievalRules[i].priority < RetrievalRules[j].priority
                      \/ RetrievalRules[i].priority = RetrievalRules[j].priority /\ i <= j
  IN RetrievalRules[CHOOSE i \in hits : \A j \in hits : Before(i, j)].profile

\* The planner takes over the intent of the stage, and never detects its own.
Build(texts, intent) == [intent |-> intent, rule |-> PlanningRules[intent], profile |-> Profile(texts)]

-----------------------------------------------------------------------------
(* The stages *)

Init ==
  /\ conversation \in Conversations
  /\ wanted \in Demands
  /\ planning = "selecting" /\ selected = <<>> /\ matched = None
  /\ contextPlan = None /\ search = None

Select ==
  /\ planning = "selecting" /\ wanted.enabled
  /\ selected' = TaskTexts(UserMessages(conversation))
  /\ planning' = "detecting"
  /\ UNCHANGED <<conversation, wanted, matched, contextPlan, search>>

Detect ==
  /\ planning = "detecting"
  /\ matched' = Match(selected, wanted)
  /\ planning' = "planning"
  /\ UNCHANGED <<conversation, wanted, selected, contextPlan, search>>

Plan ==
  /\ planning = "planning"
  /\ contextPlan' = Build(selected, matched.intent)
  /\ planning' = "done"
  /\ UNCHANGED <<conversation, wanted, selected, matched, search>>

\* Without planning, and when a planner that was handed in raises, the request
\* has no plan, and the stage has succeeded all the same.
GoWithout ==
  /\ (planning = "selecting" /\ ~wanted.enabled) \/ planning = "planning"
  /\ planning' = "done"
  /\ UNCHANGED <<conversation, wanted, selected, matched, contextPlan, search>>

\* The repository stage asks on its own what to look for, and with the
\* defaults of a query where there is no plan.
Search ==
  /\ planning = "done" /\ search = None
  /\ search' = [text |-> Query(TaskTexts(UserMessages(conversation))),
                depth |-> IF contextPlan = None THEN 0 ELSE contextPlan.rule.depth,
                expansion |-> contextPlan # None /\ contextPlan.rule.expansion]
  /\ UNCHANGED <<conversation, wanted, planning, selected, matched, contextPlan>>

Next == Select \/ Detect \/ Plan \/ GoWithout \/ Search

Spec == Init /\ [][Next]_vars

-----------------------------------------------------------------------------
(* Properties *)

TypeOK ==
  /\ planning \in {"selecting", "detecting", "planning", "done"}
  /\ matched # None => matched.intent \in Intents
  /\ contextPlan # None => contextPlan.intent \in Intents

\* The words of a text that stand: before them there is an even number of
\* negations in a row, each of which takes the next word.
Standing(t) ==
  {t[i] : i \in {p \in DOMAIN t :
     t[p] \notin Negation /\ \E n \in 0 .. p - 1 :
        /\ n % 2 = 0
        /\ \A q \in p - n .. p - 1 : t[q] \in Negation
        /\ p - n > 1 => t[p - n - 1] \notin Negation}}

\* An intent is chosen by what the user said: every word it was detected by was
\* said and not negated, and a text with a command in it has an intent.
IntentWasAsked ==
  matched # None =>
    IF wanted.intent \in Intents THEN matched.intent = wanted.intent
    ELSE LET said == Standing(FlattenSeq(selected)) IN
         /\ matched.keyword # None => Range(matched.keyword) \subseteq said
         /\ matched.keyword = None => \A e \in Range(KeywordPatterns) : \A k \in e.keywords : Len(k) = 1 => k[1] \notin said

Typed == SelectSeq(conversation, LAMBDA m : m.role = "user" /\ m.text # <<>> /\ ~m.envelope)

\* What tools answered is no command as long as the user typed anything.
ToolResultsAreSilent ==
  selected # <<>> /\ Typed # <<>> =>
    \A i \in DOMAIN selected : \E m \in Range(Typed) : selected[i] = m.text \/ selected[i] \in Range(m.tasks)

\* The repository is searched for the newest request, a follow-up together with
\* the request it follows.
NewestIsSearched ==
  LET texts == [i \in DOMAIN Typed |-> Typed[i].text]
      n == Len(texts)
      Ends(t, u) == Len(t) >= Len(u) /\ SubSeq(t, Len(t) - Len(u) + 1, Len(t)) = u
  IN search # None /\ n > 0 /\ (\A m \in Range(Typed) : m.tasks = <<>>) =>
       /\ Ends(search.text, texts[n])
       /\ n > 1 /\ "above" \in Range(texts[n]) => Ends(search.text, texts[n - 1] \o texts[n])

\* All of it.
PlanAnswersTheUser == TypeOK /\ IntentWasAsked /\ ToolResultsAreSilent /\ NewestIsSearched
=============================================================================
