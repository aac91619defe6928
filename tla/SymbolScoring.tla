--------------------------- MODULE SymbolScoring ---------------------------
(***************************************************************************)
(* What a symbol scores for the words of a request                          *)
(* (packages/context/scoring.py): the words are expanded and thinned out,   *)
(* the best rule on names counts once, overlaps with name and module count  *)
(* per word, and bonuses and penalties are added.                           *)
(*                                                                          *)
(* Abstractions: a text is a sequence of words, with 0 for an underscore; a *)
(* word has a length, and words do not overlap in each other.  A request is *)
(* its words, separated by blanks.  The share a name has in a longer one is *)
(* exact, where a float may round it down by one point.                     *)
(*                                                                          *)
(* Rules that never apply to what the context builder scores are left out:  *)
(* its candidates have no docstring or source yet, every one is a class, a  *)
(* function or a method, no dotted module ends in /__init__.py, and a       *)
(* module is part of the qualified name, so that its own match and that of  *)
(* the exact qualified name come too late.  No primary symbol is given.     *)
(***************************************************************************)
EXTENDS Integers, Sequences, FiniteSets, FiniteSetsExt

CONSTANTS
  Symbols,   \* [name, module]: the segments of the qualified name and how many
             \* of them are the module
  Sayable,   \* what a request can say: [text, camel]
  Length,    \* of every word, and of 0
  StopWords, TestWords,
  Generated, \* RankingConfig.GENERATED_PATTERNS
  TestFile,  \* of TEST_FILE_PATTERNS, the one a module can match
  MaxWords   \* bound: the words of a request

Texts == Seq(DOMAIN Length) \ {<<>>}
ScoringAssumption ==
  /\ DOMAIN Length \subseteq Nat /\ Length \in [DOMAIN Length -> Nat \ {0}]
  /\ 0 \in DOMAIN Length /\ MaxWords \in Nat
  /\ \A s \in Symbols : s.name \in Seq(Texts) /\ s.module \in 1 .. Len(s.name) - 1
  /\ Sayable \subseteq [text : Texts, camel : BOOLEAN]

VARIABLES
  said,    \* the words of the request
  heard,   \* query_tokens
  scored   \* by symbol, its score and the strongest kind of match

vars == <<said, heard, scored>>

-----------------------------------------------------------------------------
(* Texts *)

Places(part, text) ==
  {p \in 1 .. Len(text) - Len(part) + 1 : SubSeq(text, p, p + Len(part) - 1) = part}
Within(part, text) == Places(part, text) # {}
TextLength(text) ==
  LET upTo[k \in 0 .. Len(text)] == IF k = 0 THEN 0 ELSE upTo[k - 1] + Length[text[k]] IN upTo[Len(text)]

\* In the order they come in, each once, those that are wanted.
Distinct(texts, wanted) ==
  LET kept[k \in 0 .. Len(texts)] ==
        IF k = 0 THEN <<>>
        ELSE IF texts[k] \in wanted \ Range(kept[k - 1]) THEN Append(kept[k - 1], texts[k]) ELSE kept[k - 1]
  IN kept[Len(texts)]

\* The words between the underscores, in a row or each for itself.
Segments(text, apart) ==
  LET upTo[k \in 0 .. Len(text)] ==
        IF k = 0 THEN <<>>
        ELSE IF text[k] = 0 THEN upTo[k - 1]
        ELSE IF apart \/ k = 1 \/ text[k - 1] = 0 THEN Append(upTo[k - 1], <<text[k]>>)
        ELSE [upTo[k - 1] EXCEPT ![Len(upTo[k - 1])] = Append(upTo[k - 1][Len(upTo[k - 1])], text[k])]
  IN upTo[Len(text)]
Parts(text) == Segments(text, FALSE)
Stripped(text) ==
  LET letters == {i \in DOMAIN text : text[i] # 0}
  IN IF letters = {} THEN <<>> ELSE SubSeq(text, Min(letters), Max(letters))
Joined(parts) ==
  LET upTo[k \in 0 .. Len(parts)] ==
        IF k = 0 THEN <<>> ELSE IF upTo[k - 1] = <<>> THEN parts[k] ELSE upTo[k - 1] \o <<0>> \o parts[k]
  IN upTo[Len(parts)]

-----------------------------------------------------------------------------
(* The words of the request *)

\* In capitals, a word ends where the next begins.
CamelSegments(word) == Segments(word.text, word.camel)
Expanded(word) == <<word.text>> \o Parts(word.text) \o CamelSegments(word)
Forms(query) ==
  LET upTo[k \in 0 .. Len(query)] == IF k = 0 THEN <<>> ELSE upTo[k - 1] \o Expanded(query[k]) IN upTo[Len(query)]

\* It is no stop word and longer than a letter.
Tells(t) == ~(Len(t) = 1 /\ t[1] \in StopWords) /\ TextLength(t) > 1
Telling(query) == Distinct(Forms(query), {t \in Range(Forms(query)) : Tells(t)})

\* If nothing but stop words is said, they are what is asked for.
NormaliseQueryText(query) ==
  LET texts == [i \in DOMAIN query |-> query[i].text]
  IN IF Telling(query) # <<>> THEN Telling(query) ELSE Distinct(texts, Range(texts))

-----------------------------------------------------------------------------
(* The rules *)

\* A segment is named as it is, without its outer underscores or by two and
\* more of its parts in a row.
PhraseForms(segment) ==
  LET parts == Parts(segment)
      rows == {r \in (DOMAIN parts) \X (DOMAIN parts) : r[1] < r[2]}
  IN ({Stripped(segment)} \ {<<>>}) \cup {Joined(SubSeq(parts, r[1], r[2])) : r \in rows}
Names(token, segment) == token = segment \/ token \in PhraseForms(segment)

NamedBy(symbol, tokens) ==
  {n \in (DOMAIN tokens) \X (DOMAIN symbol.name) : Names(tokens[n[1]], symbol.name[n[2]])}

\* Mutant: the last word that names the symbol is compared.
LastNamed(symbol, tokens) ==
  LET t == Max({n[1] : n \in NamedBy(symbol, tokens)})
  IN Min({n[2] : n \in {m \in NamedBy(symbol, tokens) : m[1] = t}})

\* The rule compares the first segment that the first word names.
FirstNamed(symbol, tokens) ==
  LET t == Min({n[1] : n \in NamedBy(symbol, tokens)})
  IN Min({n[2] : n \in {m \in NamedBy(symbol, tokens) : m[1] = t}})

\* Mutant: the discount may outweigh what an exact name is worth more.
LackHeavy(part, whole) == (60 * (TextLength(whole) - TextLength(part))) \div TextLength(whole)

Lack(part, whole) == (50 * (TextLength(whole) - TextLength(part))) \div TextLength(whole)

\* A segment that is found inside of another one, not at its beginning, is
\* discounted by what it lacks of that.
Discount(symbol, i) ==
  LET others == {j \in DOMAIN symbol.name \ {i} :
                   LET p == Places(symbol.name[i], symbol.name[j]) IN p # {} /\ Min(p) > 1}
  IN IF others = {} THEN 0 ELSE Lack(symbol.name[i], symbol.name[Min(others)])

NameRule(symbol, tokens) ==
  IF NamedBy(symbol, tokens) # {} THEN 100 - Discount(symbol, FirstNamed(symbol, tokens))
  ELSE IF \E t \in Range(tokens), s \in Range(symbol.name) : Within(t, s) THEN 50 ELSE 0

Overlapping(tokens, segments) == {t \in Range(tokens) : \E s \in Range(segments) : Within(t, s)}
ModuleOf(symbol) == SubSeq(symbol.name, 1, symbol.module)
ModuleOverlap(symbol, tokens) == Cardinality(Overlapping(tokens, ModuleOf(symbol)))

IsPrivate(symbol) == symbol.name[Len(symbol.name)][1] = 0
IsGenerated(symbol) == \E p \in Generated, s \in Range(symbol.name) : Within(p, s)
IsTest(symbol) == \E s \in Range(ModuleOf(symbol)) : Within(TestFile, s)
TargetsTests(tokens) == \E t \in Range(tokens) : Len(t) = 1 /\ t[1] \in TestWords

\* Whatever the words are; 10 for its type.
Quality(symbol) == 10 + (IF IsPrivate(symbol) THEN -10 ELSE 5) - (IF IsGenerated(symbol) THEN 20 ELSE 0)
TestPoints(symbol, tokens) ==
  IF ~IsTest(symbol) THEN 0 ELSE IF TargetsTests(tokens) THEN 75 ELSE -50

\* Two words that occur in the module count as a match of it; without any
\* word, nothing scores.
ScoreCandidate(symbol, tokens) ==
  LET named == Cardinality(Overlapping(tokens, symbol.name))
      inModule == ModuleOverlap(symbol, tokens)
  IN IF tokens = <<>> THEN [score |-> 0, match |-> "none"]
     ELSE [score |-> NameRule(symbol, tokens) + 10 * named + (IF inModule >= 2 THEN 10 * inModule ELSE 0)
                     + Quality(symbol) + TestPoints(symbol, tokens),
           match |-> IF inModule >= 2 THEN "module"
                     ELSE IF named > 0 \/ (IsTest(symbol) /\ TargetsTests(tokens)) THEN "name" ELSE "none"]

Scores(tokens) == [s \in Symbols |-> ScoreCandidate(s, tokens)]

-----------------------------------------------------------------------------
Init ==
  /\ said = <<>>
  /\ heard = <<>>
  /\ scored = Scores(<<>>)

\* The request is made again, with one more word.
SayMore ==
  /\ Len(said) < MaxWords
  /\ \E w \in Sayable : said' = Append(said, w)
  /\ heard' = NormaliseQueryText(said')
  /\ scored' = Scores(heard')

Next == SayMore
Spec == Init /\ [][Next]_vars

-----------------------------------------------------------------------------
(* Properties *)

\* Types; no word is counted twice.
TypeOK ==
  /\ said \in Seq(Sayable) /\ Len(said) <= MaxWords
  /\ heard \in Seq(Texts) /\ IsInjective(heard) /\ (said # <<>> => heard # <<>>)
  /\ scored \in [Symbols -> [score : Int, match : {"none", "name", "module"}]]

IsNamed(s) == NamedBy(s, heard) # {}

\* "Discount the score to prevent it from outranking simpler names": however
\* much is discounted, a symbol the request names stays before one that it
\* does not, has no more of its words and is as good otherwise.
NamedOutranks ==
  \A s, t \in Symbols :
    /\ IsNamed(s) /\ ~IsNamed(t) /\ Quality(s) = Quality(t)
    /\ TestPoints(s, heard) = TestPoints(t, heard)
    /\ Overlapping(heard, t.name) \subseteq Overlapping(heard, s.name)
    /\ Overlapping(heard, ModuleOf(t)) \subseteq Overlapping(heard, ModuleOf(s))
    => scored[s].score > scored[t].score

\* A symbol that is named is not cut, unless it is generated or in a test that
\* was not asked for.
NamedSurvives ==
  \A s \in Symbols : IsNamed(s) /\ ~IsGenerated(s) /\ TestPoints(s, heard) >= 0 => scored[s].score >= 1

\* What counts as relevant, and may win by lying in a changed file, has a word
\* of the request in its name, or is a test when tests were asked for.
RelevantByAWord ==
  \A s \in Symbols :
    scored[s].match # "none" <=> \/ \E t \in Range(heard) : \E i \in DOMAIN s.name : Within(t, s.name[i])
                                 \/ TestPoints(s, heard) > 0

ScoringIsSound == TypeOK /\ NamedOutranks /\ NamedSurvives /\ RelevantByAWord

\* One more word never makes a symbol score less, once a word counts that is
\* no stop word.
WordCounts == \E t \in Range(heard) : Tells(t)
WordsHelp == WordCounts => \A s \in Symbols : scored'[s].score >= scored[s].score
=============================================================================
