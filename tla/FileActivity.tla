--------------------------- MODULE FileActivity ---------------------------
(***************************************************************************)
(* FileActivityTracker (packages/pipeline/file_activity.py): the bounded    *)
(* store that decides which files a client touched AFTER the gateway had    *)
(* put them in front of the model.                                          *)
(*                                                                          *)
(* A client re-sends the whole conversation on every request.  The tracker  *)
(* keeps one state per transcript it answered, looks up the state of the    *)
(* transcript before the newest assistant turn, credits the operations that *)
(* state had not examined, and stores the result under the new transcript.  *)
(*                                                                          *)
(* Abstractions: a fingerprint is the transcript itself (the digest is      *)
(* taken to be injective); a message carries at most one parsed envelope;   *)
(* the kinds read and modified are one kind, because correlation only asks  *)
(* whether an operation was confirmed.                                      *)
(***************************************************************************)
EXTENDS Integers, Sequences, FiniteSets, OrderedDict

CONSTANTS
  File,             \* normalized file identities
  NoFile,           \* "this message holds no envelope"
  Transcript,       \* the transcripts clients may send
  NewConversation,  \* NEW_CONVERSATION_KEY, no transcript's fingerprint
  MaxSize,          \* FileActivityTracker.maxsize
  MaxUniqueFiles,   \* FileActivityTracker.max_unique_files
  MaxEnvelopes      \* MAX_ENVELOPES_PER_REQUEST

Message == [role : {"user", "assistant"}, file : File \cup {NoFile}, ok : BOOLEAN]

ASSUME FileAssumption == IsFiniteSet(File) /\ NoFile \notin File
ASSUME TranscriptAssumption ==
  Transcript \subseteq Seq(Message) /\ NewConversation \notin Seq(Message)
ASSUME BoundAssumption ==
  /\ MaxSize \in Nat \ {0}
  /\ MaxUniqueFiles \in Nat \ {0}
  /\ MaxEnvelopes \in Nat \ {0}

VARIABLES
  cache,    \* _cache: stored transcript |-> its conversation state
  order,    \* the order of the OrderedDict, oldest entry first
  report,   \* the record returned by the last observe
  lineage   \* history: what really happened on each stored state's lineage

vars == <<cache, order, report, lineage>>

Token == {"measured", "no_prior_context", "tracker_miss"}

Entry == [supplied : SUBSET File, operations : [File -> Nat],
          credited : SUBSET File, lineage_complete : BOOLEAN]

(***************************************************************************)
(* History of one lineage, kept for the properties only: how many requests  *)
(* it chains, whether one of them reported bounded-away work, and for each   *)
(* file the position of the first message that could react to it having     *)
(* been supplied (0: never supplied).                                       *)
(***************************************************************************)
Lineage == [links : Nat, clipped : BOOLEAN, shownFrom : [File -> Nat]]

-----------------------------------------------------------------------------
(* Reading a transcript *)

AssistantTurns(t) == {i \in DOMAIN t : t[i].role = "assistant"}

\* transcript_fingerprints: everything before the newest assistant turn.
LookupKey(t) ==
  IF AssistantTurns(t) = {} THEN NewConversation
  ELSE LET newest == CHOOSE i \in AssistantTurns(t) :
                        \A j \in AssistantTurns(t) : j <= i
       IN  SubSeq(t, 1, newest - 1)

Envelopes(t) == {i \in DOMAIN t : t[i].role = "user" /\ t[i].file # NoFile}

\* parse_envelopes keeps the newest MaxEnvelopes of them.
Parsed(t) ==
  {i \in Envelopes(t) :
     Cardinality({j \in Envelopes(t) : j > i}) < MaxEnvelopes}

BeyondBound(t) == Cardinality(Envelopes(t) \ Parsed(t))

Confirms(t, i, f) == t[i].file = f /\ t[i].ok

Confirmed(t, f) == {i \in Parsed(t) : Confirms(t, i, f)}

Succeeded(t) == [f \in File |-> Cardinality(Confirmed(t, f))]

Touched(t) == {f \in File : Succeeded(t)[f] > 0}

\* Mutant: >= instead of >, so history being re-sent looks new again.
NewOperationsReplayed(t, examined) ==
  {f \in File : Succeeded(t)[f] > 0 /\ Succeeded(t)[f] >= examined[f]}

\* The files whose confirmed operations exceed what was already examined.
NewOperations(t, examined) == {f \in File : Succeeded(t)[f] > examined[f]}

\* The order in which Succeeded's dict was filled: by first confirmation.
ConfirmedBefore(t, f, g) ==
  \E i \in Confirmed(t, f) : \A j \in Confirmed(t, g) : i < j

-----------------------------------------------------------------------------
(* The tracker's operations *)

NoReport ==
  [key |-> NewConversation, found |-> FALSE, token |-> "tracker_miss",
   touched |-> {}, credited |-> {}, beyond |-> 0]

Init ==
  /\ cache = <<>>
  /\ order = <<>>
  /\ lineage = <<>>
  /\ report = NoReport

EmptyEntry ==
  [supplied |-> {}, operations |-> [f \in File |-> 0], credited |-> {},
   lineage_complete |-> TRUE]

EmptyLineage ==
  [links |-> 0, clipped |-> FALSE, shownFrom |-> [f \in File |-> 0]]

Cached(key) == key \in DOMAIN cache

\* Mutant: a miss is not marked, so a broken lineage resumes as measured.
PriorEntryUnmarked(t) ==
  IF Cached(LookupKey(t)) THEN cache[LookupKey(t)] ELSE EmptyEntry

\* _cache.get(lookup_key), copied; a miss on a conversation that has earlier
\* turns breaks the lineage.
PriorEntry(t) ==
  IF Cached(LookupKey(t)) THEN cache[LookupKey(t)]
  ELSE [EmptyEntry EXCEPT !.lineage_complete = (LookupKey(t) = NewConversation)]

PriorLineage(t) == IF Cached(LookupKey(t)) THEN lineage[LookupKey(t)] ELSE EmptyLineage

Correlation(prior) ==
  IF ~prior.lineage_complete THEN "tracker_miss"
  ELSE IF prior.supplied = {} THEN "no_prior_context" ELSE "measured"

\* Mutants: len(target) > limit lets one file too many in, and
\* len(target) + 1 >= limit keeps the last place empty.
AdmittedOneTooMany(target, wanted) ==
  {K \in SUBSET (wanted \ target) : Cardinality(target \cup K) <= MaxUniqueFiles + 1}
AdmittedOneTooFew(target, wanted) ==
  {K \in SUBSET (wanted \ target) :
     \/ K = wanted \ target /\ Cardinality(target \cup K) < MaxUniqueFiles
     \/ Cardinality(target \cup K) = MaxUniqueFiles - 1}

\* _add in a loop: the sets a bounded set may become the room for.
Admitted(target, wanted) ==
  {K \in SUBSET (wanted \ target) :
     \/ K = wanted \ target /\ Cardinality(target \cup K) <= MaxUniqueFiles
     \/ Cardinality(target \cup K) = MaxUniqueFiles}

InOrder(t, kept, refused) == \A f \in kept, g \in refused : ConfirmedBefore(t, f, g)

Recorded(entry) == {f \in File : entry.operations[f] > 0}

\* Mutant: correlate() does not remember what it examined.
NextEntryForgetful(t, prior, credit, record, supply) ==
  [prior EXCEPT !.supplied = @ \cup supply, !.credited = @ \cup credit]

\* The entry after correlate() and _merge(), given what the bounds admitted.
NextEntry(t, prior, credit, record, supply) ==
  [supplied |-> prior.supplied \cup supply,
   operations |-> [f \in File |->
      IF f \in NewOperations(t, prior.operations) /\ f \in Recorded(prior) \cup record
      THEN Succeeded(t)[f] ELSE prior.operations[f]],
   credited |-> prior.credited \cup credit,
   lineage_complete |-> prior.lineage_complete]

NextLineage(t, prior, package, beyond) ==
  [links |-> prior.links + 1,
   clipped |-> prior.clipped \/ beyond > 0,
   shownFrom |-> [f \in File |->
      IF prior.shownFrom[f] > 0 THEN prior.shownFrom[f]
      ELSE IF f \in package THEN Len(t) + 1 ELSE 0]]

\* popitem(last=False) while the cache is over its bound: one store adds at
\* most one entry, so at most one goes.
Evicted(s) == IF Len(s) > MaxSize THEN Tail(s) ELSE s

Store(t, entry, line) ==
  LET kept == Evicted(MoveToEnd(order, t))
  IN  /\ order' = kept
      /\ cache' = [k \in Range(kept) |-> IF k = t THEN entry ELSE cache[k]]
      /\ lineage' = [k \in Range(kept) |-> IF k = t THEN line ELSE lineage[k]]

\* What one observe wants to add to each bounded set of the state it copied.
ToCredit(t, prior) ==
  (NewOperations(t, prior.operations) \cap prior.supplied) \ prior.credited
ToRecord(t, prior) == NewOperations(t, prior.operations) \ Recorded(prior)
ToSupply(package, prior) == package \ prior.supplied

\* The observe that admitted `credited`, `recorded` and `supplied`; whatever a
\* bound refused is reported as work beyond it.
Answer(t, package, prior, credited, recorded, supplied) ==
  LET refusedCredit == ToCredit(t, prior) \ credited
      refusedRecord == ToRecord(t, prior) \ recorded
      refusedSupply == ToSupply(package, prior) \ supplied
      beyond == BeyondBound(t) + Cardinality(refusedCredit)
                + Cardinality(refusedRecord) + Cardinality(refusedSupply)
      entry  == NextEntry(t, prior, credited, recorded, supplied)
  IN  /\ InOrder(t, credited, refusedCredit)
      /\ InOrder(t, recorded, refusedRecord)
      /\ Store(t, entry, NextLineage(t, PriorLineage(t), package, beyond))
      /\ report' = [key |-> t, found |-> Cached(LookupKey(t)),
                    token |-> Correlation(prior), touched |-> Touched(t),
                    credited |-> IF Correlation(prior) = "measured"
                                 THEN entry.credited \cap Touched(t) ELSE {},
                    beyond |-> beyond]

\* Mutant: this request's package joins the state before the correlation.
ObserveMergesFirst(t, package) ==
  LET found == PriorEntry(t)
      prior == [found EXCEPT !.supplied = @ \cup package]
  IN  \E credited \in Admitted(prior.credited, ToCredit(t, prior)),
         recorded \in Admitted(Recorded(prior), ToRecord(t, prior)) :
        Answer(t, package, prior, credited, recorded, {})

\* FileActivityTracker.observe: package is what this request supplies.  The
\* correlation runs over the state that was found, before the package joins it.
Observe(t, package) ==
  LET prior == PriorEntry(t)
  IN  \E credited \in Admitted(prior.credited, ToCredit(t, prior)),
         recorded \in Admitted(Recorded(prior), ToRecord(t, prior)),
         supplied \in Admitted(prior.supplied, ToSupply(package, prior)) :
        Answer(t, package, prior, credited, recorded, supplied)

\* FileActivityTracker.snapshot of a stored state: it only refreshes recency.
Snapshot(key) ==
  /\ Cached(key)
  /\ order' = MoveToEnd(order, key)
  /\ UNCHANGED <<cache, report, lineage>>

\* A gateway restart: the tracker lives in memory only.
Restart ==
  /\ order # <<>>
  /\ cache' = <<>>
  /\ order' = <<>>
  /\ lineage' = <<>>
  /\ report' = NoReport

Next ==
  \/ \E t \in Transcript, package \in SUBSET File : Observe(t, package)
  \/ \E key \in Transcript : Snapshot(key)
  \/ Restart

Spec == Init /\ [][Next]_vars

-----------------------------------------------------------------------------
(* Properties *)

\* Types: the OrderedDict's order lists exactly the stored keys, once each.
TypeOK ==
  /\ order \in Seq(Transcript) /\ Distinct(order)
  /\ cache \in [Range(order) -> Entry]
  /\ lineage \in [Range(order) -> Lineage]
  /\ report \in [key : Transcript \cup {NewConversation}, found : BOOLEAN,
                 token : Token, touched : SUBSET File, credited : SUBSET File,
                 beyond : Nat]

\* Neither the store nor any set inside a stored state outgrows its bound,
\* whatever is sent (file_activity.py: maxsize, max_unique_files).
Bounded ==
  /\ Len(order) <= MaxSize
  /\ \A k \in DOMAIN cache :
       /\ Cardinality(cache[k].supplied) <= MaxUniqueFiles
       /\ Cardinality(cache[k].credited) <= MaxUniqueFiles
       /\ Cardinality(Recorded(cache[k])) <= MaxUniqueFiles

\* A file is credited only if an earlier request of the lineage supplied it -
\* which is also why the bound on `credited` can never refuse anything.
CreditedWasSupplied ==
  \A k \in DOMAIN cache :
    /\ cache[k].credited \subseteq cache[k].supplied
    /\ \A f \in cache[k].credited : lineage[k].shownFrom[f] \in 1 .. Len(k)

\* The operations that reacted to a supply: f was supplied on the lineage and
\* the transcript confirms an operation on it after that request.
ReactedTo(k) ==
  {f \in File : /\ lineage[k].shownFrom[f] > 0
                /\ \E i \in Envelopes(k) :
                     i >= lineage[k].shownFrom[f] /\ Confirms(k, i, f)}

\* Unless a request of the lineage reported work beyond a bound, the credited
\* files are exactly those operated on after having been supplied: nothing is
\* attributed to a context that came later, and nothing is forgotten.
ExactUnlessClipped ==
  \A k \in DOMAIN cache : ~lineage[k].clipped => cache[k].credited = ReactedTo(k)

\* A state claims an unbroken lineage only if every request of its
\* conversation was seen: one link per assistant turn, plus the first request.
CompleteMeansWholeLineage ==
  \A k \in DOMAIN cache :
    cache[k].lineage_complete => lineage[k].links = Cardinality(AssistantTurns(k)) + 1

\* "No prior context" is never said of a conversation in which an earlier
\* request supplied a file, not even one whose files the bound refused.
NoPriorContextIsTrue ==
  report.token = "no_prior_context" /\ Cached(report.key) =>
     \A f \in File : lineage[report.key].shownFrom[f] \in {0, Len(report.key) + 1}
=============================================================================
