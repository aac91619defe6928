---------------------------- MODULE SentSymbols ----------------------------
(***************************************************************************)
(* Delta context injection (packages/context/delta.py, as driven by         *)
(* RepositoryContextStage.execute): which symbols the gateway believes a    *)
(* conversation has already been sent, and therefore withholds.             *)
(*                                                                          *)
(* The tracker knows no conversations.  A request is looked up by its user  *)
(* messages before the newest one and stored by all of them, so requests    *)
(* with the same user texts are one conversation to it.  execute() does not *)
(* await, so one request is one step.                                       *)
(*                                                                          *)
(* Abstractions: a key is the sequence of user texts (the digest is taken   *)
(* to be injective, the empty sequence is "__new__"); of the ranked         *)
(* candidates only the primary's identity and the set of the others matter. *)
(***************************************************************************)
EXTENDS Integers, Sequences, FiniteSets, OrderedDict

CONSTANTS
  Symbol,        \* qualified names
  Text,          \* user texts
  Asked,         \* the user texts of the requests clients may send
  MaxSize        \* SentSymbolTracker.maxsize; 0 disables the store

ASSUME SymbolAssumption == IsFiniteSet(Symbol)
ASSUME AskedAssumption == Asked \subseteq Seq(Text)
ASSUME MaxSizeAssumption == MaxSize \in Nat

VARIABLES
  cache,     \* _cache: key |-> the symbols believed sent
  order,     \* the order of the OrderedDict, oldest entry first
  withheld,  \* history: the symbols the last request did not re-send
  sent,      \* history: every symbol composed into a request
  carried    \* history: every symbol that really reached a provider

vars == <<cache, order, withheld, sent, carried>>

Turns == [users : Asked, symbol : Symbol]

\* For TLC: a request without user messages, each text alone, and a second
\* turn of the conversation one of them opens.
MCAsked ==
  LET opening == CHOOSE text \in Text : TRUE
  IN  {<<>>} \cup {<<text>> : text \in Text}
             \cup {<<opening, text>> : text \in Text \ {opening}}

NewKey == <<>>   \* _SENTINEL_KEY

\* conversation_key: the user texts before the newest one.
ConversationKey(users) ==
  IF users = NewKey THEN NewKey ELSE SubSeq(users, 1, Len(users) - 1)

\* Mutant: stored under the key that was looked up.
StoreKeySame(users) == ConversationKey(users)

\* store_key: all the user texts, this turn's included.
StoreKey(users) == users

Init ==
  /\ cache = <<>>
  /\ order = <<>>
  /\ withheld = {}
  /\ sent = {}
  /\ carried = {}

Cached(key) == key \in DOMAIN cache

AlreadySent(key) == IF Cached(key) THEN cache[key] ELSE {}

\* get: a hit moves its key to the end.
AfterGet(key) == IF Cached(key) THEN MoveToEnd(order, key) ELSE order

\* Mutant: a full cache is recognised one entry too late.
MakeRoomLate(s, key) ==
  IF key \notin Range(s) /\ Len(s) > MaxSize THEN Tail(s) ELSE s

\* store evicts the oldest entry of a full cache, for a new key only.
MakeRoom(s, key) ==
  IF key \notin Range(s) /\ Len(s) >= MaxSize THEN Tail(s) ELSE s

\* SentSymbolTracker.store, on the order its get has left.
Store(looked, key, symbols) ==
  IF MaxSize = 0 THEN UNCHANGED <<cache, order>>
  ELSE LET kept == MoveToEnd(MakeRoom(looked, key), key)
       IN  /\ order' = kept
           /\ cache' = [k \in Range(kept) |-> IF k = key THEN symbols ELSE cache[k]]

\* Mutant: the primary is withheld like any other symbol.
FilteredAll(primary, supporting, known) == ({primary} \cup supporting) \ known

\* filter_candidates: the primary stays, known supporting symbols go.
Filtered(primary, supporting, known) == {primary} \cup (supporting \ known)

\* One turn of execute(): get, filter, store, then compose and serialize -
\* which may fail and let the request go on without its context.
Request(users, primary, supporting, arrived) ==
  LET known    == AlreadySent(ConversationKey(users))
      composed == Filtered(primary, supporting, known)
  IN  /\ Store(AfterGet(ConversationKey(users)), StoreKey(users), known \cup composed)
      /\ withheld' = {[users |-> users, symbol |-> s] :
                        s \in ({primary} \cup supporting) \ composed}
      /\ sent' = sent \cup {[users |-> users, symbol |-> s] :
                              s \in composed}
      /\ carried' = IF arrived THEN carried \cup composed ELSE carried

\* A gateway restart: the tracker lives in memory only.
Restart ==
  /\ order # <<>>
  /\ cache' = <<>>
  /\ order' = <<>>
  /\ UNCHANGED <<withheld, sent, carried>>

Next ==
  \/ \E users \in Asked, primary \in Symbol, arrived \in BOOLEAN :
       \E supporting \in SUBSET (Symbol \ {primary}) :
         Request(users, primary, supporting, arrived)
  \/ Restart

Spec == Init /\ [][Next]_vars

-----------------------------------------------------------------------------
(* Properties *)

\* Types, and the bound: the order lists the stored keys once each, and there
\* are never more than maxsize of them.
TypeOK ==
  /\ order \in Seq(Asked) /\ Distinct(order) /\ Len(order) <= MaxSize
  /\ cache \in [Range(order) -> SUBSET Symbol]
  /\ withheld \subseteq Turns
  /\ sent \subseteq Turns
  /\ carried \subseteq Symbol

Prefixes(users) == {SubSeq(users, 1, i) : i \in 0 .. Len(users)}

\* Whatever is withheld was composed into an earlier request with the same
\* leading user texts: the keys of different turns and of different histories
\* never mix, through retries, branches, evictions and restarts.
SuppressionEarned ==
  \A w \in withheld :
    \E r \in sent : r.symbol = w.symbol /\ r.users \in Prefixes(ConversationKey(w.users))

\* "Tracks which symbols have already been sent": a symbol is withheld only if
\* some request really carried it to a provider.
WithheldWasCarried ==
  \A w \in withheld : w.symbol \in carried

Memory == INSTANCE SentMemory WITH memory <- cache

\* The bounded cache is a memory that only ever forgets.
ImplementsMemory == Memory!Spec
=============================================================================
