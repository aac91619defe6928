---------------------------- MODULE SentMemory -----------------------------
(***************************************************************************)
(* What delta context injection promises, without saying how it remembers:  *)
(* a request withholds only symbols remembered for the user texts before    *)
(* it, what it composes is remembered for the texts up to and including it, *)
(* and anything may be forgotten at any moment - forgetting costs a resend, *)
(* never a symbol.  SentSymbols implements this with a bounded LRU cache.   *)
(***************************************************************************)
EXTENDS Integers, Sequences

CONSTANTS Symbol, Asked

VARIABLES
  memory,    \* user texts |-> the symbols remembered for them
  withheld,  \* the symbols the last request withheld
  sent       \* every symbol composed into a request

vars == <<memory, withheld, sent>>

Before(users) == IF users = <<>> THEN users ELSE SubSeq(users, 1, Len(users) - 1)

Remembered(key) == IF key \in DOMAIN memory THEN memory[key] ELSE {}

Init == memory = <<>> /\ withheld = {} /\ sent = {}

\* A request composes its primary and the supporting symbols not remembered,
\* and leaves a memory that may have forgotten some keys.
Request(users, primary, supporting) ==
  LET known    == Remembered(Before(users))
      composed == {primary} \cup (supporting \ known)
  IN  /\ withheld' = {[users |-> users, symbol |-> s] :
                        s \in (supporting \cap known) \ {primary}}
      /\ sent' = sent \cup {[users |-> users, symbol |-> s] :
                              s \in composed}
      /\ \E kept \in SUBSET (DOMAIN memory \cup {users}) :
           memory' = [k \in kept |-> IF k = users THEN known \cup composed ELSE memory[k]]

Forget ==
  /\ \E kept \in SUBSET DOMAIN memory : memory' = [k \in kept |-> memory[k]]
  /\ UNCHANGED <<withheld, sent>>

Next ==
  \/ Forget
  \/ \E users \in Asked, primary \in Symbol,
        supporting \in SUBSET Symbol :
          Request(users, primary, supporting)

Spec == Init /\ [][Next]_vars
=============================================================================
