--------------------------- MODULE OpenAIMessages ---------------------------
(***************************************************************************)
(* The messages of a provider request: ranked candidates are composed into  *)
(* a context package (packages/context/composer.py), the first of them its  *)
(* primary symbol, and the serializer of the OpenAI format                  *)
(* (packages/serializers/openai.py) puts what the package says in front of  *)
(* a conversation. Operators only.                                          *)
(*                                                                          *)
(* Abstractions: a message has a role, None if the key is missing and       *)
(* Invalid if it is no dictionary, a content ("text", "empty", "parts" for  *)
(* a list, "absent"), whether it calls tools, and a number; the system      *)
(* message written lists the numbers of the texts in it and the context. Of *)
(* a candidate its name and its module are kept.                            *)
(***************************************************************************)
EXTENDS Integers, Sequences, SequencesExt

CONSTANTS None, Invalid

-----------------------------------------------------------------------------
(* The package *)

\* A package, without the texts of its symbols.
NoPackage == [primary |-> None, supporting |-> <<>>, callers |-> {}, callees |-> {}, modules |-> {}]

\* Everything of the module of the primary symbol that is ranked before it
\* counts as a caller, what is ranked after it as a callee.
Neighbours(primary, candidates) ==
  LET same == SelectSeq(candidates, LAMBDA c : c.module = primary.module)
      places == {i \in DOMAIN same : same[i].name = primary.name}
      at == CHOOSE i \in places : \A j \in places : i <= j
      Names(S) == {same[i].name : i \in S} \ {primary.name}
  IN IF places = {} THEN [callers |-> {}, callees |-> {}]
     ELSE [callers |-> Names(1 .. at - 1), callees |-> Names(at + 1 .. Len(same))]

\* Mutant: a name is listed as often as it is ranked.
EveryOccurrence(primary, candidates) == [i \in DOMAIN candidates |-> candidates[i].name]

\* The names of the candidates in their order, each of them once.
Supporting(primary, candidates) ==
  LET first == SelectSeq([i \in DOMAIN candidates |-> i],
                         LAMBDA i : /\ candidates[i].name # primary.name
                                    /\ \A j \in 1 .. i - 1 : candidates[j].name # candidates[i].name)
  IN [n \in DOMAIN first |-> candidates[first[n]].name]

Compose(candidates) ==
  IF candidates = <<>> THEN NoPackage
  ELSE LET near == Neighbours(Head(candidates), candidates) IN
       [primary |-> Head(candidates).name, supporting |-> Supporting(Head(candidates), Tail(candidates)),
        callers |-> near.callers, callees |-> near.callees,
        modules |-> {c.module : c \in Range(candidates)}]

-----------------------------------------------------------------------------
(* The messages *)

Roles == {"system", "user", "assistant", "tool"}

Valid(message) ==
  /\ message.role \in Roles
  /\ message.content # "absent" \/ (message.role = "assistant" /\ message.calls)

\* An empty conversation is refused too.
Serializable(messages) == messages # <<>> /\ \A i \in DOMAIN messages : Valid(messages[i])

HasContent(package) ==
  package # None /\ (\/ package.primary # None \/ package.supporting # <<>> \/ package.callers # {}
                     \/ package.callees # {} \/ package.modules # {})

RepositoryContext(package) == IF HasContent(package) THEN package ELSE None

SystemMessages(messages) == SelectSeq(messages, LAMBDA m : m.role = "system")

\* Mutant: the role of tools is forgotten.
WithoutToolMessages(messages) == SelectSeq(messages, LAMBDA m : m.role \in Roles \ {"system", "tool"})

ConversationMessages(messages) == SelectSeq(messages, LAMBDA m : m.role \in Roles \ {"system"})

\* Mutant: the text of the last system message replaces the others.
LastSystemText(messages) ==
  LET texts == SelectSeq(SystemMessages(messages), LAMBDA m : m.content = "text")
  IN IF texts = <<>> THEN <<>> ELSE <<Last(texts).number>>

\* Only texts can be joined: an empty one and a list of parts are left out.
SystemText(messages) ==
  LET texts == SelectSeq(SystemMessages(messages), LAMBDA m : m.content = "text")
  IN [i \in DOMAIN texts |-> texts[i].number]

\* One system message, if there is anything to say, then the conversation.
Serialize(package, messages) ==
  LET said == SystemText(messages)
      context == RepositoryContext(package)
      system == [role |-> "system", texts |-> said, context |-> context]
  IN (IF said = <<>> /\ context = None THEN <<>> ELSE <<system>>) \o ConversationMessages(messages)
=============================================================================
