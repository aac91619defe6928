--------------------------- MODULE ContextMessages ---------------------------
(***************************************************************************)
(* What leaves for the provider: the body of the client is normalized       *)
(* (packages/pipeline/normalized.py), the ranked symbols are composed into  *)
(* a package (packages/context/composer.py), which the repository stage     *)
(* serializes into the messages, and the normalized request becomes the     *)
(* payload.                                                                 *)
(*                                                                          *)
(* Abstractions: a parameter is good, or of a type its field does not have; *)
(* of a symbol its name and its module are kept, of stream_options whether  *)
(* they are a dictionary.                                                   *)
(***************************************************************************)
EXTENDS OpenAIMessages, FiniteSets

CONSTANTS
  Bodies,      \* what clients send: the messages, and the other keys present
  Rankings,    \* sequences of candidates
  Unset        \* a key the body does not have, or the request has not kept

VARIABLES
  client, ranked,
  sending,     \* normalizing, composing, serializing, sent
  normalized, package, payload

vars == <<client, ranked, sending, normalized, package, payload>>

-----------------------------------------------------------------------------
(* The request *)

\* Of these a value of another type is dropped, of the others nothing is asked.
TypedField == {"tools", "temperature", "max_tokens"}
UntypedField == {"tool_choice", "stop"}

Kept(body, key) ==
  IF key \in TypedField /\ body[key] = "bad" THEN Unset ELSE body[key]

FromClient(body) ==
  [messages |-> IF body.messages = Invalid THEN <<>> ELSE body.messages,
   stream |-> body.stream = "true",
   fields |-> [k \in TypedField \cup UntypedField |-> Kept(body, k)],
   extra |-> [seed |-> body.seed, stream_options |-> body.stream_options]]

\* Mutant: what the protocol does not know is not carried over.
WithMessagesOnly(request, messages) ==
  [request EXCEPT !.messages = messages, !.extra = [k \in DOMAIN @ |-> Unset]]

WithMessages(request, messages) == [request EXCEPT !.messages = messages]

\* Mutant: the options of the client replace those of the gateway.
PayloadOfClientOptions(request) ==
  [messages |-> request.messages, stream |-> request.stream, fields |-> request.fields, seed |-> request.extra.seed,
   usage |-> request.stream /\ request.extra.stream_options = Unset,
   options |-> request.extra.stream_options]

\* A stream always reports its usage, whatever else the client asks of it.
ToProviderPayload(request) ==
  [messages |-> request.messages, stream |-> request.stream, fields |-> request.fields, seed |-> request.extra.seed,
   usage |-> request.stream,
   options |-> IF request.stream /\ request.extra.stream_options = "junk" THEN Unset ELSE request.extra.stream_options]

-----------------------------------------------------------------------------
(* The stages *)

Init ==
  /\ client \in Bodies /\ ranked \in Rankings
  /\ sending = "normalizing" /\ normalized = None /\ package = None /\ payload = None

Normalize ==
  /\ sending = "normalizing"
  /\ normalized' = FromClient(client)
  /\ sending' = "composing"
  /\ UNCHANGED <<client, ranked, package, payload>>

\* Without candidates the stage ends before it composes.
ComposePackage ==
  /\ sending = "composing"
  /\ package' = IF ranked = <<>> THEN None ELSE Compose(ranked)
  /\ sending' = IF ranked = <<>> THEN "sending" ELSE "serializing"
  /\ UNCHANGED <<client, ranked, normalized, payload>>

\* Messages that cannot be serialized are left as they are.
SerializeMessages ==
  /\ sending = "serializing"
  /\ normalized' = IF Serializable(normalized.messages)
                   THEN WithMessages(normalized, Serialize(package, normalized.messages)) ELSE normalized
  /\ sending' = "sending"
  /\ UNCHANGED <<client, ranked, package, payload>>

Send ==
  /\ sending = "sending"
  /\ payload' = ToProviderPayload(normalized)
  /\ sending' = "sent"
  /\ UNCHANGED <<client, ranked, normalized, package>>

Next == Normalize \/ ComposePackage \/ SerializeMessages \/ Send

Spec == Init /\ [][Next]_vars

-----------------------------------------------------------------------------
(* Properties *)

TypeOK == sending \in {"normalizing", "composing", "serializing", "sending", "sent"}

Said == IF client.messages = Invalid THEN <<>> ELSE client.messages
IsSystem(m) == m.role = "system"

\* Nothing of the conversation is lost, changed or moved, and the texts of the
\* system messages are all there, in their order.
ClientIsHeard ==
  sending = "sent" =>
    LET sent == payload.messages
        systems == SelectSeq(sent, IsSystem)
        texts == SelectSeq(Said, LAMBDA m : IsSystem(m) /\ m.content = "text")
    IN \/ sent = Said
       \/ /\ SelectSeq(sent, LAMBDA m : ~IsSystem(m)) = SelectSeq(Said, LAMBDA m : ~IsSystem(m))
          /\ Len(systems) = 1 => IsSystem(sent[1]) /\ systems[1].texts = [i \in DOMAIN texts |-> texts[i].number]
          /\ Len(systems) \in {0, 1} /\ (texts # <<>> => systems # <<>>)

\* What was ranked is what the provider reads, unless the conversation is one
\* the serializer refuses: every symbol by name, the first as the primary one.
ContextArrives ==
  sending = "sent" /\ ranked # <<>> /\ Serializable(Said) =>
    LET context == payload.messages[1].context IN
    /\ context.primary = ranked[1].name
    /\ {context.primary} \cup Range(context.supporting) = {c.name : c \in Range(ranked)}
    /\ Len(context.supporting) + 1 = Cardinality({c.name : c \in Range(ranked)})
    /\ context.callers \cup context.callees \subseteq Range(context.supporting)
    /\ \A c \in Range(ranked) : c.module \in context.modules

\* The parameters of the client reach the provider, save those of a wrong type.
ParametersArrive ==
  sending = "sent" =>
    /\ \A k \in TypedField \cup UntypedField :
         payload.fields[k] = client[k] \/ (client[k] = "bad" /\ payload.fields[k] = Unset)
    /\ payload.seed = client.seed
    /\ payload.stream => payload.usage /\ (client.stream_options = "dict" => payload.options = "dict")

\* All of it.
RequestIsKept == TypeOK /\ ClientIsHeard /\ ContextArrives /\ ParametersArrive

\* "Client system messages are preserved in order, placed first."
\* (packages/serializers/openai.py)
SystemMessagesKept ==
  sending = "sent" /\ ranked # <<>> /\ Serializable(Said) =>
    LET systems == SelectSeq(Said, LAMBDA m : IsSystem(m) /\ m.content # "empty")
    IN payload.messages[1].texts = [i \in DOMAIN systems |-> systems[i].number]
=============================================================================
