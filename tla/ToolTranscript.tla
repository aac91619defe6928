--------------------------- MODULE ToolTranscript ---------------------------
(***************************************************************************)
(* parse_envelopes of packages/pipeline/cline_activity.py: the tool calls   *)
(* of one request's transcript and what their results say, read in two      *)
(* passes under a bound. FileActivity counts what this returns.             *)
(*                                                                          *)
(* Abstractions: a target is a value, Bad when it is no string; a header in *)
(* a user message is the envelope parse_message_envelope reads from it; the *)
(* content of a result is a status for all targets or one per target. An    *)
(* envelope also carries where it came from, which the code does not keep.  *)
(***************************************************************************)
EXTENDS Integers, Sequences, SequencesExt, FiniteSets, FiniteSetsExt

CONSTANTS
  Transcript,   \* the transcripts a request may carry
  Bad,          \* a target that is not a string
  None,         \* no envelope, no readable arguments
  Bound         \* MAX_ENVELOPES_PER_REQUEST

TranscriptAssumption ==
  /\ Bound \in Nat \ {0}
  /\ \A t \in Transcript : \A i \in DOMAIN t : t[i].role \in {"assistant", "tool", "user"}

VARIABLES
  messages,   \* the transcript
  phase,      \* "match", "walk" or "done"
  position,   \* the message looked at
  calls,      \* by id, the last call announced
  answered,   \* by position of a result, the call it answers
  room,       \* how many envelopes may still be kept
  beyond,     \* how many were only counted
  kept        \* the envelopes, in message order

vars == <<messages, phase, position, calls, answered, room, beyond, kept>>

-----------------------------------------------------------------------------
(* One call and its result *)

\* NATIVE_TOOL_ACTIVITY; any other tool is not recognized.
Activity(tool) ==
  CASE tool = "read_files" -> "read" [] tool = "editor" -> "modified" [] OTHER -> "none"
Native == {"read_files", "editor", "search_codebase", "run_commands"}

\* _native_targets: the first Bound files of a read.
Targets(call) == SubSeq(call.targets, 1, Min({Len(call.targets), Bound}))

\* A plausible bug: a list is read from its beginning, however long it is.
StatusesByPosition(content, count) ==
  [i \in 1 .. count |->
     CASE content.form = "object" -> content.says[1]
       [] content.form = "list" /\ i \in DOMAIN content.says -> content.says[i]
       [] OTHER -> "unclear"]

\* _native_statuses: an object speaks for all, a list entry by entry if it is
\* as long, and nothing else is understood.
Statuses(content, count) ==
  CASE content.form = "object" -> [i \in 1 .. count |-> content.says[1]]
    [] content.form = "list" /\ Len(content.says) = count -> content.says
    [] OTHER -> [i \in 1 .. count |-> "unclear"]

Outcome(status, activity) ==
  CASE status = "ok" -> "confirmed"
    [] status = "failed" -> IF activity = "read" THEN "failed" ELSE "not_modified"
    [] OTHER -> "unknown"

Envelope(at, nth, activity, target, outcome) ==
  [at |-> at, nth |-> nth, activity |-> activity, target |-> target, outcome |-> outcome]

\* _native_envelopes
NativeEnvelopes(at, call, content) ==
  LET activity == Activity(call.tool) IN
  IF activity = "none" \/ call.targets \in {None, <<>>}
  THEN <<Envelope(at, 1, activity, IF activity # "none" /\ call.targets = None THEN Bad ELSE "", "not_applicable")>>
  ELSE LET targets == Targets(call)
           statuses == Statuses(content, Len(targets))
       IN [i \in DOMAIN targets |-> Envelope(at, i, activity, targets[i], Outcome(statuses[i], activity))]

\* A plausible bug: a call counts once.
NativeCountOfCalls(call) == 1

\* _native_envelope_count: from the arguments alone.
NativeCount(call) ==
  IF Activity(call.tool) = "none" \/ call.targets \in {None, <<>>} THEN 1 ELSE Len(Targets(call))

-----------------------------------------------------------------------------
(* The two passes *)

Init ==
  /\ messages \in Transcript
  /\ phase = "match" /\ position = 1 /\ calls = [id \in {} |-> None]
  /\ answered = [i \in {} |-> None]
  /\ room = Bound /\ beyond = 0 /\ kept = <<>>

Message == messages[position]

\* A plausible bug: of two calls with one id the first counts.
RememberedFirst(list) ==
  LET native == SelectSeq(list, LAMBDA c : c.tool \in Native)
      ids == {native[i].id : i \in DOMAIN native}
  IN [id \in DOMAIN calls \cup ids |->
        IF id \in DOMAIN calls THEN calls[id] ELSE native[Min({i \in DOMAIN native : native[i].id = id})]]

\* _remember_native_calls: of two calls with one id the later counts.
Remembered(list) ==
  LET native == SelectSeq(list, LAMBDA c : c.tool \in Native)
      Uses(id) == {i \in DOMAIN native : native[i].id = id}
      ids == {native[i].id : i \in DOMAIN native}
  IN [id \in DOMAIN calls \cup ids |-> IF id \in ids THEN native[Max(Uses(id))] ELSE calls[id]]

\* Oldest first: which call a result answers.
Match ==
  /\ phase = "match" /\ position <= Len(messages)
  /\ calls' = IF Message.role = "assistant" THEN Remembered(Message.body) ELSE calls
  /\ answered' = IF Message.role = "tool" /\ Message.body.id \in DOMAIN calls
                 THEN [i \in DOMAIN answered \cup {position} |->
                         IF i = position THEN calls[Message.body.id] ELSE answered[i]]
                 ELSE answered
  /\ position' = position + 1
  /\ UNCHANGED <<messages, phase, room, beyond, kept>>

Matched ==
  /\ phase = "match" /\ position > Len(messages)
  /\ phase' = "walk" /\ position' = Len(messages)
  /\ UNCHANGED <<messages, calls, answered, room, beyond, kept>>

\* What the message at position i is recognized as.
Batch(i) ==
  IF i \in DOMAIN answered THEN NativeEnvelopes(i, answered[i], messages[i].body.content)
  ELSE IF messages[i].role = "user" /\ messages[i].body # None
       THEN LET b == messages[i].body IN <<Envelope(i, 1, b.activity, b.target, b.outcome)>>
  ELSE <<>>

\* A plausible bug: of a batch that does not fit, the beginning.
KeepBeginning ==
  LET batch == Batch(position)
      fit == Min({Len(batch), room})
  IN /\ phase = "walk" /\ position > 0 /\ room > 0
     /\ kept' = SubSeq(batch, 1, fit) \o kept
     /\ room' = room - fit
     /\ beyond' = beyond + Len(batch) - fit
     /\ position' = position - 1
     /\ UNCHANGED <<messages, phase, calls, answered>>

\* Newest first, while there is room: of a batch that does not fit, the end.
Keep ==
  LET batch == Batch(position)
      over == IF Len(batch) > room THEN Len(batch) - room ELSE 0
  IN /\ phase = "walk" /\ position > 0 /\ room > 0
     /\ kept' = SubSeq(batch, over + 1, Len(batch)) \o kept
     /\ room' = room - (Len(batch) - over)
     /\ beyond' = beyond + over
     /\ position' = position - 1
     /\ UNCHANGED <<messages, phase, calls, answered>>

\* Without room an envelope is counted, and its result is not decoded.
Count ==
  /\ phase = "walk" /\ position > 0 /\ room = 0
  /\ beyond' = beyond + (IF position \in DOMAIN answered THEN NativeCount(answered[position])
                         ELSE Len(Batch(position)))
  /\ position' = position - 1
  /\ UNCHANGED <<messages, phase, calls, answered, room, kept>>

Walked ==
  /\ phase = "walk" /\ position = 0
  /\ phase' = "done"
  /\ UNCHANGED <<messages, position, calls, answered, room, beyond, kept>>

Next == Match \/ Matched \/ Keep \/ Count \/ Walked

Spec == Init /\ [][Next]_vars

-----------------------------------------------------------------------------
(* Properties *)

\* The variables range over what parse_envelopes can put in them.
TypeOK ==
  /\ phase \in {"match", "walk", "done"}
  /\ position \in 0 .. Len(messages) + 1
  /\ DOMAIN answered \subseteq DOMAIN messages
  /\ room \in 0 .. Bound /\ beyond \in Nat /\ Len(kept) + room = Bound

\* The calls announced before message i, oldest first, of the tools recognized.
Announced(i) ==
  SelectSeq(FlattenSeq([j \in 1 .. i - 1 |-> IF messages[j].role = "assistant" THEN messages[j].body ELSE <<>>]),
            LAMBDA c : c.tool \in Native)

\* What a parser without a bound and with a single pass would return.
Everything ==
  FlattenSeq([i \in DOMAIN messages |->
    IF messages[i].role = "tool"
    THEN LET own == SelectSeq(Announced(i), LAMBDA c : c.id = messages[i].body.id)
         IN IF own = <<>> THEN <<>> ELSE NativeEnvelopes(i, own[Len(own)], messages[i].body.content)
    ELSE IF messages[i].role = "user" /\ messages[i].body # None
    THEN LET b == messages[i].body IN <<Envelope(i, 1, b.activity, b.target, b.outcome)>>
    ELSE <<>>])

\* The two passes return the newest envelopes of the transcript, each read with
\* the call announced last before it, and count all the others: "exactly as a
\* bounded queue filled oldest first would". A call id used again, a call with
\* more files than there is room and a count that differs from what would have
\* been read all end here.
NewestAreKept ==
  phase = "done" =>
    LET all == Everything
        fit == Min({Len(all), Bound})
    IN /\ kept = SubSeq(all, Len(all) - fit + 1, Len(all))
       /\ beyond = Len(all) - fit

\* A file is reported read or modified only if its own result, or its own entry
\* of a result with one entry per file, says so.
ConfirmedWasReported ==
  \A k \in DOMAIN kept :
    LET e == kept[k] IN
    e.outcome = "confirmed" /\ messages[e.at].role = "tool" =>
      LET content == messages[e.at].body.content IN
      /\ content.form = "object" \/ Len(content.says) = Min({Bound, Len(answered[e.at].targets)})
      /\ content.says[IF content.form = "object" THEN 1 ELSE e.nth] = "ok"
      /\ e.target = answered[e.at].targets[e.nth]

TranscriptIsRead == TypeOK /\ NewestAreKept /\ ConfirmedWasReported
=============================================================================
