------------------------------ MODULE VLLMStream ------------------------------
(***************************************************************************)
(* The streaming half of packages/providers/vllm.py: lines of the          *)
(* backend's event stream become events for the client, except that the    *)
(* first content is held back until it is known whether the answer starts  *)
(* with an empty think block, which is cut out.                            *)
(*                                                                         *)
(* Content is a sequence of symbols in which a tag takes two, so that a    *)
(* tag can be split between two chunks.  A line that carries no string     *)
(* content (a role, a tool call, a finish reason, the usage) is "other"; a *)
(* line that is not a JSON object is "raw".                                *)
(***************************************************************************)
EXTENDS Integers, Sequences, SequencesExt

CONSTANTS
    Contents,       \* the texts a content chunk may carry
    DecisionLimit,  \* THINK_BLOCK_DECISION_CHARS, in symbols
    MaxLines        \* bound on the lines of a stream

Open  == <<"<thi", "nk>">>
Close == <<"</thi", "nk>">>
Space == " "

Symbols == {"<thi", "nk>", "</thi", Space, "a"}

\* What chunks carry in the runs: tags whole and split, a tag and text, an empty
\* first chunk, spaces and plain text.
MCContents ==
    { << >>, <<Space>>, <<"a">>,
      <<"<thi">>, <<"nk>">>, Open,
      Close \o <<"a">>, Close \o <<Space>>, Open \o <<Space>> \o Close }

ASSUME VLLMStreamAssumption ==
    /\ Contents \subseteq Seq(Symbols)
    /\ DecisionLimit \in Nat /\ DecisionLimit >= Len(Open) + Len(Close)
    /\ MaxLines \in Nat

Line == [kind : {"content", "other", "raw", "done"}, text : Seq(Symbols)]

VARIABLES
    input,    \* the lines received so far
    output,   \* the events yielded: position of the line, and its content
    pending,  \* pending_chunks, as positions
    text,     \* pending_text
    decided,  \* prefix_decided
    state     \* connecting, open, ended, failed (error event), raised

vars == <<input, output, pending, text, decided, state>>

-----------------------------------------------------------------------------
Spaces(n) == [i \in 1..n |-> Space]

Concat(seqs) == FoldLeft(\o, << >>, seqs)

\* The lengths of the prefixes of t that EMPTY_THINK_BLOCK_RE matches: an open
\* tag, spaces, a close tag, spaces.
EmptyBlocks(t) ==
    {n \in Len(Open \o Close)..Len(t) : \E p \in 0..(n - Len(Open \o Close)) :
        SubSeq(t, 1, n) = Open \o Spaces(p) \o Close \o Spaces(n - p - Len(Open \o Close))}

Longest(S) == CHOOSE n \in S : \A m \in S : n >= m

\* _strip_leading_empty_think_block
Strip(t) ==
    IF EmptyBlocks(t) = {} THEN t ELSE SubSeq(t, Longest(EmptyBlocks(t)) + 1, Len(t))

\* _has_nonempty_leading_think_block: the first close tag follows more than spaces
NonemptyBlock(t) ==
    /\ IsPrefix(Open, t)
    /\ \E n \in Len(Open)..(Len(t) - Len(Close)) :
        /\ SubSeq(t, n + 1, n + Len(Close)) = Close
        /\ \A m \in Len(Open)..(n - 1) : SubSeq(t, m + 1, m + Len(Close)) # Close
        /\ \E m \in (Len(Open) + 1)..n : t[m] # Space

MayOpen(t) == IsPrefix(t, Open) \/ IsPrefix(Open, t)

\* text without end can be held back
ShouldDecideUnbounded(t) ==
    \/ EmptyBlocks(t) # {}
    \/ NonemptyBlock(t)
    \/ ~MayOpen(t)

\* _should_decide_stream_prefix
ShouldDecide(t) ==
    \/ EmptyBlocks(t) # {}
    \/ NonemptyBlock(t)
    \/ ~MayOpen(t)
    \/ Len(t) >= DecisionLimit

Event(lines, i) == [at |-> i, text |-> lines[i].text]

\* flush_pending
Flushed(lines, chunks) == [k \in 1..Len(chunks) |-> Event(lines, chunks[k])]

\* the later chunks keep the text that the first already carries
SanitizedTwice(chunks, t) ==
    [k \in 1..Len(chunks) |-> [at |-> chunks[k], text |-> t]]

\* _sanitize_pending_stream_chunks: the first chunk carries all that is left
Sanitized(chunks, t) ==
    [k \in 1..Len(chunks) |-> [at |-> chunks[k], text |-> IF k = 1 THEN t ELSE << >>]]

-----------------------------------------------------------------------------
Init ==
    /\ input = << >>
    /\ output = << >>
    /\ pending = << >>
    /\ text = << >>
    /\ decided = FALSE
    /\ state = "connecting"

Connect ==
    /\ state = "connecting"
    /\ state' = "open"
    /\ UNCHANGED <<input, output, pending, text, decided>>

\* raise_for_status: the handler reads the text of a response whose body was
\* never read, which raises in the handler itself
HttpError ==
    /\ state = "connecting"
    /\ state' = "raised"
    /\ UNCHANGED <<input, output, pending, text, decided>>

\* any other exception, at any time, ends the stream with an error event; what
\* is pending is lost
Fail ==
    /\ state \in {"connecting", "open"}
    /\ state' = "failed"
    /\ output' = Append(output, [at |-> 0, text |-> << >>])
    /\ UNCHANGED <<input, pending, text, decided>>

Receive(kind, t) ==
    /\ state = "open"
    /\ Len(input) < MaxLines
    /\ input' = Append(input, [kind |-> kind, text |-> t])

\* [DONE] and lines that are not JSON objects: what is pending goes first, but
\* pending_text stays
Raw ==
    /\ \E kind \in {"raw", "done"} : Receive(kind, << >>)
    /\ output' = output \o Flushed(input', pending) \o <<Event(input', Len(input'))>>
    /\ pending' = << >>
    /\ UNCHANGED <<text, decided, state>>

Other ==
    /\ Receive("other", << >>)
    /\ output' = Append(output, Event(input', Len(input')))
    /\ UNCHANGED <<pending, text, decided, state>>

Decided ==
    /\ decided
    /\ \E t \in Contents : Receive("content", t)
    /\ output' = Append(output, Event(input', Len(input')))
    /\ UNCHANGED <<pending, text, decided, state>>

Hold ==
    /\ ~decided
    /\ \E t \in Contents :
        /\ ~ShouldDecide(text \o t)
        /\ Receive("content", t)
        /\ pending' = Append(pending, Len(input'))
        /\ text' = text \o t
    /\ UNCHANGED <<output, decided, state>>

\* the chunk that decides is yielded before those it decides about
DecideEarly ==
    /\ ~decided
    /\ \E t \in Contents :
        /\ ShouldDecide(text \o t)
        /\ Receive("content", t)
        /\ text' = text \o t
        /\ LET chunks == <<Len(input')>> \o pending IN
           output' = output \o IF Strip(text') # text'
                               THEN Sanitized(chunks, Strip(text'))
                               ELSE Flushed(input', chunks)
    /\ pending' = << >>
    /\ decided' = TRUE
    /\ UNCHANGED state

\* the sanitized chunks stay pending
DecideKeeps ==
    /\ ~decided
    /\ \E t \in Contents :
        /\ ShouldDecide(text \o t)
        /\ Receive("content", t)
        /\ text' = text \o t
        /\ LET chunks == Append(pending, Len(input')) IN
           IF Strip(text') # text'
           THEN output' = output \o Sanitized(chunks, Strip(text')) /\ pending' = chunks
           ELSE output' = output \o Flushed(input', chunks) /\ pending' = << >>
    /\ decided' = TRUE
    /\ UNCHANGED state

Decide ==
    /\ ~decided
    /\ \E t \in Contents :
        /\ ShouldDecide(text \o t)
        /\ Receive("content", t)
        /\ text' = text \o t
        /\ LET chunks == Append(pending, Len(input')) IN
           output' = output \o IF Strip(text') # text'
                               THEN Sanitized(chunks, Strip(text'))
                               ELSE Flushed(input', chunks)
    /\ pending' = << >>
    /\ decided' = TRUE
    /\ UNCHANGED state

\* the stream ends without the last flush
EndUnflushed ==
    /\ state = "open"
    /\ state' = "ended"
    /\ UNCHANGED <<input, output, pending, text, decided>>

End ==
    /\ state = "open"
    /\ state' = "ended"
    /\ output' = output \o Flushed(input, pending)
    /\ pending' = << >>
    /\ UNCHANGED <<input, text, decided>>

Next ==
    \/ Connect \/ HttpError \/ Fail
    \/ Raw \/ Other \/ Decided \/ Hold \/ Decide
    \/ End

Spec == Init /\ [][Next]_vars

-----------------------------------------------------------------------------
TypeOK ==
    /\ input \in Seq(Line)
    /\ output \in Seq([at : 0..Len(input), text : Seq(Symbols)])
    /\ pending \in Seq(1..Len(input))
    /\ text \in Seq(Symbols)
    /\ decided \in BOOLEAN
    /\ state \in {"connecting", "open", "ended", "failed", "raised"}
    /\ decided => pending = << >>

Received == Concat([i \in 1..Len(input) |-> input[i].text])
Told     == Concat([k \in 1..Len(output) |-> output[k].text])

\* What was received with the first i lines.
Heard(i) == Concat([k \in 1..i |-> input[k].text])

\* A [DONE] or a line that is no JSON object flushes a prefix that is neither
\* empty nor decided yet.
FlushesPrefix(i) ==
    input[i].kind \in {"raw", "done"} /\ Heard(i) # << >> /\ ~ShouldDecide(Heard(i))

\* Content follows such a line: that what it flushed was told is forgotten, and
\* deciding tells it again.
ToldTwice == \E i, j \in 1..Len(input) : i < j /\ FlushesPrefix(i) /\ input[j].kind = "content"

ShortBlock(t) == \E n \in EmptyBlocks(t) : n <= DecisionLimit

\* t without the spaces it starts with
Trimmed(t) ==
    LET starts == {i \in 1..Len(t) : t[i] # Space}
    IN  IF starts = {} THEN << >> ELSE SubSeq(t, CHOOSE i \in starts : \A j \in starts : i <= j, Len(t))

\* A streamed answer says what _sanitize_chat_response makes of the same answer
\* in one piece, however it is cut into chunks and whether or not [DONE] ends
\* it, but for spaces after the block that arrive in a chunk of their own; a
\* block longer than the decision limit is not cut; and a stream that goes on
\* after a line that flushed an undecided prefix tells that prefix again.
StreamSaysTheSame ==
    state = "ended" /\ ~ToldTwice /\ (EmptyBlocks(Received) # {} => ShortBlock(Received))
        => Trimmed(Told) = Trimmed(Strip(Received))

\* Every line of a stream that ends is passed on exactly once, whatever was held
\* back.
EveryLineOnce ==
    state = "ended" =>
        /\ Len(output) = Len(input)
        /\ \A i \in 1..Len(input) : \E k \in 1..Len(output) : output[k].at = i

\* Content never overtakes content, nor what surrounds the held-back prefix
\* once it is decided.
ContentInOrder ==
    \A k, l \in 1..Len(output) :
        k < l /\ output[k].at > output[l].at /\ output[l].at # 0
            => input[output[k].at].kind = "other" /\ input[output[l].at].kind = "content"

\* What a failure of the backend can lose, and what other events can overtake,
\* is at most an undecided prefix shorter than the limit.
OnlyPrefixWaits ==
    pending # << >> =>
        /\ Len(text) < DecisionLimit
        /\ MayOpen(text)
        /\ EmptyBlocks(text) = {}

\* "Should have an error event": a stream the backend refuses tells the client.
RefusalIsReported ==
    state \in {"failed", "raised"} => \E k \in 1..Len(output) : output[k].at = 0

\* What is held back is never lost, doubled or overtaken by content.
NothingIsLost == TypeOK /\ EveryLineOnce /\ ContentInOrder /\ OnlyPrefixWaits
=============================================================================
