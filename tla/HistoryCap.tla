------------------------------ MODULE HistoryCap ------------------------------
(***************************************************************************)
(* packages/pipeline/history.py and _apply_history_cap of                  *)
(* packages/pipeline/engine.py: the conversation a client sends again in   *)
(* full on every turn is cut to a token budget before it is forwarded.     *)
(*                                                                         *)
(* A message is its role, its estimated size, the tool calls it makes and  *)
(* the call it answers; text and the ratio that turns it into tokens are   *)
(* abstracted to the size.  Positions count from 1, so position 0 is the   *)
(* index -1 of the code.                                                   *)
(***************************************************************************)
EXTENDS Integers, Sequences, FiniteSets, FiniteSetsExt

CONSTANTS
    CallIds,            \* identifiers of tool calls
    NoCall,             \* a message that answers no call
    Alphabet,           \* the messages a client may append
    Settings,           \* the budgets a request may be capped with
    DefaultGeneration,  \* tokens reserved for an answer of unstated length
    Reserve,            \* repository context reserve plus safety margin
    DefaultWindow,      \* context window of a model that states none
    Marker,             \* size of the truncation marker
    MaxMessages         \* bound on the length of a conversation

Roles == {"system", "user", "assistant", "tool"}

\* override is APP_HISTORY_CAP_TOKENS (0: derive), window the context window of
\* the resolved model (0: unstated), generation the request's max_tokens (0: none)
Setting == [override : Nat, window : Nat, generation : Nat, resolved : BOOLEAN]

Message == [role : Roles, size : Nat, calls : SUBSET CallIds,
            answers : CallIds \cup {NoCall}, envelope : BOOLEAN]

ASSUME HistoryCapAssumption ==
    /\ NoCall \notin CallIds
    /\ Alphabet \subseteq Message
    /\ Settings \subseteq Setting
    /\ DefaultGeneration \in Nat /\ Reserve \in Nat
    /\ DefaultWindow \in Nat /\ Marker \in Nat
    /\ MaxMessages \in Nat

VARIABLES
    messages,   \* the client's conversation
    setting,    \* what the deployment and the request say about the budget
    asked,      \* how many of the messages the last request carried
    kept,       \* the positions that request forwarded
    dropped,    \* the history_dropped_count it recorded
    current     \* the size its last user message was forwarded with

vars == <<messages, setting, asked, kept, dropped, current>>

-----------------------------------------------------------------------------
Positions(ms) == 1..Len(ms)

HasRole(ms, role) == {i \in Positions(ms) : ms[i].role = role}

SizeOf(ms, S) == MapThenSumSet(LAMBDA i : ms[i].size, S)

\* the trailing assistants are counted one short
LastUserShort(ms) ==
    IF HasRole(ms, "user") # {}
    THEN Max(HasRole(ms, "user"))
    ELSE Max({0} \cup (Positions(ms) \ HasRole(ms, "assistant"))) + 1

\* no user message: the position before the trailing assistant messages
LastUser(ms) ==
    IF HasRole(ms, "user") # {}
    THEN Max(HasRole(ms, "user"))
    ELSE Max({0} \cup (Positions(ms) \ HasRole(ms, "assistant")))

\* What the second pass of _build_cap_groups unites, which includes all the
\* first pass unites: a result with every earlier assistant that made its call.
Linked(ms, i, j) ==
    /\ i < j
    /\ ms[i].role = "assistant" /\ ms[j].role = "tool"
    /\ ms[j].answers \in ms[i].calls

Closed(ms, S) ==
    \A j \in HasRole(ms, "tool"), i \in HasRole(ms, "assistant") :
        Linked(ms, i, j) => (i \in S <=> j \in S)

\* only the results of one assistant are united, never the assistant with them
GroupsByResult(ms) ==
    {{i} : i \in Positions(ms) \ HasRole(ms, "tool")}
        \cup {{j \in HasRole(ms, "tool") : ms[j].answers = c} : c \in {ms[k].answers : k \in HasRole(ms, "tool")}}

Exchanged(ms) == HasRole(ms, "assistant") \cup HasRole(ms, "tool")

\* the union-find classes: around a call or result the smallest closed set, any
\* other message alone
Groups(ms) ==
    LET closed == {S \in SUBSET Exchanged(ms) : Closed(ms, S)}
        Class(i) == {j \in Exchanged(ms) : \A S \in closed : i \in S => j \in S}
    IN  {Class(i) : i \in Exchanged(ms)} \cup {{i} : i \in Positions(ms) \ Exchanged(ms)}

\* groups that are nothing but system messages or the last user message are not
\* candidates
Candidates(ms) ==
    {g \in Groups(ms) : \E i \in g : i \notin HasRole(ms, "system") /\ i # LastUser(ms)}

\* the walk looks at the budget before it adds the group
KeptGroupsLate(ms, budget) ==
    LET candidates == Candidates(ms)
        Newer(g) == {h \in candidates : Max(h) > Max(g)}
    IN  {g \in candidates : SizeOf(ms, UNION Newer(g)) <= budget}

\* the groups are sorted oldest first
KeptGroupsOldest(ms, budget) ==
    LET candidates == Candidates(ms)
        Older(g) == {h \in candidates : Max(h) <= Max(g)}
    IN  {g \in candidates : SizeOf(ms, UNION Older(g)) <= budget}

\* a group that does not fit is skipped and the walk goes on
KeptGroupsSkip(ms, budget) ==
    LET candidates == Candidates(ms)
        EndsAt(i) == UNION {g \in candidates : Max(g) = i}
        used[i \in 1..(Len(ms) + 1)] ==
            IF i > Len(ms) THEN 0
            ELSE LET more == used[i + 1] + SizeOf(ms, EndsAt(i))
                 IN  IF more <= budget THEN more ELSE used[i + 1]
    IN  {g \in candidates : used[Max(g)] > used[Max(g) + 1]}

\* newest first, until the first group that does not fit
KeptGroups(ms, budget) ==
    LET candidates == Candidates(ms)
        Newer(g) == {h \in candidates : Max(h) >= Max(g)}
    IN  {g \in candidates : SizeOf(ms, UNION Newer(g)) <= budget}

Counted(ms) == Positions(ms) \ (HasRole(ms, "system") \cup {LastUser(ms)})

Fits(ms, budget) == SizeOf(ms, Counted(ms)) <= budget

\* the last user message's protection is lost
CapHistoryUnprotected(ms, budget) ==
    IF Positions(ms) \subseteq HasRole(ms, "system") \/ Fits(ms, budget) \/ Candidates(ms) = {}
    THEN Positions(ms)
    ELSE HasRole(ms, "system") \cup UNION KeptGroups(ms, budget)

CapHistory(ms, budget) ==
    IF Positions(ms) \subseteq HasRole(ms, "system") \/ Fits(ms, budget) \/ Candidates(ms) = {}
    THEN Positions(ms)
    ELSE HasRole(ms, "system") \cup {LastUser(ms)} \cup UNION KeptGroups(ms, budget)

\* a truncated tool result is cut to the budget, but never below its marker
Truncated(size, budget) == IF size <= budget THEN size ELSE Max({budget, Marker})

\* _cap_current_tool_result
CapCurrent(ms, budget) ==
    IF HasRole(ms, "user") = {}
    THEN 0
    ELSE LET m == ms[Max(HasRole(ms, "user"))]
         IN  IF m.envelope THEN Truncated(m.size, budget) ELSE m.size

NoBudget == 0

\* _apply_history_cap: an explicit budget wins, otherwise it is what the context
\* window leaves; NoBudget forwards the conversation as it is
Budget(s) ==
    IF s.override > 0 THEN s.override
    ELSE IF ~s.resolved THEN NoBudget
    ELSE LET window     == IF s.window > 0 THEN s.window ELSE DefaultWindow
             generation == IF s.generation > 0 THEN s.generation ELSE DefaultGeneration
         IN  Max({NoBudget, window - generation - Reserve})

-----------------------------------------------------------------------------
Init ==
    /\ messages = << >>
    /\ setting \in Settings
    /\ asked = 0
    /\ kept = {}
    /\ dropped = 0
    /\ current = 0

\* the client appends to its conversation
Say ==
    /\ Len(messages) < MaxMessages
    /\ \E m \in Alphabet : messages' = Append(messages, m)
    /\ UNCHANGED <<setting, asked, kept, dropped, current>>

\* the client sends the whole conversation, and the gateway caps it
Request ==
    /\ asked < Len(messages)
    /\ asked' = Len(messages)
    /\ LET budget == Budget(setting) IN
       IF budget = NoBudget
       THEN /\ kept' = Positions(messages)
            /\ dropped' = 0
            /\ current' = CapCurrent(messages, SizeOf(messages, Positions(messages)))
       ELSE /\ kept' = CapHistory(messages, budget)
            /\ dropped' = Len(messages) - Cardinality(kept')
            /\ current' = CapCurrent(messages, budget)
    /\ UNCHANGED <<messages, setting>>

Next == Say \/ Request

Spec == Init /\ [][Next]_vars

-----------------------------------------------------------------------------
TypeOK ==
    /\ messages \in Seq(Message)
    /\ setting \in Settings
    /\ asked \in 0..Len(messages)
    /\ kept \subseteq 0..asked
    /\ dropped \in Nat
    /\ current \in Nat

\* the messages the last request carried
Sent == SubSeq(messages, 1, asked)

HasUser(ms) == HasRole(ms, "user") # {}

\* Rules 1 and 2: every system message and the last user message are forwarded,
\* and the count of dropped messages is that of the messages left out.
TurnIsKept ==
    /\ HasRole(Sent, "system") \subseteq kept
    /\ HasUser(Sent) =>
        /\ LastUser(Sent) \in kept
        /\ dropped = Cardinality(Positions(Sent) \ kept)

\* Rule 4: a call is forwarded with all its results or with none, whatever
\* identifiers the client uses again, once the conversation has a user message.
CallsTravelWithResults ==
    HasUser(Sent) => Closed(Sent, kept)

\* What a request forwards besides system messages and the current turn fits the
\* budget, and so does a current tool result (or it is only its marker).
WithinBudget ==
    Budget(setting) # NoBudget =>
        /\ SizeOf(Sent, (kept \ {0}) \cap Counted(Sent)) <= Budget(setting)
        /\ HasUser(Sent) /\ Sent[LastUser(Sent)].envelope
            => current <= Max({Budget(setting), Marker})

Suffix(ms, k) == k..Len(ms)

\* Rule 3: the newest messages are kept as far back as they fit the budget and
\* no call is cut from its result.
NewestThatFit ==
    \A k \in Positions(Sent) :
        /\ Closed(Sent, Suffix(Sent, k))
        /\ SizeOf(Sent, Suffix(Sent, k) \cap Counted(Sent)) <= Budget(setting)
        /\ HasUser(Sent)
        => Suffix(Sent, k) \subseteq kept

\* A new message that answers a call made in the conversation so far.
LateAnswer ==
    \E i \in 1..asked, j \in (asked + 1)..Len(messages) : Linked(messages, i, j)

\* What one turn dropped no later turn brings back, so the prefix the provider
\* has cached is only ever cut, unless a late result joins the exchange it
\* answers.
DroppedStaysDropped ==
    [][asked' # asked /\ ~LateAnswer => kept' \cap 1..asked \subseteq kept]_vars

\* Rule 5 as written: "The kept messages stay in their original relative order."
\* Position 0 is index -1, which sorts first and reads the last message.
OriginalOrder == 0 \notin kept

\* The budget is kept, and used.
KeepsTheNewest == WithinBudget /\ NewestThatFit
=============================================================================
