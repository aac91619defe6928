----------------------------- MODULE DeltaProbe -----------------------------
(***************************************************************************)
(* run_delta_context_probe of scripts/quality_harness.py: two requests of   *)
(* one conversation, and a verdict from the session log that the gateway    *)
(* writes after it has answered, while the harness polls the file.          *)
(*                                                                          *)
(* Abstractions: an answer has all its facts or not; of the records only a  *)
(* follow-up's symbols_suppressed is read; a line is in the log when it is  *)
(* complete, since one in the making does not parse; the 5 seconds of       *)
(* patience are Patience looks at the log.                                  *)
(***************************************************************************)
EXTENDS Integers, Sequences

CONSTANTS
  Patience,  \* how often the log is read
  MaxRuns,   \* bound: how often the script is started
  MaxOthers  \* bound: requests of other clients

ProbeAssumption == Patience \in Nat \ {0} /\ MaxRuns \in Nat

VARIABLES
  log,      \* the records on disk
  pending,  \* the requests whose record is not on disk
  run,      \* how often the script was started
  at,       \* "ended", "first", "followup" or "reading"
  scores,   \* the answers so far: TRUE for all the facts
  offset,   \* where the log ended when this run began
  looks,    \* how often it has read the log
  result,   \* the verdict of the run: "none", "ok", "bad", "error" or "missing"
  judged,   \* history: where the log ended when the verdict fell
  quiet,    \* history: no request but this run's was open since it began
  others    \* how many requests of other clients were sent

vars == <<log, pending, run, at, scores, offset, looks, result, judged, quiet, others>>

Record == [by : 0 .. MaxRuns, prompt : {"first", "followup", "other"}, suppressed : BOOLEAN]

Init ==
  /\ log = <<>> /\ pending = {} /\ run = 0 /\ at = "ended" /\ scores = <<>> /\ offset = 0
  /\ looks = 0 /\ result = "none" /\ judged = 0 /\ quiet = TRUE /\ others = 0

-----------------------------------------------------------------------------
(* The gateway *)

\* The record of a request is flushed after its response, at some time.
Flush(r) ==
  /\ r \in pending
  /\ pending' = pending \ {r} /\ log' = Append(log, r)
  /\ UNCHANGED <<run, at, scores, offset, looks, result, judged, quiet, others>>

\* Another client: its record is no different from a probe's.
Other ==
  /\ others < MaxOthers
  /\ pending' = pending \cup {[by |-> 0, prompt |-> "other", suppressed |-> FALSE]}
  /\ quiet' = FALSE /\ others' = others + 1
  /\ UNCHANGED <<log, run, at, scores, offset, looks, result, judged>>

-----------------------------------------------------------------------------
(* The harness *)

\* The size of the log is taken first.
Begin ==
  /\ at = "ended" /\ run < MaxRuns
  /\ run' = run + 1 /\ at' = "first" /\ offset' = Len(log)
  /\ scores' = <<>> /\ looks' = 0 /\ result' = "none"
  /\ quiet' = (pending = {})
  /\ UNCHANGED <<log, pending, judged, others>>

\* A plausible bug: the size of the log is taken when the requests are through.
AfterFollowupMeasuring == [at |-> "reading", offset |-> Len(log)]

\* After both answers the log is read from where it ended at the start.
AfterFollowup == [at |-> "reading", offset |-> offset]

\* run_probe: the gateway works on a request from now on; it may answer, with a
\* score, or not in time: the run ends, the gateway goes on, unless the request
\* never reached it.
Ask ==
  /\ at \in {"first", "followup"}
  /\ \E s \in IF at = "followup" THEN BOOLEAN ELSE {FALSE}, answer \in {"full", "partial", "error", "refused"} :
       /\ pending' = IF answer = "refused" THEN pending
                     ELSE pending \cup {[by |-> run, prompt |-> at, suppressed |-> s]}
       /\ IF answer \in {"error", "refused"}
          THEN at' = "ended" /\ result' = "error" /\ UNCHANGED <<scores, offset>>
          ELSE /\ scores' = Append(scores, answer = "full")
               /\ at' = IF at = "first" THEN "followup" ELSE AfterFollowup.at
               /\ offset' = IF at = "first" THEN offset ELSE AfterFollowup.offset
               /\ UNCHANGED result
  /\ UNCHANGED <<log, run, looks, judged, quiet, others>>

\* _read_session_log_records
Records == SubSeq(log, offset + 1, Len(log))
Found(prompt) == {i \in DOMAIN Records : Records[i].prompt = prompt}

\* _record_for_last_user: the newest.
Newest(prompt) == Records[CHOOSE i \in Found(prompt) : \A j \in Found(prompt) : j <= i]

\* A plausible bug: any record ends the wait.
ExpectedOne == 1

ExpectedMin == 2

\* A plausible bug: the answers are not looked at.
VerdictWithoutScores ==
  IF Found("first") = {} \/ Found("followup") = {} THEN "missing"
  ELSE IF Newest("followup").suppressed THEN "ok" ELSE "bad"

Verdict ==
  IF Found("first") = {} \/ Found("followup") = {} THEN "missing"
  ELSE IF scores[1] /\ scores[2] /\ Newest("followup").suppressed THEN "ok" ELSE "bad"

\* _read_session_log_records_with_retry: until there are enough, or too late.
Look ==
  /\ at = "reading"
  /\ looks' = looks + 1
  /\ IF Len(Records) >= ExpectedMin \/ looks' = Patience
     THEN at' = "ended" /\ result' = Verdict /\ judged' = Len(log)
     ELSE UNCHANGED <<at, result, judged>>
  /\ UNCHANGED <<log, pending, run, scores, offset, quiet, others>>

Next == Begin \/ Ask \/ Look \/ Other \/ \E r \in pending : Flush(r)

Spec == Init /\ [][Next]_vars

-----------------------------------------------------------------------------
(* Properties *)

\* The variables range over what the script can put in them.
TypeOK ==
  /\ log \in Seq(Record) /\ pending \subseteq Record /\ offset \in 0 .. Len(log)
  /\ at \in {"ended", "first", "followup", "reading"} /\ looks \in 0 .. Patience
  /\ judged \in 0 .. Len(log)
  /\ result \in {"none", "ok", "bad", "error", "missing"}

Own(prompt) == {r \in Record : r.by = run /\ r.prompt = prompt}
InTime(prompt) == \E i \in 1 .. judged : log[i] \in Own(prompt)

\* When no other request was open since the run began, its verdict is about its
\* own two requests: ok and bad are what its own follow-up and its answers say,
\* and a record is missing only if it had not reached the disk after the whole
\* wait. (With another request open this fails: a record that a run which timed
\* out left behind is taken for the follow-up's, and one of another client
\* counts as a record waited for.)
VerdictIsItsOwn ==
  quiet =>
    /\ result \in {"ok", "bad"} =>
         /\ \E i \in offset + 1 .. judged : log[i] \in Own("followup")
         /\ result = "ok" <=> /\ scores = <<TRUE, TRUE>>
                              /\ \E i \in DOMAIN log : log[i] \in Own("followup") /\ log[i].suppressed
    /\ result = "missing" => looks = Patience /\ ~(InTime("first") /\ InTime("followup"))

ProbeIsFair == TypeOK /\ VerdictIsItsOwn
=============================================================================
