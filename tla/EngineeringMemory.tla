------------------------- MODULE EngineeringMemory -------------------------
(***************************************************************************)
(* Engineering memory: the JSON file of session records                    *)
(* (packages/engineering_memory, scripts/ingest_session_log.py,             *)
(* scripts/evaluate_quality_harness.py, apps/gateway/api/runtime_context.py) *)
(* and the session log it is fed from.                                      *)
(*                                                                          *)
(* Every script run and every gateway request builds an EngineeringMemory   *)
(* of its own; they share the file, and the lock of MemoryStorage is one    *)
(* lock per object, so it excludes nobody.  A run loads the file, adds to   *)
(* its dictionary record by record and rewrites the whole file after each.  *)
(* write_text truncates and then fills the file: two steps.                 *)
(*                                                                          *)
(* Abstractions: a record is its session_id; a document is the set of its   *)
(* records, or torn when it is no JSON document.                            *)
(***************************************************************************)
EXTENDS Integers, FiniteSets

CONSTANTS
  Line,       \* session-log lines, each with the request_id it records
  Ingester,   \* runs of ingest_session_log.py that may exist at once
  Evaluator,  \* runs of evaluate_quality_harness.py, each with its new record
  NoLine,
  MaxCrashes  \* bound: how often a process is killed

NamesAssumption ==
  /\ IsFiniteSet(Line) /\ NoLine \notin Line
  /\ Line \cap Evaluator = {} /\ Ingester \cap Evaluator = {}
  /\ MaxCrashes \in Nat

Run == Ingester \cup Evaluator

\* build_session_log_record: one record for a line, under its request_id.
SessionLogRecord == Line

\* build_quality_harness_record, .._comparison_record: one for a run, under an
\* id made of the reports it read.
QualityRecord == Evaluator

Record == SessionLogRecord \cup QualityRecord

VARIABLES
  log,      \* the session log: readable lines, the line being appended, a cut tail
  file,     \* the storage file, and the runs that share the write in progress
  run,      \* the script runs
  stored,   \* history: every record some whole document has held
  lapped,   \* history: two runs overlapped
  returned, \* history: lines whose append the gateway completed
  crashes   \* history: how many processes were killed

vars == <<log, file, run, stored, lapped, returned, crashes>>

Ended == [at |-> "ended", held |-> {}, todo |-> {}, base |-> {}, alone |-> FALSE]

Init ==
  /\ log = [readable |-> {}, appending |-> NoLine, cut |-> FALSE]
  /\ file = [at |-> "absent", records |-> {}, by |-> {}]
  /\ run = [r \in Run |-> Ended]
  /\ stored = {}
  /\ lapped = FALSE
  /\ returned = {}
  /\ crashes = 0

-----------------------------------------------------------------------------
(* The gateway's session log *)

\* SessionLogger.write: the line is on its way to the file ...
Append(l) ==
  /\ log.appending = NoLine /\ l \notin returned
  /\ log' = [log EXCEPT !.appending = l]
  /\ UNCHANGED <<file, run, stored, lapped, returned, crashes>>

\* Mutant: a line behind a cut-off tail leaves the tail open.
FlushGlued ==
  /\ log.appending # NoLine
  /\ returned' = returned \cup {log.appending}
  /\ log' = [log EXCEPT !.readable = @ \cup (IF log.cut THEN {} ELSE {log.appending}),
                        !.appending = NoLine]
  /\ UNCHANGED <<file, run, stored, lapped, crashes>>

\* ... and flushed.  Behind a tail that was cut off it is no JSON line.
Flush ==
  /\ log.appending # NoLine
  /\ returned' = returned \cup {log.appending}
  /\ log' = [readable |-> log.readable \cup (IF log.cut THEN {} ELSE {log.appending}),
             appending |-> NoLine, cut |-> FALSE]
  /\ UNCHANGED <<file, run, stored, lapped, crashes>>

\* The gateway dies in the middle of a line; started again, it appends to it.
CutLine ==
  /\ log.appending # NoLine /\ crashes < MaxCrashes
  /\ log' = [log EXCEPT !.appending = NoLine, !.cut = TRUE]
  /\ crashes' = crashes + 1
  /\ UNCHANGED <<file, run, stored, lapped, returned>>

-----------------------------------------------------------------------------
(* The script runs *)

Running == {r \in Run : run[r].at # "ended"}
Writing == {r \in Run : run[r].at = "writing"}

\* Mutant: the document that cannot be parsed counts as an empty one.
LoadableAnyhow == TRUE

\* MemoryStorage.load: no file is no record; json.loads raises on a torn one.
Loadable == file.at # "torn"

\* Mutant: the run does not reload, as the comment in _ingest warns against.
LoadedNothing == {}

Loaded == file.records

\* GET /runtime-context: history that is missing, empty or cannot be read is none.
RuntimeContext == IF ~Loadable THEN "unreadable"
                  ELSE IF Loaded = {} THEN "empty" ELSE "history"

\* EngineeringMemory(), then reload().  A run that cannot load ends here.
Reload(r) ==
  /\ run[r].at = "ended" /\ Loadable
  /\ r \notin stored \cup file.records
  /\ run' = [s \in Run |->
       IF s = r
       THEN [at |-> IF r \in Ingester THEN "reading" ELSE "storing", held |-> Loaded,
             todo |-> IF r \in Ingester THEN {} ELSE {r}, base |-> file.records, alone |-> Running = {}]
       ELSE [run[s] EXCEPT !.alone = FALSE]]
  /\ lapped' = (lapped \/ Running # {})
  /\ UNCHANGED <<log, file, stored, returned, crashes>>

\* read_session_log_lines: lines that do not parse are skipped.
ReadLog(r) ==
  /\ run[r].at = "reading"
  /\ run' = [run EXCEPT ![r].at = "storing", ![r].todo = log.readable]
  /\ UNCHANGED <<log, file, stored, lapped, returned, crashes>>

\* store: the first record of a session_id wins, and an ignored one is not saved.
Duplicate(r, x) ==
  /\ run[r].at = "storing" /\ x \in run[r].todo \cap run[r].held
  /\ run' = [run EXCEPT ![r].todo = @ \ {x}]
  /\ UNCHANGED <<log, file, stored, lapped, returned, crashes>>

\* Mutant: the records stay readable while they are rewritten.
TruncateInPlace(r, x) ==
  /\ run[r].at = "storing" /\ x \in run[r].todo \ run[r].held
  /\ run' = [run EXCEPT ![r].at = "writing", ![r].held = @ \cup {x}, ![r].todo = @ \ {x}]
  /\ file' = [file EXCEPT !.at = "torn",
              !.by = {r} \cup (IF Writing = {} THEN {} ELSE @)]
  /\ UNCHANGED <<log, stored, lapped, returned, crashes>>

\* store and _persist: write_text opens the file, which truncates it ...
Truncate(r, x) ==
  /\ run[r].at = "storing" /\ x \in run[r].todo \ run[r].held
  /\ run' = [run EXCEPT ![r].at = "writing", ![r].held = @ \cup {x}, ![r].todo = @ \ {x}]
  /\ file' = [at |-> "torn", records |-> {},
              by |-> {r} \cup (IF Writing = {} THEN {} ELSE file.by)]
  /\ UNCHANGED <<log, stored, lapped, returned, crashes>>

\* ... and fills it with the records this run knows.  Two runs that fill the
\* file together may leave the rest of the longer document behind the shorter.
Fill(r) ==
  /\ run[r].at = "writing"
  /\ run' = [run EXCEPT ![r].at = "storing"]
  /\ \/ /\ file' = [file EXCEPT !.at = "whole", !.records = run[r].held]
        /\ stored' = stored \cup run[r].held
     \/ /\ file.by # {r}
        /\ file' = [file EXCEPT !.at = "torn", !.records = {}]
        /\ UNCHANGED stored
  /\ UNCHANGED <<log, lapped, returned, crashes>>

Finish(r) ==
  /\ run[r].at = "storing" /\ run[r].todo = {}
  /\ run' = [run EXCEPT ![r] = Ended]
  /\ UNCHANGED <<log, file, stored, lapped, returned, crashes>>

\* A run is killed, possibly between the two halves of a write.
Kill(r) ==
  /\ r \in Running /\ crashes < MaxCrashes
  /\ run' = [run EXCEPT ![r] = Ended]
  /\ crashes' = crashes + 1
  /\ \/ UNCHANGED file
     \/ /\ run[r].at = "writing"
        /\ file' = [file EXCEPT !.at = "torn", !.records = {}]
  /\ UNCHANGED <<log, stored, lapped, returned>>

-----------------------------------------------------------------------------

\* The processes share nothing but the two files.
Next ==
  \/ \E l \in Line : Append(l)
  \/ Flush
  \/ CutLine
  \/ \E r \in Run :
       \/ Reload(r) \/ ReadLog(r) \/ Fill(r) \/ Finish(r) \/ Kill(r)
       \/ \E x \in Record : Duplicate(r, x) \/ Truncate(r, x)

Spec == Init /\ [][Next]_vars

-----------------------------------------------------------------------------
(* Properties *)

\* Types.  An absent or torn file has no records.
TypeOK ==
  /\ log \in [readable : SUBSET Line, appending : Line \cup {NoLine}, cut : BOOLEAN]
  /\ file \in [at : {"absent", "whole", "torn"}, records : SUBSET Record, by : SUBSET Run]
  /\ file.at # "whole" => file.records = {}
  /\ run \in [Run -> [at : {"ended", "reading", "storing", "writing"}, held : SUBSET Record,
                      todo : SUBSET Record, base : SUBSET Record, alone : BOOLEAN]]
  /\ stored \subseteq Record
  /\ returned \subseteq Line
  /\ lapped \in BOOLEAN
  /\ crashes \in 0 .. MaxCrashes

\* The memory is "write-once": as long as script runs do not overlap, a
\* document that can be read holds every record ever stored, whatever was
\* killed in between.
NothingForgotten == file.at = "whole" /\ ~lapped => stored \subseteq file.records

\* A run that had the memory to itself leaves in it what it found and every
\* log line it read: an ingest can be repeated, and catches up.
CatchesUp ==
  \A r \in Run :
    Finish(r) /\ run[r].alone => run[r].base \cup run[r].held \subseteq file'.records

IngestCatchesUp == [][CatchesUp]_vars

\* A kill costs the log the line it cut and at most one more.
CutsAreBounded == Cardinality(returned \ log.readable) <= crashes

\* "The file is written atomically using a temporary file": a request that
\* reads the memory while it is saved finds a document.
SavedAtomically == crashes = 0 => RuntimeContext # "unreadable"

\* Neither the memory nor the log forgets more than what a kill cut off.
MemoryIsKept == TypeOK /\ NothingForgotten /\ CutsAreBounded
=============================================================================
