------------------------ MODULE ChangedFilesRefresh ------------------------
(***************************************************************************)
(* The change-aware ranking signal and its background refresh               *)
(* (packages/repository/changed_files.py, changed_files_refresh.py and the  *)
(* lifespan of apps/gateway/main.py that wires them).                       *)
(*                                                                          *)
(* One event loop serves requests and runs the refresh loop; captures run   *)
(* on worker threads, which nothing can interrupt.  A capture is three      *)
(* steps another thread can fall between: it stamps the signal, it reads    *)
(* the working tree through Git, it publishes what it derived.              *)
(*                                                                          *)
(* Abstractions: the working tree is a version number and the derived set   *)
(* of module keys is the version it was derived from; the clock is the age  *)
(* of the last stamp, up to the TTL; the counters are left out.             *)
(***************************************************************************)
EXTENDS Integers, FiniteSets

CONSTANTS
  Job,        \* worker-thread jobs that can exist at once
  NoJob,
  Ttl,        \* ttl_seconds, which is also the refresher's interval
  MaxVersion  \* bound: how often the working tree changes

ASSUME JobAssumption == IsFiniteSet(Job) /\ NoJob \notin Job
ASSUME TtlAssumption == Ttl \in Nat
ASSUME MaxVersionAssumption == MaxVersion \in Nat

VARIABLES
  phase,    \* of the application's lifespan
  tree,     \* the version of the working tree
  signal,   \* ChangedFilesSignal: _primed, the age of _captured_at, _paths
  loop,     \* the refresher's task and what is left of its sleep
  jobs,     \* the worker threads
  awaited,  \* the job the event loop awaits
  blocked   \* history: a request had to run Git itself

vars == <<phase, tree, signal, loop, jobs, awaited, blocked>>

Version == 0 .. MaxVersion
Idle == [at |-> "free", kind |-> "none", saw |-> 0]

Init ==
  /\ phase = "starting"
  /\ tree \in Version
  /\ signal = [primed |-> FALSE, age |-> Ttl, paths |-> 0]
  /\ loop = [at |-> "none", left |-> 0]
  /\ jobs = [j \in Job |-> Idle]
  /\ awaited = NoJob
  /\ blocked = FALSE

-----------------------------------------------------------------------------
(* Worker threads *)

IsStale == ~signal.primed \/ (Ttl > 0 /\ signal.age >= Ttl)

\* asyncio.to_thread on a thread that is free.
Submit(j, kind) ==
  /\ jobs[j].at = "free"
  /\ jobs' = [jobs EXCEPT ![j] = [at |-> "queued", kind |-> kind, saw |-> 0]]
  /\ awaited' = j

\* Mutant: a capture does not mark the signal as primed.
BeginUnprimed(j) ==
  /\ jobs[j].at = "queued"
  /\ signal' = [signal EXCEPT !.age = 0]
  /\ jobs' = [jobs EXCEPT ![j].at = "capturing"]
  /\ UNCHANGED <<phase, tree, loop, awaited, blocked>>

\* refresh() returns at once when the window has not elapsed; otherwise, and
\* for prime(), _capture() stamps the signal before it asks Git.
Begin(j) ==
  /\ jobs[j].at = "queued"
  /\ IF jobs[j].kind = "prime" \/ IsStale
     THEN /\ signal' = [signal EXCEPT !.primed = TRUE, !.age = 0]
          /\ jobs' = [jobs EXCEPT ![j].at = "capturing"]
     ELSE /\ jobs' = [jobs EXCEPT ![j].at = "finished"]
          /\ UNCHANGED signal
  /\ UNCHANGED <<phase, tree, loop, awaited, blocked>>

Snapshot(j) ==
  /\ jobs[j].at = "capturing"
  /\ jobs' = [jobs EXCEPT ![j] = [@ EXCEPT !.at = "captured", !.saw = tree]]
  /\ UNCHANGED <<phase, tree, signal, loop, awaited, blocked>>

\* Git failed or timed out: the known set is kept.
SnapshotFails(j) ==
  /\ jobs[j].at = "capturing"
  /\ jobs' = [jobs EXCEPT ![j].at = "finished"]
  /\ UNCHANGED <<phase, tree, signal, loop, awaited, blocked>>

Publish(j) ==
  /\ jobs[j].at = "captured"
  /\ signal' = [signal EXCEPT !.paths = jobs[j].saw]
  /\ jobs' = [jobs EXCEPT ![j].at = "finished"]
  /\ UNCHANGED <<phase, tree, loop, awaited, blocked>>

\* A thread nobody awaits any more ends.
Abandoned(j) ==
  /\ jobs[j].at = "finished" /\ awaited # j
  /\ jobs' = [jobs EXCEPT ![j] = Idle]
  /\ UNCHANGED <<phase, tree, signal, loop, awaited, blocked>>

-----------------------------------------------------------------------------
(* The event loop *)

\* lifespan: await asyncio.to_thread(changed_files.prime)
Prime ==
  /\ phase = "starting" /\ awaited = NoJob
  /\ \E j \in Job : Submit(j, "prime")
  /\ UNCHANGED <<phase, tree, signal, loop, blocked>>

\* The event loop takes the result of the job it awaited.
Collect(j) ==
  /\ awaited = j /\ jobs[j].at = "finished"
  /\ jobs' = [jobs EXCEPT ![j] = Idle]
  /\ awaited' = NoJob

\* ChangedFilesRefresher.start, and the application is up.
Serve ==
  /\ phase = "starting"
  /\ \E j \in Job : Collect(j)
  /\ phase' = "serving"
  /\ loop' = IF Ttl > 0 THEN [at |-> "sleeping", left |-> Ttl] ELSE loop
  /\ UNCHANGED <<tree, signal, blocked>>

\* Mutant: the loop schedules a refresh and does not wait for it.
WakeUnawaited ==
  /\ loop.at = "sleeping" /\ loop.left = 0
  /\ \E j \in Job :
       /\ jobs[j].at = "free"
       /\ jobs' = [jobs EXCEPT ![j] = [at |-> "queued", kind |-> "refresh", saw |-> 0]]
  /\ loop' = [loop EXCEPT !.left = Ttl]
  /\ UNCHANGED <<phase, tree, signal, awaited, blocked>>

\* _loop: the window is over, the refresh goes to a thread.
Wake ==
  /\ loop.at = "sleeping" /\ loop.left = 0
  /\ \E j \in Job : Submit(j, "refresh")
  /\ loop' = [loop EXCEPT !.at = "awaiting"]
  /\ UNCHANGED <<phase, tree, signal, blocked>>

\* Mutant: the failure escapes and ends the task.
WakeEscapes ==
  /\ loop.at = "sleeping" /\ loop.left = 0
  /\ loop' = [at |-> "done", left |-> 0]
  /\ UNCHANGED <<phase, tree, signal, jobs, awaited, blocked>>

\* The attempt raises - no thread can be started, say: it is counted, and the
\* loop sleeps again.
WakeFails ==
  /\ loop.at = "sleeping" /\ loop.left = 0
  /\ loop' = [loop EXCEPT !.left = Ttl]
  /\ UNCHANGED <<phase, tree, signal, jobs, awaited, blocked>>

Resume ==
  /\ loop.at = "awaiting"
  /\ \E j \in Job : Collect(j)
  /\ loop' = [at |-> "sleeping", left |-> Ttl]
  /\ UNCHANGED <<phase, tree, signal, blocked>>

\* A request reads the signal; unprimed, module_paths() captures right there.
Read ==
  /\ phase = "serving"
  /\ blocked' = (blocked \/ ~signal.primed)
  /\ UNCHANGED <<phase, tree, signal, loop, jobs, awaited>>

\* Mutant: stop() waits for the task without having cancelled it.
StopUncancelled ==
  /\ phase = "serving"
  /\ phase' = "stopping"
  /\ UNCHANGED <<tree, signal, loop, jobs, awaited, blocked>>

\* The lifespan ends: stop() cancels the task.  A job no thread has taken yet
\* is cancelled with it, one that runs goes on alone.
Stop ==
  /\ phase = "serving"
  /\ phase' = "stopping"
  /\ loop' = [loop EXCEPT !.at = IF @ = "none" THEN "none" ELSE "cancelled"]
  /\ jobs' = [j \in Job |-> IF awaited = j /\ jobs[j].at = "queued" THEN Idle ELSE jobs[j]]
  /\ awaited' = NoJob
  /\ UNCHANGED <<tree, signal, blocked>>

\* stop() returns, the providers are closed, the lifespan is over.
Stopped ==
  /\ phase = "stopping" /\ loop.at \in {"none", "cancelled", "done"}
  /\ phase' = "stopped"
  /\ loop' = [at |-> "done", left |-> 0]
  /\ UNCHANGED <<tree, signal, jobs, awaited, blocked>>

-----------------------------------------------------------------------------
(* The environment *)

\* Somebody edits the working tree.
Edit ==
  /\ tree < MaxVersion
  /\ tree' = tree + 1
  /\ UNCHANGED <<phase, signal, loop, jobs, awaited, blocked>>

\* Mutant: a sleep that is over goes on counting.
TickPast ==
  /\ signal.age < Ttl \/ loop.left > 0
  /\ signal' = [signal EXCEPT !.age = IF @ < Ttl THEN @ + 1 ELSE @]
  /\ loop' = [loop EXCEPT !.left = @ - 1]
  /\ UNCHANGED <<phase, tree, jobs, awaited, blocked>>

Tick ==
  /\ signal.age < Ttl \/ loop.left > 0
  /\ signal' = [signal EXCEPT !.age = IF @ < Ttl THEN @ + 1 ELSE @]
  /\ loop' = [loop EXCEPT !.left = IF @ > 0 THEN @ - 1 ELSE @]
  /\ UNCHANGED <<phase, tree, jobs, awaited, blocked>>

\* Nothing is left to do once the application and its threads are gone.
Terminated ==
  /\ phase = "stopped" /\ \A j \in Job : jobs[j].at = "free"
  /\ UNCHANGED vars

EventLoop == Prime \/ Serve \/ Wake \/ WakeFails \/ Resume \/ Read \/ Stop \/ Stopped
Thread(j) == Begin(j) \/ Snapshot(j) \/ SnapshotFails(j) \/ Publish(j) \/ Abandoned(j)

Next == EventLoop \/ (\E j \in Job : Thread(j)) \/ Edit \/ Tick \/ Terminated

\* The event loop runs what is ready, and time passes.
LoopFairness ==
  /\ WF_vars(Prime) /\ WF_vars(Serve) /\ WF_vars(Resume) /\ WF_vars(Stopped)
  /\ WF_vars(Tick) /\ WF_vars(Wake \/ WakeFails) /\ SF_vars(Wake)

\* Threads are scheduled, every Git command ends within its budget, and a
\* repository that is asked again and again answers at some point.
GitFairness ==
  \A j \in Job :
    /\ WF_vars(Begin(j)) /\ WF_vars(Publish(j))
    /\ WF_vars(Snapshot(j) \/ SnapshotFails(j)) /\ SF_vars(Snapshot(j))

Spec     == Init /\ [][Next]_vars
LoopSpec == Spec /\ LoopFairness

-----------------------------------------------------------------------------
(* Properties *)

\* Types, and the clock's range.
TypeOK ==
  /\ phase \in {"starting", "serving", "stopping", "stopped"}
  /\ tree \in Version
  /\ signal \in [primed : BOOLEAN, age : 0 .. Ttl, paths : Version]
  /\ loop \in [at : {"none", "sleeping", "awaiting", "cancelled", "done"}, left : 0 .. Ttl]
  /\ jobs \in [Job -> [at : {"free", "queued", "capturing", "captured", "finished"},
                       kind : {"none", "prime", "refresh"}, saw : Version]]
  /\ awaited \in Job \cup {NoJob}
  /\ blocked \in BOOLEAN

Busy == {j \in Job : jobs[j].at # "free"}

\* "One refresh at a time, so a slow Git can never pile up worker threads",
\* the priming capture and the one a stop left behind included.
OneCaptureAtATime == \A i, j \in Busy : i = j

\* "No request can ever reach Git": whatever the priming capture ran into, a
\* request only ever reads the cached set.
RequestsNeverRunGit == ~blocked

\* A published set is never replaced by one captured from an older tree.
NeverBackwards == [][signal'.paths >= signal.paths]_vars

\* As long as the application serves, a change of the working tree reaches the
\* requests: the refresh loop survives failures and never stops by itself.
ChangesSurface ==
  GitFairness =>
    \A v \in 1 .. MaxVersion :
      phase = "serving" /\ tree = v ~> signal.paths >= v \/ phase # "serving"

\* stop() returns even if Git never does.
StopReturns == phase = "stopping" ~> phase = "stopped"

\* "No worker thread should outlive the application that scheduled it."
NoThreadOutlivesTheApplication == phase = "stopped" => Busy = {}
=============================================================================
