--------------------- MODULE ChangedFilesRefreshProofs ---------------------
(* Theorems about the change signal's refresh, for every number of worker   *)
(* threads, every TTL and every number of changes.                          *)
EXTENDS ChangedFilesRefresh, TLAPS

\* Who may be busy, depending on where the lifespan and the loop are: the
\* event loop awaits every job it submits, until stop() abandons the last one.
Awaiting ==
  /\ awaited # NoJob => Busy = {awaited}
  /\ awaited = NoJob /\ phase \in {"starting", "serving"} => Busy = {}
  /\ phase = "starting" => loop.at = "none"
  /\ phase = "serving" => loop.at \in {"none", "sleeping", "awaiting"}
  /\ phase \in {"stopping", "stopped"} =>
       awaited = NoJob /\ loop.at \notin {"sleeping", "awaiting"}
  /\ phase = "serving" /\ loop.at # "awaiting" => awaited = NoJob

\* What a thread has read is no older than what is published.
Newer ==
  /\ signal.paths <= tree
  /\ \A j \in Job : jobs[j].at = "captured" => signal.paths <= jobs[j].saw /\ jobs[j].saw <= tree

IInv == TypeOK /\ Awaiting /\ OneCaptureAtATime /\ Newer

\* The type of every variable survives every step.
LEMMA TypeStep == ASSUME TypeOK, [Next]_vars PROVE TypeOK'
<1> USE JobAssumption, TtlAssumption, MaxVersionAssumption DEF TypeOK, Version
<1>1. CASE EventLoop
  <2>1. CASE Prime
    BY <2>1 DEF Prime, Submit
  <2>2. CASE Serve
    BY <2>2 DEF Serve, Collect, Idle
  <2>3. CASE Wake
    BY <2>3 DEF Wake, Submit
  <2>4. CASE WakeFails
    BY <2>4 DEF WakeFails
  <2>5. CASE Resume
    BY <2>5 DEF Resume, Collect, Idle
  <2>6. CASE Read
    BY <2>6 DEF Read
  <2>7. CASE Stop
    BY <2>7 DEF Stop, Idle
  <2>8. CASE Stopped
    BY <2>8 DEF Stopped
  <2> QED BY <1>1, <2>1, <2>2, <2>3, <2>4, <2>5, <2>6, <2>7, <2>8 DEF EventLoop
<1>2. ASSUME NEW j \in Job, Thread(j) PROVE TypeOK'
  <2>1. CASE Begin(j)
    <3>1. jobs' \in [Job -> [at : {"free", "queued", "capturing", "captured", "finished"},
                             kind : {"none", "prime", "refresh"}, saw : Version]]
      BY <2>1 DEF Begin
    <3>2. signal' = signal \/ signal' = [signal EXCEPT !.primed = TRUE, !.age = 0]
      BY <2>1 DEF Begin
    <3>3. [signal EXCEPT !.primed = TRUE, !.age = 0]
            \in [primed : BOOLEAN, age : 0 .. Ttl, paths : Version]
      <4>1. signal.paths \in Version /\ 0 \in 0 .. Ttl
        OBVIOUS
      <4> QED BY <4>1, Zenon
    <3> QED BY <2>1, <3>1, <3>2, <3>3 DEF Begin
  <2>2. CASE Snapshot(j)
    <3>1. [jobs[j] EXCEPT !.at = "captured", !.saw = tree]
            \in [at : {"free", "queued", "capturing", "captured", "finished"},
                 kind : {"none", "prime", "refresh"}, saw : Version]
      BY ZenonT(30)
    <3> QED BY <2>2, <3>1 DEF Snapshot
  <2>3. CASE SnapshotFails(j)
    BY <2>3 DEF SnapshotFails
  <2>4. CASE Publish(j)
    BY <2>4 DEF Publish
  <2>5. CASE Abandoned(j)
    BY <2>5 DEF Abandoned, Idle
  <2> QED BY <1>2, <2>1, <2>2, <2>3, <2>4, <2>5 DEF Thread
<1>3. CASE Edit
  BY <1>3 DEF Edit
<1>4. CASE Tick
  BY <1>4 DEF Tick
<1>5. CASE UNCHANGED vars
  BY <1>5 DEF vars
<1> QED BY <1>1, <1>2, <1>3, <1>4, <1>5 DEF Next, Terminated

\* Every step keeps the jobs accounted for.
LEMMA AwaitingStep ==
  ASSUME TypeOK, Awaiting, OneCaptureAtATime, [Next]_vars
  PROVE  Awaiting' /\ OneCaptureAtATime'
<1> USE JobAssumption DEF TypeOK, Awaiting, OneCaptureAtATime, Busy
<1>1. CASE EventLoop
  <2>1. CASE Prime
    BY <2>1 DEF Prime, Submit
  <2>2. CASE Serve
    BY <2>2 DEF Serve, Collect, Idle
  <2>3. CASE Wake
    BY <2>3 DEF Wake, Submit
  <2>4. CASE WakeFails
    BY <2>4 DEF WakeFails
  <2>5. CASE Resume
    BY <2>5 DEF Resume, Collect, Idle
  <2>6. CASE Read
    BY <2>6 DEF Read
  <2>7. CASE Stop
    BY <2>7 DEF Stop, Idle
  <2>8. CASE Stopped
    BY <2>8 DEF Stopped
  <2> QED BY <1>1, <2>1, <2>2, <2>3, <2>4, <2>5, <2>6, <2>7, <2>8 DEF EventLoop
<1>2. ASSUME NEW j \in Job, Thread(j) PROVE Awaiting' /\ OneCaptureAtATime'
  <2>1. CASE Begin(j)
    BY <2>1 DEF Begin
  <2>2. CASE Snapshot(j)
    BY <2>2 DEF Snapshot
  <2>3. CASE SnapshotFails(j)
    BY <2>3 DEF SnapshotFails
  <2>4. CASE Publish(j)
    BY <2>4 DEF Publish
  <2>5. CASE Abandoned(j)
    BY <2>5 DEF Abandoned, Idle
  <2> QED BY <1>2, <2>1, <2>2, <2>3, <2>4, <2>5 DEF Thread
<1>3. CASE Edit
  BY <1>3 DEF Edit
<1>4. CASE Tick
  BY <1>4 DEF Tick
<1>5. CASE UNCHANGED vars
  BY <1>5 DEF vars
<1> QED BY <1>1, <1>2, <1>3, <1>4, <1>5 DEF Next, Terminated

\* With one capture at a time, what is published only grows newer.
LEMMA NewerStep ==
  ASSUME TypeOK, OneCaptureAtATime, Newer, [Next]_vars
  PROVE  Newer' /\ signal'.paths >= signal.paths
<1> USE JobAssumption, MaxVersionAssumption DEF TypeOK, Newer, Version
<1>1. CASE EventLoop
  <2>1. CASE Prime
    BY <2>1 DEF Prime, Submit
  <2>2. CASE Serve
    BY <2>2 DEF Serve, Collect, Idle
  <2>3. CASE Wake
    BY <2>3 DEF Wake, Submit
  <2>4. CASE WakeFails
    BY <2>4 DEF WakeFails
  <2>5. CASE Resume
    BY <2>5 DEF Resume, Collect, Idle
  <2>6. CASE Read
    BY <2>6 DEF Read
  <2>7. CASE Stop
    BY <2>7 DEF Stop, Idle
  <2>8. CASE Stopped
    BY <2>8 DEF Stopped
  <2> QED BY <1>1, <2>1, <2>2, <2>3, <2>4, <2>5, <2>6, <2>7, <2>8 DEF EventLoop
<1>2. ASSUME NEW j \in Job, Thread(j) PROVE Newer' /\ signal'.paths >= signal.paths
  <2>1. CASE Begin(j)
    <3>1. signal'.paths = signal.paths /\ tree' = tree
      BY <2>1 DEF Begin
    <3>2. \A i \in Job : jobs'[i].at = "captured" => jobs[i].at = "captured" /\ jobs'[i].saw = jobs[i].saw
      BY <2>1 DEF Begin
    <3> QED BY <3>1, <3>2
  <2>2. CASE Snapshot(j)
    BY <2>2 DEF Snapshot
  <2>3. CASE SnapshotFails(j)
    BY <2>3 DEF SnapshotFails
  <2>4. CASE Publish(j)
    BY <2>4 DEF Publish, OneCaptureAtATime, Busy
  <2>5. CASE Abandoned(j)
    BY <2>5 DEF Abandoned, Idle
  <2> QED BY <1>2, <2>1, <2>2, <2>3, <2>4, <2>5 DEF Thread
<1>3. CASE Edit
  BY <1>3 DEF Edit
<1>4. CASE Tick
  BY <1>4 DEF Tick
<1>5. CASE UNCHANGED vars
  BY <1>5 DEF vars
<1> QED BY <1>1, <1>2, <1>3, <1>4, <1>5 DEF Next, Terminated

\* Every thread that has begun has primed the signal, and nothing unprimes it.
Primed ==
  /\ ~blocked
  /\ phase = "serving" => signal.primed
  /\ \A j \in Job : jobs[j].at \in {"capturing", "captured", "finished"} => signal.primed

LEMMA PrimedStep == ASSUME TypeOK, Primed, [Next]_vars PROVE Primed'
<1> USE JobAssumption DEF TypeOK, Primed
<1>1. CASE EventLoop
  <2>1. CASE Prime
    BY <2>1 DEF Prime, Submit
  <2>2. CASE Serve
    BY <2>2 DEF Serve, Collect, Idle
  <2>3. CASE Wake
    BY <2>3 DEF Wake, Submit
  <2>4. CASE WakeFails
    BY <2>4 DEF WakeFails
  <2>5. CASE Resume
    BY <2>5 DEF Resume, Collect, Idle
  <2>6. CASE Read
    BY <2>6 DEF Read
  <2>7. CASE Stop
    BY <2>7 DEF Stop, Idle
  <2>8. CASE Stopped
    BY <2>8 DEF Stopped
  <2> QED BY <1>1, <2>1, <2>2, <2>3, <2>4, <2>5, <2>6, <2>7, <2>8 DEF EventLoop
<1>2. ASSUME NEW j \in Job, Thread(j) PROVE Primed'
  <2>1. CASE Begin(j)
    BY <2>1 DEF Begin, IsStale
  <2>2. CASE Snapshot(j)
    BY <2>2 DEF Snapshot
  <2>3. CASE SnapshotFails(j)
    BY <2>3 DEF SnapshotFails
  <2>4. CASE Publish(j)
    BY <2>4 DEF Publish
  <2>5. CASE Abandoned(j)
    BY <2>5 DEF Abandoned, Idle
  <2> QED BY <1>2, <2>1, <2>2, <2>3, <2>4, <2>5 DEF Thread
<1>3. CASE Edit
  BY <1>3 DEF Edit
<1>4. CASE Tick
  BY <1>4 DEF Tick
<1>5. CASE Terminated \/ UNCHANGED vars
  BY <1>5 DEF Terminated, vars
<1> QED BY <1>1, <1>2, <1>3, <1>4, <1>5 DEF Next

\* The strengthened invariant: who may be busy, and what they have read.
THEOREM RefreshInvariant == Spec => []IInv
<1>1. Init => IInv
  <2> USE JobAssumption, TtlAssumption, MaxVersionAssumption DEF Init, Idle, Version
  <2>1. Init => TypeOK
    <3> SUFFICES ASSUME Init PROVE TypeOK
      OBVIOUS
    <3>1. 0 \in 0 .. MaxVersion /\ 0 \in 0 .. Ttl /\ Ttl \in 0 .. Ttl
      OBVIOUS
    <3>2. signal \in [primed : BOOLEAN, age : 0 .. Ttl, paths : Version]
      BY <3>1, Zenon
    <3>3. jobs \in [Job -> [at : {"free", "queued", "capturing", "captured", "finished"},
                            kind : {"none", "prime", "refresh"}, saw : Version]]
      BY <3>1
    <3>4. loop \in [at : {"none", "sleeping", "awaiting", "cancelled", "done"}, left : 0 .. Ttl]
      BY <3>1
    <3> QED BY <3>2, <3>3, <3>4 DEF TypeOK
  <2>2. Init => Awaiting /\ OneCaptureAtATime
    BY DEF Awaiting, OneCaptureAtATime, Busy
  <2>3. Init => Newer
    BY DEF Newer
  <2> QED BY <2>1, <2>2, <2>3 DEF IInv
<1>2. IInv /\ [Next]_vars => IInv'
  BY TypeStep, AwaitingStep, NewerStep DEF IInv
<1> QED BY <1>1, <1>2, PTL DEF Spec

\* Types hold whatever the numbers of threads and changes, and the TTL.
THEOREM TypeCorrect == Spec => []TypeOK
BY RefreshInvariant, PTL DEF IInv

\* At no time are two worker threads busy with captures, across the priming
\* capture, the refresh loop and a stop in the middle of a refresh.
THEOREM OneCapture == Spec => []OneCaptureAtATime
BY RefreshInvariant, PTL DEF IInv

\* The published set never goes back to an older working tree.
THEOREM PublishesForward == Spec => NeverBackwards
<1>1. IInv /\ [Next]_vars => [signal'.paths >= signal.paths]_vars
  BY NewerStep DEF IInv
<1> QED BY <1>1, RefreshInvariant, PTL DEF Spec, NeverBackwards

\* No request runs Git: the priming capture is over before the first one, and
\* it counts as primed whatever became of it.
THEOREM RequestsAreFree == Spec => []RequestsNeverRunGit
<1>1. Init => Primed
  BY DEF Init, Primed, Idle
<1>2. TypeOK /\ Primed /\ [Next]_vars => Primed'
  BY PrimedStep
<1>3. Primed => RequestsNeverRunGit
  BY DEF Primed, RequestsNeverRunGit
<1> QED BY <1>1, <1>2, <1>3, TypeCorrect, PTL DEF Spec
=============================================================================
