-------------------------- MODULE EngineeringSession --------------------------
(***************************************************************************)
(* Engineering sessions (packages/session): a manager with a registry, the  *)
(* lifecycle every status change goes through, the artifacts and statistics *)
(* of each session, and its metadata saved to a file of its own.            *)
(*                                                                          *)
(* Abstractions: a session is the statuses it has had since it was created, *)
(* the last of which the code stores, and which creation that was; an       *)
(* artifact is the creation it was attached to; statistics are whether they *)
(* have been updated.                                                       *)
(***************************************************************************)
EXTENDS Integers, Sequences, FiniteSets

CONSTANTS
  Request,       \* request ids: a session's id is made from its request's
  None,          \* no session, no artifacts, no file
  Torn,          \* a file that was being written when the process died
  MaxLives,      \* bound: how often a request's session is created
  MaxArtifacts   \* bound: the artifacts of a session

Terminal == {"COMPLETED", "FAILED", "CANCELLED"}
Status == {"CREATED", "PLANNING", "EXECUTING", "VERIFYING"} \cup Terminal

SessionAssumption ==
  /\ {None, Torn} \cap (Seq(Nat) \cup [life : Nat, path : Seq(Status)]) = {}
  /\ MaxLives \in Nat

VARIABLES
  registry,    \* SessionRegistry: by session, the session or None
  artifacts,   \* SessionManager._artifacts
  statistics,  \* SessionManager._statistics: updated since the creation, or None
  disk,        \* base_dir/<session_id>.json
  lives        \* history: how often each session was created

vars == <<registry, artifacts, statistics, disk, lives>>

Init == /\ registry = [r \in Request |-> None]
        /\ artifacts = [r \in Request |-> None]
        /\ statistics = [r \in Request |-> None]
        /\ disk = [r \in Request |-> None]
        /\ lives = [r \in Request |-> 0]

-----------------------------------------------------------------------------
(* The manager *)

\* Mutant: artifacts and statistics are set up when there are none yet.
CreateKeeping(r) ==
  /\ lives[r] < MaxLives
  /\ lives' = [lives EXCEPT ![r] = @ + 1]
  /\ registry' = [registry EXCEPT ![r] = [life |-> lives'[r], path |-> <<"CREATED">>]]
  /\ artifacts' = [artifacts EXCEPT ![r] = IF @ = None THEN <<>> ELSE @]
  /\ statistics' = [statistics EXCEPT ![r] = IF @ = None THEN FALSE ELSE @]
  /\ UNCHANGED disk

\* A session the request already has is replaced, whatever its status.
Create(r) ==
  /\ lives[r] < MaxLives
  /\ lives' = [lives EXCEPT ![r] = @ + 1]
  /\ registry' = [registry EXCEPT ![r] = [life |-> lives'[r], path |-> <<"CREATED">>]]
  /\ artifacts' = [artifacts EXCEPT ![r] = <<>>]
  /\ statistics' = [statistics EXCEPT ![r] = FALSE]
  /\ UNCHANGED disk

\* Mutant: verification can be passed over.
AllowedUnverified(status) ==
  CASE status = "CREATED" -> {"PLANNING", "FAILED", "CANCELLED"}
    [] status = "PLANNING" -> {"EXECUTING", "FAILED", "CANCELLED"}
    [] status = "EXECUTING" -> {"VERIFYING", "COMPLETED", "FAILED", "CANCELLED"}
    [] status = "VERIFYING" -> {"COMPLETED", "FAILED", "CANCELLED"}
    [] OTHER -> {}

\* Mutant: a failed session can be planned again.
AllowedAgain(status) ==
  CASE status = "CREATED" -> {"PLANNING", "FAILED", "CANCELLED"}
    [] status = "PLANNING" -> {"EXECUTING", "FAILED", "CANCELLED"}
    [] status = "EXECUTING" -> {"VERIFYING", "FAILED", "CANCELLED"}
    [] status = "VERIFYING" -> {"COMPLETED", "FAILED", "CANCELLED"}
    [] status = "FAILED" -> {"PLANNING"}
    [] OTHER -> {}

\* A session's status is where its path has come to.
Current(path) == path[Len(path)]

\* _ALLOWED_TRANSITIONS
Allowed(status) ==
  CASE status = "CREATED" -> {"PLANNING", "FAILED", "CANCELLED"}
    [] status = "PLANNING" -> {"EXECUTING", "FAILED", "CANCELLED"}
    [] status = "EXECUTING" -> {"VERIFYING", "FAILED", "CANCELLED"}
    [] status = "VERIFYING" -> {"COMPLETED", "FAILED", "CANCELLED"}
    [] OTHER -> {}

\* update_status, and close with COMPLETED; what is not allowed raises.
UpdateStatus(r, status) ==
  /\ registry[r] # None
  /\ status \in Allowed(Current(registry[r].path))
  /\ registry' = [registry EXCEPT ![r].path = Append(@, status)]
  /\ UNCHANGED <<artifacts, statistics, disk, lives>>

\* To any session there is, a terminal one too.
AttachArtifact(r) ==
  /\ registry[r] # None
  /\ artifacts[r] # None => Len(artifacts[r]) < MaxArtifacts
  /\ artifacts' = [artifacts EXCEPT ![r] =
                     IF @ = None THEN <<registry[r].life>> ELSE Append(@, registry[r].life)]
  /\ UNCHANGED <<registry, statistics, disk, lives>>

\* Of any session id, unknown ones too.
UpdateStatistics(r) ==
  /\ statistics' = [statistics EXCEPT ![r] = TRUE]
  /\ UNCHANGED <<registry, artifacts, disk, lives>>

\* The registry forgets a session, and the manager keeps what belongs to it.
RemoveSession(r) ==
  /\ registry[r] # None
  /\ registry' = [registry EXCEPT ![r] = None]
  /\ UNCHANGED <<artifacts, statistics, disk, lives>>

-----------------------------------------------------------------------------
(* Persistence *)

Save(r) ==
  /\ registry[r] # None
  /\ disk' = [disk EXCEPT ![r] = registry[r]]
  /\ UNCHANGED <<registry, artifacts, statistics, lives>>

\* Mutant: the artifacts survive with the manager.
RestartKeeping(loaded, torn) ==
  /\ disk' = [r \in Request |-> IF r \in torn THEN Torn ELSE disk[r]]
  /\ registry' = [r \in Request |-> IF r \in loaded THEN disk'[r] ELSE None]
  /\ UNCHANGED <<artifacts, statistics, lives>>

\* The process ends, in the middle of saving the sessions torn, and a new one
\* loads some of what is there; a torn file raises when it is parsed.
Restart(loaded, torn) ==
  /\ disk' = [r \in Request |-> IF r \in torn THEN Torn ELSE disk[r]]
  /\ registry' = [r \in Request |-> IF r \in loaded THEN disk'[r] ELSE None]
  /\ artifacts' = [r \in Request |-> None]
  /\ statistics' = [r \in Request |-> None]
  /\ UNCHANGED lives

Next ==
  \/ \E r \in Request :
       \/ Create(r) \/ AttachArtifact(r) \/ UpdateStatistics(r) \/ RemoveSession(r) \/ Save(r)
       \/ \E status \in Status : UpdateStatus(r, status)
  \/ \E torn \in SUBSET {r \in Request : registry[r] # None} :
       /\ Cardinality(torn) <= 1
       /\ \E loaded \in SUBSET {r \in Request \ torn : disk[r] \notin {None, Torn}} :
            Restart(loaded, torn)

Spec == Init /\ [][Next]_vars

-----------------------------------------------------------------------------
(* Properties *)

Sessions == [life : 1 .. MaxLives, path : Seq(Status)]

\* Types. What is saved and what is registered belongs to a creation there was.
TypeOK ==
  /\ registry \in [Request -> Sessions \cup {None}]
  /\ artifacts \in [Request -> Seq(1 .. MaxLives) \cup {None}]
  /\ statistics \in [Request -> BOOLEAN \cup {None}]
  /\ disk \in [Request -> Sessions \cup {None, Torn}]
  /\ lives \in [Request -> 0 .. MaxLives]
  /\ \A r \in Request : registry[r] # None => registry[r].life <= lives[r]

\* The artifacts of a session were attached to it, although a request's later
\* session has the id of its earlier one, removing a session leaves its
\* artifacts behind, and an earlier session may come back from disk.
ArtifactsOfThisLife ==
  \A r \in Request :
    registry[r] # None /\ artifacts[r] # None =>
      \A i \in DOMAIN artifacts[r] : artifacts[r][i] = registry[r].life

\* A session that is completed has been planned, executed and verified, in
\* this order, in one life, through every restart.
CompletedWalkedThePath ==
  \A r \in Request :
    registry[r] # None =>
      ((\E i \in DOMAIN registry[r].path : registry[r].path[i] = "COMPLETED") =>
         registry[r].path = <<"CREATED", "PLANNING", "EXECUTING", "VERIFYING", "COMPLETED">>)

\* The end of a session is final: only a creation, or a new process that loads
\* what had been saved before, makes its id one of a session in progress.
StaysTerminal ==
  (\A loaded, torn \in SUBSET Request : ~Restart(loaded, torn)) =>
    \A r \in Request :
      (/\ registry[r] # None /\ Current(registry[r].path) \in Terminal
       /\ registry'[r] # None /\ registry'[r].life = registry[r].life)
      => Current(registry'[r].path) \in Terminal

TerminalIsFinal == [][StaysTerminal]_vars

\* What a session has is its own, and so is the way it came.
LivesAreApart == TypeOK /\ ArtifactsOfThisLife /\ CompletedWalkedThePath
=============================================================================
