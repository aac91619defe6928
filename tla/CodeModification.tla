-------------------------- MODULE CodeModification --------------------------
(***************************************************************************)
(* The code modification engine (packages/modification): a patch set is     *)
(* validated, the files it touches are backed up one by one, its patches    *)
(* are applied one by one until one fails, and a backup can be restored. A  *)
(* file is written in place, so that a failure or a kill can leave half of  *)
(* it: in the workspace as well as in the backup.                           *)
(*                                                                          *)
(* Abstractions: a file is its content, and half of it is Torn; the hunks   *)
(* of a patch are the content they produce (PatchPlan has the line          *)
(* arithmetic); a backup directory is named by the second it was made in,   *)
(* lies inside the workspace, and counts as none while it is empty.         *)
(***************************************************************************)
EXTENDS Integers, Sequences

CONSTANTS
  Path, Content,
  None,         \* no file, no manifest, or no new_path in the metadata of a RENAME
  Torn,         \* what a write that did not end has left of a file
  PatchSets,    \* the patch sets in use
  MaxSeconds    \* bound: how far the clock runs

Patches == [path : Path, op : {"ADD", "MODIFY"}, arg : Content]
           \cup [path : Path, op : {"DELETE"}, arg : {None}]
           \cup [path : Path, op : {"RENAME"}, arg : Path \cup {None}]

PatchAssumption ==
  /\ None \notin Path \cup Content \cup {Torn}
  /\ PatchSets \subseteq Seq(Patches)
  /\ MaxSeconds \in Nat

VARIABLES
  files,    \* the workspace
  backups,  \* .modification_backup: by second, what was saved and the manifest
  second,
  job,      \* the last patch set and how far it is; the files still to save
  start,    \* history: the workspace it began with
  changes   \* its WorkspaceChanges so far: success, and how many files it lists

vars == <<files, backups, second, job, start, changes>>

Files == [Path -> Content \cup {Torn, None}]
NoBackup == [saved |-> [p \in Path |-> None], manifest |-> None]
NoJob(at) == [at |-> at, patches |-> <<>>, stamp |-> 0, left |-> {}]

Init ==
  /\ files \in [Path -> Content \cup {None}]
  /\ backups = [s \in 0 .. MaxSeconds |-> NoBackup]
  /\ second = 0
  /\ job = NoJob("idle")
  /\ start = files
  /\ changes = [success |-> TRUE, applied |-> 0]

-----------------------------------------------------------------------------
(* Validating and saving *)

\* ModificationValidator: no path twice.
Valid(patches) == \A i, j \in DOMAIN patches : patches[i].path = patches[j].path => i = j

\* Mutant: a file that is only renamed is not saved.
SavedUnlessRenamed(patches) == {p \in Path : files[p] # None /\
  \E i \in DOMAIN patches : patches[i].path = p /\ patches[i].op \notin {"ADD", "RENAME"}}

\* What apply() reads for the backup: the files it will modify, delete or rename.
Saved(patches) == {p \in Path : files[p] # None /\
  \E i \in DOMAIN patches : patches[i].path = p /\ patches[i].op # "ADD"}

\* No application runs in this process.
Free == job.at \notin {"saving", "applying"}

\* An invalid set touches nothing; nothing to save makes no backup.
Apply(patches) ==
  /\ Free
  /\ IF Valid(patches)
     THEN /\ job' = [at |-> IF Saved(patches) = {} THEN "applying" ELSE "saving",
                     patches |-> patches, stamp |-> second, left |-> Saved(patches)]
          /\ changes' = [success |-> TRUE, applied |-> 0]
     ELSE /\ changes' = [success |-> FALSE, applied |-> 0]
          /\ job' = NoJob("refused")
  /\ start' = files
  /\ UNCHANGED <<files, backups, second>>

\* create_backup copies the files, in any order here, into the directory of the
\* second, which may exist already.
SaveFile(p) ==
  /\ job.at = "saving" /\ p \in job.left
  /\ backups' = [backups EXCEPT ![job.stamp].saved[p] = files[p]]
  /\ job' = [job EXCEPT !.left = @ \ {p}]
  /\ UNCHANGED <<files, second, start, changes>>

\* Mutant: the manifest of an existing directory is kept.
KeepManifest ==
  /\ job.at = "saving" /\ job.left = {}
  /\ backups' = [backups EXCEPT ![job.stamp].manifest = IF @ = None THEN Saved(job.patches) ELSE @]
  /\ job' = [job EXCEPT !.at = "applying"]
  /\ UNCHANGED <<files, second, start, changes>>

SaveManifest ==
  /\ job.at = "saving" /\ job.left = {}
  /\ backups' = [backups EXCEPT ![job.stamp].manifest = Saved(job.patches)]
  /\ job' = [job EXCEPT !.at = "applying"]
  /\ UNCHANGED <<files, second, start, changes>>

\* Saving fails, which apply() does not catch, or the process dies: between two
\* copies, within one or within the manifest.
SavingStops ==
  /\ job.at = "saving"
  /\ \/ UNCHANGED backups
     \/ \E p \in job.left : backups' = [backups EXCEPT ![job.stamp].saved[p] = Torn]
     \/ job.left = {} /\ \E listed \in SUBSET Saved(job.patches) \ {Saved(job.patches)} :
          backups' = [backups EXCEPT ![job.stamp].manifest = listed]
  /\ job' = NoJob("unsaved")
  /\ changes' = [changes EXCEPT !.success = FALSE]
  /\ UNCHANGED <<files, second, start>>

-----------------------------------------------------------------------------
(* Applying the patches *)

\* The checks of _apply_modify, _apply_delete and _apply_rename; ADD has none.
Applicable(patch, fs) ==
  \/ patch.op = "ADD"
  \/ patch.op \in {"MODIFY", "DELETE"} /\ fs[patch.path] # None
  \/ patch.op = "RENAME" /\ fs[patch.path] # None /\ patch.arg # None

\* An ADD overwrites, and so does a RENAME.
Effect(patch, fs) ==
  CASE patch.op \in {"ADD", "MODIFY"} -> [fs EXCEPT ![patch.path] = patch.arg]
    [] patch.op = "DELETE" -> [fs EXCEPT ![patch.path] = None]
    [] patch.op = "RENAME" -> [[fs EXCEPT ![patch.path] = None] EXCEPT ![patch.arg] = fs[patch.path]]

\* What a patch that does not come to be listed can leave: the workspace as it
\* was, what write_text has left of a file it truncated, or all of its effect
\* (a rename is done before compute_hash reads the new file).
Unlisted(patch, fs) ==
  {fs} \cup {after \in {Effect(patch, fs)} : Applicable(patch, fs)}
       \cup {after \in {[fs EXCEPT ![patch.path] = Torn]} :
               patch.op \in {"ADD", "MODIFY"} /\ Applicable(patch, fs)}

Pending == job.at = "applying" /\ changes.applied < Len(job.patches)
Patch == job.patches[changes.applied + 1]

ApplyFile ==
  /\ Pending /\ Applicable(Patch, files)
  /\ files' = Effect(Patch, files)
  /\ changes' = [changes EXCEPT !.applied = @ + 1]
  /\ UNCHANGED <<backups, second, job, start>>

\* Mutant: the loop skips the file that failed and goes on.
FileFailsOn ==
  /\ Pending
  /\ files' \in Unlisted(Patch, files)
  /\ changes' = [success |-> FALSE, applied |-> changes.applied + 1]
  /\ UNCHANGED <<backups, second, job, start>>

\* A check fails, or the file system refuses, at any point but after an unlink:
\* the loop ends here.
FileFails ==
  /\ Pending
  /\ files' \in Unlisted(Patch, files)
  /\ Patch.op = "DELETE" => files' = files
  /\ changes' = [changes EXCEPT !.success = FALSE]
  /\ job' = [job EXCEPT !.at = "failed"]
  /\ UNCHANGED <<backups, second, start>>

Done ==
  /\ job.at = "applying" /\ ~Pending
  /\ job' = [job EXCEPT !.at = "applied"]
  /\ UNCHANGED <<files, backups, second, start, changes>>

\* The process dies, between two files or within one.
Crash ==
  /\ job.at = "applying"
  /\ files' \in IF Pending THEN Unlisted(Patch, files) ELSE {files}
  /\ job' = [job EXCEPT !.at = "killed"]
  /\ changes' = [changes EXCEPT !.success = FALSE]
  /\ UNCHANGED <<backups, second, start>>

-----------------------------------------------------------------------------
(* Restoring a backup *)

\* The files of the manifest; all that was saved if there is none.
Listed(backup) == IF backup.manifest = None THEN Path ELSE backup.manifest

\* The workspace is no longer what an application has left.
Forget == job' = NoJob("idle") /\ start' = files' /\ changes' = [success |-> TRUE, applied |-> 0]

\* Mutant: the workspace is removed before the backup inside it is read.
RestoreAfterClearing(s) ==
  /\ Free /\ backups[s] # NoBackup
  /\ files' = [p \in Path |-> None]
  /\ backups' = [t \in DOMAIN backups |-> NoBackup]
  /\ Forget
  /\ UNCHANGED second

\* restore_backup reads the files, removes the whole workspace, every backup
\* with it, and writes the files.
Restore(s) ==
  /\ Free /\ backups[s] # NoBackup
  /\ files' = [p \in Path |-> IF p \in Listed(backups[s]) THEN backups[s].saved[p] ELSE None]
  /\ backups' = [t \in DOMAIN backups |-> NoBackup]
  /\ Forget
  /\ UNCHANGED second

\* What restore_backup leaves of the workspace when it fails or dies while it
\* clears it, or while it writes the files.
BrokenOff(backup) ==
  {[p \in Path |-> IF p \in there THEN files[p] ELSE None] : there \in SUBSET Path}
  \cup {[p \in Path |-> IF p = half THEN rest ELSE IF p \in there THEN backup.saved[p] ELSE None] :
          half \in Listed(backup), rest \in {Torn, None}, there \in SUBSET Listed(backup)}

\* What is then left of the backups counts as none.
RestoreDies(s) ==
  /\ Free /\ backups[s] # NoBackup
  /\ files' \in BrokenOff(backups[s])
  /\ backups' = [t \in DOMAIN backups |-> NoBackup]
  /\ Forget
  /\ UNCHANGED second

DeleteBackup(s) ==
  /\ Free /\ backups[s] # NoBackup
  /\ backups' = [backups EXCEPT ![s] = NoBackup]
  /\ UNCHANGED <<files, second, job, start, changes>>

Tick ==
  /\ second < MaxSeconds
  /\ second' = second + 1
  /\ UNCHANGED <<files, backups, job, start, changes>>

Next == \/ \E patches \in PatchSets : Apply(patches)
        \/ \E p \in Path : SaveFile(p)
        \/ SaveManifest \/ SavingStops
        \/ ApplyFile \/ FileFails \/ Done \/ Crash
        \/ \E s \in DOMAIN backups : Restore(s) \/ RestoreDies(s) \/ DeleteBackup(s)
        \/ Tick

Spec == Init /\ [][Next]_vars

-----------------------------------------------------------------------------
(* Properties *)

\* Types, and how far an application can be.
TypeOK ==
  /\ files \in Files /\ start \in Files
  /\ backups \in [0 .. MaxSeconds -> [saved : Files, manifest : (SUBSET Path) \cup {None}]]
  /\ second \in 0 .. MaxSeconds
  /\ job.at \in {"idle", "refused", "saving", "unsaved", "applying", "applied", "failed", "killed"}
  /\ job.patches \in PatchSets \cup {<<>>} /\ job.stamp \in 0 .. MaxSeconds /\ job.left \subseteq Path
  /\ changes.success \in BOOLEAN /\ changes.applied \in 0 .. Len(job.patches)

\* The workspace, begun with the given files, after each number of patches.
After(patches, begun) ==
  LET after[k \in 0 .. Len(patches)] == IF k = 0 THEN begun ELSE Effect(patches[k], after[k - 1])
  IN after

\* What the changes list of it.
Told == After(job.patches, start)[changes.applied]

\* The changes a WorkspaceChanges lists are the changes there are: all of them
\* if it succeeds, none if the set is refused or could not be saved, and if a
\* file fails or the process dies, at most what the next patch has left of one
\* file - half of it, or a change that is not listed.
ChangesAreThePrefix ==
  /\ job.at \in {"refused", "saving", "unsaved"} => files = start
  /\ job.at = "applying" => files = Told
  /\ job.at = "applied" => files = Told /\ changes.applied = Len(job.patches)
  /\ job.at \in {"failed", "killed"} =>
       \/ files = Told
       \/ changes.applied < Len(job.patches) /\ files \in Unlisted(Patch, Told)

\* The patches were begun: the workspace may have changed, and not back.
Begun == job.at \in {"applying", "applied", "failed", "killed"}

\* The last backup brings p back as it was.
Holds(p) == p \in Listed(backups[job.stamp]) /\ backups[job.stamp].saved[p] = start[p]

\* The last application can be undone for every file it modifies, deletes or
\* renames, also when it failed or died within one: until its backup is removed,
\* it holds what that file held before - even when an earlier application of the
\* same second used its directory, or died while it saved into it.
LastBackupHolds ==
  Begun /\ backups[job.stamp] # NoBackup =>
    \A i \in DOMAIN job.patches :
      LET p == job.patches[i].path IN
      job.patches[i].op # "ADD" /\ start[p] # None => Holds(p)

\* What no backup brings back is what an ADD or a RENAME wrote over a file.
Overwritten(p) ==
  \E i \in DOMAIN job.patches :
    \/ job.patches[i].op = "ADD" /\ job.patches[i].path = p
    \/ job.patches[i].op = "RENAME" /\ job.patches[i].arg = p

OnlyOverwrittenIsLost ==
  Begun => \A p \in Path : files[p] # start[p] =>
             Overwritten(p) \/ Holds(p) \/ backups[job.stamp] = NoBackup

\* Restoring that backup brings those files back, although restore_backup
\* removes the workspace and the backup in it first.
Undoes ==
  \A p \in Path :
    Restore(job.stamp) /\ Begun /\ start[p] # None
    /\ (\E i \in DOMAIN job.patches : job.patches[i].path = p /\ job.patches[i].op # "ADD")
    => files'[p] = start[p]

RestoreUndoes == [][Undoes]_vars

\* "On any fatal error, the engine automatically rolls back and returns
\* WorkspaceChanges(success=False)."
FailureRollsBack == job.at = "failed" => files = start

\* The workspace, the changes listed and the backup belong together.
ChangesAreTold == TypeOK /\ ChangesAreThePrefix /\ LastBackupHolds /\ OnlyOverwrittenIsLost
=============================================================================
