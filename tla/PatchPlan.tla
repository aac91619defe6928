------------------------------ MODULE PatchPlan ------------------------------
(***************************************************************************)
(* From an execution plan to a changed file: the patch generator groups the *)
(* plan's steps into one patch per file (packages/patches/generator.py), a  *)
(* validator looks for collisions (patches/validator.py), and the           *)
(* modification engine applies the hunks of a patch to the lines of its     *)
(* file, one after the other (packages/modification/engine.py).             *)
(*                                                                          *)
(* Abstractions: a line is a value; a hunk has the range of old lines it    *)
(* replaces and its diff lines, each a mark and a line; the range in the    *)
(* new file, which nothing reads but the check for negative numbers, goes   *)
(* with it. CodeModification has the files, their backups and failures.     *)
(***************************************************************************)
EXTENDS Integers, Sequences, FiniteSets, SequencesExt

CONSTANTS
  None,       \* no file_path; no patch
  Path,       \* numbers, in the order of the path names
  Plans,      \* the execution plans in use
  Contents    \* what the file of a patch may hold

Operation == {"ADD", "DELETE", "MODIFY", "RENAME"}

PlanAssumption ==
  /\ Path \subseteq Nat /\ None \notin Path
  /\ \A p \in Plans : \A i \in DOMAIN p :
       /\ p[i].path \in Path \cup {None} /\ p[i].start \in Int /\ p[i].count \in Int
       /\ \A j \in DOMAIN p[i].diff : p[i].diff[j].mark \in {"+", "-", " "}

VARIABLES
  plan,       \* the steps of the execution plan
  drafting,   \* planned, generated, validated, patching, patched
  patches,    \* the patch set: patches in the order of their paths
  faults,     \* what the validator found
  target,     \* the patch being applied
  text,       \* the lines of its file,
  original,   \* and what they were (history)
  hunk        \* how many hunks have been applied

vars == <<plan, drafting, patches, faults, target, text, original, hunk>>

Init ==
  /\ plan \in Plans /\ drafting = "planned"
  /\ patches = <<>> /\ faults = {} /\ target = None
  /\ text = <<>> /\ original = <<>> /\ hunk = 0

-----------------------------------------------------------------------------
(* Generating the patch set *)

\* A start of 0 counts as missing.
Hunk(step) == [start |-> IF step.start = 0 THEN 1 ELSE step.start, count |-> step.count, diff |-> step.diff]

\* An operation that is no PatchOperation is a MODIFY.
OperationOf(step) == IF step.op \in Operation THEN step.op ELSE "MODIFY"

\* Mutant: the operation of the last step of a file is kept.
GroupedLastOperation(drafts, step) ==
  IF step.path = None THEN drafts
  ELSE IF step.path \notin DOMAIN drafts
  THEN [p \in DOMAIN drafts \cup {step.path} |->
          IF p = step.path THEN [op |-> OperationOf(step), hunks |-> <<Hunk(step)>>] ELSE drafts[p]]
  ELSE [drafts EXCEPT ![step.path] = [op |-> OperationOf(step), hunks |-> Append(@.hunks, Hunk(step))]]

\* The first step of a file decides what happens to it; every step adds a hunk.
Grouped(drafts, step) ==
  IF step.path = None THEN drafts
  ELSE IF step.path \notin DOMAIN drafts
  THEN [p \in DOMAIN drafts \cup {step.path} |->
          IF p = step.path THEN [op |-> OperationOf(step), hunks |-> <<Hunk(step)>>] ELSE drafts[p]]
  ELSE [drafts EXCEPT ![step.path].hunks = Append(@, Hunk(step))]

BuildPatchFiles(steps) ==
  LET drafts == FoldLeft(Grouped, <<>>, steps)
      paths == SetToSortSeq(DOMAIN drafts, <)
  IN [i \in DOMAIN paths |-> [path |-> paths[i], op |-> drafts[paths[i]].op, hunks |-> drafts[paths[i]].hunks]]

\* Paths are distinct, so that removing duplicate files removes none.
Generate ==
  /\ drafting = "planned"
  /\ patches' = BuildPatchFiles(plan)
  /\ drafting' = "generated"
  /\ UNCHANGED <<plan, faults, target, text, original, hunk>>

-----------------------------------------------------------------------------
(* Validating it *)

Pairs(hunks) == {ij \in (DOMAIN hunks) \X (DOMAIN hunks) : ij[1] < ij[2]}

DuplicateHunks(hunks) == \E ij \in Pairs(hunks) : hunks[ij[1]] = hunks[ij[2]]

\* Mutant: the end of a range belongs to it.
OverlapInclusive(a, b) == a.start <= b.start + b.count /\ b.start <= a.start + a.count

\* Half-open ranges of old lines that intersect.
Overlap(a, b) == a.start < b.start + b.count /\ b.start < a.start + a.count

OverlappingHunks(hunks) == \E ij \in Pairs(hunks) : Overlap(hunks[ij[1]], hunks[ij[2]])

NegativeRange(hunks) == \E i \in DOMAIN hunks : hunks[i].start < 0 \/ hunks[i].count < 0

Faults(files) ==
  {"duplicate hunk" : f \in {g \in ToSet(files) : DuplicateHunks(g.hunks)}}
  \cup {"overlapping hunks" : f \in {g \in ToSet(files) : OverlappingHunks(g.hunks)}}
  \cup {"invalid range" : f \in {g \in ToSet(files) : NegativeRange(g.hunks)}}

Validate ==
  /\ drafting = "generated"
  /\ faults' = Faults(patches)
  /\ drafting' = "validated"
  /\ UNCHANGED <<plan, patches, target, text, original, hunk>>

-----------------------------------------------------------------------------
(* Applying a patch *)

\* The engine's own validation refuses negative numbers, and knows nothing of
\* hunks that overlap.
Open(patch, content) ==
  /\ drafting = "validated"
  /\ ~NegativeRange(patch.hunks) /\ patch.op = "MODIFY"
  /\ target' = patch
  /\ text' = content /\ original' = content
  /\ hunk' = 0
  /\ drafting' = "patching"
  /\ UNCHANGED <<plan, patches, faults>>

\* What a hunk puts in the place of its old lines: the lines marked "+". A
\* context line inside the range is lost.
NewLines(h) ==
  LET added == SelectSeq(h.diff, LAMBDA d : d.mark = "+") IN [i \in DOMAIN added |-> added[i].line]

\* Mutant: one line too many is taken out.
ReplacedInclusive(lines, h) ==
  SubSeq(lines, 1, h.start - 1) \o NewLines(h) \o SubSeq(lines, h.start + h.count + 1, Len(lines))

\* lines[start_idx:end_idx] = new_lines, where a slice beyond the end is empty.
Replaced(lines, h) ==
  LET from == IF h.start > Len(lines) THEN Len(lines) ELSE h.start - 1
  IN SubSeq(lines, 1, from) \o NewLines(h) \o SubSeq(lines, from + h.count + 1, Len(lines))

ApplyHunk ==
  /\ drafting = "patching" /\ hunk < Len(target.hunks)
  /\ text' = Replaced(text, target.hunks[hunk + 1])
  /\ hunk' = hunk + 1
  /\ UNCHANGED <<plan, drafting, patches, faults, target, original>>

Write ==
  /\ drafting = "patching" /\ hunk = Len(target.hunks)
  /\ drafting' = "patched"
  /\ UNCHANGED <<plan, patches, faults, target, text, original, hunk>>

Next ==
  \/ Generate \/ Validate
  \/ \E i \in DOMAIN patches, content \in Contents : Open(patches[i], content)
  \/ ApplyHunk \/ Write

Spec == Init /\ [][Next]_vars

-----------------------------------------------------------------------------
(* Properties *)

\* Which steps of the plan, up to the i-th, change the file of p.
StepsOn(p, i) == {j \in 1 .. i : plan[j].path = p}

\* The patch set is the plan: one patch for each path, in the order of the
\* paths, with the hunk of every step on it in the order of the steps, and what
\* the first of them wants done (generator.py, _build_patch_files).
PatchesAreThePlan ==
  drafting # "planned" =>
    /\ \A i, j \in DOMAIN patches : i < j => patches[i].path < patches[j].path
    /\ {patches[i].path : i \in DOMAIN patches} = {plan[i].path : i \in DOMAIN plan} \ {None}
    /\ \A f \in ToSet(patches) :
         LET mine == StepsOn(f.path, Len(plan)) IN
         /\ Len(f.hunks) = Cardinality(mine)
         /\ \A i \in mine : f.hunks[Cardinality(StepsOn(f.path, i))] = Hunk(plan[i])
         /\ \A i \in mine : (\A j \in mine : i <= j) => f.op = OperationOf(plan[i])

\* The places a hunk takes: its old lines and the gaps between them, or the gap
\* before a line for one that only inserts.
Places(h) == IF h.count = 0 THEN {2 * h.start - 1} ELSE 2 * h.start .. 2 * (h.start + h.count - 1)
Collide(a, b) == Places(a) \cap Places(b) # {} /\ ~(a.count = 0 /\ b.count = 0 /\ a # b)

\* The validator accepts exactly the patch sets whose plan has no two steps
\* that claim the same place of a file: the generator adds no fault of its own
\* and hides none (patches/validator.py).
FaultsAreThePlans ==
  drafting \notin {"planned", "generated"} =>
    (faults = {} <=>
       /\ \A i \in DOMAIN plan : plan[i].path # None => plan[i].start >= 0 /\ plan[i].count >= 0
       /\ \A i, j \in DOMAIN plan :
            i < j /\ plan[i].path = plan[j].path /\ plan[i].path # None
              => ~Collide(Hunk(plan[i]), Hunk(plan[j])))

\* What a patch means: of the old file the lines outside every range, and at
\* the start of each range its new lines.
Meaning(content, hunks) ==
  FlattenSeq([p \in 1 .. Len(content) + 1 |->
    FlattenSeq([i \in DOMAIN hunks |-> IF hunks[i].start = p THEN NewLines(hunks[i]) ELSE <<>>])
    \o (IF p > Len(content) \/ \E i \in DOMAIN hunks : hunks[i].start <= p /\ p < hunks[i].start + hunks[i].count
        THEN <<>> ELSE <<content[p]>>)])

\* A patch a reader can understand: valid, inside the file, and with no two
\* hunks at one place.
Plain == /\ faults = {}
         /\ \A ij \in Pairs(target.hunks) : target.hunks[ij[1]].start # target.hunks[ij[2]].start
         /\ \A i \in DOMAIN target.hunks :
              target.hunks[i].start + target.hunks[i].count <= Len(original) + 1

\* Line numbers are those of the old file ("Starting line number in the old
\* file (1-based)", patches/models.py), whatever the order of the hunks.
HunksMeanTheOldFile ==
  drafting = "patched" /\ Plain => text = Meaning(original, target.hunks)

\* It holds as long as no hunk before changed the number of lines above: from
\* the bottom up, or line for line (engine.py, _apply_hunks).
Undisturbed(hunks) ==
  \A ij \in Pairs(hunks) :
    hunks[ij[1]].start < hunks[ij[2]].start => Len(NewLines(hunks[ij[1]])) = hunks[ij[1]].count
UndisturbedHunksAreExact ==
  drafting = "patched" /\ Plain /\ Undisturbed(target.hunks)
    => text = Meaning(original, target.hunks)

\* A plan becomes its patches, is refused for its own faults, and is applied
\* as it reads.
PlanIsApplied == PatchesAreThePlan /\ FaultsAreThePlans /\ UndisturbedHunksAreExact
=============================================================================
