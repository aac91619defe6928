------------------------------ MODULE GitChanges ------------------------------
(***************************************************************************)
(* One capture of the working tree (packages/repository/git_changes.py) and *)
(* the module keys the change signal derives from it (changed_files.py):    *)
(* two Git commands, each with a deadline, the records of git status parsed *)
(* one by one, the snapshot's collections, and the keys that are promoted.  *)
(* ChangedFilesRefresh takes a capture as one step of a worker thread.      *)
(*                                                                          *)
(* Abstractions: a path is a number, in the order of the names; a record is *)
(* its kind, its two status letters and its path, and a token that cannot   *)
(* be parsed is Garbage; of the headers only branch.oid is kept. Git itself *)
(* is external: what it reports of a working tree.                          *)
(***************************************************************************)
EXTENDS Integers, Sequences, SequencesExt, FiniteSets

CONSTANTS
  Path,        \* repository-relative paths
  Module,      \* those that are Python files below the index root
  Trees,       \* working trees: by path, the content in HEAD, index and worktree
  Limit,       \* MAX_CHANGED_PATHS
  None, Garbage

File == [head : Nat \cup {None}, index : Nat \cup {None}, work : Nat \cup {None}, conflict : BOOLEAN]
Detections == {"none", "renames", "copies"}   \* Git's status.renames

GitAssumption ==
  /\ Path \subseteq Nat /\ IsFiniteSet(Path) /\ Module \subseteq Path /\ Limit \in Nat
  /\ Trees \subseteq [Path -> File]

VARIABLES
  tree,       \* the working tree
  detect,     \* what Git is configured to detect
  phase,      \* "root", "status", "parse"; "done" or "failed" at the end
  seen,       \* history: the tree git status reported
  tokens,     \* the tokens of its output
  position,   \* of the next unread token
  changes,    \* the changes parsed
  error       \* the class of the error raised

vars == <<tree, detect, phase, seen, tokens, position, changes, error>>

Init == /\ tree \in Trees /\ detect \in Detections
        /\ phase = "root" /\ seen = tree
        /\ tokens = <<>> /\ position = 1 /\ changes = <<>> /\ error = "none"

-----------------------------------------------------------------------------
(* Git *)

\* Mutant: a command that fails is a tree without changes.
CommandFailsQuietly ==
  /\ phase \in {"root", "status"}
  /\ phase' = "failed" /\ error' = "none"
  /\ UNCHANGED <<tree, detect, seen, tokens, position, changes>>

\* A command that is killed at its deadline, cannot be started or fails.
CommandFails ==
  /\ phase \in {"root", "status"}
  /\ phase' = "failed"
  /\ error' \in {"timeout", "unavailable", "not_a_repository", "command"}
  /\ UNCHANGED <<tree, detect, seen, tokens, position, changes>>

Letter(old, new) ==
  IF old = new THEN "." ELSE IF old = None THEN "A" ELSE IF new = None THEN "D" ELSE "M"

\* What Git takes for the source of a file that is new in the index; no content
\* is new in two files.
Source(t, p) ==
  LET moved == {s \in Path : t[s].head # None /\ ~t[s].conflict /\ t[s].head = t[p].index
                  /\ \/ detect # "none" /\ t[s].index = None
                     \/ detect = "copies" /\ t[s].index \notin {None, t[s].head}}
  IN IF t[p].head = None /\ t[p].index # None /\ moved # {} THEN CHOOSE s \in moved : TRUE ELSE None

Moved(t) == {Source(t, p) : p \in {q \in Path : ~t[q].conflict}} \ {None}

\* The records of one path: tracked and changed, unmerged, or untracked.
Records(t, p) ==
  LET f == t[p]
      y == IF f.index = None THEN "." ELSE Letter(f.index, f.work)
      x == IF Source(t, p) = None THEN Letter(f.head, f.index)
           ELSE IF t[Source(t, p)].index = None THEN "R" ELSE "C"
  IN CASE f.conflict -> <<[kind |-> "u", x |-> "U", y |-> "U", path |-> p]>>
       [] x \in {"R", "C"} -> <<[kind |-> "2", x |-> x, y |-> y, path |-> p],
                                [kind |-> "source", x |-> ".", y |-> ".", path |-> Source(t, p)]>>
       [] OTHER ->
            (IF (x = "." /\ y = ".") \/ (x = "D" /\ p \in Moved(t)) THEN <<>>
             ELSE <<[kind |-> "1", x |-> x, y |-> y, path |-> p]>>)
            \o (IF f.index = None /\ f.work # None
                THEN <<[kind |-> "?", x |-> "?", y |-> "?", path |-> p]>> ELSE <<>>)

\* The output of git status, of which at most one record is of a kind the
\* parser does not know.
Outputs(t) ==
  LET all == <<[kind |-> "#", x |-> ".", y |-> ".", path |-> None]>>
             \o FlattenSeq([i \in 1 .. Cardinality(Path) |->
                  Records(t, SetToSortSeq(Path, <)[i])])
  IN {all} \cup {[all EXCEPT ![i] = Garbage] : i \in {j \in DOMAIN all : all[j].kind \notin {"2", "source"}}}

RootResolved ==
  /\ phase = "root"
  /\ phase' = "status"
  /\ UNCHANGED <<tree, detect, seen, tokens, position, changes, error>>

StatusRead ==
  /\ phase = "status"
  /\ seen' = tree
  /\ tokens' \in Outputs(tree)
  /\ phase' = "parse"
  /\ UNCHANGED <<tree, detect, position, changes, error>>

\* The developer goes on working.
Edit == /\ phase \in {"root", "status"}
        /\ \E p \in Path, c \in {1, None} :
             ~tree[p].conflict /\ tree' = [tree EXCEPT ![p].work = c]
        /\ UNCHANGED <<detect, phase, seen, tokens, position, changes, error>>

-----------------------------------------------------------------------------
(* parse_porcelain_v2 *)

Change(record, old) == [path |-> record.path, old |-> old, x |-> record.x, y |-> record.y,
                        conflict |-> record.kind = "u" \/ "U" \in {record.x, record.y}]

\* Mutant: the position is advanced only for a record that is parsed.
ParseStuck ==
  /\ phase = "parse" /\ position <= Len(tokens)
  /\ tokens[position] # Garbage
  /\ position' = position + (IF tokens[position].kind = "2" THEN 2 ELSE 1)
  /\ changes' = IF tokens[position].kind = "#" THEN changes
                ELSE Append(changes, Change(tokens[position],
                       IF tokens[position].kind = "2" THEN tokens[position + 1].path ELSE None))
  /\ UNCHANGED <<tree, detect, seen, tokens, phase, error>>

\* Mutant: a record that cannot be parsed is passed over.
ParseLeniently ==
  /\ phase = "parse" /\ position <= Len(tokens)
  /\ LET record == tokens[position] IN
     IF record = Garbage THEN position' = position + 1 /\ UNCHANGED changes
     ELSE /\ position' = position + (IF record.kind = "2" THEN 2 ELSE 1)
          /\ changes' = IF record.kind = "#" THEN changes
                        ELSE Append(changes, Change(record,
                               IF record.kind = "2" THEN tokens[position + 1].path ELSE None))
  /\ UNCHANGED <<tree, detect, seen, tokens, phase, error>>

\* One record, with the token after it when it is a rename or a copy.
Parse ==
  /\ phase = "parse" /\ position <= Len(tokens)
  /\ LET record == tokens[position] IN
     IF record = Garbage
     THEN phase' = "failed" /\ error' = "parse" /\ UNCHANGED <<position, changes>>
     ELSE /\ position' = position + (IF record.kind = "2" THEN 2 ELSE 1)
          /\ changes' = IF record.kind = "#" THEN changes
                        ELSE Append(changes, Change(record,
                               IF record.kind = "2" THEN tokens[position + 1].path ELSE None))
          /\ UNCHANGED <<phase, error>>
  /\ UNCHANGED <<tree, detect, seen, tokens>>

Parsed ==
  /\ phase = "parse" /\ position > Len(tokens)
  /\ phase' = "done"
  /\ UNCHANGED <<tree, detect, seen, tokens, position, changes, error>>

Next == CommandFails \/ RootResolved \/ StatusRead \/ Edit \/ Parse \/ Parsed

\* A command returns or is killed at its deadline, and the parser goes on.
Spec == Init /\ [][Next]_vars
FairSpec == Spec /\ WF_vars(CommandFails \/ RootResolved \/ StatusRead) /\ WF_vars(Parse \/ Parsed)
-----------------------------------------------------------------------------
(* GitChangeSnapshot *)

Listed == ToSet(changes)

\* The status of a change: the first letter that names one.
Status(c) ==
  IF c.conflict THEN "unmerged"
  ELSE CASE c.x \in {"A", "M", "D", "R", "C", "?"} -> c.x [] OTHER -> c.y

NonChange == {".", "?", "!"}

Staged == {c \in Listed : ~c.conflict /\ c.x \notin NonChange}
Unstaged == {c \in Listed : ~c.conflict /\ c.y \notin NonChange}
Untracked == {c \in Listed : Status(c) = "?"}
Renamed == {c \in Listed : Status(c) = "R"}
Copied == {c \in Listed : Status(c) = "C"}
Deleted == {c \in Listed : ~c.conflict /\ "D" \in {c.x, c.y}}
Conflicted == {c \in Listed : c.conflict}

Dirty == Staged \cup Unstaged \cup Untracked \cup Renamed \cup Copied \cup Deleted \cup Conflicted # {}

-----------------------------------------------------------------------------
(* derive_changed_module_paths *)

\* Mutant: the changes are told apart by their path.
PromotableByPath ==
  {c \in Staged \cup Unstaged \cup Untracked \cup Renamed \cup Copied \cup Conflicted :
     \A d \in Listed : d.path = c.path => Status(d) # "D"}

\* The distinct changes that are no deletion.
Promotable ==
  {c \in Staged \cup Unstaged \cup Untracked \cup Renamed \cup Copied \cup Conflicted : Status(c) # "D"}

PathsOf(c) == IF Status(c) \in {"R", "C"} THEN {c.path, c.old} ELSE {c.path}

\* Mutant: sorted(keys)[:limit + 1]
KeysOneMore ==
  LET keys == UNION {PathsOf(c) : c \in Promotable} \cap Module
  IN {k \in keys : Cardinality({j \in keys : j < k}) <= Limit}

\* The module keys, of which the first by name are kept.
Keys ==
  LET keys == UNION {PathsOf(c) : c \in Promotable} \cap Module
  IN {k \in keys : Cardinality({j \in keys : j < k}) < Limit}

-----------------------------------------------------------------------------
(* Properties *)

Paths(cs) == {c.path : c \in cs}

\* Types; a failure has a class and leaves no output behind to be used.
TypeOK ==
  /\ tree \in [Path -> File] /\ seen \in [Path -> File]
  /\ phase \in {"root", "status", "parse", "done", "failed"}
  /\ position \in 1 .. Len(tokens) + 1 /\ Len(changes) < position
  /\ \A i \in DOMAIN changes : changes[i].path \in Path /\ changes[i].old \in Path \cup {None}
  /\ (error # "none") = (phase = "failed")

\* A snapshot is the tree that git status saw, however the tree goes on
\* changing: staged is what differs between HEAD and index, unstaged between
\* index and worktree, and so on. The source of a rename is listed with its
\* target only.
SnapshotIsTheTree ==
  phase = "done" =>
    LET Is(P(_)) == {p \in Path : ~seen[p].conflict /\ P(seen[p])} IN
    /\ Paths(Staged) \cup {c.old : c \in Renamed} = Is(LAMBDA f : f.head # f.index)
    /\ Paths(Unstaged) = Is(LAMBDA f : f.index \notin {None, f.work})
    /\ Paths(Untracked) = Is(LAMBDA f : f.index = None /\ f.work # None)
    /\ Paths(Deleted) \cup {c.old : c \in Renamed} =
         Is(LAMBDA f : (f.head # None /\ f.index = None) \/ (f.index # None /\ f.work = None))
    /\ Paths(Conflicted) = {p \in Path : seen[p].conflict}
    /\ Dirty = \E p \in Path : seen[p].conflict \/ seen[p].head # seen[p].index
                                \/ seen[p].index # seen[p].work

\* The signal misses no module that can still be read: one in the worktree that
\* is not as it was committed is promoted, one that was deleted from the index
\* and created anew too, unless the limit was reached with modules before it.
EveryChangedModule ==
  phase = "done" =>
    \A p \in Module :
      \/ seen[p].conflict
      \/ seen[p].work # None /\ (seen[p].head # seen[p].index \/ seen[p].index # seen[p].work)
      => p \in Keys \/ Cardinality({k \in Keys : k < p}) = Limit

\* And nothing is promoted without a change: a key is a changed module, or what
\* one was renamed or copied from.
NothingUnchanged ==
  phase = "done" =>
    /\ Cardinality(Keys) <= Limit
    /\ \A p \in Keys :
         \/ seen[p].conflict \/ seen[p].head # seen[p].index \/ seen[p].index # seen[p].work
         \/ \E q \in Path : Source(seen, q) = p

\* Whatever Git does - hang until its deadline, be missing, fail, or answer in a
\* format the parser does not know - a capture comes to an end.
CaptureEnds == <>(phase \in {"done", "failed"})

\* A snapshot and the modules derived from it are those of one tree.
SnapshotIsTrue == TypeOK /\ SnapshotIsTheTree /\ EveryChangedModule /\ NothingUnchanged
=============================================================================
