------------------------------ MODULE ConfigTree ------------------------------
(***************************************************************************)
(* config_trees.py: a caller preflights every config tree that a Registry  *)
(* revision declares (preflight_config_trees), then synchronizes them one  *)
(* by one (materialize_config_tree), writing each file to a temporary name *)
(* first and sweeping what the source does not have.  The process may fail *)
(* or be killed at any step and is simply run again.                       *)
(*                                                                         *)
(* Abstracted: a file is one value, its bytes with mode and owner; the     *)
(* checks of a declaration and of its source tree are one flag, sound; a   *)
(* directory's mode and owner are left out.  Nobody moves the checkout or  *)
(* edits the host during a call, only between two of them.                 *)
(***************************************************************************)
EXTENDS Integers, Sequences, SequencesExt

CONSTANTS
  Paths,       (* below the config root, as sequences of names              *)
  Temp,        (* Temp[p]: p's .infralink-tmp sibling                       *)
  Values,      (* what a declared file holds                                *)
  Partial,     (* what a temporary file holds                               *)
  Absent, Dir, Link,
  Revisions,
  Undotted,    (* names that begin with dots, and what is left of them      *)
  Dirty,       (* a checkout that is not clean                              *)
  Trees,       (* Trees[r]: the declarations of r, in order                 *)
  MaxFaults,   (* bound on failures and kills                               *)
  MaxEdits     (* bound on edits of the host and moves of the checkout      *)

Kinds == Values \union {Partial, Absent, Dir, Link}
FileOf(kind) == kind \in Values \union {Partial}

ASSUME ConfigTreeAssumption ==
  /\ Paths \subseteq Seq(STRING) \ {<<>>}
  /\ Values \intersect {Partial, Absent, Dir, Link} = {}
  /\ Partial \notin {Absent, Dir, Link} /\ Absent \notin {Dir, Link}
  /\ Dir # Link
  /\ DOMAIN Temp \subseteq Paths
  /\ \A p \in DOMAIN Temp :
       /\ Temp[p] \in Paths
       /\ \A q \in Paths : IsStrictPrefix(q, Temp[p]) <=> IsStrictPrefix(q, p)
  /\ Dirty \notin Revisions
  /\ \A r \in Revisions :
       /\ Trees[r] \in Seq(Range(Trees[r]))
       /\ \A tree \in Range(Trees[r]) :
            /\ tree.target \in Paths
            /\ DOMAIN tree.files \subseteq DOMAIN Temp
            /\ \A p \in DOMAIN tree.files :
                 /\ IsStrictPrefix(tree.target, p)
                 /\ tree.files[p] \in Values
                 /\ Temp[p] \notin DOMAIN tree.files
                 /\ \A q \in DOMAIN tree.files : ~IsStrictPrefix(p, q)
  /\ MaxFaults \in Nat /\ MaxEdits \in Nat

VARIABLES
  fs,          (* the host below its config root                            *)
  checkout,    (* what the Registry checkout holds                          *)
  pc,
  expected,    (* the revision the caller passes                            *)
  next,        (* the declaration whose turn it is                          *)
  writing,     (* the file behind the temporary one, when there is one      *)
  sweep,       (* what the stale pass has not looked at yet                 *)
  touched,     (* the files whose paths this run's calls have reported      *)
  before,      (* history: fs at the preflight                              *)
  undisturbed, (* history: nobody else changed anything since               *)
  faults, edits

caller == <<expected, before>>
outside == <<checkout, undisturbed, edits>>
vars == <<fs, checkout, pc, expected, next, writing, sweep, touched, before,
          undisturbed, faults, edits>>

Calling == {"dirs", "files", "temporary", "sweep"}
Ended == {"done", "refused", "failed"}

TypeOK ==
  /\ fs \in [Paths -> Kinds]
  /\ checkout \in Revisions \union {Dirty}
  /\ pc \in {"idle", "between"} \union Calling \union Ended
  /\ expected \in Revisions
  /\ next \in 1..(Len(Trees[expected]) + 1)
  /\ writing \in SUBSET DOMAIN Temp
  /\ (pc = "temporary") <=> (writing # {})
  /\ sweep \subseteq Paths
  /\ sweep # {} => pc = "sweep"
  /\ touched \subseteq Paths
  /\ before \in [Paths -> Kinds]
  /\ undisturbed \in BOOLEAN
  /\ faults \in 0..MaxFaults
  /\ edits \in 0..MaxEdits

(* A host without config trees and the checkout of some revision.          *)
Init ==
  /\ fs = [p \in Paths |-> Absent]
  /\ checkout \in Revisions
  /\ pc = "idle"
  /\ expected = checkout
  /\ next = 1
  /\ writing = {} /\ sweep = {} /\ touched = {}
  /\ before = fs
  /\ undisturbed = TRUE
  /\ faults = 0 /\ edits = 0

(* _reported_path strips dots and slashes from the front of a path, one by *)
(* one: of a target that begins with a dot the dot goes as well.           *)
Reported(p) ==
  IF Head(p) \in DOMAIN Undotted THEN <<Undotted[Head(p)]>> \o Tail(p) ELSE p
changed_paths == {Reported(p) : p \in touched}

Move(from, to) == pc = from /\ pc' = to
Tree == Trees[expected][next]
Files(tree) == DOMAIN tree.files

-----------------------------------------------------------------------------
(* What a tree consists of, and when it may be written.                    *)

(* source_directories: the target and the parents of its files.            *)
Directories(tree) ==
  {q \in Paths : /\ IsPrefix(tree.target, q)
                 /\ \E p \in Files(tree) : IsStrictPrefix(q, p)}

(* mkdir(parents=True) creates the ancestors of the target as well.        *)
NeededDirectories(tree) ==
  Directories(tree) \union {q \in Paths : IsStrictPrefix(q, tree.target)}

(* Variant: two declarations clash only when they name one directory.      *)
SameTarget(left, right) == left = right
Overlap(left, right) == IsPrefix(left, right) \/ IsPrefix(right, left)


(* Variant: whatever is checked out is taken.                              *)
AnyRoot(r) == checkout # Dirty
VerifiedRoot(r) == checkout = r

TargetAccepts(tree) ==
  /\ \A q \in Paths : IsPrefix(q, tree.target) => fs[q] \in {Absent, Dir}
  /\ \A q \in Paths : IsStrictPrefix(tree.target, q) =>
       /\ fs[q] # Link
       /\ fs[q] = Dir => q \notin Files(tree)
       /\ FileOf(fs[q]) => q \notin Directories(tree)

(* Variant: each tree is checked only when it is about to be written.      *)
FirstAccepted(r) == VerifiedRoot(r) /\ Trees[r][1].sound
CollectionAccepted(r) ==
  /\ VerifiedRoot(r)
  /\ \A tree \in Range(Trees[r]) : tree.sound /\ TargetAccepts(tree)
  /\ \A i, j \in DOMAIN Trees[r] :
       i # j => ~Overlap(Trees[r][i].target, Trees[r][j].target)

(* preflight_config_trees: a refusal is the caller's last step.            *)
Preflight(r) ==
  /\ pc = "idle"
  /\ pc' = IF CollectionAccepted(r) THEN "between" ELSE "refused"
  /\ expected' = r
  /\ next' = 1
  /\ touched' = {}
  /\ before' = fs
  /\ undisturbed' = TRUE
  /\ UNCHANGED <<fs, checkout, writing, sweep, faults, edits>>

-----------------------------------------------------------------------------
(* materialize_config_tree: verify again, then _synchronize_tree.          *)

Materialize ==
  /\ next <= Len(Trees[expected])
  /\ Move("between",
          IF VerifiedRoot(expected) /\ Tree.sound /\ TargetAccepts(Tree)
          THEN "dirs" ELSE "refused")
  /\ UNCHANGED <<fs, outside, caller, next, writing, sweep, touched, faults>>

MakeDirectory(q) ==
  /\ pc = "dirs"
  /\ q \in NeededDirectories(Tree)
  /\ fs[q] = Absent
  /\ \A above \in Paths : IsStrictPrefix(above, q) => fs[above] = Dir
  /\ fs' = [fs EXCEPT ![q] = Dir]
  /\ UNCHANGED <<outside, pc, caller, next, writing, sweep, touched, faults>>

DirectoriesMade ==
  /\ Move("dirs", "files")
  /\ \A q \in NeededDirectories(Tree) : fs[q] = Dir
  /\ UNCHANGED <<fs, outside, caller, next, writing, sweep, touched, faults>>

(* source.read_bytes(): the file as the checkout has it now.               *)
Source(p) ==
  IF checkout \in Revisions /\ next \in DOMAIN Trees[checkout]
     /\ p \in Files(Trees[checkout][next])
  THEN Trees[checkout][next].files[p] ELSE Tree.files[p]
Outdated == {p \in Files(Tree) : fs[p] # Source(p)}

WriteTemporary(p) ==
  /\ Move("files", "temporary")
  /\ p \in Outdated
  /\ fs[Temp[p]] # Dir
  /\ fs' = [fs EXCEPT ![Temp[p]] = Partial]
  /\ writing' = {p}
  /\ UNCHANGED <<outside, caller, next, sweep, touched, faults>>

(* open("wb") of what somebody made a directory.                           *)
TemporaryBlocked(p) ==
  /\ Move("files", "failed")
  /\ p \in Outdated
  /\ fs[Temp[p]] = Dir
  /\ UNCHANGED <<fs, outside, caller, next, writing, sweep, touched, faults>>

(* Variant: the temporary file stays behind the one it is copied to.       *)
CopyTemporary(p) ==
  /\ p \in writing
  /\ Move("temporary", "files")
  /\ fs' = [fs EXCEPT ![p] = Source(p)]
  /\ touched' = touched \union {p}
  /\ UNCHANGED <<outside, caller, next, writing, sweep, faults>>

ReplaceFile(p) ==
  /\ p \in writing
  /\ Move("temporary", "files")
  /\ fs' = [fs EXCEPT ![p] = Source(p), ![Temp[p]] = Absent]
  /\ writing' = {}
  /\ touched' = touched \union {p}
  /\ UNCHANGED <<outside, caller, next, sweep, faults>>

FilesWritten ==
  /\ Move("files", "sweep")
  /\ Outdated = {}
  /\ sweep' = {q \in Paths : IsStrictPrefix(Tree.target, q) /\ fs[q] # Absent}
  /\ UNCHANGED <<fs, outside, caller, next, writing, touched, faults>>

Empty(q) == \A below \in Paths : IsStrictPrefix(q, below) => fs[below] = Absent
Stale(q) == IF fs[q] = Dir THEN Empty(q) ELSE q \notin Files(Tree)

(* sorted(..., reverse=True): what is below a directory comes before it.   *)
DeepestFirst(q) ==
  q \in sweep /\ \A other \in sweep : ~IsStrictPrefix(q, other)

(* Variant: a directory is emptied without saying so.                      *)
SweepSilently(q) ==
  /\ pc = "sweep" /\ pc' = pc
  /\ DeepestFirst(q)
  /\ fs' = IF Stale(q) THEN [fs EXCEPT ![q] = Absent] ELSE fs
  /\ sweep' = sweep \ {q}
  /\ UNCHANGED <<outside, caller, next, writing, touched, faults>>

Sweep(q) ==
  /\ pc = "sweep" /\ pc' = pc
  /\ DeepestFirst(q)
  /\ fs' = IF Stale(q) THEN [fs EXCEPT ![q] = Absent] ELSE fs
  /\ sweep' = sweep \ {q}
  /\ touched' = touched \union (IF FileOf(fs[q]) /\ Stale(q) THEN {q} ELSE {})
  /\ UNCHANGED <<outside, caller, next, writing, faults>>

Synchronized ==
  /\ sweep = {}
  /\ Move("sweep", "between")
  /\ next' = next + 1
  /\ UNCHANGED <<fs, outside, caller, writing, sweep, touched, faults>>

Done ==
  /\ next > Len(Trees[expected])
  /\ Move("between", "done")
  /\ UNCHANGED <<fs, outside, caller, next, writing, sweep, touched, faults>>

-----------------------------------------------------------------------------
(* Faults, the caller's next run, and everybody else.                      *)

(* An OSError: _write_file_atomically still removes its temporary file.    *)
Fails ==
  /\ faults < MaxFaults
  /\ pc \in Calling
  /\ pc' = "failed"
  /\ fs' = [q \in Paths |->
               IF \E p \in writing : q = Temp[p] THEN Absent ELSE fs[q]]
  /\ writing' = {} /\ sweep' = {}
  /\ faults' = faults + 1
  /\ UNCHANGED <<outside, caller, next, touched>>

Killed ==
  /\ faults < MaxFaults
  /\ pc \in Calling \union {"between"}
  /\ pc' = "failed"
  /\ writing' = {} /\ sweep' = {}
  /\ faults' = faults + 1
  /\ UNCHANGED <<fs, outside, caller, next, touched>>

Return ==
  /\ pc \in Ended /\ pc' = "idle"
  /\ UNCHANGED <<fs, outside, caller, next, writing, sweep, touched, faults>>

Disturb ==
  /\ edits < MaxEdits
  /\ pc \in {"idle", "between"}
  /\ edits' = edits + 1
  /\ undisturbed' = FALSE
  /\ UNCHANGED <<pc, caller, next, writing, sweep, touched, faults>>

(* Somebody puts a file, a directory or a link on the host, or removes one. *)
Edit(q, kind) ==
  /\ Disturb
  /\ \A above \in Paths : IsStrictPrefix(above, q) => fs[above] = Dir
  /\ Empty(q) /\ kind # fs[q]
  /\ fs' = [fs EXCEPT ![q] = kind]
  /\ UNCHANGED checkout

Checkout(r) == Disturb /\ r # checkout /\ checkout' = r /\ UNCHANGED fs

Next ==
  \/ \E r \in Revisions : Preflight(r)
  \/ Materialize
  \/ \E q \in Paths : MakeDirectory(q) \/ Sweep(q)
  \/ \E p \in DOMAIN Temp : WriteTemporary(p) \/ ReplaceFile(p)
                        \/ TemporaryBlocked(p)
  \/ DirectoriesMade \/ FilesWritten \/ Synchronized \/ Done
  \/ Fails \/ Killed \/ Return
  \/ \E q \in Paths, kind \in Kinds \ {Partial} : Edit(q, kind)
  \/ \E r \in Revisions \union {Dirty} : Checkout(r)

Spec == Init /\ [][Next]_vars

-----------------------------------------------------------------------------
(* Properties.                                                             *)

Exact(tree) ==
  /\ \A q \in Directories(tree) : fs[q] = Dir
  /\ \A q \in Paths : IsStrictPrefix(tree.target, q) =>
       fs[q] = CASE q \in Files(tree) -> tree.files[q]
                 [] q \in Directories(tree) -> Dir
                 [] OTHER -> Absent

(* When a call returns, its target holds the tree of the revision that the *)
(* caller named and nothing else: no file of another revision, no leftover *)
(* of a killed run, no directory that its last file has left.              *)
ReturnsExactTree == [][Synchronized => Exact(Tree)]_vars

(* A run that nobody disturbs leaves all its trees whole side by side: the *)
(* stale pass of one call never takes what another call wrote.             *)
TreesTogether ==
  pc = "done" /\ undisturbed =>
    \A tree \in Range(Trees[expected]) : Exact(tree)

(* "Validate a complete declared tree collection before any tree is        *)
(* written": a run is refused halfway only when somebody disturbed it.     *)
RefusesBeforeWriting == pc = "refused" /\ undisturbed => fs = before

(* Whether a run has made a file, changed one or removed one.              *)
Differs(q) == fs[q] # before[q] /\ (FileOf(fs[q]) \/ FileOf(before[q]))

(* What a run reports names, as _reported_path spells them, the files that *)
(* differ from before, all of them and nothing else but temporary names.   *)
(* The config consumers are found through these names, by a prefix of the  *)
(* path; below a target that begins with a dot they are not the paths, and *)
(* are not found.                                                          *)
ReportsWhatChanged ==
  pc = "done" /\ undisturbed =>
    /\ \A q \in Paths \ Range(Temp) :
         Differs(q) => Reported(q) \in changed_paths
    /\ \A name \in changed_paths : \E q \in Paths :
         name = Reported(q) /\ (Differs(q) \/ q \in Range(Temp))
=============================================================================
