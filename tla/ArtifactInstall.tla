--------------------------- MODULE ArtifactInstall ---------------------------
(***************************************************************************)
(* The installation of one generated artifact: controller_artifacts.apply  *)
(* classifies the destination, makes its directory                         *)
(* (ensure_artifact_directory) and calls install_artifact_body, which      *)
(* writes a temporary file, syncs it, renames it over the target and syncs *)
(* the directory.  Neither function takes a lock: two installers (a        *)
(* reconcile and a `controller-artifacts apply` by hand) may work on one   *)
(* target, somebody may put something else there, and every call may fail, *)
(* be killed or lose power.                                                *)
(*                                                                         *)
(* Abstracted: a file is one value, its bytes with mode and owner; what    *)
(* others put in place is already on the disk; the directory of the target *)
(* is not replaced during a call.                                          *)
(***************************************************************************)
EXTENDS Naturals

CONSTANTS
  Installers,  (* processes that install the artifact                       *)
  Files,       (* what revisions declare                                    *)
  Absent, Link, EmptyDir, FullDir,
  Linked,      (* a regular file that has another name as well              *)
  Torn,        (* a file that was renamed before it was synced              *)
  MaxFaults,   (* bound on failures, kills and losses of power              *)
  MaxEdits     (* bound on what others put in place                         *)

Directories == {EmptyDir, FullDir}
Values == Files \union {Absent, Link, Linked} \union Directories

ASSUME ArtifactInstallAssumption ==
  /\ Files \intersect ({Absent, Link, Linked, Torn} \union Directories) = {}
  /\ {Absent, Link, Linked, Torn} \intersect Directories = {}
  /\ Absent # Link /\ Linked \notin {Absent, Link}
  /\ Torn \notin {Absent, Link, Linked} /\ EmptyDir # FullDir
  /\ MaxFaults \in Nat /\ MaxEdits \in Nat

VARIABLES
  parent,      (* the target's directory: "absent", "real" or "unsafe"      *)
  parentSaved, (* its own entry is on the disk                              *)
  target,      (* what the target's name refers to                          *)
  survivors,   (* what it may refer to after a loss of power                *)
  pc,
  wanted,      (* the file an installer is to put in place                  *)
  temp,        (* its temporary file: "none", "written" or "flushed"        *)
  litter,      (* a killed installer's temporary file is still there        *)
  found,       (* history: {the target at the plan}, {} if others moved it  *)
  promised,    (* history: {what was last reported in place}, {} if moved   *)
  faults, edits

vars == <<parent, parentSaved, target, survivors, pc, wanted, temp, litter,
          found, promised, faults, edits>>

Before == {"planned", "inspecting", "listing", "removing", "reading",
           "confirming", "staging", "flushing", "renaming"}
Working == Before \union {"committed"}
Succeeded == {"changed", "unchanged"}
Returned == Succeeded \union {"refused", "failed", "uncertain"}
Resting == Returned \union {"idle"}

TypeOK ==
  /\ parent \in {"absent", "real", "unsafe"}
  /\ parentSaved \in BOOLEAN
  /\ target \in Values
  /\ survivors \subseteq Values
  /\ pc \in [Installers -> Working \union Resting]
  /\ wanted \in [Installers -> Files]
  /\ temp \in [Installers -> {"none", "written", "flushed"}]
  /\ litter \in BOOLEAN
  /\ found \in [Installers -> SUBSET Values]
  /\ promised \subseteq Files
  /\ faults \in 0..MaxFaults
  /\ edits \in 0..MaxEdits

(* A host on whose disk anything may be at the destination.                *)
Init ==
  /\ parent \in {"absent", "real", "unsafe"}
  /\ parentSaved = TRUE
  /\ target \in Values
  /\ parent # "real" => target = Absent
  /\ survivors = {target}
  /\ pc = [p \in Installers |-> "idle"]
  /\ wanted \in [Installers -> Files]
  /\ temp = [p \in Installers |-> "none"]
  /\ litter = FALSE
  /\ found = [p \in Installers |-> {}]
  /\ promised = {}
  /\ faults = 0 /\ edits = 0

Goto(p, to) == pc' = [pc EXCEPT ![p] = to]
Move(p, from, to) == pc[p] = from /\ Goto(p, to)
Temporary(p, state) == temp' = [temp EXCEPT ![p] = state]

directory == <<parent, parentSaved>>
place == <<directory, target, survivors>>
history == <<found, promised>>
outside == <<faults, edits>>

(* p, if anybody, has changed the target.                                  *)
Moved(p) ==
  /\ found' = [q \in Installers |-> IF q = p THEN found[q] ELSE {}]
  /\ promised' = {}

(* fsync of the directory: the target is on the disk, although a directory *)
(* that is not itself on the disk may still be lost with it.               *)
Synced == {target} \union IF parentSaved THEN {} ELSE {Absent}

-----------------------------------------------------------------------------
(* controller_artifacts.apply, up to the call.                             *)

(* classify_declared_file_destination only looks.                          *)
Acceptable == parent # "unsafe" /\ target \notin {Link, FullDir}

Plan(p, f) ==
  /\ pc[p] \in Resting
  /\ Goto(p, IF Acceptable THEN "planned" ELSE "refused")
  /\ wanted' = [wanted EXCEPT ![p] = f]
  /\ found' = [found EXCEPT ![p] = {target}]
  /\ UNCHANGED <<place, temp, litter, promised, outside>>

(* ensure_artifact_directory makes a directory and syncs nothing.          *)
EnsureDirectory(p) ==
  /\ Move(p, "planned", "inspecting")
  /\ parent' = "real"
  /\ parentSaved' = (parentSaved /\ parent = "real")
  /\ UNCHANGED <<target, survivors, wanted, temp, litter, history, outside>>

-----------------------------------------------------------------------------
(* install_artifact_body.                                                  *)

(* lstat of the target decides what has to give way.                       *)
Inspect(p) ==
  /\ Move(p, "inspecting", CASE target = Absent -> "staging"
                             [] target \in Files \union {Linked} -> "reading"
                             [] target \in Directories -> "listing"
                             [] OTHER -> "failed")
  /\ UNCHANGED <<place, wanted, temp, litter, history, outside>>

(* The directory is opened and listed; one that vanished is no obstacle.   *)
ListDirectory(p) ==
  /\ Move(p, "listing", CASE target = EmptyDir -> "removing"
                          [] target = Absent -> "staging"
                          [] OTHER -> "failed")
  /\ UNCHANGED <<place, wanted, temp, litter, history, outside>>

(* rmdir, which fails for anything but an empty directory.  Variant: the   *)
(* directory is removed with whatever it has come to hold.                 *)
RemoveTree(p) ==
  /\ Move(p, "removing", IF target \in Directories \union {Absent}
                           THEN "staging" ELSE "failed")
  /\ IF target \in Directories
       THEN /\ target' = Absent
            /\ survivors' = survivors \union {Absent}
            /\ Moved(p)
       ELSE UNCHANGED <<target, survivors, history>>
  /\ UNCHANGED <<directory, wanted, temp, litter, outside>>
RemoveDirectory(p) ==
  /\ Move(p, "removing", IF target \in {EmptyDir, Absent}
                           THEN "staging" ELSE "failed")
  /\ IF target = EmptyDir
       THEN /\ target' = Absent
            /\ survivors' = survivors \union {Absent}
            /\ Moved(p)
       ELSE UNCHANGED <<target, survivors, history>>
  /\ UNCHANGED <<directory, wanted, temp, litter, outside>>

(* _read_regular and the comparison: a file with a second name is refused, *)
(* and here a target that vanished is an error.                            *)
Read(p) ==
  /\ Move(p, "reading", CASE target = wanted[p] -> "confirming"
                          [] target \in Files \ {wanted[p]} -> "staging"
                          [] OTHER -> "failed")
  /\ UNCHANGED <<place, wanted, temp, litter, history, outside>>

(* A success is a promise, as far as the directory itself is on the disk.  *)
Promise(p) ==
  promised' = IF target = wanted[p] /\ parentSaved THEN {target} ELSE promised

(* The target is right already; the directory is synced nevertheless, as   *)
(* an earlier call may have failed to.  Variant: it is not.                *)
TrustTarget(p) ==
  /\ Move(p, "confirming", "unchanged")
  /\ Promise(p)
  /\ UNCHANGED <<place, wanted, temp, litter, found, outside>>
Confirm(p) ==
  /\ Move(p, "confirming", "unchanged")
  /\ survivors' = Synced
  /\ Promise(p)
  /\ UNCHANGED <<directory, target, wanted, temp, litter, found, outside>>

(* O_EXCL with a random name, the body, its mode and owner.  Variant: the  *)
(* name is always the same.                                                *)
StageFixedName(p) ==
  /\ Move(p, "staging", IF litter THEN "failed" ELSE "flushing")
  /\ Temporary(p, IF litter THEN "none" ELSE "written")
  /\ UNCHANGED <<place, wanted, litter, history, outside>>
Stage(p) ==
  /\ Move(p, "staging", "flushing")
  /\ Temporary(p, "written")
  /\ UNCHANGED <<place, wanted, litter, history, outside>>

(* fsync of the temporary file.  Variant: left out.                        *)
SkipFlush(p) ==
  /\ Move(p, "flushing", "renaming")
  /\ UNCHANGED <<place, wanted, temp, litter, history, outside>>
Flush(p) ==
  /\ Move(p, "flushing", "renaming")
  /\ Temporary(p, "flushed")
  /\ UNCHANGED <<place, wanted, litter, history, outside>>

(* os.replace: over a directory it fails, and the temporary file goes.     *)
Rename(p) ==
  /\ pc[p] = "renaming" /\ Temporary(p, "none")
  /\ IF target \in Directories
       THEN /\ Goto(p, "failed")
            /\ UNCHANGED <<target, survivors, history>>
       ELSE /\ Goto(p, "committed")
            /\ target' = wanted[p]
            /\ survivors' = survivors \union
                 {IF temp[p] = "flushed" THEN wanted[p] ELSE Torn}
            /\ Moved(p)
  /\ UNCHANGED <<directory, wanted, litter, outside>>

SyncDirectory(p) ==
  /\ Move(p, "committed", "changed")
  /\ survivors' = Synced
  /\ Promise(p)
  /\ UNCHANGED <<directory, target, wanted, temp, litter, found, outside>>

-----------------------------------------------------------------------------
(* What goes wrong, and what others do.                                    *)

Fault == faults < MaxFaults /\ faults' = faults + 1 /\ UNCHANGED edits

(* An OSError anywhere: before the rename the target is as it was, after   *)
(* it the caller is told so (ArtifactTargetDurabilityUncertainError).      *)
(* Variant: the two are not told apart.                                    *)
PlainError(p) == "failed"
ErrorOf(p) == IF pc[p] = "committed" THEN "uncertain" ELSE "failed"

(* The temporary file is unlinked, which may fail as well.                 *)
Fail(p) ==
  /\ pc[p] \in Working
  /\ Fault
  /\ Goto(p, ErrorOf(p))
  /\ Temporary(p, "none")
  /\ litter' \in {litter, litter \/ temp[p] # "none"}
  /\ UNCHANGED <<place, wanted, history>>

Kill(p) ==
  /\ pc[p] \in Working
  /\ Fault
  /\ Goto(p, "idle")
  /\ Temporary(p, "none")
  /\ litter' = (litter \/ temp[p] # "none")
  /\ UNCHANGED <<place, wanted, history>>

(* A loss of power takes back what was not on the disk, the directory with *)
(* its target if that was not either, and stops everybody.                 *)
LosePower ==
  /\ Fault
  /\ target' \in survivors
  /\ survivors' = {target'}
  /\ parent' \in IF target' = Absent /\ ~parentSaved
                   THEN {"absent", parent} ELSE {parent}
  /\ parentSaved' = TRUE
  /\ pc' = [p \in Installers |-> "idle"]
  /\ temp' = [p \in Installers |-> "none"]
  /\ litter' \in {FALSE, litter \/ \E p \in Installers : temp[p] # "none"}
  /\ found' = [p \in Installers |-> {}]
  /\ UNCHANGED <<wanted, promised>>

(* The system writes back on its own.                                      *)
WriteBack ==
  /\ parentSaved' = TRUE
  /\ survivors' = {target}
  /\ UNCHANGED <<parent, target, pc, wanted, temp, litter, history, outside>>

(* Somebody else puts something in place.                                  *)
Edit(v) ==
  /\ edits < MaxEdits /\ edits' = edits + 1
  /\ parent = "real"
  /\ target' = v
  /\ survivors' = {v} \union IF parentSaved THEN {} ELSE {Absent}
  /\ found' = [p \in Installers |-> {}]
  /\ promised' = {}
  /\ UNCHANGED <<directory, pc, wanted, temp, litter, faults>>

-----------------------------------------------------------------------------
Progress(p) ==
  \/ \E f \in Files : Plan(p, f)
  \/ EnsureDirectory(p) \/ Inspect(p)
  \/ ListDirectory(p) \/ RemoveDirectory(p)
  \/ Read(p) \/ Confirm(p)
  \/ Stage(p) \/ Flush(p) \/ Rename(p) \/ SyncDirectory(p)

Next ==
  \/ \E p \in Installers : Progress(p) \/ Fail(p) \/ Kill(p)
  \/ LosePower
  \/ WriteBack
  \/ \E v \in Values : Edit(v)

Spec == Init /\ [][Next]_vars

(* Whoever installs is scheduled, and a call that failed is made again by  *)
(* the next run.                                                           *)
FairSpec == Spec /\ \A p \in Installers : WF_vars(Progress(p))

-----------------------------------------------------------------------------
(* Properties.                                                             *)

(* "Atomically replace one explicit regular-file target": the target is    *)
(* an atomic one, whatever installers, failures and losses of power do;    *)
(* nobody ever sees or gets back part of a file, and a directory in use is *)
(* never taken away.                                                       *)
Atomic ==
  INSTANCE AtomicTarget WITH value <- target, survivors <- survivors,
                             edits <- edits
ImplementsTarget == Atomic!Spec

(* What a call reported in place, changed or unchanged, is still there     *)
(* after a loss of power, until somebody puts something else there: also   *)
(* when the call before it had failed to sync the directory ("retry syncs  *)
(* an unchanged target after durability uncertainty").                     *)
PromiseKept == promised \subseteq {target}

(* A call that only says it failed has left the target alone, or removed   *)
(* the empty directory that was in its way; one that says its durability   *)
(* is uncertain has put its file in place.  Unless others moved it.        *)
ErrorsAreHonest ==
  \A p \in Installers : \A before \in found[p] :
    /\ pc[p] = "failed" =>
         target = before \/ (before = EmptyDir /\ target = Absent)
    /\ pc[p] = "uncertain" => target = wanted[p]

(* What a stopped installer has left behind, its temporary file included,  *)
(* never keeps later ones from succeeding, unless something is in place    *)
(* that all of them refuse.                                                *)
Obstructed == parent = "unsafe" \/ target \in {Link, Linked, FullDir}
InstallsAgain ==
  \A p \in Installers : []<>(pc[p] \in Succeeded) \/ <>[]Obstructed
=============================================================================
