------------------------ MODULE ArtifactInstallProofs ------------------------
(***************************************************************************)
(* The installation of a file acts on its target as on an atomic one and   *)
(* keeps its promises, for any number of installers, files, failures,      *)
(* kills, losses of power and edits.                                       *)
(***************************************************************************)
EXTENDS ArtifactInstall, TLAPS

-----------------------------------------------------------------------------
(* The inductive invariant.                                                *)

(* What is renamed into place has been flushed.                            *)
FlushedInv == \A p \in Installers : pc[p] = "renaming" => temp[p] = "flushed"

(* Whoever is past making the directory works in a real one, and so does   *)
(* whatever has been or may come back there.                               *)
Inside == Working \ {"planned"}
GroundInv ==
  /\ target \in survivors
  /\ survivors # {Absent} => parent = "real"
  /\ \A p \in Installers : pc[p] \in Inside => parent = "real"

(* A directory that may still be lost takes its file with it.              *)
UnsavedInv == ~parentSaved => Absent \in survivors

(* What is promised is in place and on the disk.                           *)
PromiseInv ==
  promised # {} => /\ target # Absent
                   /\ promised = {target} /\ survivors = {target}
                   /\ parentSaved

(* Until it has renamed, a call has at most removed an empty directory.    *)
HonestInv ==
  \A p \in Installers : \A before \in found[p] :
    /\ pc[p] \in Before \union {"failed"} =>
         target = before \/ (before = EmptyDir /\ target = Absent)
    /\ pc[p] \in {"committed", "uncertain"} => target = wanted[p]

IInv ==
  /\ TypeOK /\ FlushedInv /\ GroundInv
  /\ UnsavedInv /\ PromiseInv /\ HonestInv

(* It holds before anything is installed.                                  *)
LEMMA InitIInv == Init => IInv
<1> SUFFICES ASSUME Init PROVE IInv
  OBVIOUS
<1> USE ArtifactInstallAssumption DEF Init
<1>1. TypeOK
  <2>1. parent \in {"absent", "real", "unsafe"} /\ parentSaved \in BOOLEAN
    OBVIOUS
  <2>2. target \in Values /\ survivors \subseteq Values
    OBVIOUS
  <2>3. /\ pc \in [Installers -> Working \union Resting]
        /\ wanted \in [Installers -> Files]
        /\ temp \in [Installers -> {"none", "written", "flushed"}]
        /\ litter \in BOOLEAN
    BY DEF Resting
  <2>4. found \in [Installers -> SUBSET Values] /\ promised \subseteq Files
    OBVIOUS
  <2>5. faults \in 0..MaxFaults /\ edits \in 0..MaxEdits
    OBVIOUS
  <2> QED
    BY <2>1, <2>2, <2>3, <2>4, <2>5 DEF TypeOK
<1>2. \A p \in Installers : pc[p] = "idle"
  OBVIOUS
<1>3. FlushedInv
  BY <1>2 DEF FlushedInv
<1>4. GroundInv
  BY <1>2 DEF GroundInv, Inside, Working, Before
<1>5. UnsavedInv /\ PromiseInv
  BY DEF UnsavedInv, PromiseInv
<1>6. HonestInv
  BY DEF HonestInv
<1> QED
  BY <1>1, <1>3, <1>4, <1>5, <1>6 DEF IInv

-----------------------------------------------------------------------------
(* One step, conjunct by conjunct.                                         *)

(* Types are kept; that a file is whole is the flush before its rename.    *)
LEMMA TypeOKStep ==
  ASSUME TypeOK, FlushedInv, [Next]_vars PROVE TypeOK'
<1> USE ArtifactInstallAssumption DEF TypeOK, FlushedInv, Values, Directories,
        Working, Resting, Returned, Succeeded, Before, Synced, directory,
        place, history, outside, Goto, Move, Temporary, Moved, Fault
<1>1. ASSUME NEW p \in Installers, NEW f \in Files, Plan(p, f) PROVE TypeOK'
  BY <1>1 DEF Plan, Acceptable
<1>2. ASSUME NEW p \in Installers, EnsureDirectory(p) PROVE TypeOK'
  BY <1>2 DEF EnsureDirectory
<1>3. ASSUME NEW p \in Installers, Inspect(p) PROVE TypeOK'
  BY <1>3 DEF Inspect, Directories
<1>4. ASSUME NEW p \in Installers, ListDirectory(p) PROVE TypeOK'
  BY <1>4 DEF ListDirectory, Directories
<1>5. ASSUME NEW p \in Installers, RemoveDirectory(p) PROVE TypeOK'
  BY <1>5 DEF RemoveDirectory, Directories
<1>6. ASSUME NEW p \in Installers, Read(p) PROVE TypeOK'
  BY <1>6 DEF Read
<1>7. ASSUME NEW p \in Installers, Confirm(p) PROVE TypeOK'
  BY <1>7 DEF Confirm, Promise, Synced
<1>8. ASSUME NEW p \in Installers, Stage(p) PROVE TypeOK'
  BY <1>8 DEF Stage
<1>9. ASSUME NEW p \in Installers, Flush(p) PROVE TypeOK'
  BY <1>9 DEF Flush
<1>10. ASSUME NEW p \in Installers, Rename(p) PROVE TypeOK'
  BY <1>10 DEF Rename, Directories
<1>11. ASSUME NEW p \in Installers, SyncDirectory(p) PROVE TypeOK'
  BY <1>11 DEF SyncDirectory, Promise, Synced
<1>12. ASSUME NEW p \in Installers, Fail(p) PROVE TypeOK'
  <2>1. ErrorOf(p) \in Working \union Resting
    BY DEF ErrorOf
  <2>2. pc' \in [Installers -> Working \union Resting]
    BY <1>12, <2>1 DEF Fail
  <2>3. litter' \in BOOLEAN
    BY <1>12 DEF Fail
  <2>4. temp' \in [Installers -> {"none", "written", "flushed"}]
    BY <1>12 DEF Fail
  <2> QED
    BY <1>12, <2>2, <2>3, <2>4 DEF Fail
<1>13. ASSUME NEW p \in Installers, Kill(p) PROVE TypeOK'
  BY <1>13 DEF Kill
<1>14. CASE LosePower
  <2>1. target' \in Values /\ survivors' \subseteq Values
    BY <1>14 DEF LosePower
  <2>2. parent' \in {"absent", "real", "unsafe"} /\ parentSaved' \in BOOLEAN
    BY <1>14 DEF LosePower
  <2>3. pc' \in [Installers -> Working \union Resting]
    BY <1>14 DEF LosePower
  <2>4. /\ temp' \in [Installers -> {"none", "written", "flushed"}]
        /\ litter' \in BOOLEAN /\ found' \in [Installers -> SUBSET Values]
    BY <1>14 DEF LosePower
  <2> QED
    BY <1>14, <2>1, <2>2, <2>3, <2>4 DEF LosePower
<1>15. CASE WriteBack
  BY <1>15 DEF WriteBack
<1>16. ASSUME NEW v \in Values, Edit(v) PROVE TypeOK'
  BY <1>16 DEF Edit
<1>17. CASE UNCHANGED vars
  BY <1>17 DEF vars
<1> QED
  BY <1>1, <1>2, <1>3, <1>4, <1>5, <1>6, <1>7, <1>8, <1>9, <1>10, <1>11, <1>12,
     <1>13, <1>14, <1>15, <1>16, <1>17 DEF Next, Progress

(* Only a flush leads to a rename.                                         *)
LEMMA FlushedInvStep ==
  ASSUME TypeOK, FlushedInv, [Next]_vars PROVE FlushedInv'
<1> USE ArtifactInstallAssumption DEF TypeOK, FlushedInv,
        directory, place, history, outside, Goto, Move, Temporary, Moved, Fault
<1>1. ASSUME NEW p \in Installers, NEW f \in Files, Plan(p, f)
      PROVE  FlushedInv'
  BY <1>1 DEF Plan, Acceptable
<1>2. ASSUME NEW p \in Installers, EnsureDirectory(p) PROVE FlushedInv'
  BY <1>2 DEF EnsureDirectory
<1>3. ASSUME NEW p \in Installers, Inspect(p) PROVE FlushedInv'
  BY <1>3 DEF Inspect, Directories
<1>4. ASSUME NEW p \in Installers, ListDirectory(p) PROVE FlushedInv'
  BY <1>4 DEF ListDirectory, Directories
<1>5. ASSUME NEW p \in Installers, RemoveDirectory(p) PROVE FlushedInv'
  BY <1>5 DEF RemoveDirectory, Directories
<1>6. ASSUME NEW p \in Installers, Read(p) PROVE FlushedInv'
  BY <1>6 DEF Read
<1>7. ASSUME NEW p \in Installers, Confirm(p) PROVE FlushedInv'
  BY <1>7 DEF Confirm, Promise, Synced
<1>8. ASSUME NEW p \in Installers, Stage(p) PROVE FlushedInv'
  BY <1>8 DEF Stage
<1>9. ASSUME NEW p \in Installers, Flush(p) PROVE FlushedInv'
  BY <1>9 DEF Flush
<1>10. ASSUME NEW p \in Installers, Rename(p) PROVE FlushedInv'
  BY <1>10 DEF Rename, Directories
<1>11. ASSUME NEW p \in Installers, SyncDirectory(p) PROVE FlushedInv'
  BY <1>11 DEF SyncDirectory, Promise, Synced
<1>12. ASSUME NEW p \in Installers, Fail(p) PROVE FlushedInv'
  BY <1>12 DEF Fail, ErrorOf
<1>13. ASSUME NEW p \in Installers, Kill(p) PROVE FlushedInv'
  BY <1>13 DEF Kill
<1>14. CASE LosePower
  BY <1>14 DEF LosePower
<1>15. CASE WriteBack
  BY <1>15 DEF WriteBack
<1>16. ASSUME NEW v \in Values, Edit(v) PROVE FlushedInv'
  BY <1>16 DEF Edit
<1>17. CASE UNCHANGED vars
  BY <1>17 DEF vars
<1> QED
  BY <1>1, <1>2, <1>3, <1>4, <1>5, <1>6, <1>7, <1>8, <1>9, <1>10, <1>11, <1>12,
     <1>13, <1>14, <1>15, <1>16, <1>17 DEF Next, Progress

(* A directory that holds anything, or somebody at work, stays.            *)
LEMMA GroundInvStep ==
  ASSUME TypeOK, FlushedInv, GroundInv, [Next]_vars PROVE GroundInv'
<1> USE ArtifactInstallAssumption DEF TypeOK, GroundInv, Inside, Working,
        Before, Synced, directory, place, history, outside, Goto, Move,
        Temporary, Moved, Fault
<1>1. ASSUME NEW p \in Installers, NEW f \in Files, Plan(p, f) PROVE GroundInv'
  BY <1>1 DEF Plan, Acceptable
<1>2. ASSUME NEW p \in Installers, EnsureDirectory(p) PROVE GroundInv'
  BY <1>2 DEF EnsureDirectory
<1>3. ASSUME NEW p \in Installers, Inspect(p) PROVE GroundInv'
  BY <1>3 DEF Inspect, Directories
<1>4. ASSUME NEW p \in Installers, ListDirectory(p) PROVE GroundInv'
  BY <1>4 DEF ListDirectory, Directories
<1>5. ASSUME NEW p \in Installers, RemoveDirectory(p) PROVE GroundInv'
  BY <1>5 DEF RemoveDirectory, Directories
<1>6. ASSUME NEW p \in Installers, Read(p) PROVE GroundInv'
  BY <1>6 DEF Read
<1>7. ASSUME NEW p \in Installers, Confirm(p) PROVE GroundInv'
  BY <1>7 DEF Confirm, Promise, Synced
<1>8. ASSUME NEW p \in Installers, Stage(p) PROVE GroundInv'
  BY <1>8 DEF Stage
<1>9. ASSUME NEW p \in Installers, Flush(p) PROVE GroundInv'
  BY <1>9 DEF Flush
<1>10. ASSUME NEW p \in Installers, Rename(p) PROVE GroundInv'
  <2>1. parent = "real" /\ parent' = "real"
    BY <1>10 DEF Rename
  <2>2. target' \in survivors'
    <3>1. CASE target \in Directories
      BY <1>10, <3>1 DEF Rename
    <3>2. CASE target \notin Directories
      BY <1>10, <3>2, FlushedInv DEF Rename, FlushedInv
    <3> QED
      BY <3>1, <3>2
  <2> QED
    BY <2>1, <2>2
<1>11. ASSUME NEW p \in Installers, SyncDirectory(p) PROVE GroundInv'
  BY <1>11 DEF SyncDirectory, Promise, Synced
<1>12. ASSUME NEW p \in Installers, Fail(p) PROVE GroundInv'
  BY <1>12 DEF Fail, ErrorOf
<1>13. ASSUME NEW p \in Installers, Kill(p) PROVE GroundInv'
  BY <1>13 DEF Kill
<1>14. CASE LosePower
  BY <1>14 DEF LosePower
<1>15. CASE WriteBack
  BY <1>15 DEF WriteBack
<1>16. ASSUME NEW v \in Values, Edit(v) PROVE GroundInv'
  BY <1>16 DEF Edit
<1>17. CASE UNCHANGED vars
  BY <1>17 DEF vars
<1> QED
  BY <1>1, <1>2, <1>3, <1>4, <1>5, <1>6, <1>7, <1>8, <1>9, <1>10, <1>11, <1>12,
     <1>13, <1>14, <1>15, <1>16, <1>17 DEF Next, Progress

(* A new directory is unsaved until the kernel writes it back.             *)
LEMMA UnsavedInvStep ==
  ASSUME GroundInv, UnsavedInv, [Next]_vars PROVE UnsavedInv'
<1> USE ArtifactInstallAssumption DEF GroundInv, UnsavedInv, Synced,
        directory, place, history, outside, Goto, Move, Temporary, Moved, Fault
<1>1. ASSUME NEW p \in Installers, NEW f \in Files, Plan(p, f)
      PROVE  UnsavedInv'
  BY <1>1 DEF Plan, Acceptable
<1>2. ASSUME NEW p \in Installers, EnsureDirectory(p) PROVE UnsavedInv'
  BY <1>2 DEF EnsureDirectory
<1>3. ASSUME NEW p \in Installers, Inspect(p) PROVE UnsavedInv'
  BY <1>3 DEF Inspect, Directories
<1>4. ASSUME NEW p \in Installers, ListDirectory(p) PROVE UnsavedInv'
  BY <1>4 DEF ListDirectory, Directories
<1>5. ASSUME NEW p \in Installers, RemoveDirectory(p) PROVE UnsavedInv'
  BY <1>5 DEF RemoveDirectory, Directories
<1>6. ASSUME NEW p \in Installers, Read(p) PROVE UnsavedInv'
  BY <1>6 DEF Read
<1>7. ASSUME NEW p \in Installers, Confirm(p) PROVE UnsavedInv'
  BY <1>7 DEF Confirm, Promise, Synced
<1>8. ASSUME NEW p \in Installers, Stage(p) PROVE UnsavedInv'
  BY <1>8 DEF Stage
<1>9. ASSUME NEW p \in Installers, Flush(p) PROVE UnsavedInv'
  BY <1>9 DEF Flush
<1>10. ASSUME NEW p \in Installers, Rename(p) PROVE UnsavedInv'
  BY <1>10 DEF Rename, Directories
<1>11. ASSUME NEW p \in Installers, SyncDirectory(p) PROVE UnsavedInv'
  BY <1>11 DEF SyncDirectory, Promise, Synced
<1>12. ASSUME NEW p \in Installers, Fail(p) PROVE UnsavedInv'
  BY <1>12 DEF Fail, ErrorOf
<1>13. ASSUME NEW p \in Installers, Kill(p) PROVE UnsavedInv'
  BY <1>13 DEF Kill
<1>14. CASE LosePower
  BY <1>14 DEF LosePower
<1>15. CASE WriteBack
  BY <1>15 DEF WriteBack
<1>16. ASSUME NEW v \in Values, Edit(v) PROVE UnsavedInv'
  BY <1>16 DEF Edit
<1>17. CASE UNCHANGED vars
  BY <1>17 DEF vars
<1> QED
  BY <1>1, <1>2, <1>3, <1>4, <1>5, <1>6, <1>7, <1>8, <1>9, <1>10, <1>11, <1>12,
     <1>13, <1>14, <1>15, <1>16, <1>17 DEF Next, Progress

(* Whoever moves the target ends the promise.                              *)
LEMMA PromiseInvStep ==
  ASSUME TypeOK, GroundInv, PromiseInv, [Next]_vars PROVE PromiseInv'
<1> USE ArtifactInstallAssumption DEF TypeOK, GroundInv, PromiseInv, Inside,
        Working, Before, Values, Directories, directory, place, history,
        outside, Goto, Move, Temporary, Moved, Fault
<1>1. ASSUME NEW p \in Installers, NEW f \in Files, Plan(p, f)
      PROVE  PromiseInv'
  BY <1>1 DEF Plan, Acceptable
<1>2. ASSUME NEW p \in Installers, EnsureDirectory(p) PROVE PromiseInv'
  BY <1>2 DEF EnsureDirectory
<1>3. ASSUME NEW p \in Installers, Inspect(p) PROVE PromiseInv'
  BY <1>3 DEF Inspect, Directories
<1>4. ASSUME NEW p \in Installers, ListDirectory(p) PROVE PromiseInv'
  BY <1>4 DEF ListDirectory, Directories
<1>5. ASSUME NEW p \in Installers, RemoveDirectory(p) PROVE PromiseInv'
  BY <1>5 DEF RemoveDirectory, Directories
<1>6. ASSUME NEW p \in Installers, Read(p) PROVE PromiseInv'
  BY <1>6 DEF Read
<1>7. ASSUME NEW p \in Installers, Confirm(p) PROVE PromiseInv'
  BY <1>7 DEF Confirm, Promise, Synced
<1>8. ASSUME NEW p \in Installers, Stage(p) PROVE PromiseInv'
  BY <1>8 DEF Stage
<1>9. ASSUME NEW p \in Installers, Flush(p) PROVE PromiseInv'
  BY <1>9 DEF Flush
<1>10. ASSUME NEW p \in Installers, Rename(p) PROVE PromiseInv'
  BY <1>10 DEF Rename, Directories
<1>11. ASSUME NEW p \in Installers, SyncDirectory(p) PROVE PromiseInv'
  BY <1>11 DEF SyncDirectory, Promise, Synced
<1>12. ASSUME NEW p \in Installers, Fail(p) PROVE PromiseInv'
  BY <1>12 DEF Fail, ErrorOf
<1>13. ASSUME NEW p \in Installers, Kill(p) PROVE PromiseInv'
  BY <1>13 DEF Kill
<1>14. CASE LosePower
  BY <1>14 DEF LosePower
<1>15. CASE WriteBack
  BY <1>15 DEF WriteBack
<1>16. ASSUME NEW v \in Values, Edit(v) PROVE PromiseInv'
  BY <1>16 DEF Edit
<1>17. CASE UNCHANGED vars
  BY <1>17 DEF vars
<1> QED
  BY <1>1, <1>2, <1>3, <1>4, <1>5, <1>6, <1>7, <1>8, <1>9, <1>10, <1>11, <1>12,
     <1>13, <1>14, <1>15, <1>16, <1>17 DEF Next, Progress

(* Whoever moves the target ends what others found there.                  *)
LEMMA HonestInvStep ==
  ASSUME TypeOK, HonestInv, [Next]_vars PROVE HonestInv'
<1> USE ArtifactInstallAssumption DEF TypeOK, HonestInv, Before,
        directory, place, history, outside, Goto, Move, Temporary, Moved, Fault
<1>1. ASSUME NEW p \in Installers, NEW f \in Files, Plan(p, f) PROVE HonestInv'
  BY <1>1 DEF Plan, Acceptable
<1>2. ASSUME NEW p \in Installers, EnsureDirectory(p) PROVE HonestInv'
  BY <1>2 DEF EnsureDirectory
<1>3. ASSUME NEW p \in Installers, Inspect(p) PROVE HonestInv'
  BY <1>3 DEF Inspect, Directories
<1>4. ASSUME NEW p \in Installers, ListDirectory(p) PROVE HonestInv'
  BY <1>4 DEF ListDirectory, Directories
<1>5. ASSUME NEW p \in Installers, RemoveDirectory(p) PROVE HonestInv'
  BY <1>5 DEF RemoveDirectory, Directories
<1>6. ASSUME NEW p \in Installers, Read(p) PROVE HonestInv'
  BY <1>6 DEF Read
<1>7. ASSUME NEW p \in Installers, Confirm(p) PROVE HonestInv'
  BY <1>7 DEF Confirm, Promise, Synced
<1>8. ASSUME NEW p \in Installers, Stage(p) PROVE HonestInv'
  BY <1>8 DEF Stage
<1>9. ASSUME NEW p \in Installers, Flush(p) PROVE HonestInv'
  BY <1>9 DEF Flush
<1>10. ASSUME NEW p \in Installers, Rename(p) PROVE HonestInv'
  BY <1>10 DEF Rename, Directories
<1>11. ASSUME NEW p \in Installers, SyncDirectory(p) PROVE HonestInv'
  BY <1>11 DEF SyncDirectory, Promise, Synced
<1>12. ASSUME NEW p \in Installers, Fail(p) PROVE HonestInv'
  <2> SUFFICES ASSUME NEW q \in Installers, NEW before \in found'[q]
               PROVE  /\ pc'[q] \in Before \union {"failed"} =>
                           \/ target' = before
                           \/ before = EmptyDir /\ target' = Absent
                      /\ pc'[q] \in {"committed", "uncertain"} =>
                           target' = wanted'[q]
    OBVIOUS
  <2>1. before \in found[q] /\ UNCHANGED <<target, wanted>>
    BY <1>12 DEF Fail
  <2>2. pc[p] \in Before \union {"committed"}
    BY <1>12 DEF Fail, Working
  <2>3. CASE q # p
    BY <1>12, <2>1, <2>3 DEF Fail
  <2>4. CASE q = p /\ pc[p] = "committed"
    <3>1. pc'[q] = "uncertain"
      BY <1>12, <2>4 DEF Fail, ErrorOf
    <3> QED
      BY <2>1, <2>4, <3>1
  <2>5. CASE q = p /\ pc[p] # "committed"
    <3>1. pc'[q] = "failed"
      BY <1>12, <2>5 DEF Fail, ErrorOf
    <3> QED
      BY <2>1, <2>2, <2>5, <3>1
  <2> QED
    BY <2>3, <2>4, <2>5
<1>13. ASSUME NEW p \in Installers, Kill(p) PROVE HonestInv'
  BY <1>13 DEF Kill
<1>14. CASE LosePower
  BY <1>14 DEF LosePower
<1>15. CASE WriteBack
  BY <1>15 DEF WriteBack
<1>16. ASSUME NEW v \in Values, Edit(v) PROVE HonestInv'
  BY <1>16 DEF Edit
<1>17. CASE UNCHANGED vars
  BY <1>17 DEF vars
<1> QED
  BY <1>1, <1>2, <1>3, <1>4, <1>5, <1>6, <1>7, <1>8, <1>9, <1>10, <1>11, <1>12,
     <1>13, <1>14, <1>15, <1>16, <1>17 DEF Next, Progress

(* Every step keeps every part of it.                                      *)
LEMMA IInvStep == IInv /\ [Next]_vars => IInv'
BY TypeOKStep, FlushedInvStep, GroundInvStep, UnsavedInvStep, PromiseInvStep,
   HonestInvStep DEF IInv

(* The inductive invariant holds of every reachable state.                 *)
THEOREM Invariance == Spec => []IInv
BY InitIInv, IInvStep, PTL DEF Spec

(* Every variable stays in its type: above all, neither the target nor     *)
(* what may come back of it is ever a file that was not flushed.           *)
THEOREM TypeCorrect == Spec => []TypeOK
<1>1. IInv => TypeOK
  BY DEF IInv
<1> QED
  BY <1>1, Invariance, PTL

(* What a call reported in place is still there.                           *)
THEOREM PromisesKept == Spec => []PromiseKept
<1>1. IInv => PromiseKept
  BY DEF IInv, PromiseInv, PromiseKept
<1> QED
  BY <1>1, Invariance, PTL

(* A call that only says it failed has left the target alone; one that is  *)
(* uncertain has put its file in place.                                    *)
THEOREM HonestErrors == Spec => []ErrorsAreHonest
<1>1. IInv => ErrorsAreHonest
  BY DEF IInv, HonestInv, ErrorsAreHonest
<1> QED
  BY <1>1, Invariance, PTL

-----------------------------------------------------------------------------
(* The refinement: a rename is Install, an rmdir is Clear, a sync is       *)
(* Persist; everything else the installers do is hidden.                   *)

Hidden == UNCHANGED <<target, survivors, edits>>
TargetStep == Atomic!Next \/ UNCHANGED Atomic!targetVars

(* A step that leaves the target, what would survive and the edits alone   *)
(* is hidden.                                                              *)
LEMMA HiddenStep == Hidden => TargetStep
BY DEF Hidden, TargetStep, Atomic!targetVars

(* A sync of the directory makes what is there survive: Persist.           *)
LEMMA SyncedStep ==
  ASSUME GroundInv, UnsavedInv, survivors' = Synced,
         UNCHANGED <<target, edits>>
  PROVE  TargetStep
<1>1. Atomic!Persist
  BY DEF GroundInv, UnsavedInv, Synced, Atomic!Persist
<1> QED
  BY <1>1 DEF TargetStep, Atomic!Next

(* Every step of an installer is a step of the atomic target, or hidden.   *)
LEMMA AtomicStep == IInv /\ [Next]_vars => TargetStep
<1> SUFFICES ASSUME IInv, [Next]_vars PROVE TargetStep
  OBVIOUS
<1> USE DEF place, directory, outside, Fault
<1>1. ASSUME NEW p \in Installers, NEW f \in Files, Plan(p, f) PROVE TargetStep
  BY <1>1, HiddenStep DEF Plan, Hidden
<1>2. ASSUME NEW p \in Installers, EnsureDirectory(p) PROVE TargetStep
  BY <1>2, HiddenStep DEF EnsureDirectory, Hidden
<1>3. ASSUME NEW p \in Installers, Inspect(p) PROVE TargetStep
  BY <1>3, HiddenStep DEF Inspect, Hidden
<1>4. ASSUME NEW p \in Installers, ListDirectory(p) PROVE TargetStep
  BY <1>4, HiddenStep DEF ListDirectory, Hidden
<1>5. ASSUME NEW p \in Installers, RemoveDirectory(p) PROVE TargetStep
  <2>1. CASE target = EmptyDir
    <3>1. Atomic!Clear
      BY <1>5, <2>1 DEF RemoveDirectory, Atomic!Clear, Atomic!Show
    <3> QED
      BY <3>1 DEF TargetStep, Atomic!Next
  <2>2. CASE target # EmptyDir
    BY <1>5, <2>2, HiddenStep DEF RemoveDirectory, Hidden
  <2> QED
    BY <2>1, <2>2
<1>6. ASSUME NEW p \in Installers, Read(p) PROVE TargetStep
  BY <1>6, HiddenStep DEF Read, Hidden
<1>7. ASSUME NEW p \in Installers, Confirm(p) PROVE TargetStep
  BY <1>7, SyncedStep DEF IInv, Confirm
<1>8. ASSUME NEW p \in Installers, Stage(p) PROVE TargetStep
  BY <1>8, HiddenStep DEF Stage, Hidden
<1>9. ASSUME NEW p \in Installers, Flush(p) PROVE TargetStep
  BY <1>9, HiddenStep DEF Flush, Hidden
<1>10. ASSUME NEW p \in Installers, Rename(p) PROVE TargetStep
  <2>1. CASE target \in Directories
    BY <1>10, <2>1, HiddenStep DEF Rename, Hidden
  <2>2. CASE target \notin Directories
    <3>1. temp[p] = "flushed"
      BY <1>10 DEF IInv, FlushedInv, Rename
    <3>2. target \in Files \union {Absent, Link, Linked} /\ wanted[p] \in Files
      BY <2>2 DEF IInv, TypeOK, Values
    <3>3. Atomic!Install(wanted[p])
      BY <1>10, <2>2, <3>1, <3>2 DEF Rename, Atomic!Install, Atomic!Show
    <3> QED
      BY <3>2, <3>3 DEF TargetStep, Atomic!Next
  <2> QED
    BY <2>1, <2>2
<1>11. ASSUME NEW p \in Installers, SyncDirectory(p) PROVE TargetStep
  BY <1>11, SyncedStep DEF IInv, SyncDirectory
<1>12. ASSUME NEW p \in Installers, Fail(p) PROVE TargetStep
  BY <1>12, HiddenStep DEF Fail, Hidden
<1>13. ASSUME NEW p \in Installers, Kill(p) PROVE TargetStep
  BY <1>13, HiddenStep DEF Kill, Hidden
<1>14. CASE LosePower
  <2>1. Atomic!LosePower
    BY <1>14 DEF LosePower, Atomic!LosePower
  <2> QED
    BY <2>1 DEF TargetStep, Atomic!Next
<1>15. CASE WriteBack
  <2>1. Atomic!Persist
    BY <1>15 DEF WriteBack, IInv, GroundInv, Atomic!Persist
  <2> QED
    BY <2>1 DEF TargetStep, Atomic!Next
<1>16. ASSUME NEW v \in Values, Edit(v) PROVE TargetStep
  <2>1. Atomic!Edit
    BY <1>16 DEF Edit, IInv, UnsavedInv, Values, Directories,
                 Atomic!Edit, Atomic!Values
  <2> QED
    BY <2>1 DEF TargetStep, Atomic!Next
<1>17. CASE UNCHANGED vars
  BY <1>17, HiddenStep DEF vars, Hidden
<1> QED
  BY <1>1, <1>2, <1>3, <1>4, <1>5, <1>6, <1>7, <1>8, <1>9, <1>10, <1>11, <1>12,
     <1>13, <1>14, <1>15, <1>16, <1>17 DEF Next, Progress

(* The installation implements the atomic target.                          *)
THEOREM Implements == Spec => ImplementsTarget
<1>1. Init => Atomic!Init
  BY DEF Init, Values, Directories, Atomic!Init, Atomic!Values
<1>2. IInv /\ [Next]_vars => [Atomic!Next]_Atomic!targetVars
  BY AtomicStep DEF TargetStep
<1> QED
  BY <1>1, <1>2, Invariance, PTL DEF Spec, ImplementsTarget, Atomic!Spec
=============================================================================
