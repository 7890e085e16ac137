---------------------------- MODULE HostInterface ----------------------------
(***************************************************************************)
(* The host's launcher, runtime shim and systemd units                     *)
(* (controller_host_interface.py): refresh, called by bootstrap to install *)
(* them, and stage, called by every inner reconcile to keep them those of  *)
(* the selected controller and to retire a host's V2 reconcile loop.       *)
(*                                                                         *)
(* Files change one by one.  systemd works from the units it last loaded:  *)
(* a changed unit file counts only after `daemon-reload` (which            *)
(* `systemctl enable` and `disable` imply).  A run that was launched by    *)
(* the V2 service leaves that service's files alone and switches its timer *)
(* off; a later run, with V2 inactive, removes them.                       *)
(*                                                                         *)
(* stage runs under reconcile.lock, bootstrap under no lock at all: an     *)
(* operator's bootstrap and a reconcile's stage interleave freely, from    *)
(* controllers of different versions.  The plain command `refresh` takes   *)
(* no lock either; it asks less than a bootstrap and enables nothing.      *)
(*                                                                         *)
(* Each query of a preflight is a step of its own, so V2 may start between *)
(* two of them.  Abstracted: a V2 timer that is active or enabled is one   *)
(* fact (`disable --now` ends both), and what a preflight reads of the     *)
(* files, after its queries, is one step.                                  *)
(***************************************************************************)
EXTENDS Integers, Sequences, SequencesExt

CONSTANTS
  Refreshers,   (* who refreshes this host                                  *)
  Assets,       (* the four packaged files, in their order                  *)
  Retired,      (* the V2 files a run retires, in theirs                    *)
  Units,        (* those of both that are systemd units                     *)
  Versions,     (* of the packaged files: one per controller image          *)
  Legacy,       (* the contents of a V2 file                                *)
  Absent,
  MaxFaults,    (* bound on failures, kills and controller updates          *)
  MaxBootstraps (* bound on bootstraps of a host whose timer is ready       *)

AssetFiles == ToSet(Assets)
RetiredFiles == ToSet(Retired)
Files == AssetFiles \union RetiredFiles
Contents == Versions \union {Legacy, Absent}

ASSUME HostInterfaceAssumption ==
  /\ "stage" \in Refreshers
  /\ Refreshers \subseteq {"stage", "bootstrap", "refresh"}
  /\ Units \subseteq Files
  /\ AssetFiles \intersect RetiredFiles = {}
  /\ Assets \in Seq(AssetFiles) /\ Retired \in Seq(RetiredFiles)
  /\ IsInjective(Assets) /\ IsInjective(Retired)
  /\ Legacy \notin Versions /\ Absent \notin Versions \union {Legacy}
  /\ MaxFaults \in Nat /\ MaxBootstraps \in Nat

VARIABLES
  disk,           (* every file                                             *)
  loaded,         (* systemd's copy of the units                            *)
  timerReady,     (* infralink-host-reconcile.timer is active and enabled   *)
  legacyTimer,    (* the V2 timer is active or enabled                      *)
  legacyService,  (* the V2 service is running                              *)
  image,          (* the version the selected controller packages           *)
  pc,
  run,            (* what each refresher's call of refresh remembers        *)
  torn,           (* history: units were left behind by a kill, by a failed *)
                  (* removal, or by a rollback beside somebody else         *)
  faults, bootstraps

systemd == <<loaded, timerReady, legacyTimer, legacyService>>
outside == <<image, faults, bootstraps>>
vars == <<disk, systemd, pc, run, torn, outside>>

Running == {"looking", "checking", "writing", "replacing", "removing",
            "reloading", "restoring", "rechecking", "switching", "enabling"}
Ended == {"idle", "ok", "failed"}

(* retire_legacy, decided by stage's first look and given to the others;   *)
(* the version it installs; the files as the preflight found them; its     *)
(* position among its queries, in Assets, then in Retired; the assets it   *)
(* has written and the V2 files it has removed; those to put back, each    *)
(* with its place in the order; and, as history, whether nobody else ran   *)
(* meanwhile.                                                              *)
Restores == [file : Files, place : Int]
Runs ==
  [retire : BOOLEAN, packaged : Versions,
   snapshot : [Files -> Contents], at : Nat,
   changed : SUBSET AssetFiles, removed : SUBSET RetiredFiles,
   restore : SUBSET Restores, alone : BOOLEAN]
Nothing == [f \in Files |-> Absent]
Fresh(retire, packaged, alone) ==
  [retire |-> retire, packaged |-> packaged, snapshot |-> Nothing, at |-> 1,
   changed |-> {}, removed |-> {}, restore |-> {}, alone |-> alone]

TypeOK ==
  /\ disk \in [Files -> Contents]
  /\ loaded \in [Units -> Contents]
  /\ timerReady \in BOOLEAN /\ legacyTimer \in BOOLEAN
  /\ legacyService \in BOOLEAN
  /\ image \in Versions
  /\ pc \in [Refreshers -> Running \union Ended]
  /\ run \in [Refreshers -> Runs]
  /\ torn \in BOOLEAN
  /\ faults \in 0..MaxFaults /\ bootstraps \in 0..MaxBootstraps

(* A new host, or one that V2 reconciles, whose canonical timer may have   *)
(* been installed beside it.                                               *)
Init ==
  /\ \E v2 \in BOOLEAN :
       /\ disk = [f \in Files |->
                    IF v2 /\ f \in RetiredFiles THEN Legacy ELSE Absent]
       /\ timerReady \in {FALSE, v2}
       /\ legacyTimer = v2
       /\ legacyService = v2
  /\ loaded = [u \in Units |-> disk[u]]
  /\ image \in Versions
  /\ pc = [p \in Refreshers |-> "idle"]
  /\ run = [p \in Refreshers |-> Fresh(FALSE, image, TRUE)]
  /\ torn = FALSE
  /\ faults = 0 /\ bootstraps = 0

Goto(p, to) == pc' = [pc EXCEPT ![p] = to]
Move(p, from, to) == pc[p] = from /\ Goto(p, to)
Note(p, record) == run' = [run EXCEPT ![p] = record]
End(p, outcome) ==
  Goto(p, outcome) /\ Note(p, Fresh(FALSE, run[p].packaged, TRUE))
Fault == faults < MaxFaults /\ faults' = faults + 1
LegacyActive == legacyTimer \/ legacyService
Packaged(p, f) == disk[f] = run[p].packaged

-----------------------------------------------------------------------------
(* stage, in a reconcile of either timer; bootstrap and the plain refresh, *)
(* by an operator.                                                         *)

Begin(p) ==
  LET others == {q \in Refreshers \ {p} : pc[q] \in Running}
  IN  /\ pc[p] \in Ended
      /\ IF p = "stage"
           THEN (timerReady \/ legacyService) /\ UNCHANGED bootstraps
           ELSE IF timerReady
             THEN bootstraps < MaxBootstraps /\ bootstraps' = bootstraps + 1
             ELSE UNCHANGED bootstraps
      /\ Goto(p, IF p = "stage" THEN "looking" ELSE "checking")
      /\ run' = [q \in Refreshers |->
                   IF q = p THEN Fresh(p # "stage", image, others = {})
                   ELSE [run[q] EXCEPT !.alone = @ /\ q \notin others]]
      /\ UNCHANGED <<disk, systemd, torn, image, faults>>

(* stage asks for V2's service, then for its timer, and retires V2 only if *)
(* neither is on.                                                          *)
Look(p) ==
  /\ pc[p] = "looking"
  /\ IF run[p].at = 1 /\ ~legacyService
       THEN Note(p, [run[p] EXCEPT !.at = 2]) /\ UNCHANGED pc
       ELSE /\ Goto(p, "checking")
            /\ Note(p, [run[p] EXCEPT
                          !.at = 1, !.retire = run[p].at = 2 /\ ~legacyTimer])
  /\ UNCHANGED <<disk, systemd, torn, outside>>

(* Variant: bootstrap leaves the queries for V2 to refresh.                *)
RefreshQueries(p) ==
  (IF p = "stage" THEN <<"canonical">> ELSE <<>>)
  \o (IF run[p].retire THEN <<"service", "timer">> ELSE <<>>)
(* What a preflight asks of systemd, in this order: stage for the          *)
(* canonical timer, bootstrap (_assert_no_competing_apply_loop) for V2's   *)
(* timer and then its service, and then refresh, on behalf of whoever      *)
(* retires V2, for the service and then the timer.                         *)
Queries(p) ==
  CASE p = "bootstrap" -> <<"timer", "service", "service", "timer">>
    [] p = "refresh" -> <<"service", "timer">>
    [] p = "stage" /\ run[p].retire -> <<"canonical", "service", "timer">>
    [] p = "stage" /\ ~run[p].retire -> <<"canonical">>

(* The answer with which a preflight goes on.                              *)
Answers(query) ==
  CASE query = "canonical" -> timerReady
    [] query = "service" -> ~legacyService
    [] query = "timer" -> ~legacyTimer
Asking(p) == pc[p] = "checking" /\ run[p].at <= Len(Queries(p))

Check(p) ==
  /\ Asking(p) /\ Answers(Queries(p)[run[p].at])
  /\ Note(p, [run[p] EXCEPT !.at = @ + 1])
  /\ UNCHANGED <<disk, systemd, pc, torn, outside>>

Refused(p) ==
  /\ Asking(p) /\ ~Answers(Queries(p)[run[p].at])
  /\ End(p, "failed")
  /\ UNCHANGED <<disk, systemd, torn, outside>>

(* Variant: the V2 timer is switched off before the files are in place.    *)
SwitchFirst(p) ==
  /\ ~Asking(p)
  /\ Move(p, "checking", "writing")
  /\ Note(p, [run[p] EXCEPT !.snapshot = disk, !.at = 1])
  /\ legacyTimer' = FALSE
  /\ UNCHANGED <<disk, loaded, timerReady, legacyService, torn, outside>>
Preflight(p) ==
  /\ ~Asking(p)
  /\ Move(p, "checking", "writing")
  /\ Note(p, [run[p] EXCEPT !.snapshot = disk, !.at = 1])
  /\ UNCHANGED <<disk, systemd, torn, outside>>

(* Each asset is compared with what is there now, and replaced or not.     *)
CompareAsset(p) ==
  /\ pc[p] = "writing" /\ run[p].at <= Len(Assets)
  /\ IF Packaged(p, Assets[run[p].at])
       THEN Note(p, [run[p] EXCEPT !.at = @ + 1]) /\ UNCHANGED pc
       ELSE Goto(p, "replacing") /\ UNCHANGED run
  /\ UNCHANGED <<disk, systemd, torn, outside>>

WriteAsset(p) ==
  /\ Move(p, "replacing", "writing")
  /\ LET f == Assets[run[p].at]
     IN  /\ disk' = [disk EXCEPT ![f] = run[p].packaged]
         /\ Note(p, [run[p] EXCEPT !.at = @ + 1, !.changed = @ \union {f}])
  /\ UNCHANGED <<systemd, torn, outside>>

AssetsWritten(p) ==
  /\ run[p].at > Len(Assets)
  /\ Move(p, "writing", "removing")
  /\ Note(p, [run[p] EXCEPT !.at = 1])
  /\ UNCHANGED <<disk, systemd, torn, outside>>

(* Variant: only the units among the V2 files are retired.                 *)
UnitsToRemove(p) ==
  {f \in RetiredFiles \intersect Units : run[p].retire
                                         /\ run[p].snapshot[f] # Absent}
ToRemove(p) ==
  {f \in RetiredFiles : run[p].retire /\ run[p].snapshot[f] # Absent}

(* Each retired file is passed over or removed.                            *)
PassOver(p) ==
  /\ pc[p] = "removing" /\ run[p].at <= Len(Retired)
  /\ Retired[run[p].at] \notin ToRemove(p)
  /\ Note(p, [run[p] EXCEPT !.at = @ + 1])
  /\ UNCHANGED <<disk, systemd, pc, torn, outside>>

RemoveRetired(p) ==
  /\ pc[p] = "removing" /\ run[p].at <= Len(Retired)
  /\ LET f == Retired[run[p].at]
     IN  /\ f \in ToRemove(p)
         /\ disk[f] # Absent
         /\ disk' = [disk EXCEPT ![f] = Absent]
         /\ Note(p, [run[p] EXCEPT !.at = @ + 1, !.removed = @ \union {f}])
  /\ UNCHANGED <<systemd, pc, torn, outside>>

(* Variant: only the units that were written count.                        *)
ChangedAssetUnits(p) == run[p].changed \intersect Units
ChangedUnits(p) == (run[p].changed \union run[p].removed) \intersect Units

(* daemon-reload only when this run changed a unit.                        *)
AllRemoved(p) ==
  /\ run[p].at > Len(Retired)
  /\ Move(p, "removing", IF ChangedUnits(p) # {} THEN "reloading"
                           ELSE "rechecking")
  /\ UNCHANGED <<disk, systemd, run, torn, outside>>

LoadUnits == loaded' = [u \in Units |-> disk[u]] /\ torn' = FALSE

Reload(p) ==
  /\ Move(p, "reloading", "rechecking")
  /\ LoadUnits
  /\ UNCHANGED <<disk, timerReady, legacyTimer, legacyService, run, outside>>

-----------------------------------------------------------------------------
(* Rolling back, file by file.                                             *)

RollBack(p, order) ==
  IF order = {} THEN End(p, "failed")
    ELSE Goto(p, "restoring") /\ Note(p, [run[p] EXCEPT !.restore = order])

(* The files of S in the order of `files`, from the place `first` on.      *)
InOrder(files, S, first) ==
  {[file |-> files[i], place |-> first + i] :
     i \in {n \in 1..Len(files) : files[n] \in S}}

(* After a refused daemon-reload, the written units, the retired ones and  *)
(* then the other retired files.                                           *)
UndoReload(p) ==
  InOrder(Assets, ChangedUnits(p), 0)
  \union InOrder(Retired, ChangedUnits(p), Len(Assets))
  \union InOrder(Retired, IF run[p].retire THEN RetiredFiles \ ChangedUnits(p)
                                            ELSE {},
                 Len(Assets) + Len(Retired))
ReloadFails(p) ==
  /\ pc[p] = "reloading"
  /\ RollBack(p, UndoReload(p))
  /\ Fault
  /\ UNCHANGED <<disk, systemd, torn, image, bootstraps>>

(* After an unlink that failed, perhaps because the file is gone: the      *)
(* retired files, the last one first, and nothing else.                    *)
UndoRemovals ==
  {[file |-> Retired[i], place |-> -i] : i \in 1..Len(Retired)}
RemoveFails(p) ==
  /\ pc[p] = "removing" /\ run[p].at <= Len(Retired)
  /\ LET f == Retired[run[p].at]
     IN  /\ f \in ToRemove(p)
         /\ IF disk[f] = Absent THEN UNCHANGED faults ELSE Fault
  /\ RollBack(p, UndoRemovals)
  /\ torn' = (torn \/ run[p].changed \intersect Units # {})
  /\ UNCHANGED <<disk, systemd, image, bootstraps>>

RestoreFile(p) ==
  /\ pc[p] = "restoring"
  /\ \E next \in run[p].restore :
       /\ \A other \in run[p].restore : next.place <= other.place
       /\ disk' = [disk EXCEPT ![next.file] = run[p].snapshot[next.file]]
       /\ RollBack(p, run[p].restore \ {next})
  /\ torn' = (torn \/ ~run[p].alone)
  /\ UNCHANGED <<systemd, outside>>

-----------------------------------------------------------------------------
(* stage looks at the canonical timer again; bootstrap enables it.         *)
Recheck(p) ==
  /\ pc[p] = "rechecking"
  /\ IF p = "refresh" \/ (p = "stage" /\ run[p].retire) THEN End(p, "ok")
       ELSE /\ Goto(p, IF p = "stage" THEN "switching" ELSE "enabling")
            /\ UNCHANGED run
  /\ p = "stage" => timerReady
  /\ UNCHANGED <<disk, systemd, torn, outside>>

(* Variant: the V2 timer stays on.                                         *)
LeaveLegacyTimer(p) ==
  /\ pc[p] = "switching" /\ End(p, "ok")
  /\ UNCHANGED <<disk, systemd, torn, outside>>
DisableLegacyTimer(p) ==
  /\ pc[p] = "switching" /\ End(p, "ok")
  /\ legacyTimer' = FALSE
  /\ LoadUnits
  /\ UNCHANGED <<disk, timerReady, legacyService, outside>>

EnableTimer(p) ==
  /\ pc[p] = "enabling" /\ End(p, "ok")
  /\ timerReady' = TRUE
  /\ LoadUnits
  /\ UNCHANGED <<disk, legacyTimer, legacyService, outside>>

(* A write, a query or a systemctl command fails, or the run is killed:    *)
(* what is on disk stays.                                                  *)
Stop(p) ==
  /\ pc[p] \in Running
  /\ End(p, "failed")
  /\ torn' = \/ torn \/ pc[p] = "restoring"
             \/ /\ ChangedUnits(p) # {}
                /\ pc[p] \in {"writing", "replacing", "removing", "reloading"}
  /\ Fault
  /\ UNCHANGED <<disk, systemd, image, bootstraps>>

-----------------------------------------------------------------------------
(* The host: V2's own runs, and the promotion of another controller.       *)

LegacyStart ==
  /\ legacyTimer /\ ~legacyService
  /\ \A u \in Units \intersect RetiredFiles : loaded[u] = Legacy
  /\ legacyService' = TRUE
  /\ UNCHANGED <<disk, loaded, timerReady, legacyTimer, pc, run, torn,
                 outside>>

LegacyEnd ==
  /\ legacyService
  /\ legacyService' = FALSE
  /\ UNCHANGED <<disk, loaded, timerReady, legacyTimer, pc, run, torn,
                 outside>>

Update(v) ==
  /\ image # v
  /\ image' = v
  /\ Fault
  /\ UNCHANGED <<disk, systemd, pc, run, torn, bootstraps>>

(* What a run does on its own: also the failure to remove what is gone.    *)
Progress(p) ==
  \/ Look(p) \/ Check(p) \/ Refused(p) \/ Preflight(p)
  \/ CompareAsset(p) \/ WriteAsset(p) \/ AssetsWritten(p)
  \/ PassOver(p) \/ RemoveRetired(p) \/ AllRemoved(p)
  \/ Reload(p) \/ RestoreFile(p)
  \/ Recheck(p) \/ DisableLegacyTimer(p) \/ EnableTimer(p)
  \/ RemoveFails(p)

Next ==
  \/ \E p \in Refreshers : Begin(p) \/ Progress(p) \/ ReloadFails(p) \/ Stop(p)
  \/ LegacyStart \/ LegacyEnd
  \/ \E v \in Versions : Update(v)

Spec == Init /\ [][Next]_vars

(* A run that runs goes on, a V2 service ends, and a ready canonical timer *)
(* gets its turn again and again beside V2's and an operator's runs.       *)
FairSpec ==
  /\ Spec
  /\ \A p \in Refreshers : WF_vars(Progress(p))
  /\ SF_vars(Begin("stage"))
  /\ WF_vars(LegacyEnd)
-----------------------------------------------------------------------------
(* Properties.                                                             *)

(* V2's files change only while neither its timer nor its service can run  *)
(* from them (_legacy_v2_reconcile_is_inactive: "Refuse to replace a        *)
(* deployment path that could still apply state"), from the queries of the *)
(* preflight to the last removal or its undoing.  Between two queries V2's *)
(* timer may start its service, and another run switch that timer off: who *)
(* asks for the service first and then for the timer finds neither.  stage *)
(* and bootstrap ask again, and find out; a plain refresh only makes sure  *)
(* of the timer, and may remove the files of a service that still runs.    *)
RetiresInactive ==
  \A p \in Refreshers :
    run'[p] # run[p] /\ (\E f \in RetiredFiles : disk'[f] # disk[f]) =>
      ~legacyTimer /\ (p # "refresh" => ~legacyService)
LegacyFilesSafe == [][RetiresInactive]_vars

(* V2's timer is switched off only on a host whose own timer is ready and  *)
(* whose packaged files are all in place (stage: "Install the canonical    *)
(* interface without retiring the active seed path"): there is no moment   *)
(* without a way to reconcile.                                             *)
KeepsAPath ==
  legacyTimer /\ ~legacyTimer' =>
    timerReady' /\ \A f \in AssetFiles : disk'[f] = run["stage"].packaged
HandsOver == [][KeepsAPath]_vars

(* Between runs systemd works from the units that are on disk, whoever ran *)
(* beside whom, also after a failed daemon-reload was rolled back - unless *)
(* a run was killed between a write and the reload, failed to remove a     *)
(* retired file, or rolled back beside another run.                        *)
UnitsInStep ==
  (\A p \in Refreshers : pc[p] \in Ended) /\ ~torn =>
    \A u \in Units : loaded[u] = disk[u]

(* A run that succeeds without another beside it leaves exactly the        *)
(* packaged files and, when it was to retire V2, none of V2's.             *)
LeavesPackaged ==
  \A p \in Refreshers :
    pc[p] # "ok" /\ pc'[p] = "ok" /\ run[p].alone =>
      /\ \A f \in AssetFiles : disk'[f] = run[p].packaged
      /\ run[p].retire => \A f \in RetiredFiles : disk'[f] = Absent
InstallsPackaged == [][LeavesPackaged]_vars

(* "A later canonical invocation observes that V2 is inactive and performs *)
(* the existing guarded retirement": once faults and updates have stopped, *)
(* a host whose canonical timer is ready ends without V2, on the packaged  *)
(* files of its controller.                                                *)
Modern ==
  /\ ~LegacyActive
  /\ \A f \in AssetFiles : disk[f] = image
  /\ \A f \in RetiredFiles : disk[f] = Absent
BecomesModern == <>timerReady => <>[]Modern
=============================================================================
