------------------------- MODULE HostInterfaceProofs -------------------------
(***************************************************************************)
(* The refresh of the host interface, for any files, versions and number   *)
(* of failures: V2's files are left alone while V2 may run, V2 is switched *)
(* off only for a complete canonical interface, systemd is in step with    *)
(* the disk between runs, and a run that succeeds alone leaves what it     *)
(* packages.                                                               *)
(***************************************************************************)
EXTENDS HostInterface, TLAPS

-----------------------------------------------------------------------------
(* The inductive invariant.                                                *)

Changing == {"writing", "replacing", "removing", "reloading"}
Final == {"rechecking", "switching", "enabling"}
Past == Changing \union Final \union {"restoring"}

(* Who is past its preflight and set on retiring V2 found its timer off,   *)
(* and nothing switches that on again.  A plain refresh asked for the      *)
(* service while the timer could still start it; the others asked after it *)
(* could not.                                                              *)
RetireInv ==
  \A p \in Refreshers : pc[p] \in Past /\ run[p].retire =>
    ~legacyTimer /\ (p # "refresh" => ~legacyService)

(* What the queries have established so far.                               *)
Established(p) ==
  /\ pc[p] = "looking" =>
       /\ run[p].at \in {1, 2}
       /\ run[p].at = 2 /\ legacyService => legacyTimer
  /\ pc[p] = "checking" =>
       CASE p = "stage" -> /\ run[p].retire => ~LegacyActive
                           /\ run[p].at >= 2 => timerReady
         [] p = "bootstrap" -> /\ run[p].at >= 2 => ~legacyTimer
                               /\ run[p].at >= 3 => ~legacyService
         [] p = "refresh" -> run[p].at >= 3 => ~legacyTimer
QueryInv == \A p \in Refreshers : Established(p)

(* A run has positions in its lists; before a preflight it has done        *)
(* nothing; only stage looks and switches the V2 timer off, the others     *)
(* always retire; only who retires removes files or puts them back; a      *)
(* rollback has a next file.                                               *)
PlanOf(p) ==
  /\ pc[p] \in {"checking", "writing", "replacing", "removing"} =>
       run[p].at >= 1
  /\ pc[p] = "replacing" => run[p].at <= Len(Assets)
  /\ pc[p] \in {"looking", "checking"} \union Ended =>
       run[p].changed = {} /\ run[p].removed = {}
  /\ pc[p] \in {"looking", "switching"} => p = "stage"
  /\ p # "stage" /\ pc[p] \in Running => run[p].retire
  /\ run[p].removed # {} => run[p].retire
  /\ pc[p] = "restoring" =>
       /\ run[p].restore # {}
       /\ \A s \in run[p].restore : s.file \in RetiredFiles => run[p].retire

(* stage went on for a ready canonical timer.                              *)
PlanInv ==
  /\ pc["stage"] \in Past => timerReady
  /\ \A p \in Refreshers : PlanOf(p)

(* A run that is alone is alone.                                           *)
AloneInv ==
  \A p \in Refreshers : pc[p] \in Running /\ run[p].alone =>
    \A q \in Refreshers \ {p} : pc[q] \notin Running

(* Nobody else changes files: the run is alone, or it is a stage on a host *)
(* whose V2 timer keeps the others out.                                    *)
Sole(p) == run[p].alone \/ (p = "stage" /\ legacyTimer)

(* Then the assets it has been through are those it packages.              *)
AssetsInv ==
  \A p \in Refreshers : Sole(p) =>
    /\ pc[p] \in {"writing", "replacing"} =>
         \A i \in 1..Len(Assets) :
           i < run[p].at => disk[Assets[i]] = run[p].packaged
    /\ pc[p] \in {"removing", "reloading"} \union Final =>
         \A f \in AssetFiles : disk[f] = run[p].packaged

(* Alone, it finds the V2 files as its preflight did, up to its removals.  *)
RetiredInv ==
  \A p \in Refreshers : run[p].alone =>
    /\ pc[p] \in {"writing", "replacing"} =>
         \A f \in RetiredFiles : disk[f] = run[p].snapshot[f]
    /\ pc[p] = "removing" =>
         \A i \in 1..Len(Retired) :
           disk[Retired[i]] = IF i < run[p].at /\ run[p].retire THEN Absent
                                ELSE run[p].snapshot[Retired[i]]
    /\ pc[p] \in {"reloading"} \union Final /\ run[p].retire =>
         \A f \in RetiredFiles : disk[f] = Absent

(* What a run changed that systemd has not loaded, or has still to undo.   *)
Pending(p) ==
  IF pc[p] \in Changing THEN ChangedUnits(p)
    ELSE IF pc[p] = "restoring" THEN {s.file : s \in run[p].restore} ELSE {}

(* Only such units differ from systemd's; the preflight of a run that is   *)
(* alone found what systemd works from.                                    *)
PendingInv ==
  ~torn => \A u \in Units :
    loaded[u] = disk[u] \/ \E p \in Refreshers : u \in Pending(p)
SnapshotInv ==
  ~torn => \A p \in Refreshers :
    pc[p] \in Changing \union {"restoring"} /\ run[p].alone =>
      \A u \in Units : loaded[u] = run[p].snapshot[u]

IInv ==
  /\ TypeOK /\ RetireInv /\ QueryInv /\ PlanInv /\ AloneInv
  /\ AssetsInv /\ RetiredInv /\ PendingInv /\ SnapshotInv

-----------------------------------------------------------------------------
(* Positions and frames.                                                   *)

(* A file of either list has a place in it, and no two retired files share *)
(* one.                                                                    *)
LEMMA Positions ==
  /\ Len(Assets) \in Nat /\ Len(Retired) \in Nat
  /\ \A i \in 1..Len(Assets) : Assets[i] \in AssetFiles
  /\ \A f \in AssetFiles : \E i \in 1..Len(Assets) : f = Assets[i]
  /\ \A i \in 1..Len(Retired) : Retired[i] \in RetiredFiles
  /\ \A f \in RetiredFiles : \E i \in 1..Len(Retired) : f = Retired[i]
  /\ \A i, j \in 1..Len(Retired) : Retired[i] = Retired[j] => i = j
<1>1. Assets \in Seq(AssetFiles) /\ Retired \in Seq(RetiredFiles)
  BY HostInterfaceAssumption
<1>2. PICK m \in Nat : m = Len(Assets) /\ DOMAIN Assets = 1..m
  BY <1>1
<1>3. PICK n \in Nat : n = Len(Retired) /\ DOMAIN Retired = 1..n
  BY <1>1
<1>4. /\ \A i \in 1..m : Assets[i] \in AssetFiles
      /\ \A f \in AssetFiles : \E i \in 1..m : f = Assets[i]
  BY <1>2 DEF AssetFiles, ToSet
<1>5. /\ \A i \in 1..n : Retired[i] \in RetiredFiles
      /\ \A f \in RetiredFiles : \E i \in 1..n : f = Retired[i]
  BY <1>3 DEF RetiredFiles, ToSet
<1>6. \A i, j \in 1..n : Retired[i] = Retired[j] => i = j
  BY <1>3, HostInterfaceAssumption DEF IsInjective
<1> QED
  BY <1>2, <1>3, <1>4, <1>5, <1>6

(* What one refresher or the host does.                                    *)
Acts(p) == Begin(p) \/ Progress(p) \/ ReloadFails(p) \/ Stop(p)
Host == LegacyStart \/ LegacyEnd \/ (\E v \in Versions : Update(v))

(* Another's run goes on as it was, but for not being alone.               *)
SameRun(q) ==
  /\ pc'[q] = pc[q]
  /\ run'[q].retire = run[q].retire /\ run'[q].packaged = run[q].packaged
  /\ run'[q].snapshot = run[q].snapshot /\ run'[q].at = run[q].at
  /\ run'[q].changed = run[q].changed /\ run'[q].removed = run[q].removed
  /\ run'[q].restore = run[q].restore
  /\ run'[q].alone => run[q].alone

(* A refresher touches its own counter and record only, and files only     *)
(* past its preflight.  Timers are only switched on or, V2's, off.         *)
LEMMA OthersFrame ==
  ASSUME TypeOK, NEW p \in Refreshers, Acts(p)
  PROVE  /\ \A q \in Refreshers \ {p} : SameRun(q)
         /\ pc[p] \notin Past => disk' = disk /\ loaded' = loaded
         /\ timerReady => timerReady'
         /\ legacyTimer' => legacyTimer
         /\ legacyService' = legacyService
         /\ pc[p] # "switching" => legacyTimer' = legacyTimer
<1>1. \A q \in Refreshers \ {p} : SameRun(q)
  <2>1. CASE Begin(p)
    BY <2>1 DEF Begin, Goto, TypeOK, Runs, SameRun
  <2>2. CASE /\ pc' = pc \/ \E to : Goto(p, to)
             /\ run' = run \/ \E record : Note(p, record)
    BY <2>2 DEF Goto, Note, TypeOK, SameRun
  <2>3. ASSUME ~Begin(p)
        PROVE  /\ pc' = pc \/ \E to : Goto(p, to)
               /\ run' = run \/ \E record : Note(p, record)
    <3>0. CASE Look(p) \/ Check(p)
      BY <3>0 DEF Look, Check
    <3>1. CASE \/ Preflight(p) \/ Refused(p) \/ CompareAsset(p)
               \/ AssetsWritten(p) \/ WriteAsset(p) \/ PassOver(p)
               \/ RemoveRetired(p) \/ AllRemoved(p) \/ Stop(p)
      BY <3>1 DEF Preflight, Refused, CompareAsset, AssetsWritten, WriteAsset,
                  PassOver, RemoveRetired, AllRemoved, Stop, Move, End
    <3>2. CASE \/ Reload(p) \/ DisableLegacyTimer(p) \/ EnableTimer(p)
               \/ Recheck(p) \/ RestoreFile(p) \/ RemoveFails(p)
               \/ ReloadFails(p)
      BY <3>2 DEF Reload, DisableLegacyTimer, EnableTimer, Recheck,
                  RestoreFile, RemoveFails, ReloadFails, RollBack, Move, End
    <3> QED
      BY <2>3, <3>0, <3>1, <3>2 DEF Acts, Progress
  <2> QED
    BY <2>1, <2>2, <2>3
<1>2. /\ pc[p] \notin Past => disk' = disk /\ loaded' = loaded
      /\ timerReady => timerReady'
      /\ legacyTimer' => legacyTimer
      /\ legacyService' = legacyService
      /\ pc[p] # "switching" => legacyTimer' = legacyTimer
  <2> USE DEF systemd, outside, Past, Changing, Final
  <2>0. CASE Look(p) \/ Check(p)
    BY <2>0 DEF Look, Check
  <2>1. CASE Begin(p)
    BY <2>1 DEF Begin
  <2>2. CASE \/ Preflight(p) \/ Refused(p) \/ CompareAsset(p)
             \/ AssetsWritten(p) \/ PassOver(p)
    BY <2>2 DEF Preflight, Refused, CompareAsset, AssetsWritten, PassOver
  <2>3. CASE AllRemoved(p) \/ Recheck(p)
    BY <2>3 DEF AllRemoved, Recheck
  <2>4. CASE ReloadFails(p) \/ RemoveFails(p)
    BY <2>4 DEF ReloadFails, RemoveFails
  <2>5. CASE Stop(p)
    BY <2>5 DEF Stop
  <2>6. CASE WriteAsset(p) \/ RemoveRetired(p) \/ RestoreFile(p)
    BY <2>6 DEF WriteAsset, RemoveRetired, RestoreFile, Move
  <2>7. CASE Reload(p)
    BY <2>7 DEF Reload, Move
  <2>8. CASE DisableLegacyTimer(p) \/ EnableTimer(p)
    BY <2>8 DEF DisableLegacyTimer, EnableTimer
  <2> QED
    BY <2>0, <2>1, <2>2, <2>3, <2>4, <2>5, <2>6, <2>7, <2>8
    DEF Acts, Progress
<1> QED
  BY <1>1, <1>2

(* The host touches neither runs nor files, and starts nothing of V2 but   *)
(* what V2's timer starts.                                                 *)
LEMMA HostFrame ==
  ASSUME Host \/ UNCHANGED vars
  PROVE  /\ UNCHANGED <<disk, loaded, timerReady, legacyTimer, pc, run, torn>>
         /\ legacyService' => LegacyActive
BY DEF Host, LegacyStart, LegacyEnd, Update, systemd, outside, vars,
       LegacyActive

(* Whatever happens is one refresher's doing or the host's.                *)
LEMMA StepOf ==
  ASSUME [Next]_vars
  PROVE  (\E p \in Refreshers : Acts(p)) \/ Host \/ UNCHANGED vars
BY DEF Next, Acts, Host

-----------------------------------------------------------------------------
(* Types.                                                                  *)

(* It holds on a new host and on one that V2 reconciles.                   *)
LEMMA InitIInv == Init => IInv
<1> SUFFICES ASSUME Init PROVE IInv
  OBVIOUS
<1> USE DEF Init
<1>1. /\ disk \in [Files -> Contents] /\ loaded \in [Units -> Contents]
      /\ \A u \in Units : loaded[u] = disk[u]
  BY HostInterfaceAssumption DEF Contents
<1>2. /\ pc \in [Refreshers -> Running \union Ended]
      /\ \A p \in Refreshers : pc[p] = "idle"
  BY DEF Running, Ended
<1>3. /\ run \in [Refreshers -> Runs]
      /\ \A p \in Refreshers : run[p].changed = {} /\ run[p].removed = {}
  <2>1. Fresh(FALSE, image, TRUE) \in Runs
    <3>1. Nothing \in [Files -> Contents]
      BY DEF Nothing, Contents
    <3> QED
      BY <3>1 DEF Fresh, Runs
  <2>2. Fresh(FALSE, image, TRUE).changed = {}
        /\ Fresh(FALSE, image, TRUE).removed = {}
    BY DEF Fresh
  <2> QED
    BY <2>1, <2>2
<1>4. TypeOK
  <2>1. timerReady \in BOOLEAN /\ legacyTimer \in BOOLEAN
        /\ legacyService \in BOOLEAN /\ torn \in BOOLEAN
    OBVIOUS
  <2>2. faults \in 0..MaxFaults /\ bootstraps \in 0..MaxBootstraps
    BY HostInterfaceAssumption
  <2> QED
    BY <1>1, <1>2, <1>3, <2>1, <2>2 DEF TypeOK
<1>5. /\ RetireInv /\ QueryInv /\ AloneInv
      /\ AssetsInv /\ RetiredInv /\ SnapshotInv
  BY <1>2 DEF RetireInv, QueryInv, Established, AloneInv, AssetsInv, RetiredInv, SnapshotInv, Past,
              Changing, Final, Running
<1>6. PlanInv
  BY <1>2, <1>3, HostInterfaceAssumption
  DEF PlanInv, PlanOf, Past, Changing, Final, Running
<1>7. PendingInv
  BY <1>1 DEF PendingInv
<1> QED
  BY <1>4, <1>5, <1>6, <1>7 DEF IInv

(* A new record keeps the records of type.                                 *)
LEMMA RunTyped ==
  ASSUME TypeOK, NEW p \in Refreshers, NEW record \in Runs, Note(p, record)
  PROVE  run' \in [Refreshers -> Runs]
BY DEF TypeOK, Note

(* A run that ends has nothing in mind.                                    *)
LEMMA EndTyped ==
  ASSUME TypeOK, NEW p \in Refreshers, NEW outcome \in Ended, End(p, outcome)
  PROVE  /\ pc' \in [Refreshers -> Running \union Ended]
         /\ run' \in [Refreshers -> Runs]
         /\ pc'[p] = outcome
         /\ run'[p].changed = {} /\ run'[p].removed = {}
<1> DEFINE record == Fresh(FALSE, run[p].packaged, TRUE)
<1>1. record \in Runs
  <2>1. Nothing \in [Files -> Contents]
    BY DEF Nothing, Contents
  <2> QED
    BY <2>1 DEF Fresh, Runs, TypeOK
<1>2. record.changed = {} /\ record.removed = {}
  BY DEF Fresh
<1>3. Note(p, record)
  BY DEF End
<1>4. run'[p] = record
  BY <1>3 DEF Note, TypeOK
<1> HIDE DEF record
<1>5. run' \in [Refreshers -> Runs]
  BY <1>1, <1>3, RunTyped
<1>6. pc' \in [Refreshers -> Running \union Ended] /\ pc'[p] = outcome
  BY DEF End, Goto, TypeOK
<1> QED
  BY <1>2, <1>4, <1>5, <1>6

(* The orders of a rollback name files and places, those of a refused      *)
(* reload all changed units.                                               *)
LEMMA Orders ==
  ASSUME TypeOK, NEW p \in Refreshers
  PROVE  /\ UndoRemovals \in SUBSET Restores
         /\ RetiredFiles = {s.file : s \in UndoRemovals}
         /\ UndoReload(p) \in SUBSET Restores
         /\ ChangedUnits(p) \subseteq {s.file : s \in UndoReload(p)}
         /\ run[p].removed # {} \/ run[p].retire
              \/ \A s \in UndoReload(p) : s.file \notin RetiredFiles
<1> USE Positions DEF Files
<1>1. UndoRemovals \in SUBSET Restores
      /\ RetiredFiles = {s.file : s \in UndoRemovals}
  <2>1. ASSUME NEW i \in 1..Len(Retired)
        PROVE  [file |-> Retired[i], place |-> -i] \in Restores
    BY DEF Restores
  <2>2. ASSUME NEW f \in RetiredFiles
        PROVE  \E s \in UndoRemovals : s.file = f
    <3>1. PICK i \in 1..Len(Retired) : f = Retired[i]
      OBVIOUS
    <3>2. [file |-> Retired[i], place |-> -i] \in UndoRemovals
      BY DEF UndoRemovals
    <3> QED
      BY <3>1, <3>2
  <2>3. ASSUME NEW s \in UndoRemovals
        PROVE  s \in Restores /\ s.file \in RetiredFiles
    <3>1. PICK i \in 1..Len(Retired) : s = [file |-> Retired[i], place |-> -i]
      BY DEF UndoRemovals
    <3> QED
      BY <2>1, <3>1
  <2> QED
    BY <2>2, <2>3
<1>2. ASSUME NEW S, NEW first \in Nat
      PROVE  /\ \A s \in InOrder(Assets, S, first) :
                  s \in Restores /\ s.file \in AssetFiles \intersect S
             /\ \A s \in InOrder(Retired, S, first) :
                  s \in Restores /\ s.file \in RetiredFiles \intersect S
  BY DEF InOrder, Restores
<1>3. ASSUME NEW S, NEW first \in Nat, NEW f \in S
      PROVE  /\ f \in AssetFiles =>
                  \E s \in InOrder(Assets, S, first) : s.file = f
             /\ f \in RetiredFiles =>
                  \E s \in InOrder(Retired, S, first) : s.file = f
  <2>1. ASSUME NEW i \in 1..Len(Assets), f = Assets[i]
        PROVE  [file |-> f, place |-> first + i] \in InOrder(Assets, S, first)
    BY <2>1 DEF InOrder
  <2>2. ASSUME NEW i \in 1..Len(Retired), f = Retired[i]
        PROVE  [file |-> f, place |-> first + i] \in InOrder(Retired, S, first)
    BY <2>2 DEF InOrder
  <2> QED
    BY <2>1, <2>2
<1>4. UndoReload(p) \in SUBSET Restores
  <2>1. 0 \in Nat /\ Len(Assets) + Len(Retired) \in Nat
    OBVIOUS
  <2> QED
    BY <1>2, <2>1 DEF UndoReload
<1>5. ASSUME NEW f \in ChangedUnits(p)
      PROVE  \E s \in UndoReload(p) : s.file = f
  <2>1. f \in AssetFiles \/ f \in RetiredFiles
    BY DEF ChangedUnits, TypeOK, Runs
  <2>2. \/ \E s \in InOrder(Assets, ChangedUnits(p), 0) : s.file = f
        \/ \E s \in InOrder(Retired, ChangedUnits(p), Len(Assets)) : s.file = f
    BY <1>3, <2>1
  <2> QED
    BY <2>2 DEF UndoReload
<1>6. ASSUME run[p].removed = {}, ~run[p].retire, NEW s \in UndoReload(p)
      PROVE  s.file \notin RetiredFiles
  <2>1. ChangedUnits(p) \subseteq AssetFiles
    BY <1>6 DEF ChangedUnits, TypeOK, Runs
  <2>2. s.file \in AssetFiles
    BY <1>2, <1>6, <2>1 DEF UndoReload
  <2> QED
    BY <2>2, HostInterfaceAssumption
<1> QED
  BY <1>1, <1>4, <1>5, <1>6

(* Types are kept.                                                         *)
LEMMA TypeOKStep ==
  ASSUME TypeOK, PlanInv, [Next]_vars PROVE TypeOK'
<1>1. ASSUME NEW p \in Refreshers, Acts(p)
      PROVE  /\ pc' \in [Refreshers -> Running \union Ended]
             /\ run' \in [Refreshers -> Runs]
             /\ disk' \in [Files -> Contents]
             /\ loaded' \in [Units -> Contents]
             /\ timerReady' \in BOOLEAN /\ legacyTimer' \in BOOLEAN
             /\ legacyService' \in BOOLEAN /\ torn' \in BOOLEAN
             /\ image' \in Versions
             /\ faults' \in 0..MaxFaults /\ bootstraps' \in 0..MaxBootstraps
  <2> DEFINE mine == run[p]
  <2>0. /\ mine \in Runs /\ pc[p] \in Running \union Ended
        /\ Units \subseteq Files
    BY HostInterfaceAssumption DEF TypeOK
  <2> USE DEF Running, Ended
  <2>1. CASE Begin(p)
    <3>1. Nothing \in [Files -> Contents]
      BY DEF Nothing, Contents
    <3>2. /\ \A r, a \in BOOLEAN : Fresh(r, image, a) \in Runs
          /\ \A q \in Refreshers, a \in BOOLEAN :
               [run[q] EXCEPT !.alone = a] \in Runs
          /\ \A q \in Refreshers : run[q].alone \in BOOLEAN
      BY <3>1 DEF Fresh, Runs, TypeOK
    <3>3. run' \in [Refreshers -> Runs]
      BY <2>1, <3>2 DEF Begin
    <3> QED
      BY <2>1, <3>3, HostInterfaceAssumption DEF Begin, Goto, TypeOK, systemd
  <2>21. CASE Look(p)
    <3>1. /\ [mine EXCEPT !.at = 2] \in Runs
          /\ \A r \in BOOLEAN : [mine EXCEPT !.at = 1, !.retire = r] \in Runs
      BY <2>0 DEF Runs
    <3>2. (mine.at = 2 /\ ~legacyTimer) \in BOOLEAN
      OBVIOUS
    <3>3. run' \in [Refreshers -> Runs]
      BY <2>21, <3>1, <3>2, RunTyped DEF Look
    <3> QED
      BY <2>21, <3>3 DEF Look, Goto, TypeOK, systemd, outside
  <2>22. CASE Check(p)
    <3>1. [mine EXCEPT !.at = @ + 1] \in Runs
      BY <2>0 DEF Runs
    <3>2. run' \in [Refreshers -> Runs]
      BY <2>22, <3>1, RunTyped DEF Check
    <3> QED
      BY <2>22, <3>2 DEF Check, TypeOK, systemd, outside
  <2>2. CASE Preflight(p)
    <3>1. [mine EXCEPT !.snapshot = disk, !.at = 1] \in Runs
      BY <2>0 DEF Runs, TypeOK
    <3>2. run' \in [Refreshers -> Runs]
      BY <2>2, <3>1, RunTyped DEF Preflight
    <3> QED
      BY <2>2, <3>2 DEF Preflight, Move, Goto, TypeOK, systemd, outside
  <2>3. CASE Refused(p)
    BY <2>3, EndTyped DEF Refused, TypeOK, systemd, outside
  <2>4. CASE CompareAsset(p)
    <3>1. [mine EXCEPT !.at = @ + 1] \in Runs
      BY <2>0 DEF Runs
    <3>2. run' \in [Refreshers -> Runs]
      BY <2>4, <3>1, RunTyped DEF CompareAsset, TypeOK
    <3> QED
      BY <2>4, <3>2 DEF CompareAsset, Goto, TypeOK, systemd, outside
  <2>5. CASE WriteAsset(p)
    <3> DEFINE f == Assets[mine.at]
    <3>1. f \in AssetFiles
      BY <2>0, <2>5, Positions DEF WriteAsset, Move, PlanInv, PlanOf, Runs
    <3>2. [mine EXCEPT !.at = @ + 1, !.changed = @ \union {f}] \in Runs
      <4>1. /\ mine.changed \union {f} \in SUBSET AssetFiles
            /\ mine.at + 1 \in Nat
        BY <2>0, <3>1 DEF Runs
      <4>2. \A n \in Nat, S \in SUBSET AssetFiles :
              [mine EXCEPT !.at = n, !.changed = S] \in Runs
        BY <2>0 DEF Runs
      <4> QED
        BY <4>1, <4>2
    <3>3. run' \in [Refreshers -> Runs]
      BY <2>5, <3>2, RunTyped DEF WriteAsset
    <3>4. disk' \in [Files -> Contents]
      BY <2>0, <2>5 DEF WriteAsset, TypeOK, Runs, Contents
    <3> QED
      BY <2>5, <3>3, <3>4 DEF WriteAsset, Move, Goto, TypeOK, systemd, outside
  <2>6. CASE AssetsWritten(p)
    <3>1. [mine EXCEPT !.at = 1] \in Runs
      BY <2>0 DEF Runs
    <3>2. run' \in [Refreshers -> Runs]
      BY <2>6, <3>1, RunTyped DEF AssetsWritten
    <3> QED
      BY <2>6, <3>2 DEF AssetsWritten, Move, Goto, TypeOK, systemd, outside
  <2>7. CASE PassOver(p)
    <3>1. [mine EXCEPT !.at = @ + 1] \in Runs
      BY <2>0 DEF Runs
    <3>2. run' \in [Refreshers -> Runs]
      BY <2>7, <3>1, RunTyped DEF PassOver
    <3> QED
      BY <2>7, <3>2 DEF PassOver, TypeOK, systemd, outside
  <2>8. CASE RemoveRetired(p)
    <3> DEFINE f == Retired[mine.at]
    <3>1. f \in RetiredFiles
      BY <2>8 DEF RemoveRetired, ToRemove
    <3>2. [mine EXCEPT !.at = @ + 1, !.removed = @ \union {f}] \in Runs
      <4>1. /\ mine.removed \union {f} \in SUBSET RetiredFiles
            /\ mine.at + 1 \in Nat
        BY <2>0, <3>1 DEF Runs
      <4>2. \A n \in Nat, S \in SUBSET RetiredFiles :
              [mine EXCEPT !.at = n, !.removed = S] \in Runs
        BY <2>0 DEF Runs
      <4> QED
        BY <4>1, <4>2
    <3>3. run' \in [Refreshers -> Runs]
      BY <2>8, <3>2, RunTyped DEF RemoveRetired
    <3>4. disk' \in [Files -> Contents]
      BY <2>8 DEF RemoveRetired, TypeOK, Contents
    <3> QED
      BY <2>8, <3>3, <3>4 DEF RemoveRetired, TypeOK, systemd, outside
  <2>9. CASE AllRemoved(p)
    BY <2>9 DEF AllRemoved, Move, Goto, TypeOK, systemd, outside
  <2>10. ASSUME LoadUnits
         PROVE  loaded' \in [Units -> Contents] /\ torn' \in BOOLEAN
    BY <2>0, <2>10 DEF LoadUnits, TypeOK
  <2>11. CASE Reload(p)
    BY <2>10, <2>11 DEF Reload, Move, Goto, TypeOK, outside
  <2>12. ASSUME Fault PROVE faults' \in 0..MaxFaults
    BY <2>12, HostInterfaceAssumption DEF Fault, TypeOK
  <2>13. ASSUME NEW order \in SUBSET Restores, RollBack(p, order)
         PROVE  /\ pc' \in [Refreshers -> Running \union Ended]
                /\ run' \in [Refreshers -> Runs]
    <3>1. CASE End(p, "failed")
      BY <3>1, EndTyped
    <3>2. CASE /\ Goto(p, "restoring")
               /\ Note(p, [mine EXCEPT !.restore = order])
      <4>1. [mine EXCEPT !.restore = order] \in Runs
        BY <2>0 DEF Runs
      <4>2. run' \in [Refreshers -> Runs]
        BY <3>2, <4>1, RunTyped
      <4> QED
        BY <3>2, <4>2 DEF Goto, TypeOK
    <3> QED
      BY <2>13, <3>1, <3>2 DEF RollBack
  <2>14. CASE ReloadFails(p)
    BY <2>12, <2>13, <2>14, Orders DEF ReloadFails, TypeOK, systemd
  <2>15. CASE RemoveFails(p)
    <3>1. faults' \in 0..MaxFaults
      BY <2>12, <2>15 DEF RemoveFails, TypeOK
    <3>2. torn' \in BOOLEAN
      BY <2>15 DEF RemoveFails, TypeOK
    <3> QED
      BY <2>13, <2>15, <3>1, <3>2, Orders DEF RemoveFails, TypeOK, systemd
  <2>16. CASE RestoreFile(p)
    <3>1. PICK next \in mine.restore :
            /\ disk' = [disk EXCEPT ![next.file] = mine.snapshot[next.file]]
            /\ RollBack(p, mine.restore \ {next})
      BY <2>16 DEF RestoreFile
    <3>2. mine.restore \ {next} \in SUBSET Restores
          /\ next.file \in Files /\ mine.snapshot \in [Files -> Contents]
      BY <2>0, <3>1 DEF Runs, Restores
    <3>3. disk' \in [Files -> Contents]
      BY <3>1, <3>2 DEF TypeOK
    <3>4. torn' \in BOOLEAN
      BY <2>0, <2>16 DEF RestoreFile, TypeOK, Runs
    <3> QED
      BY <2>13, <2>16, <3>1, <3>2, <3>3, <3>4
      DEF RestoreFile, TypeOK, systemd, outside
  <2>17. CASE Recheck(p)
    <3>1. CASE End(p, "ok")
      BY <2>17, <3>1, EndTyped DEF Recheck, TypeOK, systemd, outside
    <3>2. CASE /\ UNCHANGED run
               /\ Goto(p, IF p = "stage" THEN "switching" ELSE "enabling")
      BY <2>17, <3>2 DEF Recheck, Goto, TypeOK, systemd, outside
    <3> QED
      BY <2>17, <3>1, <3>2 DEF Recheck
  <2>18. CASE DisableLegacyTimer(p)
    BY <2>10, <2>18, EndTyped DEF DisableLegacyTimer, TypeOK, outside
  <2>19. CASE EnableTimer(p)
    BY <2>10, <2>19, EndTyped DEF EnableTimer, TypeOK, outside
  <2>20. CASE Stop(p)
    <3>1. torn' \in BOOLEAN
      BY <2>20 DEF Stop, TypeOK
    <3> QED
      BY <2>12, <2>20, <3>1, EndTyped DEF Stop, TypeOK, systemd
  <2> HIDE DEF Running, Ended
  <2> QED
    BY <1>1, <2>1, <2>2, <2>3, <2>4, <2>5, <2>6, <2>7, <2>8, <2>9, <2>11,
       <2>14, <2>15, <2>16, <2>17, <2>18, <2>19, <2>20, <2>21, <2>22
    DEF Acts, Progress
<1>2. CASE Host \/ UNCHANGED vars
  <2>1. CASE LegacyStart \/ LegacyEnd
    BY <2>1 DEF LegacyStart, LegacyEnd, TypeOK, outside
  <2>2. CASE \E v \in Versions : Update(v)
    BY <2>2, HostInterfaceAssumption DEF Update, Fault, TypeOK, systemd
  <2>3. CASE UNCHANGED vars
    BY <2>3 DEF vars, TypeOK, systemd, outside
  <2> QED
    BY <1>2, <2>1, <2>2, <2>3 DEF Host
<1> QED
  BY <1>1, <1>2, StepOf DEF TypeOK

-----------------------------------------------------------------------------
(* One step, conjunct by conjunct.                                         *)

(* A run begins with nothing done, and alone when nobody else runs.        *)
LEMMA BeginFrame ==
  ASSUME TypeOK, NEW p \in Refreshers, Begin(p)
  PROVE  /\ pc'[p] = IF p = "stage" THEN "looking" ELSE "checking"
         /\ run'[p].changed = {} /\ run'[p].removed = {}
         /\ run'[p].at = 1
         /\ p # "stage" => run'[p].retire
         /\ run'[p].alone =>
              \A q \in Refreshers \ {p} : pc[q] \notin Running
         /\ \A q \in Refreshers \ {p} : run'[q].alone => pc[q] \notin Running
         /\ UNCHANGED <<disk, loaded, timerReady, legacyTimer, legacyService,
                        torn>>
<1>1. pc'[p] = IF p = "stage" THEN "looking" ELSE "checking"
  BY DEF Begin, Goto, TypeOK
<1>2. /\ run'[p].changed = {} /\ run'[p].removed = {}
      /\ run'[p].at = 1
      /\ p # "stage" => run'[p].retire
      /\ run'[p].alone => \A q \in Refreshers \ {p} : pc[q] \notin Running
  BY DEF Begin, Fresh
<1>3. ASSUME NEW q \in Refreshers \ {p}, run'[q].alone
      PROVE  pc[q] \notin Running
  <2>1. run'[q] = [run[q] EXCEPT
                     !.alone = @ /\ q \notin {r \in Refreshers \ {p} :
                                                pc[r] \in Running}]
    BY DEF Begin
  <2>2. DOMAIN run[q] = DOMAIN Fresh(FALSE, image, TRUE)
    BY DEF TypeOK, Runs, Fresh
  <2> QED
    BY <1>3, <2>1, <2>2 DEF Fresh
<1>4. UNCHANGED <<disk, loaded, timerReady, legacyTimer, legacyService, torn>>
  BY DEF Begin, systemd
<1> QED
  BY <1>1, <1>2, <1>3, <1>4

(* Looking changes a position and, in the end, what is to be retired.      *)
LEMMA LookFrame ==
  ASSUME TypeOK, NEW p \in Refreshers, Look(p)
  PROVE  /\ pc[p] = "looking"
         /\ run'[p].packaged = run[p].packaged
         /\ run'[p].alone = run[p].alone
         /\ run'[p].changed = run[p].changed
         /\ run'[p].removed = run[p].removed
         /\ IF run[p].at = 1 /\ ~legacyService
              THEN pc'[p] = "looking" /\ run'[p].at = 2
              ELSE /\ pc'[p] = "checking" /\ run'[p].at = 1
                   /\ run'[p].retire => run[p].at = 2 /\ ~legacyTimer
<1>0. /\ DOMAIN pc = Refreshers /\ DOMAIN run = Refreshers
      /\ run[p] \in Runs
  BY DEF TypeOK
<1>1. CASE run[p].at = 1 /\ ~legacyService
  BY <1>0, <1>1 DEF Look, Note, Runs
<1>2. CASE ~(run[p].at = 1 /\ ~legacyService)
  <2>1. PICK r \in BOOLEAN : r = (run[p].at = 2 /\ ~legacyTimer)
    OBVIOUS
  <2>2. Note(p, [run[p] EXCEPT !.at = 1, !.retire = r])
    BY <1>2, <2>1 DEF Look
  <2>3. Goto(p, "checking") /\ pc[p] = "looking"
    BY <1>2 DEF Look
  <2>4. /\ run'[p].at = 1 /\ run'[p].retire = r
        /\ run'[p].packaged = run[p].packaged
        /\ run'[p].alone = run[p].alone
        /\ run'[p].changed = run[p].changed
        /\ run'[p].removed = run[p].removed
    BY <1>0, <2>2 DEF Note, Runs
  <2>5. pc'[p] = "checking"
    BY <1>0, <2>3 DEF Goto
  <2> QED
    BY <1>2, <2>1, <2>3, <2>4, <2>5
<1> QED
  BY <1>1, <1>2

(* Whoever runs after a step of its own ran before, on the same terms, and *)
(* past its preflight on the same plan.                                    *)
LEMMA OwnFrame ==
  ASSUME TypeOK, NEW p \in Refreshers, Acts(p), ~Begin(p),
         pc'[p] \in Running
  PROVE  /\ pc[p] \in Running
         /\ pc'[p] \in Past \/ Look(p) \/ Check(p)
         /\ run'[p].packaged = run[p].packaged
         /\ run'[p].alone = run[p].alone
         /\ run'[p].retire = run[p].retire \/ Look(p)
         /\ pc'[p] \in Past => /\ run'[p].retire = run[p].retire
                               /\ pc[p] \in Past \/ Preflight(p)
         /\ pc[p] \in Past => run'[p].snapshot = run[p].snapshot
<1> USE DEF Past, Changing, Final, Running
<1>0. /\ DOMAIN pc = Refreshers /\ DOMAIN run = Refreshers
      /\ run[p] \in Runs
  BY DEF TypeOK
<1>1. ASSUME NEW outcome \in Ended, End(p, outcome) PROVE FALSE
  BY <1>0, <1>1 DEF End, Goto, Ended
<1>14. CASE Look(p)
  <2>1. pc[p] = "looking" /\ pc'[p] \in {"looking", "checking"}
    BY <1>14, LookFrame
  <2> QED
    BY <1>14, <2>1, LookFrame
<1>15. CASE Check(p)
  <2>1. pc[p] = "checking" /\ pc'[p] = "checking"
    BY <1>15 DEF Check, Asking
  <2>2. /\ run'[p].packaged = run[p].packaged
        /\ run'[p].alone = run[p].alone /\ run'[p].retire = run[p].retire
    BY <1>0, <1>15 DEF Check, Note, Runs
  <2> QED
    BY <1>15, <2>1, <2>2
<1>2. CASE Preflight(p)
  BY <1>0, <1>2 DEF Preflight, Move, Goto, Note, Runs
<1>3. CASE CompareAsset(p)
  BY <1>0, <1>3 DEF CompareAsset, Goto, Note, Runs
<1>4. CASE WriteAsset(p)
  BY <1>0, <1>4 DEF WriteAsset, Move, Goto, Note, Runs
<1>5. CASE AssetsWritten(p) \/ AllRemoved(p)
  BY <1>0, <1>5 DEF AssetsWritten, AllRemoved, Move, Goto, Note, Runs
<1>6. CASE PassOver(p) \/ RemoveRetired(p)
  <2>1. CASE PassOver(p)
    BY <1>0, <2>1 DEF PassOver, Note, Runs
  <2>2. CASE RemoveRetired(p)
    BY <1>0, <2>2 DEF RemoveRetired, Note, Runs
  <2> QED
    BY <1>6, <2>1, <2>2
<1>7. CASE Reload(p)
  BY <1>0, <1>7 DEF Reload, Move, Goto
<1>8. ASSUME NEW order, RollBack(p, order)
      PROVE  /\ pc'[p] = "restoring"
             /\ run'[p] = [run[p] EXCEPT !.restore = order]
  BY <1>0, <1>1, <1>8 DEF RollBack, Goto, Note, Ended
<1>9. CASE ReloadFails(p)
  BY <1>0, <1>8, <1>9 DEF ReloadFails, Runs
<1>10. CASE RemoveFails(p)
  BY <1>0, <1>8, <1>10 DEF RemoveFails, Runs
<1>11. CASE RestoreFile(p)
  BY <1>0, <1>8, <1>11 DEF RestoreFile, Runs
<1>12. CASE Recheck(p)
  <2>1. /\ UNCHANGED run
        /\ Goto(p, IF p = "stage" THEN "switching" ELSE "enabling")
    BY <1>1, <1>12 DEF Recheck, Ended
  <2>2. pc'[p] \in {"switching", "enabling"}
    BY <1>0, <2>1 DEF Goto
  <2> QED
    BY <1>12, <2>1, <2>2 DEF Recheck
<1>13. CASE Refused(p) \/ DisableLegacyTimer(p) \/ EnableTimer(p) \/ Stop(p)
  BY <1>1, <1>13 DEF Refused, DisableLegacyTimer, EnableTimer, Stop, Ended
<1> QED
  BY <1>2, <1>3, <1>4, <1>5, <1>6, <1>7, <1>9, <1>10, <1>11, <1>12, <1>13,
     <1>14, <1>15 DEF Acts, Progress

(* Which steps lead where.                                                 *)
LEMMA Arrival ==
  ASSUME TypeOK, NEW p \in Refreshers, Acts(p), ~Begin(p)
  PROVE  /\ pc'[p] = "looking" => Look(p)
         /\ pc'[p] = "checking" => Look(p) \/ Check(p)
         /\ pc'[p] = "writing" =>
              Preflight(p) \/ CompareAsset(p) \/ WriteAsset(p)
         /\ pc'[p] = "replacing" => CompareAsset(p)
         /\ pc'[p] = "removing" =>
              AssetsWritten(p) \/ PassOver(p) \/ RemoveRetired(p)
         /\ pc'[p] = "reloading" => AllRemoved(p)
         /\ pc'[p] = "rechecking" => AllRemoved(p) \/ Reload(p)
         /\ pc'[p] = "restoring" =>
              ReloadFails(p) \/ RemoveFails(p) \/ RestoreFile(p)
         /\ pc'[p] \in {"switching", "enabling"} =>
              /\ Recheck(p) /\ UNCHANGED run
              /\ pc'[p] = IF p = "stage" THEN "switching" ELSE "enabling"
         /\ pc'[p] = "ok" =>
              Recheck(p) \/ DisableLegacyTimer(p) \/ EnableTimer(p)
<1>0. DOMAIN pc = Refreshers
  BY DEF TypeOK
<1>1. ASSUME NEW outcome, End(p, outcome) PROVE pc'[p] = outcome
  BY <1>0, <1>1 DEF End, Goto
<1>10. CASE Look(p) \/ Check(p)
  <2>1. pc'[p] \in {"looking", "checking"} /\ (Check(p) => pc'[p] = "checking")
    BY <1>0, <1>10 DEF Look, Check, Asking, Goto
  <2> QED
    BY <1>10, <2>1
<1>2. CASE Preflight(p) \/ CompareAsset(p) \/ WriteAsset(p)
  BY <1>0, <1>2 DEF Preflight, CompareAsset, WriteAsset, Move, Goto
<1>3. CASE AssetsWritten(p) \/ PassOver(p) \/ RemoveRetired(p)
  BY <1>0, <1>3 DEF AssetsWritten, PassOver, RemoveRetired, Move, Goto
<1>4. CASE AllRemoved(p) \/ Reload(p)
  BY <1>0, <1>4 DEF AllRemoved, Reload, Move, Goto
<1>5. ASSUME NEW order, RollBack(p, order)
      PROVE  pc'[p] \in {"failed", "restoring"}
  BY <1>0, <1>1, <1>5 DEF RollBack, Goto
<1>6. CASE ReloadFails(p) \/ RemoveFails(p) \/ RestoreFile(p)
  <2>1. pc'[p] \in {"failed", "restoring"}
    BY <1>5, <1>6 DEF ReloadFails, RemoveFails, RestoreFile
  <2> QED
    BY <1>6, <2>1
<1>7. CASE Recheck(p)
  <2>1. CASE End(p, "ok")
    BY <1>1, <1>7, <2>1
  <2>2. CASE UNCHANGED run
             /\ Goto(p, IF p = "stage" THEN "switching" ELSE "enabling")
    <3>1. pc'[p] = IF p = "stage" THEN "switching" ELSE "enabling"
      BY <1>0, <2>2 DEF Goto
    <3> QED
      BY <1>7, <2>2, <3>1
  <2> QED
    BY <1>7, <2>1, <2>2 DEF Recheck
<1>8. CASE DisableLegacyTimer(p) \/ EnableTimer(p)
  <2>1. pc'[p] = "ok"
    BY <1>1, <1>8 DEF DisableLegacyTimer, EnableTimer
  <2> QED
    BY <1>8, <2>1
<1>9. CASE Refused(p) \/ Stop(p)
  <2>1. pc'[p] = "failed"
    BY <1>1, <1>9 DEF Refused, Stop
  <2> QED
    BY <2>1
<1> QED
  BY <1>2, <1>3, <1>4, <1>6, <1>7, <1>8, <1>9, <1>10 DEF Acts, Progress

(* Asking for V2 once its timer is off, or again after it, is asking for   *)
(* good.                                                                   *)
LEMMA Answered ==
  ASSUME TypeOK, QueryInv, NEW p \in Refreshers, Preflight(p)
  PROVE  /\ p = "stage" => timerReady
         /\ run[p].retire \/ p # "stage" =>
              ~legacyTimer /\ (p # "refresh" => ~legacyService)
<1>1. /\ pc[p] = "checking" /\ ~(run[p].at <= Len(Queries(p)))
      /\ run[p].at \in Nat /\ Established(p)
      /\ p \in {"stage", "bootstrap", "refresh"}
      /\ run[p].retire \in BOOLEAN
  BY HostInterfaceAssumption
  DEF Preflight, Move, Asking, TypeOK, Runs, QueryInv
<1>2. CASE p = "stage"
  <2>1. ASSUME run[p].retire PROVE run[p].at >= 2
    <3>1. Len(Queries(p)) = 3
      BY <1>2, <2>1 DEF Queries
    <3> QED
      BY <1>1, <3>1
  <2>3. ASSUME ~run[p].retire PROVE run[p].at >= 2
    <3>1. Len(Queries(p)) = 1
      BY <1>2, <2>3 DEF Queries
    <3> QED
      BY <1>1, <3>1
  <2>2. run[p].at >= 2
    BY <2>1, <2>3
  <2> QED
    BY <1>1, <1>2, <2>2 DEF Established, LegacyActive
<1>3. CASE p = "bootstrap"
  <2>1. Len(Queries(p)) = 4
    BY <1>3 DEF Queries
  <2>2. run[p].at >= 3
    BY <1>1, <2>1
  <2> QED
    BY <1>1, <1>3, <2>2 DEF Established
<1>4. CASE p = "refresh"
  <2>1. Len(Queries(p)) = 2
    BY <1>4 DEF Queries
  <2>2. run[p].at >= 3
    BY <1>1, <2>1
  <2> QED
    BY <1>1, <1>4, <2>2 DEF Established
<1> QED
  BY <1>1, <1>2, <1>3, <1>4

(* V2, found inactive, stays inactive.                                     *)
LEMMA RetireInvStep ==
  ASSUME TypeOK, RetireInv, QueryInv, [Next]_vars PROVE RetireInv'
<1>1. ASSUME NEW p \in Refreshers, Acts(p) PROVE RetireInv'
  <2> SUFFICES ASSUME NEW q \in Refreshers, pc'[q] \in Past, run'[q].retire
               PROVE  ~legacyTimer' /\ (q # "refresh" => ~legacyService')
    BY DEF RetireInv
  <2>0. (legacyTimer' => legacyTimer) /\ legacyService' = legacyService
    BY <1>1, OthersFrame
  <2>1. CASE q # p
    <3>1. SameRun(q)
      BY <1>1, <2>1, OthersFrame
    <3> QED
      BY <2>0, <3>1 DEF SameRun, RetireInv
  <2>2. CASE q = p
    <3>1. ~Begin(p) /\ pc'[p] \in Running
      BY <2>2, BeginFrame DEF Past, Changing, Final, Running
    <3>2. run[p].retire /\ (pc[p] \in Past \/ Preflight(p))
      BY <1>1, <2>2, <3>1, OwnFrame
    <3>3. CASE pc[p] \in Past
      BY <2>0, <2>2, <3>2, <3>3 DEF RetireInv
    <3>4. CASE Preflight(p)
      BY <2>0, <2>2, <3>2, <3>4, Answered
    <3> QED
      BY <3>2, <3>3, <3>4
  <2> QED
    BY <2>1, <2>2
<1>2. CASE Host \/ UNCHANGED vars
  BY <1>2, HostFrame DEF RetireInv, LegacyActive
<1> QED
  BY <1>1, <1>2, StepOf

(* One answer of a preflight.                                              *)
LEMMA OwnAnswer ==
  ASSUME TypeOK, QueryInv, PlanInv, NEW p \in Refreshers,
         Look(p) \/ Check(p)
  PROVE  Established(p)'
<1>1. /\ DOMAIN run = Refreshers /\ DOMAIN pc = Refreshers
      /\ run[p] \in Runs /\ PlanOf(p) /\ Established(p)
      /\ p \in {"stage", "bootstrap", "refresh"}
      /\ legacyTimer \in BOOLEAN /\ legacyService \in BOOLEAN
  BY HostInterfaceAssumption DEF TypeOK, PlanInv, QueryInv
<1>2. CASE Look(p)
  <2>1. /\ p = "stage" /\ pc[p] = "looking" /\ run[p].at \in {1, 2}
        /\ UNCHANGED <<timerReady, legacyTimer, legacyService>>
    BY <1>1, <1>2 DEF Look, PlanOf, Established, systemd
  <2>2. CASE run[p].at = 1 /\ ~legacyService
    <3>1. pc'[p] = "looking" /\ run'[p].at = 2
      BY <1>2, <2>2, LookFrame
    <3> QED
      BY <2>1, <2>2, <3>1 DEF Established
  <2>3. CASE ~(run[p].at = 1 /\ ~legacyService)
    <3>1. /\ pc'[p] = "checking" /\ run'[p].at = 1
          /\ run'[p].retire => run[p].at = 2 /\ ~legacyTimer
      BY <1>2, <2>3, LookFrame
    <3>2. run[p].at = 2 /\ legacyService => legacyTimer
      BY <1>1, <2>1 DEF Established
    <3> QED
      BY <2>1, <3>1, <3>2 DEF Established, LegacyActive
  <2> QED
    BY <2>2, <2>3
<1>3. CASE Check(p)
  <2>1. /\ pc[p] = "checking" /\ pc'[p] = "checking"
        /\ run'[p].at = run[p].at + 1 /\ run'[p].retire = run[p].retire
        /\ run[p].at \in Nat /\ run[p].at >= 1
        /\ UNCHANGED <<timerReady, legacyTimer, legacyService>>
    BY <1>1, <1>3 DEF Check, Asking, Note, Runs, PlanOf, systemd
  <2>2. Answers(Queries(p)[run[p].at])
    BY <1>3 DEF Check
  <2>3. CASE p = "stage"
    <3>1. Queries(p)[1] = "canonical"
      BY <1>1, <2>3 DEF Queries, Runs
    <3>2. run[p].at = 1 => timerReady
      BY <2>2, <3>1 DEF Answers
    <3>3. run[p].at = 1 \/ run[p].at >= 2
      BY <2>1
    <3> QED
      BY <1>1, <2>1, <2>3, <3>2, <3>3 DEF Established, LegacyActive
  <2>4. CASE p = "bootstrap"
    <3>1. Queries(p)[1] = "timer" /\ Queries(p)[2] = "service"
      BY <2>4 DEF Queries
    <3>2. /\ run[p].at = 1 => ~legacyTimer
          /\ run[p].at = 2 => ~legacyService
      BY <2>2, <3>1 DEF Answers
    <3>3. run[p].at = 1 \/ run[p].at = 2 \/ run[p].at >= 3
      BY <2>1
    <3> QED
      BY <1>1, <2>1, <2>4, <3>2, <3>3 DEF Established
  <2>5. CASE p = "refresh"
    <3>1. Queries(p)[2] = "timer"
      BY <2>5 DEF Queries
    <3>2. run[p].at = 2 => ~legacyTimer
      BY <2>2, <3>1 DEF Answers
    <3>3. run[p].at = 1 \/ run[p].at = 2 \/ run[p].at >= 3
      BY <2>1
    <3> QED
      BY <1>1, <2>1, <2>5, <3>2, <3>3 DEF Established
  <2> QED
    BY <1>1, <2>3, <2>4, <2>5
<1> QED
  BY <1>2, <1>3

(* What was established stays so, whoever else acts: only stage switches   *)
(* V2's timer off, and only that timer starts V2.                          *)
LEMMA QueryInvStep ==
  ASSUME TypeOK, QueryInv, PlanInv, [Next]_vars PROVE QueryInv'
<1>0. \A q \in Refreshers : run[q].at \in Nat
  BY DEF TypeOK, Runs
<1>1. ASSUME NEW p \in Refreshers, Acts(p) PROVE QueryInv'
  <2> SUFFICES ASSUME NEW q \in Refreshers PROVE Established(q)'
    BY DEF QueryInv
  <2>0. /\ timerReady => timerReady'
        /\ legacyTimer' => legacyTimer
        /\ legacyService' = legacyService
        /\ pc[p] # "switching" => legacyTimer' = legacyTimer
    BY <1>1, OthersFrame
  <2>1. CASE q # p
    <3>1. SameRun(q)
      BY <1>1, <2>1, OthersFrame
    <3>2. CASE pc[q] = "looking"
      <4>1. q = "stage" /\ pc[p] # "switching"
        BY <2>1, <3>2 DEF PlanInv, PlanOf
      <4> QED
        BY <2>0, <3>1, <3>2, <4>1
        DEF QueryInv, Established, SameRun, LegacyActive
    <3>3. CASE pc[q] = "checking"
      <4>1. q \in {"stage", "bootstrap", "refresh"}
        BY HostInterfaceAssumption
      <4> QED
        BY <2>0, <3>1, <3>3, <4>1
        DEF QueryInv, Established, SameRun, LegacyActive
    <3> QED
      BY <3>1, <3>2, <3>3 DEF SameRun, Established
  <2>2. CASE q = p /\ Begin(p)
    <3>1. /\ pc'[p] = IF p = "stage" THEN "looking" ELSE "checking"
          /\ run'[p].at = 1
      BY <2>2, BeginFrame
    <3>2. CASE p = "stage"
      BY <2>2, <3>1, <3>2 DEF Established
    <3>3. CASE p = "bootstrap"
      BY <2>2, <3>1, <3>3 DEF Established
    <3>4. CASE p = "refresh"
      BY <2>2, <3>1, <3>4 DEF Established
    <3> QED
      BY <3>2, <3>3, <3>4, HostInterfaceAssumption
  <2>3. CASE q = p /\ ~Begin(p)
    <3>1. CASE Look(p) \/ Check(p)
      BY <2>3, <3>1, OwnAnswer
    <3>2. CASE ~Look(p) /\ ~Check(p)
      <4>1. pc'[p] # "looking" /\ pc'[p] # "checking"
        BY <1>1, <2>3, <3>2, Arrival
      <4> QED
        BY <2>3, <4>1 DEF Established
    <3> QED
      BY <3>1, <3>2
  <2> QED
    BY <2>1, <2>2, <2>3
<1>2. CASE Host \/ UNCHANGED vars
  <2> SUFFICES ASSUME NEW q \in Refreshers PROVE Established(q)'
    BY DEF QueryInv
  <2>1. /\ UNCHANGED <<timerReady, legacyTimer, pc, run>>
        /\ legacyService' => LegacyActive
        /\ q \in {"stage", "bootstrap", "refresh"} /\ Established(q)
        /\ run[q].at \in Nat
    BY <1>0, <1>2, HostFrame, HostInterfaceAssumption DEF QueryInv
  <2>2. CASE pc[q] = "looking"
    BY <2>1, <2>2 DEF Established, LegacyActive
  <2>3. CASE pc[q] = "checking"
    <3>1. CASE q = "stage"
      BY <2>1, <2>3, <3>1 DEF Established, LegacyActive
    <3>2. CASE q = "bootstrap"
      BY <2>1, <2>3, <3>2 DEF Established, LegacyActive
    <3>3. CASE q = "refresh"
      BY <2>1, <2>3, <3>3 DEF Established, LegacyActive
    <3> QED
      BY <2>1, <3>1, <3>2, <3>3
  <2> QED
    BY <2>1, <2>2, <2>3 DEF Established
<1> QED
  BY <1>1, <1>2, StepOf

(* Whoever begins beside a run ends its being alone.                       *)
LEMMA AloneInvStep ==
  ASSUME TypeOK, AloneInv, [Next]_vars PROVE AloneInv'
<1>1. ASSUME NEW p \in Refreshers, Acts(p) PROVE AloneInv'
  <2> SUFFICES ASSUME NEW q \in Refreshers, pc'[q] \in Running, run'[q].alone,
                      NEW r \in Refreshers \ {q}
               PROVE  pc'[r] \notin Running
    BY DEF AloneInv
  <2>0. \A o \in Refreshers \ {p} : SameRun(o)
    BY <1>1, OthersFrame
  <2>1. CASE Begin(p)
    <3>1. CASE q = p
      BY <2>0, <2>1, <3>1, BeginFrame DEF SameRun
    <3>2. CASE q # p
      BY <2>0, <2>1, <3>2, BeginFrame DEF SameRun
    <3> QED
      BY <3>1, <3>2
  <2>2. CASE ~Begin(p)
    <3>1. /\ pc[q] \in Running /\ run[q].alone
          /\ pc'[r] \in Running => pc[r] \in Running
      BY <1>1, <2>0, <2>2, OwnFrame DEF SameRun
    <3> QED
      BY <3>1 DEF AloneInv
  <2> QED
    BY <2>1, <2>2
<1>2. CASE Host \/ UNCHANGED vars
  BY <1>2, HostFrame DEF AloneInv
<1> QED
  BY <1>1, <1>2, StepOf

(* What a run does keeps its plan.                                         *)
LEMMA OwnPlan ==
  ASSUME TypeOK, PlanInv, NEW p \in Refreshers, Acts(p)
  PROVE  PlanOf(p)'
<1> USE DEF Past, Changing, Final, Running, Ended
<1>0. /\ DOMAIN pc = Refreshers /\ DOMAIN run = Refreshers
      /\ run[p] \in Runs /\ PlanOf(p)
  BY DEF TypeOK, PlanInv
<1>1. ASSUME NEW outcome \in Ended, End(p, outcome) PROVE PlanOf(p)'
  BY <1>1, EndTyped DEF PlanOf
<1>2. CASE Begin(p)
  BY <1>2, BeginFrame DEF PlanOf
<1>17. CASE Look(p)
  <2>1. /\ pc[p] = "looking" /\ pc'[p] \in {"looking", "checking"}
        /\ run'[p].at \in {1, 2}
        /\ run'[p].changed = run[p].changed
        /\ run'[p].removed = run[p].removed
    BY <1>17, LookFrame
  <2> QED
    BY <1>0, <2>1 DEF PlanOf
<1>18. CASE Check(p)
  <2>1. /\ pc[p] = "checking" /\ pc'[p] = "checking"
        /\ run'[p].at = run[p].at + 1 /\ run'[p].retire = run[p].retire
        /\ run'[p].changed = run[p].changed
        /\ run'[p].removed = run[p].removed
    BY <1>0, <1>18 DEF Check, Asking, Note, Runs
  <2> QED
    BY <1>0, <2>1 DEF PlanOf, Runs
<1>3. CASE Preflight(p)
  BY <1>0, <1>3 DEF Preflight, Move, Goto, Note, Runs, PlanOf
<1>4. CASE CompareAsset(p)
  <2>1. CASE UNCHANGED pc /\ Note(p, [run[p] EXCEPT !.at = @ + 1])
    BY <1>0, <1>4, <2>1 DEF CompareAsset, Note, Runs, PlanOf
  <2>2. CASE UNCHANGED run /\ Goto(p, "replacing")
    BY <1>0, <1>4, <2>2 DEF CompareAsset, Goto, PlanOf
  <2> QED
    BY <1>4, <2>1, <2>2 DEF CompareAsset
<1>5. CASE WriteAsset(p)
  BY <1>0, <1>5 DEF WriteAsset, Move, Goto, Note, Runs, PlanOf
<1>6. CASE AssetsWritten(p)
  BY <1>0, <1>6 DEF AssetsWritten, Move, Goto, Note, Runs, PlanOf
<1>7. CASE PassOver(p)
  BY <1>0, <1>7 DEF PassOver, Note, Runs, PlanOf
<1>8. CASE RemoveRetired(p)
  BY <1>0, <1>8 DEF RemoveRetired, ToRemove, Note, Runs, PlanOf
<1>9. CASE AllRemoved(p)
  BY <1>0, <1>9 DEF AllRemoved, Move, Goto, PlanOf
<1>10. CASE Reload(p)
  BY <1>0, <1>10 DEF Reload, Move, Goto, PlanOf
<1>11. ASSUME NEW order, RollBack(p, order), pc[p] \in Running,
              run[p].removed # {} => run[p].retire,
              \A s \in order : s.file \in RetiredFiles => run[p].retire
       PROVE  PlanOf(p)'
  <2>1. CASE End(p, "failed")
    BY <1>1, <2>1
  <2>2. CASE /\ order # {} /\ Goto(p, "restoring")
             /\ Note(p, [run[p] EXCEPT !.restore = order])
    <3>1. /\ pc'[p] = "restoring" /\ run'[p].restore = order
          /\ run'[p].retire = run[p].retire /\ run'[p].removed = run[p].removed
      BY <1>0, <2>2 DEF Goto, Note, Runs
    <3> QED
      BY <1>0, <1>11, <2>2, <3>1 DEF PlanOf
  <2> QED
    BY <1>11, <2>1, <2>2 DEF RollBack
<1>12. CASE ReloadFails(p)
  BY <1>0, <1>11, <1>12, Orders DEF ReloadFails, PlanOf
<1>13. CASE RemoveFails(p)
  BY <1>0, <1>11, <1>13 DEF RemoveFails, ToRemove, PlanOf
<1>14. CASE RestoreFile(p)
  <2>1. PICK next \in run[p].restore : RollBack(p, run[p].restore \ {next})
    BY <1>14 DEF RestoreFile
  <2> QED
    BY <1>0, <1>11, <1>14, <2>1 DEF RestoreFile, PlanOf
<1>15. CASE Recheck(p)
  <2>1. CASE UNCHANGED run
             /\ Goto(p, IF p = "stage" THEN "switching" ELSE "enabling")
    BY <1>0, <1>15, <2>1 DEF Recheck, Goto, PlanOf
  <2> QED
    BY <1>1, <1>15, <2>1 DEF Recheck
<1>16. CASE Refused(p) \/ DisableLegacyTimer(p) \/ EnableTimer(p) \/ Stop(p)
  BY <1>1, <1>16 DEF Refused, DisableLegacyTimer, EnableTimer, Stop
<1> QED
  BY <1>2, <1>3, <1>4, <1>5, <1>6, <1>7, <1>8, <1>9, <1>10, <1>12, <1>13,
     <1>14, <1>15, <1>16, <1>17, <1>18 DEF Acts, Progress

(* Every step keeps the plans.                                             *)
LEMMA PlanInvStep ==
  ASSUME TypeOK, QueryInv, PlanInv, [Next]_vars PROVE PlanInv'
<1>1. ASSUME NEW p \in Refreshers, Acts(p) PROVE PlanInv'
  <2>0. /\ \A q \in Refreshers \ {p} : SameRun(q)
        /\ timerReady => timerReady'
    BY <1>1, OthersFrame
  <2>1. ASSUME NEW q \in Refreshers PROVE PlanOf(q)'
    <3>1. CASE q = p
      BY <1>1, <3>1, OwnPlan
    <3>2. CASE q # p
      BY <2>0, <3>2 DEF SameRun, PlanInv, PlanOf
    <3> QED
      BY <3>1, <3>2
  <2>2. pc'["stage"] \in Past => timerReady'
    <3>1. CASE p # "stage"
      BY <2>0, <3>1, HostInterfaceAssumption DEF SameRun, PlanInv
    <3>2. CASE p = "stage" /\ pc'[p] \in Past
      <4>1. ~Begin(p) /\ pc'[p] \in Running
        BY <3>2, BeginFrame DEF Past, Changing, Final, Running
      <4>2. pc[p] \in Past \/ Preflight(p)
        BY <1>1, <3>2, <4>1, OwnFrame
      <4> QED
        BY <2>0, <3>2, <4>2, Answered DEF PlanInv
    <3> QED
      BY <3>1, <3>2
  <2> QED
    BY <2>1, <2>2 DEF PlanInv
<1>2. CASE Host \/ UNCHANGED vars
  BY <1>2, HostFrame DEF PlanInv, PlanOf
<1> QED
  BY <1>1, <1>2, StepOf

(* A run that has the files to itself finds them as it left them.          *)
LEMMA Undisturbed ==
  ASSUME TypeOK, RetireInv, PlanInv, AloneInv,
         NEW p \in Refreshers, Acts(p), NEW q \in Refreshers \ {p},
         pc'[q] \in Running, Sole(q)'
  PROVE  Sole(q) /\ SameRun(q) /\ pc[p] \notin Past
         /\ disk' = disk /\ loaded' = loaded
<1>1. SameRun(q) /\ (legacyTimer' => legacyTimer)
  BY OthersFrame
<1>2. Sole(q)
  BY <1>1 DEF Sole, SameRun
<1>3. pc[p] \notin Past
  <2>1. CASE run[q].alone
    BY <1>1, <2>1 DEF AloneInv, SameRun, Past, Changing, Final, Running
  <2>2. CASE q = "stage" /\ legacyTimer
    <3>1. pc[p] \in Past => run[p].retire
      BY <2>2 DEF PlanInv, PlanOf, Past, Changing, Final, Running
    <3> QED
      BY <2>2, <3>1 DEF RetireInv
  <2> QED
    BY <1>2, <2>1, <2>2 DEF Sole
<1> QED
  BY <1>1, <1>2, <1>3, OthersFrame

(* A step of its own that changes a file.                                  *)
LEMMA Touched ==
  ASSUME TypeOK, PlanInv, NEW p \in Refreshers, Acts(p), ~Begin(p)
  PROVE  /\ WriteAsset(p) =>
              /\ Assets[run[p].at] \in AssetFiles
              /\ disk' = [disk EXCEPT ![Assets[run[p].at]] = run[p].packaged]
              /\ run'[p].at = run[p].at + 1
              /\ run'[p].changed = run[p].changed \union {Assets[run[p].at]}
              /\ run'[p].removed = run[p].removed
         /\ RemoveRetired(p) =>
              /\ run[p].at \in 1..Len(Retired)
              /\ run[p].retire
              /\ Retired[run[p].at] \in RetiredFiles
              /\ disk' = [disk EXCEPT ![Retired[run[p].at]] = Absent]
              /\ run'[p].at = run[p].at + 1
              /\ run'[p].changed = run[p].changed
              /\ run'[p].removed = run[p].removed \union {Retired[run[p].at]}
         /\ ~WriteAsset(p) /\ ~RemoveRetired(p) /\ ~RestoreFile(p) =>
              disk' = disk
<1>0. /\ DOMAIN run = Refreshers /\ run[p] \in Runs /\ PlanOf(p)
  BY DEF TypeOK, PlanInv
<1>1. ASSUME WriteAsset(p)
      PROVE  /\ Assets[run[p].at] \in AssetFiles
             /\ disk' = [disk EXCEPT ![Assets[run[p].at]] = run[p].packaged]
             /\ run'[p].at = run[p].at + 1
             /\ run'[p].changed = run[p].changed \union {Assets[run[p].at]}
             /\ run'[p].removed = run[p].removed
  <2>1. Assets[run[p].at] \in AssetFiles
    BY <1>0, <1>1, Positions DEF WriteAsset, Move, PlanOf, Runs
  <2> QED
    BY <1>0, <1>1, <2>1 DEF WriteAsset, Note, Runs
<1>2. ASSUME RemoveRetired(p)
      PROVE  /\ run[p].at \in 1..Len(Retired)
             /\ run[p].retire
             /\ Retired[run[p].at] \in RetiredFiles
             /\ disk' = [disk EXCEPT ![Retired[run[p].at]] = Absent]
             /\ run'[p].at = run[p].at + 1
             /\ run'[p].changed = run[p].changed
             /\ run'[p].removed = run[p].removed \union {Retired[run[p].at]}
  <2>1. run[p].at \in 1..Len(Retired)
    BY <1>0, <1>2, Positions DEF RemoveRetired, PlanOf, Runs
  <2>2. run[p].retire /\ Retired[run[p].at] \in RetiredFiles
    BY <1>2 DEF RemoveRetired, ToRemove
  <2> QED
    BY <1>0, <1>2, <2>1, <2>2 DEF RemoveRetired, Note, Runs
<1>3. ASSUME ~WriteAsset(p), ~RemoveRetired(p), ~RestoreFile(p)
      PROVE  disk' = disk
  <2>1. CASE \/ Look(p) \/ Check(p) \/ Preflight(p) \/ Refused(p)
             \/ CompareAsset(p) \/ AssetsWritten(p)
    BY <2>1 DEF Look, Check, Preflight, Refused, CompareAsset, AssetsWritten
  <2>2. CASE PassOver(p) \/ AllRemoved(p) \/ Reload(p) \/ Recheck(p)
    BY <2>2 DEF PassOver, AllRemoved, Reload, Recheck
  <2>3. CASE \/ DisableLegacyTimer(p) \/ EnableTimer(p) \/ RemoveFails(p)
             \/ ReloadFails(p) \/ Stop(p)
    BY <2>3 DEF DisableLegacyTimer, EnableTimer, RemoveFails, ReloadFails, Stop
  <2> QED
    BY <1>3, <2>1, <2>2, <2>3 DEF Acts, Progress
<1> QED
  BY <1>1, <1>2, <1>3

(* The assets that a run has been through stay as packaged.                *)
LEMMA AssetsInvStep ==
  ASSUME TypeOK, RetireInv, PlanInv, AloneInv, AssetsInv, [Next]_vars
  PROVE  AssetsInv'
<1> USE DEF Past, Changing, Final
<1>1. ASSUME NEW p \in Refreshers, Acts(p) PROVE AssetsInv'
  <2> SUFFICES ASSUME NEW q \in Refreshers, Sole(q)'
               PROVE  /\ pc'[q] \in {"writing", "replacing"} =>
                           \A i \in 1..Len(Assets) :
                             i < run'[q].at =>
                               disk'[Assets[i]] = run'[q].packaged
                      /\ pc'[q] \in {"removing", "reloading"} \union Final =>
                           \A f \in AssetFiles : disk'[f] = run'[q].packaged
    BY DEF AssetsInv
  <2>1. CASE q # p
    <3>1. CASE pc'[q] \in Running
      BY <1>1, <2>1, <3>1, Undisturbed DEF AssetsInv, SameRun
    <3> QED
      BY <3>1 DEF Running
  <2>2. CASE q = p /\ pc'[p] \in Past \ {"restoring"}
    <3>1. ~Begin(p) /\ pc'[p] \in Running
      BY <2>2, BeginFrame DEF Running
    <3>2. Sole(p) /\ run'[p].packaged = run[p].packaged
      BY <1>1, <2>2, <3>1, OthersFrame, OwnFrame DEF Sole
    <3>3. /\ run[p] \in Runs
          /\ DOMAIN run = Refreshers /\ DOMAIN pc = Refreshers
          /\ PlanOf(p) /\ disk \in [Files -> Contents]
          /\ \A f \in AssetFiles : f \in Files /\ f \notin RetiredFiles
      BY HostInterfaceAssumption DEF TypeOK, PlanInv, Files
    <3>4. CASE pc'[p] = "writing" /\ Preflight(p)
      <4>1. run'[p].at = 1
        BY <3>3, <3>4 DEF Preflight, Note, Runs
      <4> QED
        BY <2>2, <3>4, <4>1, Positions
    <3>5. CASE CompareAsset(p)
      <4>1. disk' = disk /\ pc[p] = "writing"
        BY <3>5 DEF CompareAsset
      <4>2. CASE UNCHANGED run /\ Goto(p, "replacing")
        <5>1. pc'[p] = "replacing"
          BY <3>3, <4>2 DEF Goto
        <5> QED
          BY <2>2, <3>2, <4>1, <4>2, <5>1 DEF AssetsInv
      <4>3. CASE Packaged(p, Assets[run[p].at]) /\ UNCHANGED pc
                 /\ Note(p, [run[p] EXCEPT !.at = @ + 1])
        <5>1. run'[p].at = run[p].at + 1 /\ run[p].at \in Nat
          BY <3>3, <4>3 DEF Note, Runs
        <5>2. ASSUME NEW i \in 1..Len(Assets), i < run'[p].at
              PROVE  disk'[Assets[i]] = run'[p].packaged
          <6>1. i < run[p].at \/ i = run[p].at
            BY <5>1, <5>2, Positions
          <6> QED
            BY <3>2, <4>1, <4>3, <6>1 DEF AssetsInv, Packaged
        <5> QED
          BY <2>2, <4>1, <4>3, <5>2
      <4> QED
        BY <3>5, <4>2, <4>3 DEF CompareAsset
    <3>6. CASE WriteAsset(p)
      <4> DEFINE f == Assets[run[p].at]
      <4>1. /\ f \in AssetFiles /\ run'[p].at = run[p].at + 1
            /\ disk' = [disk EXCEPT ![f] = run[p].packaged]
            /\ pc[p] = "replacing" /\ pc'[p] = "writing" /\ run[p].at \in Nat
        BY <1>1, <3>1, <3>3, <3>6, Touched DEF WriteAsset, Move, Goto, Runs
      <4>2. ASSUME NEW i \in 1..Len(Assets), i < run'[p].at
            PROVE  disk'[Assets[i]] = run'[p].packaged
        <5>1. i < run[p].at \/ i = run[p].at
          BY <4>1, <4>2, Positions
        <5>2. i < run[p].at => disk[Assets[i]] = run[p].packaged
          BY <3>2, <4>1 DEF AssetsInv
        <5>3. Assets[i] \in Files
          BY <3>3, Positions
        <5> QED
          BY <3>2, <3>3, <4>1, <5>1, <5>2, <5>3
      <4> QED
        BY <2>2, <4>1, <4>2
    <3>7. CASE AssetsWritten(p)
      <4>1. disk' = disk /\ pc[p] = "writing" /\ run[p].at > Len(Assets)
            /\ pc'[p] = "removing"
        BY <3>3, <3>7 DEF AssetsWritten, Move, Goto
      <4>2. ASSUME NEW f \in AssetFiles PROVE disk[f] = run[p].packaged
        <5>1. PICK i \in 1..Len(Assets) : f = Assets[i]
          BY Positions
        <5>2. i < run[p].at
          BY <3>3, <4>1, Positions DEF Runs
        <5> QED
          BY <3>2, <4>1, <5>1, <5>2 DEF AssetsInv
      <4> QED
        BY <2>2, <3>2, <4>1, <4>2
    <3>8. CASE RemoveRetired(p)
      <4>1. /\ pc[p] = "removing" /\ pc'[p] = "removing"
            /\ \A f \in AssetFiles : disk'[f] = disk[f]
        BY <1>1, <3>1, <3>3, <3>8, Touched DEF RemoveRetired
      <4> QED
        BY <2>2, <3>2, <4>1 DEF AssetsInv
    <3>9. CASE PassOver(p) \/ AllRemoved(p) \/ Reload(p) \/ Recheck(p)
      <4>1. /\ disk' = disk
            /\ pc[p] \in {"removing", "reloading", "rechecking"}
            /\ pc'[p] \in {"removing", "reloading"} \union Final
        <5>1. CASE PassOver(p)
          BY <3>3, <5>1 DEF PassOver
        <5>2. CASE AllRemoved(p)
          BY <3>3, <5>2 DEF AllRemoved, Move, Goto
        <5>3. CASE Reload(p)
          BY <3>3, <5>3 DEF Reload, Move, Goto
        <5>4. CASE Recheck(p)
          <6>1. pc[p] = "rechecking" /\ disk' = disk
            BY <5>4 DEF Recheck
          <6>2. pc'[p] \in {"ok", "switching", "enabling"}
            BY <3>3, <5>4 DEF Recheck, End, Goto
          <6> QED
            BY <2>2, <6>1, <6>2
        <5> QED
          BY <3>9, <5>1, <5>2, <5>3, <5>4
      <4> QED
        BY <2>2, <3>2, <4>1 DEF AssetsInv
    <3> QED
      BY <1>1, <2>2, <3>1, <3>4, <3>5, <3>6, <3>7, <3>8, <3>9, Arrival
  <2> QED
    BY <2>1, <2>2
<1>2. CASE Host \/ UNCHANGED vars
  BY <1>2, HostFrame DEF AssetsInv, Sole
<1> QED
  BY <1>1, <1>2, StepOf

(* A run that is alone finds V2's files as it left them.                   *)
LEMMA RetiredInvStep ==
  ASSUME TypeOK, RetireInv, PlanInv, AloneInv, RetiredInv, [Next]_vars
  PROVE  RetiredInv'
<1> USE DEF Past, Changing, Final
<1>1. ASSUME NEW p \in Refreshers, Acts(p) PROVE RetiredInv'
  <2> SUFFICES ASSUME NEW q \in Refreshers, run'[q].alone
               PROVE  /\ pc'[q] \in {"writing", "replacing"} =>
                           \A f \in RetiredFiles :
                             disk'[f] = run'[q].snapshot[f]
                      /\ pc'[q] = "removing" =>
                           \A i \in 1..Len(Retired) :
                             disk'[Retired[i]] =
                               IF i < run'[q].at /\ run'[q].retire THEN Absent
                                 ELSE run'[q].snapshot[Retired[i]]
                      /\ pc'[q] \in {"reloading"} \union Final
                           /\ run'[q].retire =>
                             \A f \in RetiredFiles : disk'[f] = Absent
    BY DEF RetiredInv
  <2>1. CASE q # p
    <3>1. CASE pc'[q] \in Running
      <4>1. disk' = disk /\ SameRun(q)
        BY <1>1, <2>1, <3>1, Undisturbed DEF Sole
      <4> QED
        BY <4>1 DEF RetiredInv, SameRun
    <3> QED
      BY <3>1 DEF Running
  <2>2. CASE q = p /\ pc'[p] \in Past \ {"restoring"}
    <3>1. ~Begin(p) /\ pc'[p] \in Running
      BY <2>2, BeginFrame DEF Running
    <3>2. /\ run[p].alone /\ run'[p].retire = run[p].retire
          /\ pc[p] \in Past => run'[p].snapshot = run[p].snapshot
      BY <1>1, <2>2, <3>1, OwnFrame
    <3>3. /\ run[p] \in Runs
          /\ DOMAIN run = Refreshers /\ DOMAIN pc = Refreshers
          /\ PlanOf(p) /\ disk \in [Files -> Contents]
          /\ \A f \in RetiredFiles : f \in Files /\ f \notin AssetFiles
      BY HostInterfaceAssumption DEF TypeOK, PlanInv, Files
    <3>4. CASE Preflight(p)
      <4>1. run'[p].snapshot = disk /\ disk' = disk /\ pc'[p] = "writing"
        BY <3>3, <3>4 DEF Preflight, Move, Goto, Note, Runs
      <4> QED
        BY <2>2, <4>1
    <3>5. CASE CompareAsset(p)
      <4>1. disk' = disk /\ pc[p] = "writing"
        BY <3>5 DEF CompareAsset
      <4>2. pc'[p] \in {"writing", "replacing"}
        BY <3>3, <3>5 DEF CompareAsset, Goto
      <4> QED
        BY <2>2, <3>2, <4>1, <4>2 DEF RetiredInv
    <3>6. CASE WriteAsset(p)
      <4>1. /\ \A f \in RetiredFiles : disk'[f] = disk[f]
            /\ pc[p] = "replacing" /\ pc'[p] = "writing"
        <5>1. /\ Assets[run[p].at] \in AssetFiles
              /\ disk' = [disk EXCEPT ![Assets[run[p].at]] = run[p].packaged]
          BY <1>1, <3>1, <3>6, Touched
        <5>2. pc[p] = "replacing" /\ pc'[p] = "writing"
          BY <3>3, <3>6 DEF WriteAsset, Move, Goto
        <5> QED
          BY <3>3, <5>1, <5>2
      <4> QED
        BY <2>2, <3>2, <4>1 DEF RetiredInv
    <3>7. CASE AssetsWritten(p)
      <4>1. /\ disk' = disk /\ pc[p] = "writing" /\ pc'[p] = "removing"
            /\ run'[p].at = 1
        BY <3>3, <3>7 DEF AssetsWritten, Move, Goto, Note, Runs
      <4>2. \A i \in 1..Len(Retired) : Retired[i] \in RetiredFiles /\ ~(i < 1)
        BY Positions
      <4> QED
        BY <2>2, <3>2, <4>1, <4>2 DEF RetiredInv
    <3>8. CASE PassOver(p)
      <4>1. /\ disk' = disk /\ pc[p] = "removing" /\ pc'[p] = "removing"
            /\ run'[p].at = run[p].at + 1 /\ run[p].at \in Nat
            /\ run[p].at <= Len(Retired) /\ run[p].at >= 1
            /\ Retired[run[p].at] \notin ToRemove(p)
        BY <3>3, <3>8 DEF PassOver, Note, Runs, PlanOf
      <4>2. ASSUME NEW i \in 1..Len(Retired)
            PROVE  disk'[Retired[i]] =
                     IF i < run'[p].at /\ run'[p].retire THEN Absent
                       ELSE run'[p].snapshot[Retired[i]]
        <5>1. disk[Retired[i]] =
                IF i < run[p].at /\ run[p].retire THEN Absent
                  ELSE run[p].snapshot[Retired[i]]
          BY <3>2, <4>1 DEF RetiredInv
        <5>2. CASE i = run[p].at
          <6>1. run[p].retire => run[p].snapshot[Retired[i]] = Absent
            BY <4>1, <5>2, Positions DEF ToRemove
          <6> QED
            BY <3>2, <4>1, <5>1, <5>2, <6>1
        <5>3. CASE i # run[p].at
          <6>1. i < run'[p].at <=> i < run[p].at
            BY <4>1, <5>3, Positions
          <6> QED
            BY <3>2, <4>1, <5>1, <6>1
        <5> QED
          BY <5>2, <5>3
      <4> QED
        BY <2>2, <4>1, <4>2
    <3>9. CASE RemoveRetired(p)
      <4> DEFINE f == Retired[run[p].at]
      <4>1. /\ pc[p] = "removing" /\ pc'[p] = "removing"
            /\ run[p].retire /\ run[p].at \in 1..Len(Retired)
            /\ f \in RetiredFiles /\ disk' = [disk EXCEPT ![f] = Absent]
            /\ run'[p].at = run[p].at + 1
        BY <1>1, <3>1, <3>9, Touched DEF RemoveRetired
      <4>2. ASSUME NEW i \in 1..Len(Retired)
            PROVE  disk'[Retired[i]] =
                     IF i < run'[p].at /\ run'[p].retire THEN Absent
                       ELSE run'[p].snapshot[Retired[i]]
        <5>1. disk[Retired[i]] =
                IF i < run[p].at /\ run[p].retire THEN Absent
                  ELSE run[p].snapshot[Retired[i]]
          BY <3>2, <4>1 DEF RetiredInv
        <5>2. CASE i = run[p].at
          <6>1. disk'[Retired[i]] = Absent
            BY <3>3, <4>1, <5>2
          <6>2. i < run'[p].at
            BY <4>1, <5>2, Positions
          <6> QED
            BY <3>2, <4>1, <6>1, <6>2
        <5>3. CASE i # run[p].at
          <6>1. i < run'[p].at <=> i < run[p].at
            BY <4>1, <5>3, Positions
          <6>2. Retired[i] # f
            BY <4>1, <5>3, Positions
          <6>3. disk'[Retired[i]] = disk[Retired[i]]
            BY <3>3, <4>1, <6>2
          <6> QED
            BY <3>2, <4>1, <5>1, <6>1, <6>3
        <5> QED
          BY <5>2, <5>3
      <4> QED
        BY <2>2, <4>1, <4>2
    <3>10. CASE AllRemoved(p)
      <4>1. /\ disk' = disk /\ pc[p] = "removing" /\ run[p].at > Len(Retired)
            /\ pc'[p] \in {"reloading", "rechecking"} /\ run' = run
        BY <3>3, <3>10 DEF AllRemoved, Move, Goto
      <4>2. ASSUME run[p].retire, NEW f \in RetiredFiles
            PROVE  disk[f] = Absent
        <5>1. PICK i \in 1..Len(Retired) : f = Retired[i]
          BY Positions
        <5>2. i < run[p].at
          BY <3>3, <4>1, Positions DEF Runs
        <5> QED
          BY <3>2, <4>1, <4>2, <5>1, <5>2 DEF RetiredInv
      <4> QED
        BY <2>2, <4>1, <4>2
    <3>11. CASE Reload(p) \/ Recheck(p)
      <4>1. disk' = disk /\ pc[p] \in {"reloading", "rechecking"}
        <5>1. CASE Reload(p)
          BY <5>1 DEF Reload, Move
        <5>2. CASE Recheck(p)
          BY <5>2 DEF Recheck
        <5> QED
          BY <3>11, <5>1, <5>2
      <4>2. pc'[p] \in Final
        <5>1. CASE Reload(p)
          BY <3>3, <5>1 DEF Reload, Move, Goto
        <5>2. CASE Recheck(p)
          BY <2>2, <3>3, <5>2 DEF Recheck, End, Goto
        <5> QED
          BY <3>11, <5>1, <5>2
      <4> QED
        BY <2>2, <3>2, <4>1, <4>2 DEF RetiredInv
    <3> QED
      BY <1>1, <2>2, <3>1, <3>4, <3>5, <3>6, <3>7, <3>8, <3>9, <3>10, <3>11,
         Arrival
  <2> QED
    BY <2>1, <2>2
<1>2. CASE Host \/ UNCHANGED vars
  BY <1>2, HostFrame DEF RetiredInv
<1> QED
  BY <1>1, <1>2, StepOf

(* What systemd has loaded changes only with a reload, of all units as     *)
(* they are, and only that forgets that units were left behind.            *)
LEMMA LoadFrame ==
  ASSUME TypeOK, NEW p \in Refreshers, Acts(p), ~torn'
  PROVE  \/ /\ loaded' = loaded /\ ~torn
            /\ ~Reload(p) /\ ~DisableLegacyTimer(p) /\ ~EnableTimer(p)
         \/ /\ loaded' = [u \in Units |-> disk[u]] /\ disk' = disk
            /\ Reload(p) \/ DisableLegacyTimer(p) \/ EnableTimer(p)
<1>1. CASE Begin(p)
  <2>1. pc[p] \in Ended
    BY <1>1 DEF Begin
  <2>2. ~Reload(p) /\ ~DisableLegacyTimer(p) /\ ~EnableTimer(p)
    BY <2>1 DEF Ended, Reload, Move, DisableLegacyTimer, EnableTimer
  <2> QED
    BY <1>1, <2>2, BeginFrame
<1>2. CASE Reload(p) \/ DisableLegacyTimer(p) \/ EnableTimer(p)
  BY <1>2 DEF Reload, DisableLegacyTimer, EnableTimer, LoadUnits
<1>3. ASSUME ~Reload(p), ~DisableLegacyTimer(p), ~EnableTimer(p), ~Begin(p)
      PROVE  loaded' = loaded /\ ~torn
  <2> USE DEF systemd
  <2>0. CASE Look(p) \/ Check(p)
    BY <2>0 DEF Look, Check
  <2>1. CASE \/ Preflight(p) \/ Refused(p) \/ CompareAsset(p) \/ WriteAsset(p)
             \/ AssetsWritten(p)
    BY <2>1 DEF Preflight, Refused, CompareAsset, WriteAsset, AssetsWritten
  <2>2. CASE PassOver(p) \/ RemoveRetired(p) \/ AllRemoved(p) \/ Recheck(p)
    BY <2>2 DEF PassOver, RemoveRetired, AllRemoved, Recheck
  <2>3. CASE ReloadFails(p)
    BY <2>3 DEF ReloadFails
  <2>4. CASE RemoveFails(p)
    BY <2>4 DEF RemoveFails
  <2>5. CASE RestoreFile(p)
    BY <2>5 DEF RestoreFile
  <2>6. CASE Stop(p)
    BY <2>6 DEF Stop
  <2> QED
    BY <1>3, <2>0, <2>1, <2>2, <2>3, <2>4, <2>5, <2>6 DEF Acts, Progress
<1> QED
  BY <1>1, <1>2, <1>3

(* A run that goes nowhere has nothing pending.                            *)
LEMMA Quiet ==
  ASSUME NEW p \in Refreshers, pc[p] \notin Changing \union {"restoring"}
  PROVE  Pending(p) = {}
BY DEF Pending, Changing

(* A rollback's files are pending until the last is put back.              *)
LEMMA PendingRollBack ==
  ASSUME TypeOK, NEW p \in Refreshers, NEW order, RollBack(p, order)
  PROVE  Pending(p)' = {s.file : s \in order}
<1>0. DOMAIN pc = Refreshers /\ DOMAIN run = Refreshers /\ run[p] \in Runs
  BY DEF TypeOK
<1>1. CASE order = {}
  <2>1. pc'[p] = "failed"
    BY <1>0, <1>1 DEF RollBack, End, Goto
  <2> QED
    BY <1>1, <2>1 DEF Pending, Changing
<1>2. CASE order # {}
  <2>1. pc'[p] = "restoring" /\ run'[p].restore = order
    BY <1>0, <1>2 DEF RollBack, Goto, Note, Runs
  <2> QED
    BY <2>1 DEF Pending, Changing
<1> QED
  BY <1>1, <1>2

(* What a run leaves different from systemd's is still pending.            *)
LEMMA PendingOwn ==
  ASSUME TypeOK, PlanInv, SnapshotInv, NEW p \in Refreshers, Acts(p),
         ~torn', ~torn, loaded' = loaded,
         ~Reload(p), ~DisableLegacyTimer(p), ~EnableTimer(p),
         NEW u \in Units, loaded[u] = disk[u] \/ u \in Pending(p)
  PROVE  loaded'[u] = disk'[u] \/ u \in Pending(p)'
<1> USE DEF Changing
<1>0. /\ run[p] \in Runs /\ DOMAIN run = Refreshers /\ DOMAIN pc = Refreshers
      /\ disk \in [Files -> Contents] /\ u \in Files
  BY HostInterfaceAssumption DEF TypeOK
<1>1. CASE Begin(p)
  <2>1. Pending(p) = {}
    BY <1>1, Quiet DEF Begin, Ended
  <2> QED
    BY <1>1, <2>1, BeginFrame
<1>2. CASE Look(p) \/ Check(p) \/ Preflight(p) \/ Refused(p)
  <2>1. pc[p] \in {"looking", "checking"} /\ disk' = disk
    BY <1>2 DEF Look, Check, Preflight, Refused, Asking, Move
  <2> QED
    BY <2>1, Quiet
<1>3. CASE Recheck(p)
  <2>1. pc[p] = "rechecking" /\ disk' = disk
    BY <1>3 DEF Recheck
  <2> QED
    BY <2>1, Quiet
<1>4. CASE WriteAsset(p)
  <2> DEFINE f == Assets[run[p].at]
  <2>1. pc[p] = "replacing" /\ pc'[p] = "writing"
    BY <1>0, <1>4 DEF WriteAsset, Move, Goto
  <2>2. ~Begin(p)
    BY <2>1 DEF Begin, Ended
  <2>3. /\ disk' = [disk EXCEPT ![f] = run[p].packaged]
        /\ run'[p].changed = run[p].changed \union {f}
        /\ run'[p].removed = run[p].removed
    BY <1>4, <2>2, Touched
  <2>4. /\ Pending(p) = (run[p].changed \union run[p].removed) \intersect Units
        /\ Pending(p)' =
             (run[p].changed \union {f} \union run[p].removed)
               \intersect Units
    BY <2>1, <2>3 DEF Pending, ChangedUnits
  <2> QED
    BY <1>0, <2>3, <2>4
<1>5. CASE RemoveRetired(p)
  <2> DEFINE f == Retired[run[p].at]
  <2>1. pc[p] = "removing" /\ pc'[p] = "removing"
    BY <1>5 DEF RemoveRetired
  <2>2. ~Begin(p)
    BY <2>1 DEF Begin, Ended
  <2>3. /\ disk' = [disk EXCEPT ![f] = Absent]
        /\ run'[p].changed = run[p].changed
        /\ run'[p].removed = run[p].removed \union {f}
    BY <1>5, <2>2, Touched
  <2>4. /\ Pending(p) = (run[p].changed \union run[p].removed) \intersect Units
        /\ Pending(p)' =
             (run[p].changed \union (run[p].removed \union {f}))
               \intersect Units
    BY <2>1, <2>3 DEF Pending, ChangedUnits
  <2> QED
    BY <1>0, <2>3, <2>4
<1>6. CASE CompareAsset(p) \/ AssetsWritten(p) \/ PassOver(p)
  <2>1. /\ disk' = disk /\ pc[p] \in Changing /\ pc'[p] \in Changing
        /\ run'[p].changed = run[p].changed
        /\ run'[p].removed = run[p].removed
    <3>1. CASE CompareAsset(p)
      <4>1. CASE UNCHANGED pc /\ Note(p, [run[p] EXCEPT !.at = @ + 1])
        BY <1>0, <3>1, <4>1 DEF CompareAsset, Note, Runs
      <4>2. CASE UNCHANGED run /\ Goto(p, "replacing")
        BY <1>0, <3>1, <4>2 DEF CompareAsset, Goto
      <4> QED
        BY <3>1, <4>1, <4>2 DEF CompareAsset
    <3>2. CASE AssetsWritten(p)
      BY <1>0, <3>2 DEF AssetsWritten, Move, Goto, Note, Runs
    <3>3. CASE PassOver(p)
      BY <1>0, <3>3 DEF PassOver, Note, Runs
    <3> QED
      BY <1>6, <3>1, <3>2, <3>3
  <2> QED
    BY <2>1 DEF Pending, ChangedUnits
<1>7. CASE AllRemoved(p)
  <2>1. /\ disk' = disk /\ run' = run /\ pc[p] = "removing"
        /\ ChangedUnits(p) # {} => pc'[p] = "reloading"
    BY <1>0, <1>7 DEF AllRemoved, Move, Goto
  <2> QED
    BY <2>1 DEF Pending, ChangedUnits
<1>8. CASE ReloadFails(p)
  <2>1. disk' = disk /\ pc[p] = "reloading" /\ RollBack(p, UndoReload(p))
    BY <1>8 DEF ReloadFails
  <2>2. Pending(p)' = {s.file : s \in UndoReload(p)}
    BY <2>1, PendingRollBack
  <2>3. Pending(p) = ChangedUnits(p)
    BY <2>1 DEF Pending
  <2> QED
    BY <2>1, <2>2, <2>3, Orders
<1>9. CASE RemoveFails(p)
  <2>1. /\ disk' = disk /\ pc[p] = "removing" /\ RollBack(p, UndoRemovals)
        /\ run[p].changed \intersect Units = {}
    BY <1>9 DEF RemoveFails
  <2>2. Pending(p)' = RetiredFiles
    BY <2>1, PendingRollBack, Orders
  <2>3. Pending(p) = ChangedUnits(p)
    BY <2>1 DEF Pending
  <2>4. ChangedUnits(p) \subseteq RetiredFiles
    BY <1>0, <2>1 DEF ChangedUnits, Runs
  <2> QED
    BY <2>1, <2>2, <2>3, <2>4
<1>10. CASE RestoreFile(p)
  <2>1. PICK next \in run[p].restore :
          /\ disk' = [disk EXCEPT ![next.file] = run[p].snapshot[next.file]]
          /\ RollBack(p, run[p].restore \ {next})
    BY <1>10 DEF RestoreFile
  <2>2. /\ run[p].alone /\ pc[p] = "restoring"
        /\ loaded[u] = run[p].snapshot[u]
    BY <1>10 DEF RestoreFile, SnapshotInv
  <2>3. Pending(p)' = {s.file : s \in run[p].restore \ {next}}
    BY <2>1, PendingRollBack
  <2>4. Pending(p) = {s.file : s \in run[p].restore}
    BY <2>2 DEF Pending
  <2>5. CASE u = next.file
    BY <1>0, <2>1, <2>2, <2>5
  <2>6. CASE u # next.file
    <3>1. disk'[u] = disk[u]
      BY <1>0, <2>1, <2>6
    <3> QED
      BY <2>3, <2>4, <2>6, <3>1
  <2> QED
    BY <2>5, <2>6
<1>11. CASE Stop(p)
  <2>1. /\ disk' = disk /\ pc[p] # "restoring"
        /\ pc[p] \in Changing => ChangedUnits(p) = {}
    BY <1>11 DEF Stop
  <2>2. Pending(p) = {}
    BY <2>1 DEF Pending
  <2> QED
    BY <2>1, <2>2
<1> QED
  BY <1>1, <1>2, <1>3, <1>4, <1>5, <1>6, <1>7, <1>8, <1>9, <1>10, <1>11
  DEF Acts, Progress

(* Every difference from systemd's is some run's business.                 *)
LEMMA PendingInvStep ==
  ASSUME TypeOK, PlanInv, PendingInv, SnapshotInv, [Next]_vars
  PROVE  PendingInv'
<1>1. ASSUME NEW p \in Refreshers, Acts(p) PROVE PendingInv'
  <2> SUFFICES ASSUME ~torn', NEW u \in Units
               PROVE  loaded'[u] = disk'[u]
                        \/ \E q \in Refreshers : u \in Pending(q)'
    BY DEF PendingInv
  <2>1. CASE loaded' = [v \in Units |-> disk[v]] /\ disk' = disk
    BY <2>1
  <2>2. CASE /\ loaded' = loaded /\ ~torn
             /\ ~Reload(p) /\ ~DisableLegacyTimer(p) /\ ~EnableTimer(p)
    <3>1. CASE loaded[u] = disk[u] \/ u \in Pending(p)
      BY <1>1, <2>2, <3>1, PendingOwn
    <3>2. CASE \E q \in Refreshers \ {p} : u \in Pending(q)
      <4>1. PICK q \in Refreshers \ {p} : u \in Pending(q)
        BY <3>2
      <4>2. SameRun(q)
        BY <1>1, OthersFrame
      <4>3. Pending(q)' = Pending(q)
        BY <4>2 DEF SameRun, Pending, ChangedUnits
      <4> QED
        BY <4>1, <4>3
    <3> QED
      BY <2>2, <3>1, <3>2 DEF PendingInv
  <2> QED
    BY <1>1, <2>1, <2>2, LoadFrame
<1>2. CASE Host \/ UNCHANGED vars
  BY <1>2, HostFrame DEF PendingInv, Pending, ChangedUnits
<1> QED
  BY <1>1, <1>2, StepOf

(* A run that is alone knows what systemd works from.                      *)
LEMMA SnapshotInvStep ==
  ASSUME TypeOK, RetireInv, PlanInv, AloneInv, PendingInv, SnapshotInv,
         [Next]_vars
  PROVE  SnapshotInv'
<1> USE DEF Past, Changing, Final
<1>1. ASSUME NEW p \in Refreshers, Acts(p) PROVE SnapshotInv'
  <2> SUFFICES ASSUME ~torn', NEW q \in Refreshers, run'[q].alone,
                      pc'[q] \in Changing \union {"restoring"}, NEW u \in Units
               PROVE  loaded'[u] = run'[q].snapshot[u]
    BY DEF SnapshotInv
  <2>0. pc'[q] \in Running
    BY DEF Running
  <2>1. CASE q # p
    <3>1. SameRun(q) /\ loaded' = loaded /\ pc[p] \notin Past
      BY <1>1, <2>0, <2>1, Undisturbed DEF Sole
    <3>2. ~Reload(p) /\ ~DisableLegacyTimer(p) /\ ~EnableTimer(p)
      BY <3>1 DEF Reload, Move, DisableLegacyTimer, EnableTimer
    <3>3. ~torn
      BY <1>1, <3>2, LoadFrame
    <3> QED
      BY <3>1, <3>3 DEF SnapshotInv, SameRun
  <2>2. CASE q = p
    <3>1. ~Begin(p)
      BY <2>2, BeginFrame
    <3>2. /\ run[p].alone /\ pc[p] \in Running
          /\ pc[p] \in Past => run'[p].snapshot = run[p].snapshot
          /\ pc[p] \in Past \/ Preflight(p)
      BY <1>1, <2>0, <2>2, <3>1, OwnFrame
    <3>3. \/ Preflight(p) \/ CompareAsset(p) \/ WriteAsset(p)
          \/ AssetsWritten(p) \/ PassOver(p) \/ RemoveRetired(p)
          \/ AllRemoved(p) \/ ReloadFails(p) \/ RemoveFails(p)
          \/ RestoreFile(p)
      BY <1>1, <2>2, <3>1, Arrival
    <3>4. pc[p] \in Changing \union {"checking", "restoring"}
      BY <3>3 DEF Preflight, CompareAsset, WriteAsset, AssetsWritten, PassOver,
                  RemoveRetired, AllRemoved, ReloadFails, RemoveFails,
                  RestoreFile, Move
    <3>5. ~Reload(p) /\ ~DisableLegacyTimer(p) /\ ~EnableTimer(p)
      <4>1. ~Reload(p)
        BY <2>2, <1>1 DEF Reload, Move, Goto, TypeOK
      <4> QED
        BY <3>4, <4>1 DEF DisableLegacyTimer, EnableTimer
    <3>6. loaded' = loaded /\ ~torn
      BY <1>1, <3>5, LoadFrame
    <3>7. CASE Preflight(p)
      <4>1. pc[p] = "checking" /\ run'[p].snapshot = disk
        BY <3>7 DEF Preflight, Move, Note, TypeOK, Runs
      <4>2. ASSUME NEW o \in Refreshers PROVE Pending(o) = {}
        <5>1. pc[o] \notin Changing \union {"restoring"}
          BY <3>2, <4>1 DEF AloneInv, Running
        <5> QED
          BY <5>1, Quiet
      <4> QED
        BY <2>2, <3>6, <4>1, <4>2 DEF PendingInv
    <3>8. CASE pc[p] \in Past
      <4>1. pc[p] \in Changing \union {"restoring"}
        BY <3>4, <3>8
      <4> QED
        BY <2>2, <3>2, <3>6, <3>8, <4>1 DEF SnapshotInv
    <3> QED
      BY <3>2, <3>7, <3>8
  <2> QED
    BY <2>1, <2>2
<1>2. CASE Host \/ UNCHANGED vars
  BY <1>2, HostFrame DEF SnapshotInv
<1> QED
  BY <1>1, <1>2, StepOf

-----------------------------------------------------------------------------
(* The theorems.                                                           *)

(* The invariant is inductive: it holds in every state that the refreshers *)
(* and the host can reach.                                                 *)
THEOREM Invariance == Spec => []IInv
<1>1. Init => IInv
  BY InitIInv
<1>2. IInv /\ [Next]_vars => IInv'
  <2> SUFFICES ASSUME IInv, [Next]_vars PROVE IInv'
    OBVIOUS
  <2>1. /\ TypeOK /\ RetireInv /\ QueryInv /\ PlanInv /\ AloneInv
        /\ AssetsInv /\ RetiredInv /\ PendingInv /\ SnapshotInv
    BY DEF IInv
  <2>2. TypeOK' /\ RetireInv' /\ QueryInv' /\ PlanInv' /\ AloneInv'
    BY <2>1, TypeOKStep, RetireInvStep, QueryInvStep, PlanInvStep,
       AloneInvStep
  <2>3. AssetsInv' /\ RetiredInv'
    BY <2>1, AssetsInvStep, RetiredInvStep
  <2>4. PendingInv' /\ SnapshotInv'
    BY <2>1, PendingInvStep, SnapshotInvStep
  <2> QED
    BY <2>2, <2>3, <2>4 DEF IInv
<1> QED
  BY <1>1, <1>2, PTL DEF Spec

(* The variables have their types.                                         *)
THEOREM TypeCorrect == Spec => []TypeOK
<1>1. IInv => TypeOK
  BY DEF IInv
<1> QED
  BY <1>1, Invariance, PTL

(* Whoever ran beside whom, and whatever failed and was rolled back: when  *)
(* nobody runs, systemd works from the units that are on disk.             *)
THEOREM InStep == Spec => []UnitsInStep
<1>1. IInv => UnitsInStep
  <2> SUFFICES ASSUME IInv, \A p \in Refreshers : pc[p] \in Ended, ~torn,
                      NEW u \in Units
               PROVE  loaded[u] = disk[u]
    BY DEF UnitsInStep
  <2>1. ASSUME NEW p \in Refreshers PROVE Pending(p) = {}
    BY Quiet DEF Ended, Changing
  <2> QED
    BY <2>1 DEF IInv, PendingInv
<1> QED
  BY <1>1, Invariance, PTL

(* No stage and no bootstrap touches a file of V2 while V2's timer or      *)
(* service can run, and no plain refresh while the timer can: although V2  *)
(* may start between any two queries of any preflight, and whoever else    *)
(* refreshes meanwhile.                                                    *)
THEOREM LegacySafe == Spec => LegacyFilesSafe
<1>1. IInv /\ [Next]_vars => [RetiresInactive]_vars
  <2> SUFFICES ASSUME IInv, [Next]_vars, NEW f \in RetiredFiles,
                      disk'[f] # disk[f],
                      NEW r \in Refreshers, run'[r] # run[r]
               PROVE  ~legacyTimer /\ (r # "refresh" => ~legacyService)
    BY DEF RetiresInactive
  <2>0. /\ TypeOK /\ RetireInv /\ PlanInv
        /\ f \in Files /\ f \notin AssetFiles
    BY HostInterfaceAssumption DEF IInv, Files
  <2>1. ASSUME NEW p \in Refreshers, Acts(p)
        PROVE  ~legacyTimer /\ (r # "refresh" => ~legacyService)
    <3>1. ~Begin(p)
      BY <2>0, BeginFrame
    <3>2. CASE WriteAsset(p)
      <4>1. /\ Assets[run[p].at] \in AssetFiles
            /\ disk' = [disk EXCEPT ![Assets[run[p].at]] = run[p].packaged]
        BY <2>0, <2>1, <3>1, <3>2, Touched
      <4> QED
        BY <2>0, <4>1 DEF TypeOK
    <3>3. CASE RemoveRetired(p)
      <4>1. run[p].retire /\ pc[p] = "removing"
        BY <3>3 DEF RemoveRetired, ToRemove
      <4>2. r = p
        BY <2>0, <3>3 DEF RemoveRetired, Note, TypeOK
      <4> QED
        BY <2>0, <4>1, <4>2 DEF RetireInv, Past, Changing
    <3>4. CASE RestoreFile(p)
      <4>1. PICK next \in run[p].restore :
              disk' = [disk EXCEPT ![next.file] = run[p].snapshot[next.file]]
        BY <3>4 DEF RestoreFile
      <4>2. next.file = f
        BY <2>0, <4>1 DEF TypeOK
      <4>3. pc[p] = "restoring" /\ run[p].retire
        BY <2>0, <3>4, <4>2 DEF RestoreFile, PlanInv, PlanOf
      <4>4. r = p
        BY <2>0, <3>4 DEF RestoreFile, RollBack, End, Note, TypeOK
      <4> QED
        BY <2>0, <4>3, <4>4 DEF RetireInv, Past
    <3>5. WriteAsset(p) \/ RemoveRetired(p) \/ RestoreFile(p)
      BY <2>0, <2>1, <3>1, Touched
    <3> QED
      BY <3>2, <3>3, <3>4, <3>5
  <2>2. ~(Host \/ UNCHANGED vars)
    BY HostFrame
  <2> QED
    BY <2>1, <2>2, StepOf
<1> QED
  BY <1>1, Invariance, PTL DEF Spec, LegacyFilesSafe

(* V2's timer is switched off by a stage only, for a canonical timer that  *)
(* is ready and files that are all in place.                               *)
THEOREM HandOver == Spec => HandsOver
<1>1. IInv /\ [Next]_vars => [KeepsAPath]_vars
  <2> SUFFICES ASSUME IInv, [Next]_vars, legacyTimer, ~legacyTimer'
               PROVE  /\ timerReady'
                      /\ \A f \in AssetFiles :
                           disk'[f] = run["stage"].packaged
    BY DEF KeepsAPath
  <2>0. TypeOK /\ PlanInv /\ AssetsInv
    BY DEF IInv
  <2>1. ~(Host \/ UNCHANGED vars)
    BY HostFrame
  <2>2. PICK p \in Refreshers : Acts(p)
    BY <2>1, StepOf
  <2>3. DisableLegacyTimer(p)
    <3> USE DEF systemd
    <3>1. ~Begin(p)
      BY <2>0, BeginFrame
    <3>5. ~Look(p) /\ ~Check(p)
      BY DEF Look, Check
    <3>2. /\ ~Preflight(p) /\ ~Refused(p) /\ ~CompareAsset(p)
          /\ ~AssetsWritten(p) /\ ~PassOver(p) /\ ~AllRemoved(p)
      BY DEF Preflight, Refused, CompareAsset, AssetsWritten, PassOver,
             AllRemoved
    <3>3. ~WriteAsset(p) /\ ~RemoveRetired(p) /\ ~RestoreFile(p) /\ ~Recheck(p)
      BY DEF WriteAsset, RemoveRetired, RestoreFile, Recheck
    <3>4. /\ ~Reload(p) /\ ~EnableTimer(p) /\ ~RemoveFails(p)
          /\ ~ReloadFails(p) /\ ~Stop(p)
      BY DEF Reload, EnableTimer, RemoveFails, ReloadFails, Stop
    <3> QED
      BY <2>2, <3>1, <3>2, <3>3, <3>4, <3>5 DEF Acts, Progress
  <2>4. pc[p] = "switching" /\ disk' = disk /\ timerReady' = timerReady
    BY <2>3 DEF DisableLegacyTimer
  <2>5. p = "stage"
    BY <2>0, <2>4 DEF PlanInv, PlanOf
  <2>6. timerReady
    BY <2>0, <2>4, <2>5 DEF PlanInv, Past, Final
  <2>7. Sole("stage") /\ "stage" \in Refreshers
    BY HostInterfaceAssumption DEF Sole
  <2>8. \A f \in AssetFiles : disk[f] = run["stage"].packaged
    BY <2>0, <2>4, <2>5, <2>7 DEF AssetsInv, Final
  <2> QED
    BY <2>4, <2>6, <2>8
<1> QED
  BY <1>1, Invariance, PTL DEF Spec, HandsOver

(* Who succeeds without another beside it leaves what it packages and,     *)
(* retiring V2, nothing of V2's.                                           *)
THEOREM Installs == Spec => InstallsPackaged
<1>1. IInv /\ [Next]_vars => [LeavesPackaged]_vars
  <2> SUFFICES ASSUME IInv, [Next]_vars, NEW q \in Refreshers,
                      pc[q] # "ok", pc'[q] = "ok", run[q].alone
               PROVE  /\ \A f \in AssetFiles : disk'[f] = run[q].packaged
                      /\ run[q].retire =>
                           \A f \in RetiredFiles : disk'[f] = Absent
    BY DEF LeavesPackaged
  <2>0. TypeOK /\ PlanInv /\ AssetsInv /\ RetiredInv
    BY DEF IInv
  <2>1. ~(Host \/ UNCHANGED vars)
    BY HostFrame
  <2>2. PICK p \in Refreshers : Acts(p)
    BY <2>1, StepOf
  <2>3. p = q
    BY <2>0, <2>2, OthersFrame DEF SameRun
  <2>4. ~Begin(q)
    BY <2>0, BeginFrame
  <2>5. Recheck(q) \/ DisableLegacyTimer(q) \/ EnableTimer(q)
    BY <2>0, <2>2, <2>3, <2>4, Arrival
  <2>6. pc[q] \in Final /\ disk' = disk
    BY <2>5 DEF Recheck, DisableLegacyTimer, EnableTimer, Final
  <2> QED
    BY <2>0, <2>6 DEF AssetsInv, RetiredInv, Sole
<1> QED
  BY <1>1, Invariance, PTL DEF Spec, InstallsPackaged
=============================================================================
