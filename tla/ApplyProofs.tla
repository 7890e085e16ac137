----------------------------- MODULE ApplyProofs -----------------------------
(***************************************************************************)
(* What a reconcile run may rely on at each of its stages, and what it     *)
(* therefore publishes and never does, for any number of revisions, files, *)
(* services, failures and promotions.  The last part maps it to            *)
(* ApplyContract.                                                          *)
(***************************************************************************)
EXTENDS Apply, TLAPS

-----------------------------------------------------------------------------
(* The inductive invariant: what each stage may rely on.                   *)

(* The stages from one on, up to the publication.                          *)
FromActivate == {"activate", "publish"}
FromUp == {"up"} \union FromActivate
FromFirewall == {"firewall"} \union FromUp
FromValidate == {"validate"} \union FromFirewall
FromArtifacts == {"artifacts"} \union FromValidate
FromPrune == {"prune", "state"} \union FromArtifacts
FromConfig == {"config"} \union FromPrune
FromCompose == {"compose"} \union FromConfig

(* A run remembers nothing of an earlier one.                              *)
MemoryInv == stage \notin FromCompose => changed = {} /\ excluded = {}

(* What a stage has written stays as it was written until the run ends.    *)
FilesInv ==
  /\ stage \in FromConfig => compose = Compose[target]
  /\ stage \in FromPrune => Outdated(ConfigPaths) = {}
  /\ stage \in FromArtifacts => managed = Declared(target, ConfigPaths)
  /\ stage \in FromValidate => Outdated(Artifacts) = {}

(* So does what it has validated, and the firewall it has installed.       *)
HostInv ==
  /\ stage \in FromFirewall => \A s \in Affected : Valid(s)
  /\ stage \in FromUp /\ Rules[target] # Absent => nft = Rules[target]

(* What the preflight found of the containers holds until `up`, and        *)
(* afterwards for those it told `up` to leave alone.                       *)
ImagesInv ==
  /\ stage \in FromCompose => \A s \in excluded :
       /\ s \in Protected[target]
       /\ Compose[target][s] # Absent
       /\ running[s] # Absent
       /\ Digest[Live(s)] = Digest[Desired(s)]
  /\ stage \in FromCompose \ FromActivate => \A s \in Protected[target] :
       running[s] # Absent => TransitionAllowed(s)

(* What `up` leaves is kept by the activation, which reloads file binds.   *)
ContainersInv ==
  /\ stage \in FromActivate => \A s \in Services :
       IF compose[s] = Absent THEN running[s] = Absent
       ELSE RunsAs(s, compose[s])
  /\ stage = "publish" => \A s \in Composed : MountsCurrent(s)

(* What a run has completed stays until the next one begins to write.      *)
LiveInv ==
  /\ live.whole => Holds(live.revision)
  /\ stage \in FromConfig => live.revision = target
  /\ stage \in FromConfig => (live.whole <=> stage = "publish")

StageInv ==
  TypeOK /\ MemoryInv /\ FilesInv /\ HostInv /\ ImagesInv /\ ContainersInv
IInv == StageInv /\ LiveInv

-----------------------------------------------------------------------------
(* Containers.                                                             *)

(* The directories made for missing files replace no declared file and     *)
(* nothing that is there, and no validation refuses them.                  *)
LEMMA Made ==
  ASSUME TypeOK, NEW among \in SUBSET Services,
         NEW made \in SUBSET MissingBinds(among), Make(made)
  PROVE  /\ disk' \in [Paths -> Entries]
         /\ \A p \in Paths : disk[p] # Absent => disk'[p] = disk[p]
         /\ \A p \in Paths : disk'[p] \in {disk[p], Directory}
  BY ApplyAssumption DEF TypeOK, Make, MissingBinds, Entries

(* So do a validation and `up`.                                            *)
LEMMA MadeByDocker ==
  ASSUME TypeOK, ValidateConsumers \/ Up
  PROVE  /\ disk' \in [Paths -> Entries]
         /\ \A p \in Paths : disk[p] # Absent => disk'[p] = disk[p]
         /\ \A p \in Paths : disk'[p] \in {disk[p], Directory}
         /\ UNCHANGED <<compose, managed, target>>
<1>1. Affected \in SUBSET Services /\ ToStart \in SUBSET Services
  BY DEF Affected, ToStart, Composed
<1>2. CASE ValidateConsumers
  <2>1. Make(MissingBinds(Affected)) /\ UNCHANGED <<compose, managed, target>>
    BY <1>2 DEF ValidateConsumers
  <2> QED
    BY <1>1, <2>1, Made
<1>3. CASE Up
  <2>1. Make(MissingBinds(ToStart)) /\ UNCHANGED <<compose, managed, target>>
    BY <1>3 DEF Up
  <2> QED
    BY <1>1, <2>1, Made
<1> QED
  BY <1>2, <1>3

(* What Compose creates is what the Compose file and the disk say.         *)
LEMMA ContainerMade ==
  ASSUME TypeOK, disk' \in [Paths -> Entries], NEW s \in Composed
  PROVE  /\ Container(s) \in Containers(s) /\ Container(s) # Absent
         /\ Container(s).definition = compose[s]
         /\ \A p \in Reads(s) : Container(s).loaded[p] = disk'[p]
<1>1. s \in Services /\ compose[s] \in Definitions
  BY DEF TypeOK, Composed
<1>2. Reads(s) \subseteq Paths
  BY <1>1, ApplyAssumption DEF Reads
<1>3. [p \in Reads(s) |-> disk'[p]] \in [Reads(s) -> Entries]
  BY <1>2
<1>4. Container(s) \in Containers(s)
  BY <1>1, <1>3 DEF Container, Containers
<1>5. Container(s) # Absent
  BY <1>1, <1>4, ApplyAssumption
<1>6. \A p \in Reads(s) : Container(s).loaded[p] = disk'[p]
  BY DEF Container
<1> QED
  BY <1>4, <1>5, <1>6 DEF Container

(* The containers after a recreation, by what happened to each.            *)
LEMMA Recreated ==
  ASSUME TypeOK, NEW started \in SUBSET Composed,
         NEW removed \in SUBSET Services, Recreate(started, removed)
  PROVE  /\ DOMAIN running' = Services
         /\ \A s \in removed : running'[s] = Absent
         /\ \A s \in started \ removed : running'[s] = Container(s)
         /\ \A s \in Services \ (started \union removed) :
              running'[s] = running[s]
<1> started \subseteq Services
  BY DEF Composed
<1> QED
  BY DEF Recreate

(* What `up` and `activate` start are containers of the services they      *)
(* belong to.                                                              *)
LEMMA RecreateTyped ==
  ASSUME TypeOK, disk' \in [Paths -> Entries],
         NEW started \in SUBSET Composed,
         NEW removed \in SUBSET Services, Recreate(started, removed)
  PROVE  /\ DOMAIN running' = Services
         /\ \A s \in Services : running'[s] \in Containers(s) \union {Absent}
<1>1. \A s \in started : Container(s) \in Containers(s)
  BY ContainerMade
<1>2. \A s \in Services : running[s] \in Containers(s) \union {Absent}
  BY DEF TypeOK
<1>3. /\ DOMAIN running' = Services
      /\ \A s \in removed : running'[s] = Absent
      /\ \A s \in started \ removed : running'[s] = Container(s)
      /\ \A s \in Services \ (started \union removed) :
           running'[s] = running[s]
  BY Recreated
<1>4. ASSUME NEW s \in Services
      PROVE  running'[s] \in Containers(s) \union {Absent}
  <2>1. CASE s \in removed
    BY <1>3, <2>1
  <2>2. CASE s \in started \ removed
    BY <1>1, <1>3, <2>2
  <2>3. CASE s \notin started \union removed
    BY <1>2, <1>3, <2>3
  <2> QED
    BY <2>1, <2>2, <2>3
<1> QED
  BY <1>3, <1>4

(* An interrupted run has recreated some of the containers, or none.       *)
LEMMA InterruptRecreates ==
  ASSUME TypeOK, Interrupt
  PROVE  /\ disk' \in [Paths -> Entries]
         /\ \A p \in Paths : disk[p] # Absent => disk'[p] = disk[p]
         /\ \/ UNCHANGED running
            \/ \E started \in SUBSET Composed, removed \in SUBSET Services :
                 Recreate(started, removed)
<1>1. CASE UNCHANGED <<disk, running>>
  BY <1>1 DEF TypeOK
<1>2. CASE \E made \in SUBSET MissingBinds(ToStart) :
             /\ Make(made)
             /\ \E started \in SUBSET ToStart, removed \in SUBSET Orphans :
                  Recreate(started, removed)
  <2>1. ToStart \in SUBSET Composed /\ Orphans \in SUBSET Services
    BY DEF ToStart, Orphans
  <2>2. /\ disk' \in [Paths -> Entries]
        /\ \A p \in Paths : disk[p] # Absent => disk'[p] = disk[p]
    BY <1>2, <2>1, Made DEF Composed
  <2> QED
    BY <1>2, <2>1, <2>2
<1>3. CASE /\ UNCHANGED disk
           /\ \E started \in SUBSET ToActivate : Recreate(started, {})
  <2>1. ToActivate \subseteq Composed
    BY DEF ToActivate, Affected, ChangedBinds, StaleBinds
  <2> QED
    BY <1>3, <2>1 DEF TypeOK
<1>4. CASE /\ UNCHANGED running
           /\ \E made \in SUBSET MissingBinds(Affected) : Make(made)
  <2>1. Affected \in SUBSET Services
    BY DEF Affected, Composed
  <2> QED
    BY <1>4, <2>1, Made
<1> QED
  BY <1>1, <1>2, <1>3, <1>4 DEF Interrupt

(* It holds on a host that was never reconciled.                           *)
LEMMA InitIInv == Init => IInv
<1> SUFFICES ASSUME Init PROVE IInv
  OBVIOUS
<1> USE ApplyAssumption DEF Init
<1>1. TypeOK
  <2>1. /\ head \in Revisions /\ target \in Revisions
        /\ disk \in [Paths -> Entries]
        /\ compose \in [Services -> Definitions \union {Absent}]
    BY DEF Entries
  <2>2. /\ DOMAIN running = Services
        /\ \A s \in Services : running[s] \in Containers(s) \union {Absent}
    OBVIOUS
  <2>3. result \in [status: {"success", "failure", "none"},
                    revision: Revisions \union {Absent}]
    OBVIOUS
  <2> QED
    BY <2>1, <2>2, <2>3 DEF TypeOK
<1>2. /\ MemoryInv /\ FilesInv /\ HostInv /\ ImagesInv /\ ContainersInv
      /\ LiveInv
  BY DEF MemoryInv, FilesInv, HostInv, ImagesInv, ContainersInv, LiveInv,
         FromCompose, FromConfig, FromPrune, FromArtifacts, FromValidate,
         FromFirewall, FromUp, FromActivate
<1> QED
  BY <1>1, <1>2 DEF IInv, StageInv


-----------------------------------------------------------------------------
(* One step, conjunct by conjunct.                                         *)

(* Types are kept.                                                         *)
LEMMA TypeOKStep ==
  ASSUME TypeOK, [Next]_vars PROVE TypeOK'
<1> USE ApplyAssumption DEF TypeOK, Stages, Move, Fault, files, record
<1>1. CASE Begin
  BY <1>1 DEF Begin
<1>2. CASE Preflight
  BY <1>2 DEF Preflight, RepresentationEquivalent
<1>3. CASE WriteCompose
  BY <1>3 DEF WriteCompose
<1>4. CASE ConfigWritten
  BY <1>4 DEF ConfigWritten
<1>5. CASE Pruned
  BY <1>5 DEF Pruned
<1>6. CASE SaveState
  BY <1>6 DEF SaveState, Declared, ConfigPaths
<1>7. CASE ArtifactsWritten
  BY <1>7 DEF ArtifactsWritten
<1>8. ASSUME NEW p \in Paths, WriteConfig(p) PROVE TypeOK'
  BY <1>8 DEF WriteConfig, Write, Outdated, Declared, Entries
<1>9. ASSUME NEW p \in Paths, Prune(p) PROVE TypeOK'
  BY <1>9 DEF Prune, Entries
<1>10. ASSUME NEW p \in Paths, WriteArtifact(p) PROVE TypeOK'
  BY <1>10 DEF WriteArtifact, Write, Outdated, Declared, Entries
<1>11. CASE ValidateConsumers
  <2>1. Affected \in SUBSET Services
    BY DEF Affected, Composed
  <2>2. disk' \in [Paths -> Entries]
    BY <1>11, <2>1, Made DEF ValidateConsumers
  <2> QED
    BY <1>11, <2>2 DEF ValidateConsumers
<1>12. CASE ApplyFirewall
  BY <1>12 DEF ApplyFirewall
<1>13. CASE Up
  <2>1. ToStart \in SUBSET Composed /\ Orphans \in SUBSET Services
    BY DEF ToStart, Orphans
  <2>2. Recreate(ToStart, Orphans) /\ Make(MissingBinds(ToStart))
    BY <1>13 DEF Up
  <2>3. disk' \in [Paths -> Entries]
    BY <2>1, <2>2, Made DEF Composed
  <2>4. /\ DOMAIN running' = Services
        /\ \A s \in Services : running'[s] \in Containers(s) \union {Absent}
    BY <2>1, <2>2, <2>3, RecreateTyped
  <2> QED
    BY <1>13, <2>3, <2>4 DEF Up
<1>14. CASE Activate
  <2>1. ToActivate \in SUBSET Composed /\ {} \in SUBSET Services
    BY DEF ToActivate, Affected, ChangedBinds, StaleBinds
  <2>2. Recreate(ToActivate, {})
    BY <1>14 DEF Activate
  <2> QED
    BY <1>14, <2>1, <2>2, RecreateTyped DEF Activate
<1>15. CASE Publish
  BY <1>15  DEF Publish , Forget
<1>16. CASE Reject
  BY <1>16  DEF Reject , Forget
<1>17. CASE Interrupt
  <2>1. /\ DOMAIN running' = Services
        /\ \A s \in Services : running'[s] \in Containers(s) \union {Absent}
        /\ disk' \in [Paths -> Entries]
    BY <1>17, InterruptRecreates, RecreateTyped DEF TypeOK
  <2>2. nft' \in RuleSets \union {Absent, Empty}
    BY <1>17 DEF Interrupt
  <2>3. faults' \in 0..MaxFaults
    BY <1>17 DEF Interrupt
  <2>4. result' \in [status: {"success", "failure", "none"},
                    revision: Revisions \union {Absent}]
    BY <1>17 DEF Interrupt
  <2> QED
    BY <1>17, <2>1, <2>2, <2>3, <2>4 DEF Interrupt, Forget
<1>18. ASSUME NEW r \in Revisions, Promote(r) PROVE TypeOK'
  BY <1>18 DEF Promote
<1>19. CASE UNCHANGED vars
  BY <1>19 DEF vars
<1> QED
  BY <1>1, <1>2, <1>3, <1>4, <1>5, <1>6, <1>7, <1>8, <1>9, <1>10, <1>11,
     <1>12, <1>13, <1>14, <1>15, <1>16, <1>17, <1>18, <1>19
     DEF Next, Progress

(* The memory of a run starts empty and ends with it.                      *)
LEMMA MemoryInvStep ==
  ASSUME TypeOK, MemoryInv, [Next]_vars PROVE MemoryInv'
<1> USE DEF MemoryInv, TypeOK, Move, FromCompose, FromConfig, FromPrune,
        FromArtifacts, FromValidate, FromFirewall, FromUp, FromActivate
<1>1. CASE Begin
  BY <1>1 DEF Begin
<1>2. CASE Preflight
  BY <1>2 DEF Preflight
<1>3. CASE WriteCompose
  BY <1>3 DEF WriteCompose
<1>4. CASE ConfigWritten
  BY <1>4 DEF ConfigWritten
<1>5. CASE Pruned
  BY <1>5 DEF Pruned
<1>6. CASE SaveState
  BY <1>6 DEF SaveState
<1>7. CASE ArtifactsWritten
  BY <1>7 DEF ArtifactsWritten
<1>8. ASSUME NEW p \in Paths, WriteConfig(p) PROVE MemoryInv'
  BY <1>8 DEF WriteConfig, Write
<1>9. ASSUME NEW p \in Paths, Prune(p) PROVE MemoryInv'
  BY <1>9 DEF Prune
<1>10. ASSUME NEW p \in Paths, WriteArtifact(p) PROVE MemoryInv'
  BY <1>10 DEF WriteArtifact, Write
<1>11. CASE ValidateConsumers
  BY <1>11 DEF ValidateConsumers
<1>12. CASE ApplyFirewall
  BY <1>12 DEF ApplyFirewall
<1>13. CASE Up
  BY <1>13 DEF Up
<1>14. CASE Activate
  BY <1>14 DEF Activate
<1>15. CASE Publish
  BY <1>15 DEF Publish, Forget
<1>16. CASE Reject
  BY <1>16 DEF Reject, Forget
<1>17. CASE Interrupt
  BY <1>17 DEF Interrupt, Forget
<1>18. ASSUME NEW r \in Revisions, Promote(r) PROVE MemoryInv'
  BY <1>18 DEF Promote
<1>19. CASE UNCHANGED vars
  BY <1>19 DEF vars
<1> QED
  BY <1>1, <1>2, <1>3, <1>4, <1>5, <1>6, <1>7, <1>8, <1>9, <1>10, <1>11,
     <1>12, <1>13, <1>14, <1>15, <1>16, <1>17, <1>18, <1>19
     DEF Next, Progress

(* Every stage writes files of its own, and none that an earlier one wrote.*)
LEMMA FilesInvStep ==
  ASSUME TypeOK, FilesInv, [Next]_vars PROVE FilesInv'
<1> USE ApplyAssumption DEF FilesInv, Move, files, record, Outdated, Declared,
        ConfigPaths, FromCompose, FromConfig, FromPrune,
        FromArtifacts, FromValidate, FromFirewall, FromUp, FromActivate
<1>1. CASE Begin
  BY <1>1 DEF Begin
<1>2. CASE Preflight
  BY <1>2 DEF Preflight
<1>3. CASE WriteCompose
  BY <1>3 DEF WriteCompose
<1>4. CASE ConfigWritten
  BY <1>4 DEF ConfigWritten
<1>5. CASE Pruned
  BY <1>5 DEF Pruned
<1>6. CASE SaveState
  BY <1>6 DEF SaveState
<1>7. CASE ArtifactsWritten
  BY <1>7 DEF ArtifactsWritten
<1>8. ASSUME NEW p \in Paths, WriteConfig(p) PROVE FilesInv'
  BY <1>8 DEF WriteConfig, Write
<1>9. ASSUME NEW p \in Paths, Prune(p) PROVE FilesInv'
  BY <1>9 DEF Prune, Withdrawn
<1>10. ASSUME NEW p \in Paths, WriteArtifact(p) PROVE FilesInv'
  BY <1>10 DEF WriteArtifact, Write
<1>11. CASE ValidateConsumers
  BY <1>11, MadeByDocker DEF ValidateConsumers
<1>12. CASE ApplyFirewall
  BY <1>12 DEF ApplyFirewall
<1>13. CASE Up
  BY <1>13, MadeByDocker DEF Up
<1>14. CASE Activate
  BY <1>14 DEF Activate
<1>15. CASE Publish
  BY <1>15 DEF Publish
<1>16. CASE Reject
  BY <1>16 DEF Reject
<1>17. CASE Interrupt
  BY <1>17 DEF Interrupt
<1>18. ASSUME NEW r \in Revisions, Promote(r) PROVE FilesInv'
  BY <1>18 DEF Promote
<1>19. CASE UNCHANGED vars
  BY <1>19 DEF vars
<1> QED
  BY <1>1, <1>2, <1>3, <1>4, <1>5, <1>6, <1>7, <1>8, <1>9, <1>10, <1>11,
     <1>12, <1>13, <1>14, <1>15, <1>16, <1>17, <1>18, <1>19
     DEF Next, Progress

(* Nothing is written any more once consumers and firewall are done.       *)
LEMMA HostInvStep ==
  ASSUME TypeOK, FilesInv, HostInv, [Next]_vars PROVE HostInv'
<1> USE ApplyAssumption DEF HostInv, Move, files, record, Affected, Composed,
        Valid, FromCompose, FromConfig, FromPrune,
        FromArtifacts, FromValidate, FromFirewall, FromUp, FromActivate
<1>1. CASE Begin
  BY <1>1 DEF Begin
<1>2. CASE Preflight
  BY <1>2 DEF Preflight
<1>3. CASE WriteCompose
  BY <1>3 DEF WriteCompose
<1>4. CASE ConfigWritten
  BY <1>4 DEF ConfigWritten
<1>5. CASE Pruned
  BY <1>5 DEF Pruned
<1>6. CASE SaveState
  BY <1>6 DEF SaveState
<1>7. CASE ArtifactsWritten
  BY <1>7 DEF ArtifactsWritten
<1>8. ASSUME NEW p \in Paths, WriteConfig(p) PROVE HostInv'
  BY <1>8 DEF WriteConfig, Write
<1>9. ASSUME NEW p \in Paths, Prune(p) PROVE HostInv'
  BY <1>9 DEF Prune
<1>10. ASSUME NEW p \in Paths, WriteArtifact(p) PROVE HostInv'
  BY <1>10 DEF WriteArtifact, Write
<1>11. CASE ValidateConsumers
  <2>1. UNCHANGED changed /\ \A s \in Affected : Valid(s)
    BY <1>11 DEF ValidateConsumers
  <2>2. Affected' = Affected
    BY <1>11, <2>1, MadeByDocker
  <2>3. \A s \in Services : Valid(s) => Valid(s)'
    BY <1>11, MadeByDocker
  <2> QED
    BY <1>11, <2>1, <2>2, <2>3 DEF ValidateConsumers
<1>12. CASE ApplyFirewall
  BY <1>12 DEF ApplyFirewall
<1>13. CASE Up
  <2>1. Affected' = Affected
    BY <1>13, MadeByDocker DEF Up
  <2>2. \A s \in Services : Valid(s) => Valid(s)'
    BY <1>13, MadeByDocker
  <2> QED
    BY <1>13, <2>1, <2>2 DEF Up
<1>14. CASE Activate
  BY <1>14 DEF Activate
<1>15. CASE Publish
  BY <1>15 DEF Publish
<1>16. CASE Reject
  BY <1>16 DEF Reject
<1>17. CASE Interrupt
  BY <1>17 DEF Interrupt
<1>18. ASSUME NEW r \in Revisions, Promote(r) PROVE HostInv'
  BY <1>18 DEF Promote
<1>19. CASE UNCHANGED vars
  BY <1>19 DEF vars
<1> QED
  BY <1>1, <1>2, <1>3, <1>4, <1>5, <1>6, <1>7, <1>8, <1>9, <1>10, <1>11,
     <1>12, <1>13, <1>14, <1>15, <1>16, <1>17, <1>18, <1>19
     DEF Next, Progress

(* Only `up` and the activation change containers.                         *)
LEMMA ImagesInvStep ==
  ASSUME TypeOK, MemoryInv, FilesInv, ImagesInv, [Next]_vars PROVE ImagesInv'
<1> USE DEF ImagesInv, Move, files, record, Desired, Live, TransitionAllowed,
        FromCompose, FromConfig, FromPrune,
        FromArtifacts, FromValidate, FromFirewall, FromUp, FromActivate
<1>1. CASE Begin
  BY <1>1 DEF Begin
<1>2. CASE Preflight
  BY <1>2 DEF Preflight, PreflightPasses, RepresentationEquivalent
<1>3. CASE WriteCompose
  BY <1>3 DEF WriteCompose
<1>4. CASE ConfigWritten
  BY <1>4 DEF ConfigWritten
<1>5. CASE Pruned
  BY <1>5 DEF Pruned
<1>6. CASE SaveState
  BY <1>6 DEF SaveState
<1>7. CASE ArtifactsWritten
  BY <1>7 DEF ArtifactsWritten
<1>8. ASSUME NEW p \in Paths, WriteConfig(p) PROVE ImagesInv'
  BY <1>8 DEF WriteConfig, Write
<1>9. ASSUME NEW p \in Paths, Prune(p) PROVE ImagesInv'
  BY <1>9 DEF Prune
<1>10. ASSUME NEW p \in Paths, WriteArtifact(p) PROVE ImagesInv'
  BY <1>10 DEF WriteArtifact, Write
<1>11. CASE ValidateConsumers
  BY <1>11 DEF ValidateConsumers
<1>12. CASE ApplyFirewall
  BY <1>12 DEF ApplyFirewall
<1>13. CASE Up
  <2>1. ToStart \in SUBSET Composed /\ Orphans \in SUBSET Services
    BY DEF ToStart, Orphans, Composed
  <2>2. /\ \A s \in Orphans : running'[s] = Absent
        /\ \A s \in ToStart \ Orphans : running'[s] = Container(s)
        /\ \A s \in Services \ (ToStart \union Orphans) :
             running'[s] = running[s]
    BY <1>13, <2>1, Recreated DEF Up
  <2>3. \A s \in ToStart : /\ Container(s) # Absent
                           /\ Container(s).definition = compose[s]
    BY <1>13, <2>1, MadeByDocker, ContainerMade
  <2>4. ASSUME NEW s \in excluded
        PROVE  /\ s \in Protected[target]
               /\ Compose[target][s] # Absent
               /\ running'[s] # Absent
               /\ Digest[running'[s].definition.image] = Digest[Desired(s)]
    <3>1. s \in Services /\ compose[s] # Absent /\ running[s] # Absent
      BY <1>13 DEF Up, FilesInv, TypeOK
    <3>2. running'[s] = running[s]
      BY <2>2, <3>1 DEF ToStart, Orphans, Composed
    <3> QED
      BY <1>13, <3>1, <3>2 DEF Up
  <2> QED
    BY <1>13, <2>4 DEF Up
<1>14. CASE Activate
  <2>1. ToActivate \in SUBSET Composed /\ {} \in SUBSET Services
    BY DEF ToActivate, Affected, ChangedBinds, StaleBinds, Composed
  <2>2. /\ \A s \in ToActivate : running'[s] = Container(s)
        /\ \A s \in Services \ ToActivate : running'[s] = running[s]
    BY <1>14, <2>1, Recreated DEF Activate
  <2>3. \A s \in ToActivate :
          /\ Container(s) # Absent
          /\ Container(s).definition = compose[s]
          /\ \A p \in Reads(s) : Container(s).loaded[p] = disk[p]
    BY <1>14, <2>1, ContainerMade DEF Activate, TypeOK
  <2>4. ASSUME NEW s \in excluded
        PROVE  /\ s \in Protected[target]
               /\ Compose[target][s] # Absent
               /\ running'[s] # Absent
               /\ Digest[running'[s].definition.image] = Digest[Desired(s)]
    <3>1. s \in Services /\ compose[s] = Compose[target][s]
      BY <1>14 DEF Activate, FilesInv, TypeOK
    <3> QED
      BY <1>14, <2>2, <2>3, <3>1 DEF Activate
  <2> QED
    BY <1>14, <2>4 DEF Activate
<1>15. CASE Publish
  BY <1>15 DEF Publish
<1>16. CASE Reject
  BY <1>16 DEF Reject
<1>17. CASE Interrupt
  BY <1>17 DEF Interrupt
<1>18. ASSUME NEW r \in Revisions, Promote(r) PROVE ImagesInv'
  BY <1>18 DEF Promote
<1>19. CASE UNCHANGED vars
  BY <1>19 DEF vars
<1> QED
  BY <1>1, <1>2, <1>3, <1>4, <1>5, <1>6, <1>7, <1>8, <1>9, <1>10, <1>11,
     <1>12, <1>13, <1>14, <1>15, <1>16, <1>17, <1>18, <1>19
     DEF Next, Progress

(* What `up` leaves, and the activation keeps and reloads.                 *)
LEMMA ContainersInvStep ==
  ASSUME TypeOK, FilesInv, ImagesInv, ContainersInv, [Next]_vars
  PROVE  ContainersInv'
<1> USE DEF ContainersInv, Move, files, record, Composed, RunsAs, Live,
        FromCompose, FromConfig, FromPrune,
        FromArtifacts, FromValidate, FromFirewall, FromUp, FromActivate
<1>1. CASE Begin
  BY <1>1 DEF Begin
<1>2. CASE Preflight
  BY <1>2 DEF Preflight
<1>3. CASE WriteCompose
  BY <1>3 DEF WriteCompose
<1>4. CASE ConfigWritten
  BY <1>4 DEF ConfigWritten
<1>5. CASE Pruned
  BY <1>5 DEF Pruned
<1>6. CASE SaveState
  BY <1>6 DEF SaveState
<1>7. CASE ArtifactsWritten
  BY <1>7 DEF ArtifactsWritten
<1>8. ASSUME NEW p \in Paths, WriteConfig(p) PROVE ContainersInv'
  BY <1>8 DEF WriteConfig, Write
<1>9. ASSUME NEW p \in Paths, Prune(p) PROVE ContainersInv'
  BY <1>9 DEF Prune
<1>10. ASSUME NEW p \in Paths, WriteArtifact(p) PROVE ContainersInv'
  BY <1>10 DEF WriteArtifact, Write
<1>11. CASE ValidateConsumers
  BY <1>11 DEF ValidateConsumers
<1>12. CASE ApplyFirewall
  BY <1>12 DEF ApplyFirewall
<1>13. CASE Up
  <2>1. ToStart \in SUBSET Composed /\ Orphans \in SUBSET Services
    BY DEF ToStart, Orphans, Composed
  <2>2. /\ \A s \in Orphans : running'[s] = Absent
        /\ \A s \in ToStart \ Orphans : running'[s] = Container(s)
        /\ \A s \in Services \ (ToStart \union Orphans) :
             running'[s] = running[s]
    BY <1>13, <2>1, Recreated DEF Up
  <2>3. \A s \in ToStart : /\ Container(s) # Absent
                           /\ Container(s).definition = compose[s]
    BY <1>13, <2>1, MadeByDocker, ContainerMade
  <2>4. ASSUME NEW s \in Services, compose[s] = Absent
        PROVE  running'[s] = Absent
    BY <2>2, <2>4 DEF ToStart, Orphans
  <2>5. ASSUME NEW s \in Services, compose[s] # Absent
        PROVE  /\ running'[s] # Absent
               /\ \/ running'[s].definition = compose[s]
                  \/ /\ s \in excluded
                     /\ Digest[running'[s].definition.image]
                          = Digest[compose[s].image]
    <3>1. CASE s \in ToStart
      BY <2>2, <2>3, <2>5, <3>1 DEF Orphans
    <3>2. CASE s \notin ToStart
      <4>1. running'[s] = running[s]
        BY <2>2, <2>5, <3>2 DEF Orphans
      <4>2. CASE s \in excluded
        BY <1>13, <4>1, <4>2 DEF Up, ImagesInv, FilesInv, Desired
      <4>3. CASE s \notin excluded
        BY <2>5, <3>2, <4>1, <4>3 DEF ToStart
      <4> QED
        BY <4>2, <4>3
    <3> QED
      BY <3>1, <3>2
  <2> QED
    BY <1>13, <2>4, <2>5 DEF Up
<1>14. CASE Activate
  <2>1. ToActivate \in SUBSET Composed /\ {} \in SUBSET Services
    BY DEF ToActivate, Affected, ChangedBinds, StaleBinds, Composed
  <2> HIDE DEF Composed
  <2>2. /\ \A s \in ToActivate : running'[s] = Container(s)
        /\ \A s \in Services \ ToActivate : running'[s] = running[s]
    BY <1>14, <2>1, Recreated DEF Activate
  <2>3. \A s \in ToActivate :
          /\ Container(s) # Absent
          /\ Container(s).definition = compose[s]
          /\ \A p \in Reads(s) : Container(s).loaded[p] = disk[p]
    BY <1>14, <2>1, ContainerMade DEF Activate, TypeOK
  <2> USE DEF Composed
  <2>4. ASSUME NEW s \in Services, compose[s] = Absent
        PROVE  running'[s] = Absent
    BY <1>14, <2>1, <2>2, <2>4 DEF Activate
  <2>5. ASSUME NEW s \in Services, compose[s] # Absent
        PROVE  /\ running'[s] # Absent
               /\ \/ running'[s].definition = compose[s]
                  \/ /\ s \in excluded
                     /\ Digest[running'[s].definition.image]
                          = Digest[compose[s].image]
    BY <1>14, <2>2, <2>3, <2>5 DEF Activate
  <2>6. ASSUME NEW s \in Composed, NEW p \in MountedFiles(s)
        PROVE  running'[s].loaded[p] = disk[p]
    <3>1. CASE s \in ToActivate
      BY <2>2, <2>3, <3>1 DEF Reads, MountedFiles
    <3>2. CASE s \notin ToActivate
      <4>1. running'[s] = running[s] /\ running[s] # Absent
        BY <1>14, <2>2, <3>2 DEF Activate
      <4> QED
        BY <3>2, <4>1 DEF ToActivate, StaleBinds
    <3> QED
      BY <3>1, <3>2
  <2> QED
    BY <1>14, <2>4, <2>5, <2>6 DEF Activate, MountsCurrent, MountedFiles
<1>15. CASE Publish
  BY <1>15 DEF Publish
<1>16. CASE Reject
  BY <1>16 DEF Reject
<1>17. CASE Interrupt
  BY <1>17 DEF Interrupt
<1>18. ASSUME NEW r \in Revisions, Promote(r) PROVE ContainersInv'
  BY <1>18 DEF Promote, MountsCurrent, MountedFiles
<1>19. CASE UNCHANGED vars
  BY <1>19 DEF vars, MountsCurrent, MountedFiles
<1> QED
  BY <1>1, <1>2, <1>3, <1>4, <1>5, <1>6, <1>7, <1>8, <1>9, <1>10, <1>11,
     <1>12, <1>13, <1>14, <1>15, <1>16, <1>17, <1>18, <1>19
     DEF Next, Progress

(* What every stage relies on is kept by every step.                       *)
LEMMA StageInvStep == StageInv /\ [Next]_vars => StageInv'
BY TypeOKStep, MemoryInvStep, FilesInvStep, HostInvStep, ImagesInvStep,
   ContainersInvStep DEF StageInv

(* At the publication the host holds the target's projection.              *)
LEMMA PublicationHolds == StageInv /\ stage = "publish" => Holds(target)
<1> SUFFICES ASSUME StageInv, stage = "publish" PROVE Holds(target)
  OBVIOUS
<1> USE DEF StageInv, FromCompose, FromConfig, FromPrune, FromArtifacts,
            FromValidate, FromFirewall, FromUp, FromActivate
<1>1. compose = Compose[target] /\ managed = Declared(target, ConfigPaths)
  BY DEF FilesInv
<1>2. \A p \in Declared(target, Paths) : disk[p] = Content[target][p]
  BY DEF FilesInv, Outdated, Declared, ConfigPaths
<1>3. Rules[target] # Absent => nft = Rules[target]
  BY DEF HostInv
<1>4. ASSUME NEW s \in Services
      PROVE  IF Compose[target][s] = Absent THEN running[s] = Absent
             ELSE /\ running[s] # Absent
                  /\ \/ running[s].definition = Compose[target][s]
                     \/ /\ s \in Protected[target]
                        /\ Digest[Live(s)] = Digest[Compose[target][s].image]
                  /\ MountsCurrent(s)
  BY <1>1 DEF ContainersInv, ImagesInv, RunsAs, Composed
<1> QED
  BY <1>1, <1>2, <1>3, <1>4 DEF Holds, Projected, FilesAre

(* A step that leaves files, table and containers alone leaves what the    *)
(* host holds.                                                             *)
LEMMA HoldsOn ==
  ASSUME UNCHANGED <<files, nft, running, live>>,
         live.whole => Holds(live.revision)
  PROVE  (live.whole => Holds(live.revision))'
<1> SUFFICES ASSUME live.whole, Holds(live.revision)
             PROVE  Holds(live.revision)'
  OBVIOUS
<1>1. /\ disk' = disk /\ compose' = compose /\ managed' = managed
      /\ nft' = nft /\ running' = running /\ live' = live
  BY DEF files
<1>2. Projected(live.revision)'
  BY <1>1 DEF Holds, Projected, FilesAre
<1> QED
  BY <1>1, <1>2 DEF Holds, Live, MountsCurrent, MountedFiles

(* Only the activation completes a projection, and nothing undoes it but   *)
(* the next run's writing.                                                 *)
LEMMA LiveInvStep == IInv /\ [Next]_vars => LiveInv'
<1> SUFFICES ASSUME IInv, [Next]_vars PROVE LiveInv'
  OBVIOUS
<1> USE DEF IInv, LiveInv, Move, FromConfig, FromPrune, FromArtifacts,
            FromValidate, FromFirewall, FromUp, FromActivate
<1> HIDE DEF StageInv
<1>1. CASE Begin \/ Preflight \/ Publish \/ Reject
  <2>1. UNCHANGED <<files, nft, running, live>>
    BY <1>1 DEF Begin, Preflight, Publish, Reject, record
  <2> QED
    BY <1>1, <2>1, HoldsOn DEF Begin, Preflight, Publish, Reject
<1>2. CASE WriteCompose
  BY <1>2 DEF WriteCompose
<1>3. CASE \/ ConfigWritten \/ Pruned \/ SaveState \/ ArtifactsWritten
           \/ \E p \in Paths : WriteConfig(p) \/ Prune(p) \/ WriteArtifact(p)
           \/ ValidateConsumers \/ ApplyFirewall \/ Up
  BY <1>3 DEF ConfigWritten, Pruned, SaveState, ArtifactsWritten, WriteConfig,
    Prune, WriteArtifact, Write, ValidateConsumers, ApplyFirewall, Up, record
<1>4. CASE Activate
  <2>1. StageInv'
    BY StageInvStep
  <2>2. stage' = "publish" /\ target' = target /\ live'.revision = target'
    BY <1>4 DEF Activate, StageInv, TypeOK
  <2>3. (StageInv /\ stage = "publish" => Holds(target))'
    BY PublicationHolds, PTL
  <2>4. live'.whole
    BY <1>4 DEF Activate, StageInv, TypeOK
  <2>5. Holds(live.revision)'
    BY <2>1, <2>2, <2>3
  <2> QED
    BY <2>2, <2>4, <2>5
<1>5. CASE Interrupt
  <2>1. CASE stage \in {"validate", "up", "activate", "firewall"}
    BY <1>5, <2>1 DEF Interrupt
  <2>2. CASE stage \notin {"validate", "up", "activate", "firewall"}
    <3>1. UNCHANGED <<files, nft, running, live>> /\ stage' = "idle"
      BY <1>5, <2>2 DEF Interrupt, files
    <3> QED
      BY <3>1, HoldsOn
  <2> QED
    BY <2>1, <2>2
<1>6. CASE (\E r \in Revisions : Promote(r)) \/ UNCHANGED vars
  <2>1. UNCHANGED <<files, nft, running, live, stage, target>>
    BY <1>6 DEF Promote, record, vars, files
  <2> QED
    BY <2>1, HoldsOn
<1> QED
  BY <1>1, <1>2, <1>3, <1>4, <1>5, <1>6 DEF Next, Progress

(* Every step keeps every part of it.                                      *)
LEMMA IInvStep == IInv /\ [Next]_vars => IInv'
BY StageInvStep, LiveInvStep DEF IInv

(* What a stage may rely on holds whatever earlier runs left behind.       *)
THEOREM Invariance == Spec => []IInv
BY InitIInv, IInvStep, PTL DEF Spec

-----------------------------------------------------------------------------
(* What is published.                                                      *)

(* Every reconcile run keeps the state well-typed.                         *)
THEOREM TypeCorrect == Spec => []TypeOK
<1>1. IInv => TypeOK
  BY DEF IInv, StageInv
<1> QED
  BY <1>1, Invariance, PTL

(* Success is published only for a projection that is wholly the target's: *)
(* Compose file, declared files, managed set and firewall are its own, and *)
(* exactly its services run, in their declared definition or, when `up`    *)
(* left them out, at least on the declared digest, none of them on an old  *)
(* copy of a file it mounts.                                               *)
THEOREM WholeProjection == Spec => []PublishesWholeProjection
<1>1. ASSUME IInv, stage = "publish", NEW s \in Services
      PROVE  IF Compose[target][s] = Absent THEN running[s] = Absent
             ELSE /\ RunsAs(s, Compose[target][s])
                  /\ MountsCurrent(s)
  BY <1>1 DEF IInv, StageInv, FilesInv, ContainersInv, Composed, FromConfig,
              FromPrune, FromArtifacts, FromValidate, FromFirewall, FromUp,
              FromActivate
<1>2. IInv => PublishesWholeProjection
  BY <1>1, PublicationHolds DEF IInv, Holds, PublishesWholeProjection
<1> QED
  BY <1>2, Invariance, PTL

-----------------------------------------------------------------------------
(* What a run may start.                                                   *)

(* A container is started by `up` or by the activation, whole or           *)
(* interrupted, as the Compose file and the files on disk say.             *)
LEMMA StartedWhere ==
  ASSUME IInv, [Next]_vars, NEW s \in Services, Started(s)
  PROVE  /\ stage \in FromUp
         /\ s \in Composed
         /\ running'[s] = Container(s)
         /\ \A p \in Paths : disk[p] # Absent => disk'[p] = disk[p]
<1> USE DEF IInv, StageInv
<1>1. ASSUME NEW started \in SUBSET Composed, NEW removed \in SUBSET Services,
             Recreate(started, removed)
      PROVE  s \in Composed /\ running'[s] = Container(s)
  <2>1. /\ s \in removed => running'[s] = Absent
        /\ s \in started \ removed => running'[s] = Container(s)
        /\ s \notin started \union removed => running'[s] = running[s]
    BY <1>1, Recreated
  <2> QED
    BY <2>1 DEF Started
<1>2. ToStart \in SUBSET Composed /\ Orphans \in SUBSET Services
  BY DEF ToStart, Orphans
<1>3. ToActivate \in SUBSET Composed /\ {} \in SUBSET Services
  BY DEF ToActivate, Affected, ChangedBinds, StaleBinds
<1>4. CASE Up
  BY <1>1, <1>2, <1>4, MadeByDocker DEF Up, Move, FromUp, FromActivate
<1>5. CASE Activate
  BY <1>1, <1>3, <1>5 DEF Activate, Move, files, FromUp, FromActivate
<1>6. CASE Interrupt
  <2>1. running' # running
    BY DEF Started
  <2>2. stage \in FromUp
    BY <1>6, <2>1 DEF Interrupt, FromUp, FromActivate
  <2>3. PICK started \in SUBSET Composed, removed \in SUBSET Services :
          Recreate(started, removed)
    BY <1>6, <2>1, InterruptRecreates
  <2>4. \A p \in Paths : disk[p] # Absent => disk'[p] = disk[p]
    BY <1>6, InterruptRecreates
  <2> QED
    BY <1>1, <2>2, <2>3, <2>4
<1>7. ASSUME ~Up, ~Activate, ~Interrupt PROVE UNCHANGED running
  BY <1>7 DEF Next, Progress, Begin, Preflight, WriteCompose, ConfigWritten,
     Pruned, SaveState, ArtifactsWritten, WriteConfig, Prune, WriteArtifact,
     Write, ValidateConsumers, ApplyFirewall, Publish, Reject, Promote, vars
<1> QED
  BY <1>4, <1>5, <1>6, <1>7 DEF Started

(* What every start may rely on.                                           *)
LEMMA StartedBehind ==
  ASSUME IInv, stage \in FromUp
  PROVE  /\ compose = Compose[target]
         /\ \A p \in Declared(target, Paths) : disk[p] = Content[target][p]
         /\ \A s \in Affected : Valid(s)
         /\ Rules[target] # Absent => nft = Rules[target]
<1> USE DEF IInv, StageInv, FilesInv, HostInv, FromConfig, FromPrune,
            FromArtifacts, FromValidate, FromFirewall, FromUp, FromActivate
<1>1. \A p \in Declared(target, Paths) : disk[p] = Content[target][p]
  BY DEF Outdated, Declared, ConfigPaths
<1> QED
  BY <1>1

(* No container is ever started on a mixture of revisions.                 *)
THEOREM NoMixture == Spec => NeverMixesRevisions
<1>1. IInv /\ [Next]_vars => [StartsFromOneRevision]_vars
  <2> SUFFICES ASSUME IInv, [Next]_vars, NEW s \in Services, Started(s)
               PROVE  /\ running'[s].definition = Compose[target][s]
                      /\ \A p \in Reads(s) \intersect Declared(target, Paths) :
                           running'[s].loaded[p] = Content[target][p]
    BY DEF StartsFromOneRevision
  <2>1. stage \in FromUp /\ s \in Composed /\ running'[s] = Container(s)
    BY StartedWhere
  <2>2. disk' \in [Paths -> Entries]
    BY IInvStep DEF IInv, StageInv, TypeOK
  <2>3. /\ Container(s).definition = compose[s]
        /\ \A p \in Reads(s) : Container(s).loaded[p] = disk'[p]
    BY <2>1, <2>2, ContainerMade DEF IInv, StageInv
  <2>4. /\ compose = Compose[target]
        /\ \A p \in Declared(target, Paths) : disk[p] = Content[target][p]
    BY <2>1, StartedBehind
  <2>5. \A p \in Declared(target, Paths) : disk'[p] = Content[target][p]
    BY <2>4, StartedWhere DEF Declared
  <2> QED
    BY <2>1, <2>3, <2>4, <2>5
<1> QED
  BY <1>1, Invariance, PTL DEF Spec, NeverMixesRevisions

(* A container is started only behind the firewall of its target.          *)
THEOREM BehindFirewall == Spec => FirewallFirst
<1>1. IInv /\ [Next]_vars => [StartsBehindFirewall]_vars
  BY StartedWhere, StartedBehind DEF StartsBehindFirewall
<1> QED
  BY <1>1, Invariance, PTL DEF Spec, FirewallFirst

(* A consumer whose files a run changed is started only on a configuration *)
(* its own validation accepts.                                             *)
THEOREM Validated == Spec => ValidatesWhatItChanged
<1>1. IInv /\ [Next]_vars => [StartsValidated]_vars
  BY StartedWhere, StartedBehind DEF StartsValidated, Affected
<1> QED
  BY <1>1, Invariance, PTL DEF Spec, ValidatesWhatItChanged

(* A protected service changes its image only along a transition that its  *)
(* revision authorises, whatever was interrupted after the preflight.      *)
THEOREM ImagesProtected == Spec => ProtectedImages
<1>1. IInv /\ [Next]_vars => [AuthorizedSwap]_vars
  <2> SUFFICES ASSUME IInv, [Next]_vars, NEW s \in Protected[target],
                      Started(s), running[s] # Absent
               PROVE  \/ Digest[Live(s)]
                           = Digest[running'[s].definition.image]
                      \/ <<s, Live(s), running'[s].definition.image>>
                           \in Authorized[target]
    BY DEF AuthorizedSwap, Live
  <2>1. s \in Services
    BY ApplyAssumption DEF IInv, StageInv, TypeOK
  <2>2. stage \in FromUp /\ s \in Composed /\ running'[s] = Container(s)
    BY <2>1, StartedWhere
  <2>3. running'[s].definition = Compose[target][s]
    <3>1. disk' \in [Paths -> Entries]
      BY IInvStep DEF IInv, StageInv, TypeOK
    <3> QED
      BY <2>2, <3>1, ContainerMade, StartedBehind DEF IInv, StageInv
  <2>4. CASE stage = "up"
    BY <2>3, <2>4 DEF IInv, StageInv, ImagesInv, TransitionAllowed, Desired,
       FromCompose, FromConfig, FromPrune, FromArtifacts, FromValidate,
       FromFirewall, FromUp, FromActivate
  <2>5. CASE stage \in FromActivate
    <3>1. RunsAs(s, compose[s])
      BY <2>1, <2>2, <2>5 DEF IInv, StageInv, ContainersInv, Composed
    <3> QED
      BY <2>2, <2>3, <3>1, StartedBehind DEF RunsAs, Live
  <2> QED
    BY <2>2, <2>4, <2>5 DEF FromUp
<1> QED
  BY <1>1, Invariance, PTL DEF Spec, ProtectedImages

-----------------------------------------------------------------------------
(* A run implements ApplyContract, as the lifecycle does: it is the writer *)
(* from its start to its end, its first change is the Compose file, the    *)
(* activation completes, and its report ends it.                           *)
Step == Contract!Next \/ UNCHANGED Contract!contractVars

(* What is completed is what the host holds.                               *)
LEMMA ProjectionIsLive == IInv => Projection = live
<1> SUFFICES ASSUME IInv PROVE Projection = live
  OBVIOUS
<1>1. live \in [revision: Revisions \union {Absent}, whole: BOOLEAN]
  BY DEF IInv, StageInv, TypeOK
<1>2. (live.whole /\ Holds(live.revision)) = live.whole
  BY <1>1 DEF IInv, LiveInv
<1> QED
  BY <1>1, <1>2 DEF Projection

(* Every step of a run is a step of the contract or a stutter.             *)
LEMMA ContractStep == IInv /\ IInv' /\ [Next]_vars => Step
<1> SUFFICES ASSUME IInv, IInv', [Next]_vars PROVE Step
  OBVIOUS
<1> DEFINE writer == [run |-> "run", revision |-> target]
<1> USE DEF Move
<1>1. Projection = live /\ Projection' = live'
  <2>1. (IInv => Projection = live)'
    BY ProjectionIsLive, PTL
  <2> QED
    BY <2>1, ProjectionIsLive
<1>2. /\ live \in [revision: Revisions \union {Absent}, whole: BOOLEAN]
      /\ head \in Revisions
  BY DEF IInv, StageInv, TypeOK
<1>3. stage # "idle" => writer \in Writers
  BY DEF Writers
<1>4. ASSUME UNCHANGED <<live, result>>, Writers' = Writers PROVE Step
  BY <1>1, <1>4 DEF Step, Contract!contractVars
<1>5. CASE Begin
  <2>1. Writers = {} /\ Writers' = {[run |-> "run", revision |-> head]}
    BY <1>5 DEF Begin, Writers
  <2>2. Contract!Admit("run", head)
    BY <1>1, <1>5, <2>1 DEF Begin, record, Contract!Admit
  <2> QED
    BY <1>2, <2>2 DEF Step, Contract!Next
<1>6. CASE WriteCompose
  <2>1. Contract!Change(writer)
    BY <1>1, <1>6 DEF WriteCompose, Writers, Contract!Change
  <2> QED
    BY <1>3, <1>6, <2>1 DEF WriteCompose, Step, Contract!Next
<1>7. CASE Activate
  <2>1. live.revision = target
    BY <1>7 DEF Activate, IInv, LiveInv, FromConfig, FromPrune, FromArtifacts,
      FromValidate, FromFirewall, FromUp, FromActivate
  <2>2. Contract!Complete(writer)
    BY <1>1, <1>7, <2>1 DEF Activate, Writers, Contract!Complete
  <2> QED
    BY <1>3, <1>7, <2>2 DEF Activate, Step, Contract!Next
<1>8. CASE Publish
  <2>1. live.revision = target /\ live.whole = TRUE
    BY <1>2, <1>8 DEF Publish, IInv, LiveInv, FromConfig, FromPrune,
      FromArtifacts, FromValidate, FromFirewall, FromUp, FromActivate
  <2>2. live = [revision |-> target, whole |-> TRUE]
    BY <1>2, <2>1
  <2>3. Writers' = {}
    BY <1>8 DEF Publish, Writers
  <2>4. Contract!ReportSuccess(writer)
    BY <1>1, <1>8, <2>2, <2>3 DEF Publish, Contract!ReportSuccess
  <2> QED
    BY <1>3, <1>8, <2>4 DEF Publish, Step, Contract!Next
<1>9. CASE Reject \/ Interrupt
  <2>1. Writers' = {} /\ UNCHANGED live
    BY <1>9 DEF Reject, Interrupt, Writers
  <2>2. CASE result' = [status |-> "failure", revision |-> Absent]
    <3>1. Contract!ReportFailure
      BY <1>1, <2>1, <2>2 DEF Contract!ReportFailure
    <3> QED
      BY <3>1 DEF Step, Contract!Next
  <2>3. CASE UNCHANGED result
    <3>1. Contract!Leave
      BY <1>1, <2>1, <2>3 DEF Contract!Leave
    <3> QED
      BY <3>1 DEF Step, Contract!Next
  <2> QED
    BY <1>9, <2>2, <2>3 DEF Reject, Interrupt
<1>10. CASE \/ Preflight \/ ConfigWritten \/ Pruned \/ SaveState
            \/ ArtifactsWritten
            \/ \E p \in Paths : WriteConfig(p) \/ Prune(p) \/ WriteArtifact(p)
            \/ ValidateConsumers \/ ApplyFirewall \/ Up
            \/ \E r \in Revisions : Promote(r)
            \/ UNCHANGED vars
  <2>1. UNCHANGED <<live, result, target>>
    BY <1>10 DEF Preflight, ConfigWritten, Pruned, SaveState,
      ArtifactsWritten, WriteConfig, Prune, WriteArtifact, Write,
      ValidateConsumers, ApplyFirewall, Up, Promote, record, vars
  <2>2. stage = "idle" <=> stage' = "idle"
    BY <1>10 DEF Preflight, ConfigWritten, Pruned, SaveState,
      ArtifactsWritten, WriteConfig, Prune, WriteArtifact, Write,
      ValidateConsumers, ApplyFirewall, Up, Promote, vars
  <2> QED
    BY <1>4, <2>1, <2>2 DEF Writers
<1> QED
  BY <1>5, <1>6, <1>7, <1>8, <1>9, <1>10 DEF Next, Progress

(* A run changes the host to its one revision, reports success only when   *)
(* the host holds it, and what it has completed stays complete until       *)
(* another run begins to write.                                            *)
THEOREM Implements == Spec => AppliesByContract
<1>1. Init => Contract!Init
  <2> SUFFICES ASSUME Init PROVE Contract!Init
    OBVIOUS
  <2>1. Projection = live
    BY InitIInv, ProjectionIsLive
  <2>2. Writers = {}
    BY DEF Init, Writers
  <2> QED
    BY <2>1, <2>2 DEF Init, Contract!Init
<1>2. IInv /\ IInv' /\ [Next]_vars => [Contract!Next]_(Contract!contractVars)
  BY ContractStep DEF Step
<1> QED
  BY <1>1, <1>2, Invariance, PTL
  DEF Spec, Contract!Spec, AppliesByContract
=============================================================================
