-------------------------------- MODULE Apply --------------------------------
(***************************************************************************)
(* What one reconcile run does to the host: _inner_reconcile of            *)
(* controller_runtime.py and the stages it calls, in their order.          *)
(*                                                                         *)
(*   staged     preflight of an ephemeral candidate (protected images)     *)
(*   compose    docker-compose.yml is replaced                             *)
(*   config     declared config files are written, one by one              *)
(*   prune      files an earlier run managed and this one does not         *)
(*   state      .infralink-managed-config.json                             *)
(*   artifacts  generic and typed artifacts are written, one by one        *)
(*   validate   declared consumers of CHANGED paths check their config     *)
(*   firewall   the nftables table is replaced                             *)
(*   up         docker compose up                                          *)
(*   activate   consumers of changed paths and stale binds are recreated   *)
(*   publish    success evidence                                           *)
(*                                                                         *)
(* A run may fail or be killed at any point; what it wrote stays, what it  *)
(* remembered (the changed paths) is lost, and the next run starts over.   *)
(* Runs are serialised by the lock (module Reconcile): one at a time here. *)
(*                                                                         *)
(* Abstracted: file bodies and rule sets are values; a consumer's path     *)
(* prefix is the set of paths under it; typed consumer ids are the         *)
(* consumers of the typed artifacts a run changed, so they add nothing to  *)
(* the changed paths; permissions and empty directories are left out.      *)
(***************************************************************************)
EXTENDS Integers, FiniteSets

CONSTANTS
  Revisions,   (* commits of the Registry                                   *)
  Paths,       (* files below /opt/services/config                          *)
  Artifacts,   (* those an artifact provider writes: never withdrawn        *)
  Services,    (* Compose services                                          *)
  Bodies, Images, Specs, RuleSets,
  Absent,      (* no file, no container, no table, no declaration           *)
  Empty,       (* an nftables table without rules                           *)
  Directory,   (* an empty directory where a file should be                 *)
  Content,     (* Content[r][p]: the body revision r declares for p         *)
  Compose,     (* Compose[r][s]: its definition of service s                *)
  Rules,       (* Rules[r]: its rendered firewall, Absent when disabled     *)
  Covers,      (* Covers[s]: the paths under s's declared consumer prefix   *)
  FileBinds,   (* FileBinds[s]: the files s mounts one by one               *)
  Rejected,    (* Rejected[s]: the bodies s's validation_argv refuses       *)
  Digest,      (* Digest[i]: the immutable digest configured image i names  *)
  Protected,   (* Protected[r]: services whose image r protects             *)
  Authorized,  (* Authorized[r]: the image transitions r allows them        *)
  MaxFaults    (* bound on failures, kills and promotions                   *)

Definitions == [image: Images, spec: Specs]
Entries == Bodies \union {Absent, Directory}
Reads(s) == Covers[s] \union FileBinds[s]
Containers(s) == [definition: Definitions,
                  loaded: [Reads(s) -> Entries]]

ASSUME ApplyAssumption ==
  /\ Artifacts \subseteq Paths
  /\ Absent \notin Bodies \union Definitions \union RuleSets \union {Empty}
  /\ Directory \notin Bodies \union {Absent}
  /\ \A s \in Services : Absent \notin Containers(s)
  /\ Content \in [Revisions -> [Paths -> Bodies \union {Absent}]]
  /\ Compose \in [Revisions -> [Services -> Definitions \union {Absent}]]
  /\ Rules \in [Revisions -> RuleSets \union {Absent}]
  /\ Covers \in [Services -> SUBSET Paths]
  /\ FileBinds \in [Services -> SUBSET Paths]
  /\ Rejected \in [Services -> SUBSET Bodies]
  /\ DOMAIN Digest = Images
  /\ Protected \in [Revisions -> SUBSET Services]
  /\ Authorized \in [Revisions -> SUBSET (Services \X Images \X Images)]
  /\ MaxFaults \in Nat

VARIABLES
  head,      (* the revision the configured ref names                       *)
  disk,      (* /opt/services/config: what is at each path                  *)
  compose,   (* /opt/services/docker-compose.yml                            *)
  managed,   (* .infralink-managed-config.json                              *)
  nft,       (* table inet infralink_filter                                 *)
  running,   (* each service's container: definition, files read at start   *)
  stage,     (* where the run is, "idle" between runs                       *)
  target,    (* the revision the run applies                                *)
  changed,   (* the run's changed_paths, in memory only                     *)
  excluded,  (* its representation-equivalent services                      *)
  result,    (* the evidence                                                *)
  live,      (* history: whose projection is here, and is it complete       *)
  faults

files == <<disk, compose, managed>>
vars == <<head, disk, compose, managed, nft, running, stage, target, changed,
          excluded, result, live, faults>>
record == <<result, live>>

Stages == {"staged", "compose", "config", "prune", "state", "artifacts",
           "validate", "firewall", "up", "activate", "publish"}

TypeOK ==
  /\ head \in Revisions
  /\ disk \in [Paths -> Entries]
  /\ compose \in [Services -> Definitions \union {Absent}]
  /\ managed \in SUBSET Paths
  /\ nft \in RuleSets \union {Absent, Empty}
  /\ DOMAIN running = Services
  /\ \A s \in Services : running[s] \in Containers(s) \union {Absent}
  /\ stage \in Stages \union {"idle"}
  /\ target \in Revisions
  /\ changed \in SUBSET Paths
  /\ excluded \in SUBSET Services
  /\ result \in [status: {"success", "failure", "none"},
                 revision: Revisions \union {Absent}]
  /\ live \in [revision: Revisions \union {Absent}, whole: BOOLEAN]
  /\ faults \in 0..MaxFaults

(* A bootstrapped host: nothing rendered, nothing runs.                    *)
Init ==
  /\ head \in Revisions
  /\ disk = [p \in Paths |-> Absent]
  /\ compose = [s \in Services |-> Absent]
  /\ managed = {}
  /\ nft = Absent
  /\ running = [s \in Services |-> Absent]
  /\ stage = "idle"
  /\ target = head
  /\ changed = {}
  /\ excluded = {}
  /\ result = [status |-> "none", revision |-> Absent]
  /\ live = [revision |-> Absent, whole |-> FALSE]
  /\ faults = 0

Move(from, to) == stage = from /\ stage' = to
Fault == faults < MaxFaults /\ faults' = faults + 1

-----------------------------------------------------------------------------
(* The staged candidate.                                                   *)

(* Variant: the candidate is rendered where the live projection is.        *)
BeginInPlace ==
  /\ Move("idle", "staged")
  /\ target' = head
  /\ compose' = Compose[head]
  /\ UNCHANGED <<head, disk, managed, nft, running, changed, excluded, record,
                 faults>>

Begin ==
  /\ Move("idle", "staged")
  /\ target' = head
  /\ UNCHANGED <<head, files, nft, running, changed, excluded, record, faults>>

Live(s) == running[s].definition.image
Desired(s) == Compose[target][s].image

(* Variant: an authorization is looked up by the image it leads to.        *)
TransitionKnown(s) ==
  \/ Digest[Live(s)] = Digest[Desired(s)]
  \/ \E before \in Images : <<s, before, Desired(s)>> \in Authorized[target]

(* Equal by digest, or authorised from exactly what runs to exactly this.  *)
TransitionAllowed(s) ==
  \/ Digest[Live(s)] = Digest[Desired(s)]
  \/ <<s, Live(s), Desired(s)>> \in Authorized[target]

PreflightPasses ==
  \A s \in Protected[target] :
    /\ Compose[target][s] # Absent
    /\ running[s] # Absent => TransitionAllowed(s)

(* The protected services that run the desired digest under another name.  *)
RepresentationEquivalent ==
  {s \in Protected[target] : /\ running[s] # Absent
                             /\ Live(s) # Desired(s)
                             /\ Digest[Live(s)] = Digest[Desired(s)]}

Preflight ==
  /\ PreflightPasses
  /\ Move("staged", "compose")
  /\ excluded' = RepresentationEquivalent
  /\ UNCHANGED <<head, files, nft, running, target, changed, record, faults>>

-----------------------------------------------------------------------------
(* render_declared_host on the live projection.                            *)

ConfigPaths == Paths \ Artifacts
Declared(r, among) == {p \in among : Content[r][p] # Absent}
(* Variant: a file that is there is taken to be the declared one.          *)
Missing(among) == {p \in Declared(target, among) : disk[p] = Absent}
Outdated(among) ==
  {p \in Declared(target, among) : disk[p] # Content[target][p]}
Withdrawn ==
  {p \in managed \ Declared(target, ConfigPaths) : disk[p] \in Bodies}

WriteCompose ==
  /\ Move("compose", "config")
  /\ compose' = Compose[target]
  /\ live' = [revision |-> target, whole |-> FALSE]
  /\ UNCHANGED <<head, disk, managed, nft, running, target, changed, excluded,
                 result, faults>>

(* By rename; an empty directory in the way is removed first.              *)
Write(p) ==
  /\ disk' = [disk EXCEPT ![p] = Content[target][p]]
  /\ changed' = changed \union {p}
  /\ UNCHANGED <<head, compose, managed, nft, running, stage, target, excluded,
                 record, faults>>

WriteConfig(p) == stage = "config" /\ p \in Outdated(ConfigPaths) /\ Write(p)

(* Variant: a config file that cannot be written is skipped.               *)
ConfigSkipped ==
  /\ Move("config", "prune")
  /\ UNCHANGED <<head, files, nft, running, target, changed, excluded, record,
                 faults>>

ConfigWritten ==
  /\ Outdated(ConfigPaths) = {}
  /\ Move("config", "prune")
  /\ UNCHANGED <<head, files, nft, running, target, changed, excluded, record,
                 faults>>

Prune(p) ==
  /\ stage = "prune"
  /\ p \in Withdrawn
  /\ disk' = [disk EXCEPT ![p] = Absent]
  /\ changed' = changed \union {p}
  /\ UNCHANGED <<head, compose, managed, nft, running, stage, target, excluded,
                 record, faults>>

Pruned ==
  /\ Withdrawn = {}
  /\ Move("prune", "state")
  /\ UNCHANGED <<head, files, nft, running, target, changed, excluded, record,
                 faults>>

SaveState ==
  /\ Move("state", "artifacts")
  /\ managed' = Declared(target, ConfigPaths)
  /\ UNCHANGED <<head, disk, compose, nft, running, target, changed, excluded,
                 record, faults>>

(* _project_artifacts: what a revision no longer declares stays on disk.   *)
WriteArtifact(p) ==
  stage = "artifacts" /\ p \in Outdated(Artifacts) /\ Write(p)

ArtifactsWritten ==
  /\ Outdated(Artifacts) = {}
  /\ Move("artifacts", "validate")
  /\ UNCHANGED <<head, files, nft, running, target, changed, excluded, record,
                 faults>>

-----------------------------------------------------------------------------
(* Consumers, firewall and containers.                                     *)

Composed == {s \in Services : compose[s] # Absent}

(* Variant: a consumer is affected when everything it covers has changed.  *)
AffectedWholly ==
  {s \in Composed : Covers[s] # {} /\ Covers[s] \subseteq changed}
Affected == {s \in Composed : Covers[s] \intersect changed # {}}

Valid(s) == \A p \in Covers[s] : disk[p] \notin Rejected[s]

(* A file to mount that is not there: by the syntax of the mount, Docker   *)
(* refuses the container or makes an empty directory.                      *)
MissingBinds(among) ==
  {p \in UNION {FileBinds[s] : s \in among} : disk[p] = Absent}
Make(made) ==
  disk' = [p \in Paths |-> IF p \in made THEN Directory ELSE disk[p]]

(* `compose run` of each affected consumer's validation, on the live tree. *)
ValidateConsumers ==
  /\ \A s \in Affected : Valid(s)
  /\ Move("validate", "firewall")
  /\ Make(MissingBinds(Affected))
  /\ UNCHANGED <<head, compose, managed, nft, running, target, changed,
                 excluded, record, faults>>

(* Variant: the table is only filled when it is not there yet.             *)
InstallFirewallOnce ==
  /\ Move("firewall", "up")
  /\ nft' = IF nft = Absent THEN Rules[target] ELSE nft
  /\ UNCHANGED <<head, files, running, target, changed, excluded, record,
                 faults>>

(* A disabled firewall renders no rules, and the table is left as it is.   *)
ApplyFirewall ==
  /\ Move("firewall", "up")
  /\ nft' = IF Rules[target] = Absent THEN nft ELSE Rules[target]
  /\ UNCHANGED <<head, files, running, target, changed, excluded, record,
                 faults>>

Container(s) ==
  [definition |-> compose[s], loaded |-> [p \in Reads(s) |-> disk'[p]]]

(* Variant: whatever runs under the service's name is left running.        *)
ToStartMissing == {s \in Composed \ excluded : running[s] = Absent}
(* docker compose up: what is missing or defined otherwise is recreated,   *)
(* what is not declared any more (--remove-orphans) is removed.            *)
ToStart ==
  {s \in Composed \ excluded :
     running[s] = Absent \/ running[s].definition # compose[s]}
Orphans == {s \in Services \ Composed : running[s] # Absent}

Recreate(started, removed) ==
  running' = [s \in Services |-> IF s \in removed THEN Absent
                                 ELSE IF s \in started THEN Container(s)
                                 ELSE running[s]]

Up ==
  /\ Move("up", "activate")
  /\ Make(MissingBinds(ToStart))
  /\ Recreate(ToStart, Orphans)
  /\ UNCHANGED <<head, compose, managed, nft, target, changed, excluded,
                 record, faults>>

(* _direct_file_binds: what is a directory by now is passed over.          *)
MountedFiles(s) == {p \in FileBinds[s] : disk[p] # Directory}

(* Variant: only this run's own changes count.                             *)
NothingStale == {s \in Composed : FALSE}
(* `docker cp` of each file bind of each running container, compared with  *)
(* the file: an atomic replacement leaves the container the old one.       *)
StaleBinds ==
  {s \in Composed : /\ running[s] # Absent
                    /\ \E p \in MountedFiles(s) :
                         running[s].loaded[p] # disk[p]}
ChangedBinds == {s \in Composed : MountedFiles(s) \intersect changed # {}}
ToActivate == Affected \union ChangedBinds \union StaleBinds

(* The copy of a bind must be a file: it is none when the container was    *)
(* started on a directory that has become a file since.                    *)
Uninspectable ==
  {s \in Composed \ (Affected \union ChangedBinds) :
     running[s] # Absent /\ \E p \in MountedFiles(s) :
                              running[s].loaded[p] = Directory}
ActivationRefused == MissingBinds(Composed) # {} \/ Uninspectable # {}

Activate ==
  /\ ~ActivationRefused
  /\ Move("activate", "publish")
  /\ UNCHANGED files
  /\ Recreate(ToActivate, {})
  /\ live' = [live EXCEPT !.whole = TRUE]
  /\ UNCHANGED <<head, nft, target, changed, excluded, result, faults>>

-----------------------------------------------------------------------------
(* The end of a run.                                                       *)

Forget == changed' = {} /\ excluded' = {}

Publish ==
  /\ Move("publish", "idle")
  /\ Forget
  /\ result' = [status |-> "success", revision |-> target]
  /\ UNCHANGED <<head, files, nft, running, target, live, faults>>

(* A check of the code, or Docker, refuses to go on.                       *)
Refused ==
  \/ stage = "staged" /\ ~PreflightPasses
  \/ stage = "validate" /\ \E s \in Affected : ~Valid(s)
  \/ stage = "validate" /\ MissingBinds(Affected) # {}
  \/ stage = "up" /\ MissingBinds(ToStart) # {}
  \/ stage = "activate" /\ ActivationRefused

(* Variant: the stage that refused is published as the status.             *)
RejectWithStage ==
  /\ Refused
  /\ stage' = "idle"
  /\ Forget
  /\ result' = [status |-> stage, revision |-> Absent]
  /\ UNCHANGED <<head, files, nft, running, target, live, faults>>

Reject ==
  /\ Refused
  /\ stage' = "idle"
  /\ Forget
  /\ result' = [status |-> "failure", revision |-> Absent]
  /\ UNCHANGED <<head, files, nft, running, target, live, faults>>

(* A stage fails on its own account, or the run is killed and publishes    *)
(* nothing.  A failed `up` has recreated some of the containers, a failed  *)
(* `nft -f` may leave the table that was created for it.                   *)
Interrupt ==
  /\ stage # "idle"
  /\ stage' = "idle"
  /\ Forget
  /\ result' \in {result, [status |-> "failure", revision |-> Absent]}
  /\ \/ UNCHANGED <<disk, running>>
     \/ /\ stage = "validate"
        /\ \E made \in SUBSET MissingBinds(Affected) : Make(made)
        /\ UNCHANGED running
     \/ /\ stage = "up"
        /\ \E made \in SUBSET MissingBinds(ToStart) :
             /\ Make(made)
             /\ \E started \in SUBSET ToStart, removed \in SUBSET Orphans :
                  /\ MissingBinds(started) \subseteq made
                  /\ Recreate(started, removed)
     \/ /\ stage = "activate" /\ ~ActivationRefused
        /\ UNCHANGED disk
        /\ \E started \in SUBSET ToActivate : Recreate(started, {})
  /\ \/ UNCHANGED nft
     \/ /\ stage = "firewall" /\ nft = Absent /\ Rules[target] # Absent
        /\ nft' = Empty
  /\ Fault
  /\ UNCHANGED <<head, compose, managed, target, live>>

Promote(r) ==
  /\ r # head
  /\ head' = r
  /\ Fault
  /\ UNCHANGED <<files, nft, running, stage, target, changed, excluded,
                 record>>

-----------------------------------------------------------------------------
Progress ==
  \/ Begin \/ Preflight
  \/ WriteCompose \/ ConfigWritten \/ Pruned \/ SaveState \/ ArtifactsWritten
  \/ \E p \in Paths : WriteConfig(p) \/ Prune(p) \/ WriteArtifact(p)
  \/ ValidateConsumers \/ ApplyFirewall \/ Up \/ Activate \/ Publish
  \/ Reject

Next == Progress \/ Interrupt \/ \E r \in Revisions : Promote(r)

Spec == Init /\ [][Next]_vars

(* The timer starts a run again and again, and a run that runs goes on.    *)
FairSpec == Spec /\ WF_vars(Progress)

-----------------------------------------------------------------------------
(* Properties.                                                             *)

FilesAre(r) ==
  /\ compose = Compose[r]
  /\ \A p \in Declared(r, Paths) : disk[p] = Content[r][p]

Projected(r) ==
  /\ FilesAre(r)
  /\ managed = Declared(r, ConfigPaths)
  /\ Rules[r] # Absent => nft = Rules[r]

(* `up` leaves an excluded service alone: it runs the declared digest      *)
(* under another name, whatever else its definition says by now.           *)
RunsAs(s, definition) ==
  /\ running[s] # Absent
  /\ \/ running[s].definition = definition
     \/ s \in excluded /\ Digest[Live(s)] = Digest[definition.image]

(* None of the files it mounts is an old copy.                             *)
MountsCurrent(s) == \A p \in MountedFiles(s) : running[s].loaded[p] = disk[p]

(* When success is about to be published (_publish_success, "only after    *)
(* every generic apply stage completed"), whatever earlier runs left half  *)
(* done: every declared file, the Compose file, the managed set and the    *)
(* declared firewall are those of the target revision, exactly its         *)
(* services run - in their declared definition, but for those the          *)
(* preflight excluded from `up`, of which only the declared digest is      *)
(* certain - and none of them holds an old copy of a file it mounts.  What *)
(* a killed run wrote and the target does not declare may still lie there: *)
(* it is in no managed set, and nobody prunes it.  The                     *)
(* stale-bind check (_stale_direct_file_bind_services) makes up for the    *)
(* changed paths an interrupted run forgot.                                *)
PublishesWholeProjection ==
  stage = "publish" =>
    /\ Projected(target)
    /\ \A s \in Services :
         IF Compose[target][s] = Absent THEN running[s] = Absent
         ELSE RunsAs(s, Compose[target][s]) /\ MountsCurrent(s)

Started(s) == running'[s] # running[s] /\ running'[s] # Absent

(* No container is started on a mixture of revisions: what it is defined   *)
(* as and every declared file it reads come from the run's one target,     *)
(* however many interrupted runs of other revisions went before.           *)
StartsFromOneRevision ==
  \A s \in Services : Started(s) =>
    /\ running'[s].definition = Compose[target][s]
    /\ \A p \in Reads(s) \intersect Declared(target, Paths) :
         running'[s].loaded[p] = Content[target][p]
NeverMixesRevisions == [][StartsFromOneRevision]_vars

(* A run starts a container only behind the firewall of its target: the    *)
(* rules are in force before any service changes (_inner_reconcile's       *)
(* order, which its tests describe as "before firewall or service          *)
(* mutation").                                                             *)
StartsBehindFirewall ==
  (\E s \in Services : Started(s)) /\ Rules[target] # Absent =>
    nft = Rules[target]
FirewallFirst == [][StartsBehindFirewall]_vars

(* A run that changed a file of a consumer starts that consumer only on    *)
(* files its own validation accepts (controller_config_consumers, validate *)
(* before activate).                                                       *)
StartsValidated ==
  \A s \in Services :
    Started(s) /\ Covers[s] \intersect changed # {} => Valid(s)
ValidatesWhatItChanged == [][StartsValidated]_vars

(* The image of a protected service changes, from one container to the     *)
(* next, only along a transition its revision authorises, whatever was     *)
(* interrupted between the preflight and `up`.                             *)
AuthorizedSwap ==
  \A s \in Protected[target] :
    Started(s) /\ running[s] # Absent =>
      LET before == running[s].definition.image
          after == running'[s].definition.image
      IN  \/ Digest[before] = Digest[after]
          \/ <<s, before, after>> \in Authorized[target]
ProtectedImages == [][AuthorizedSwap]_vars

(* Once faults and promotions have stopped, the timer's runs bring the     *)
(* files, the images that run and what they mount to the configured head   *)
(* and keep them there, unless a check refuses every run ("the next        *)
(* scheduled reconciliation must also converge cleanly"): no run goes on   *)
(* and leaves something out.                                               *)
Settled ==
  /\ FilesAre(head)
  /\ \A s \in Services :
       IF Compose[head][s] = Absent THEN running[s] = Absent
       ELSE /\ running[s] # Absent
            /\ Digest[Live(s)] = Digest[Compose[head][s].image]
            /\ MountsCurrent(s)
Settles == <>[]Settled \/ []<>Refused

(* The host holds the projection of revision r, its containers included -  *)
(* but of a protected one for certain only the image it runs.              *)
Holds(r) ==
  /\ Projected(r)
  /\ \A s \in Services :
       IF Compose[r][s] = Absent THEN running[s] = Absent
       ELSE /\ running[s] # Absent
            /\ \/ running[s].definition = Compose[r][s]
               \/ /\ s \in Protected[r]
                  /\ Digest[Live(s)] = Digest[Compose[r][s].image]
            /\ MountsCurrent(s)

(* The run as the writer of ApplyContract, and what it has written.        *)
Writers ==
  IF stage = "idle" THEN {} ELSE {[run |-> "run", revision |-> target]}
Projection == [revision |-> live.revision,
               whole    |-> live.whole /\ Holds(live.revision)]
Contract ==
  INSTANCE ApplyContract WITH Runs <- {"run"}, None <- Absent,
    writers <- Writers, live <- Projection, report <- result

(* What module Reconcile takes a run for, and _publish_success promises: a *)
(* run changes the host to its one revision, reports success only when the *)
(* host holds it, and what it has completed stays complete - through       *)
(* refused, failed and killed runs - until another run begins to write.    *)
AppliesByContract == Contract!Spec

(* "Validate or recreate services affected by rendered config changes":    *)
(* when success is published, no consumer's configuration is one its own   *)
(* validation refuses, and every consumer was started on the files on disk.*)
PublishesAffectedConsumers ==
  stage = "publish" => \A s \in Composed :
    /\ Valid(s)
    /\ \A p \in Covers[s] : running[s].loaded[p] = disk[p]
=============================================================================
