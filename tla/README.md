# A TLA+ model of the InfraLink host controller

`infralink-ops` brings a host to the state that a Git repository, the Registry,
declares for it. This directory models the parts of it that change the host,
checks them with TLC on small instances, and proves the central ones with TLAPS
for every instance. Paths such as `controller_runtime.py` are below
`src/infralink_ops/` of the repository.

## 1. The system

### How a reconcile works

A systemd timer starts the launcher (`assets/infralink-runtime`), which runs
`reconcile` in a transport image: the **outer** process. It takes
`reconcile.lock` in the runtime directory exclusively, fetches the Registry into the
cache, pulls the controller image that the fetched revision selects, lets go of
the lock and starts that image with a hand-off (revision and digest): the
**inner** process. The inner one takes the lock again, verifies the hand-off
against the cache and the local images, projects the revision onto the host
(files, firewall, containers), prunes images and publishes its result. Operators
run the public CLI beside all that: `assets/infralink` starts `operator`, which
inspects the cache under the same lock in shared mode and then runs the selected
image.

### Inventory

| Component | State it keeps | Operations | What is hard | Correct when |
|---|---|---|---|---|
| Reconcile lifecycle (`controller_runtime`, shell wrappers, timer) | cache, lock, local images, evidence and metric files | outer run, hand-off, inner run, operator | lock released and retaken, concurrent runs, kills, exit statuses | one writer at a time; success only when earned; it converges |
| Live projection (`controller_runtime`, `template_renderer`, `controller_artifacts`, `controller_config_consumers`, `controller_protected_transitions`) | Compose file, config files, managed paths, artifacts, nft table, containers | preflight, write, prune, save, validate, firewall, up, activate, publish | a stop anywhere followed by a run of another revision | a published revision is whole, its containers current and allowed |
| Registry checkout (`registry_checkout`, `controller_registry_checkout`) | the cache | fetch, reset, clean, verify | a stop in between | torn caches are refused |
| Evidence and metrics (`controller_reconcile_evidence`, `controller_metrics`) | two files | write success, write failure | two files, several writers | they never claim what was not done |
| Egress SNAT (`egress_snat`) | an iptables chain and its jumps | capture, reconcile, restore | no transaction, failures, Docker's edits | rules whole, foreign rules kept, failed calls undone |
| Host interface (`controller_host_interface`, `controller_bootstrap`) | launcher, units, systemd's view, the predecessor's ("V2") files | refresh, stage, bootstrap | reload refused, kills, V2 still active | there is always one way to reconcile |
| Bounded process (`bounded_process`) | a process group, two pipes | run, collect, tear down | forks, escapes, limits, deadlines, failing calls | complete result or error, nobody left, always returns |
| Config trees (`config_trees`) | target directories | preflight, synchronize | stops, overlaps, leftovers | each tree exact, all together |
| Firewall policy (`firewall`, `controller_firewall`) | the nft table `infralink_filter` | render, load, verify | what a packet looks like in each chain; drift | declared flows pass, nothing else does, and "verified" means both |
| Artifact installation (`artifact_target_install`, `controller_artifacts`, `artifact_installer`, `artifact_renderer_source`, `typed_artifact_materializer`, `stable_regular_file`, `declared_file_destination`) | target files | classify, install one body | no lock, failing syncs, loss of power | an atomic target; what is reported in place stays |
| Image resolution (`image_resolution`, `controller_images`) | local images | resolve, prune | tags that move, stale digests on the host | a digest the tag named when it was pulled |
| Compose state protocol (`compose_state_protocol`, `compose_binds`) | none | list, inspect twice, select | containers and images change between commands | each container gets a distribution of the image it runs |
| Doctor, observation, surface (`controller_doctor`, `observation`, `controller_surface`) | none | report | what they read is moving | they refuse what they cannot trust |
| Adapter, render secrets, runtime directories, templates, dashboards, helpers | none, or directories made before a run | parse, resolve, render | - | pure functions |
| Ansible baseline, Gitea hooks, images, CI | - | - | - | outside the controller |

`PROJECT.json` lists every component with its status and every hazard at its line.

### What interacts with what

The outer and inner processes, other runs and operators share the cache, the
images and `reconcile.lock` (module `Reconcile`). Inside one inner run, the
stages share the disk and the set of changed files (`Apply`); `Reconcile` sees
all of `Apply` as the two steps `InnerProject` and `InnerActivate` on the variable
`live`. `ApplyContract` states what the lifecycle promises to the host and its
readers, and both are shown to implement it: `Reconcile` for many processes that
know a projection only as whole or not, `Apply` for one run after another on a host
whose files, table and containers make it whole.

Image resolution and Compose observation meet in one Docker engine (`DockerHost`):
what the first has resolved is deployed, and the second observes the containers,
while the registry's tags move and others pull, prune, start and remove
(`Images` composes the three). `ArtifactInstall` is what happens inside the
artifact stage of `Apply`, and implements `AtomicTarget`, which is all that stage
needs to know. `Firewall` is what `Apply` sees as the table of one revision: which
packets it lets through, and what a verification of it means.

`EgressSnat`, `HostInterface`, `BoundedProcess` and `ConfigTree` are components with
state of their own that the others do not read.

## 2. Modules

| Module | Models | Kind |
|---|---|---|
| `Reconcile` | the lifecycle of outer and inner processes, operators, faults | component |
| `ApplyContract` | one writer at a time, only it reports success, of `Reconcile` and of `Apply` | abstract specification |
| `ReconcileProofs` | inductive invariant, safety, and the refinement of `ApplyContract` | proofs |
| `Apply` | one inner run after another on one host | component |
| `ApplyProofs` | what each stage may rely on, what is published and what never happens, and the refinement of `ApplyContract` | proofs |
| `EgressSnat` | the SNAT chain, command by command | component |
| `HostInterface` | refresh, stage, bootstrap's timer, V2's retirement | component |
| `HostInterfaceProofs` | units in step, V2's files and timer, what a success leaves | proofs |
| `BoundedProcess` | the runner and the command it runs | component |
| `BoundedProcessProofs` | retention within limits, complete results, nobody left behind | proofs |
| `ConfigTree` | collections of config trees | component |
| `ConfigTreeProofs` | exact trees, refusals in time, true reports | proofs |
| `AtomicTarget` | a name that always refers to something whole | abstract specification |
| `ArtifactInstall` | the installation of one file, system call by system call | component |
| `ArtifactInstallProofs` | inductive invariant, safety, and the refinement of `AtomicTarget` | proofs |
| `FirewallPolicy` | the refusals and rules of `render_firewall_policy`, and what a rule does to a packet | operators |
| `Firewall` | load, drift and verification of the table | component |
| `NetfilterProofs` | what a loaded table and what a verified one lets through; the SNAT chain whole, in force and undone, foreign rules kept | proofs |
| `DockerHost` | registry tags and a Docker engine, used by others too | environment |
| `ImageResolution` | `resolve_host_image_evidence` | component |
| `ComposeState` | the observation of a Compose project | component |
| `Images` | both of them on one `DockerHost` | composition |
| `ImagesProofs` | a resolved digest is current, an observed identity is what runs | proofs |
| `MC...` | instances for TLC | model checking |

The name of an action is the name of the code's step; `PROJECT.json` "map" gives
the lines of each definition. A definition whose comment begins with "Variant"
is a plausible mistake in the definition below it, used to see that a property
would notice; no specification refers to one.

### Reconcile

| Variable | Code |
|---|---|
| `head` | what the configured Registry ref names |
| `cache` | `/var/lib/infralink/registry`: the revision, and whether it is clean |
| `images` | what each controller reference names on this host |
| `exclusive`, `shared` | the holders of `reconcile.lock` (`_reconcile_lock`) |
| `live` | the projection on the host: its revision, and whether it is whole |
| `evidence`, `metric` | `reconcile-result.yml` and the textfile metric |
| `outer`, `inner`, `handoff` | the program counters of a run's processes and what was handed over |
| `operator`, `view` | the same for `operator()` |

A run's outer process goes `OuterAcquire`, `OuterFetch`, `OuterConverge`,
`OuterHandoff`, `OuterReturn`; its inner one `InnerAcquire`, `InnerVerify` (or
`InnerMismatch`), `InnerProject`, `InnerActivate`, `InnerPrune`, two publication
steps and `InnerExit`. Every one of them may fail, be refused the lock
(`controller_reconcile_in_progress`, which is never published) or be killed.
Every failure the inner process reports itself ends in exit status 78, which
tells the outer one to stay silent. Failure evidence is written after the lock
has been let go, as in `main`. The inner process also stages the host interface
under the lock; `HostInterface` models that, and `Reconcile` sees only its failure.

### Apply

`stage` is the position in `_inner_reconcile`; `compose`, `disk`, `managed`, `nft`
and `running` are the host; `changed` and `excluded` are the memory of one run.
`Interrupt` is any failure or kill: the run is over and the host stays as it is.
A half-loaded nft table is part of it. `live` is a history variable: the revision
whose projection is here, and whether its run got as far as the publication. A
container remembers the bodies it was started on (`loaded`), which is how a stale bind
mount shows. A mounted file that is missing when a container is started is made a
directory by Docker or refuses the container, by the syntax of the mount (`MissingBinds`,
`Make`, `Interrupt`); a container that holds such a directory in the place of what is a
file by now cannot be compared with it (`Uninspectable`). Each service has one consumer
here (`Covers`, `Rejected`); in the code several may share it.

### EgressSnat, HostInterface, BoundedProcess, ConfigTree

- `EgressSnat`: one action per iptables command; `Edit` is Docker. The chain's
  contents are one value, and `chain = Nothing` an empty chain. A failing command is told
  as such (`Told`) or, where the code accepts exit status 1, taken for "there is one" or
  "there is none" (`Tolerated`, `CaptureFails`). `failed` is history: which steps of the
  call have failed. `rules` is POSTROUTING
  in its order; `Jumps` and `Foreigns` are the positions of the owned jumps and of
  everybody else's rules, and `SameForeign` says that two tables have the same foreign
  rules in the same order.
- `HostInterface`: `disk` is what is in the files, `loaded` what systemd has read;
  `pc` and `run` are a reconcile's `stage`, which holds `reconcile.lock`, and an
  operator's `bootstrap` and plain `refresh`, which hold nothing; `Refreshers` says which
  of them refresh the host. Every question to systemd about V2's service, its timer and
  the canonical timer is a step of its own, in the code's order (`Look`, `Queries`,
  `Check`), and V2 may start between two of them. `torn` remembers that units were left
  behind: by a kill, a failed removal, or a rollback beside the other run. A rollback's
  files are a set with the place of each in the code's order (`UndoReload`,
  `UndoRemovals`). `LegacyStart` and `LegacyEnd` are V2's own timer and service.
- `BoundedProcess`: the leader and one helper, the pipes and who still has them
  open, the clock, and the teardown phase by phase. Every call of the teardown
  may fail. `Breaks` is an interruption or a failure that the `except` clauses catch,
  `Slips` an interruption that falls outside of them: before the `try`, or between two
  guarded calls of the teardown.
- `ConfigTree`: `fs` maps each path below the config root to a file, a directory,
  a link or nothing; a preflight is one step because it only reads. A directory in
  the place of a temporary file stops the call (`TemporaryBlocked`). `touched` is the set
  of files a run has changed, and `changed_paths` what it says of them: `Reported` is the
  spelling of `_reported_path`, which takes the dot off a target that begins with one.

### ArtifactInstall

`target` is what the target's name refers to and `survivors` what it may refer to
after a loss of power: a rename adds to the second, an fsync of the directory makes
it the first, and a directory that is itself not on the disk (`~parentSaved`) may
take its file with it. `pc` is the position in `controller_artifacts.apply` and
`install_artifact_body`; `litter` says that a killed installer's temporary file is
still there. `found` and `promised` are history: what the target was when a call
began, and what was last reported in place; the first is forgotten when anybody else
moves the target, the second when anybody does. `Fail` is an OSError of any call,
`Kill` and `LosePower` need no cooperation. `Linked` is a regular file with a second
name: every call refuses it, and `InstallsAgain` counts it among what obstructs.

### FirewallPolicy and Firewall

A rule is a record of what it matches; `Rendered` is the set of rules of each chain.
The reference is independent of the rules: `Accepts` says what nftables does with a
packet, given that Docker translates a packet for a published socket before the
forward chain sees it. `ServesDeclared` and `ServesOnly` compare it with the
declaration. `FindTable`, `AddTable` and `LoadTable` are the nft commands of
`_apply_firewall_rules`; `Verified` is `verify_firewall_policy`, including that it looks
for a rule's text anywhere in the listing (`Covers`). The table at the start may be the
one of an earlier declaration, and others may then delete rules or open a chain
(`WornFrom`); only in a table without such left-overs (`NothingLeftOver`) can a
verification promise that nothing undeclared is served.

### DockerHost, ImageResolution, ComposeState, Images

An image is distributed by digest and has a local id; several digests may unpack to
one image. `tags` keeps what each tag has named, so that a property can say "since it
was pulled". Docker Hub repositories have two names (`Familiar`, `Canonical`).
`ImageResolution` walks through the image map: pull, inspect, and for a tag pull and
inspect again and compare. `ComposeState` has one action per Docker command: `List`,
`InspectContainers`, `InspectImages`, then `Select`; a refusal ends the observation.

## 3. Runs

| Run | Instance | Shows |
|---|---|---|
| `lifecycle` | 2 runs, 1 operator, 2 revisions of one mutable tag, 2 digests, one head and one digest to begin with (the others follow by exchanging names), 2 faults, fair | all safety properties, `ImplementsContract` and `TimerConverges` |
| `operator_handoff` | the same | **violated**: an operator's command runs on a moving cache |
| `apply` | 4 revisions, 4 paths, 2 services, 3 faults or promotions, fair | safety of the projection, `AppliesByContract`, `Settles` |
| `apply_consumers` | 3 of the revisions, 1 fault | **violated**: affected consumers are forgotten by a retry |
| `egress_snat` | up to one jump more than `_MAX_JUMPS` = 3, 2 failing commands, 2 edits anywhere in POSTROUTING | `LiveChainIsWhole`, `SuccessApplies`, `RestoresOneJump`, `ForeignRulesKept` |
| `egress_snat_restore` | the same, 1 failing command, no edits | **violated**: a snapshot of several jumps is not restored |
| `host_interface` | `stage` beside `bootstrap`, 2 assets, 2 V2 files, 2 versions, 2 faults or updates, 1 bootstrap once the timer is ready, fair | units in step, safe retirement, `BecomesModern` |
| `bounded_process` | limits of 1, aggregate 1, pipes of 2, deadline and graces of 1, 2 attempts, 1 fault, fair | complete results, nobody left behind, termination |
| `config_tree` | 5 revisions (one nests trees, one swaps a directory for a file, one has a bad source), a target that begins with a dot, 1 fault, 2 edits | exact trees, refusal before writing, reports |
| `artifact_install` | 2 installers, 2 files, 2 failures, kills or losses of power, 1 edit, fair | `ImplementsTarget`, promises kept, honest errors, `InstallsAgain` |
| `firewall` | 2 services, up to 2 of 9 ingress rules and 2 of 6 mappings that agree and disagree in every field, an empty host or the table of an earlier declaration, 1 drift, 1 failing command | declared flows pass, others do not, `VerifiedMeansEnforced` |
| `images` | a pinned and a tagged service, 3 digests of 2 images, 2 containers, 1 push, 1 pull and 1 prune by others | `ResolvedIsCurrent`, `ObservedIsRunning` |

The three violated runs are disagreements between the code and a sentence of its own
documentation; `PROJECT.json` "findings" quotes both. What holds in spite of each is a
property of the passing run beside it. Other limits of the code are named by the
properties themselves, as the cases they leave out, and listed in section 5.

### Why these bounds

- Two runs and one operator are enough for every conflict over a lock with two
  modes, and the theorems below are for any number. Two faults allow "killed, and
  the next run fails too"; the proofs do not bound them either.
- `Apply` takes four revisions because the cases need pairs of them: a revision
  that protects a service and one that authorises a step from exactly the other,
  one that withdraws a file and a table, and one without a file that a container
  mounts. Three interruptions reach "an interrupted run of the third revision
  after an interrupted run of the second".
- `EgressSnat`: two failing commands are what it takes to get past both the deletions
  and the flush of a removal. `MaxJumps` is 3 instead of 128: what matters is none, one,
  several together, several apart, exactly the bound and one more.
- In `BoundedProcess` a limit of one byte, an aggregate below the sum, and a
  pipe that holds more than the limit reach every boundary of `_drain`; one fault
  reaches every single failing call of the teardown and every place of an interruption.
- `HostInterface`: an executable and a unit on either side are what the code tells
  apart; one bootstrap beside the timer's runs overlaps each of their steps, and two
  faults reach a rollback of one run beside the failure of the other. No step takes the
  canonical timer's readiness away, so the second look at it
  (`controller_host_interface.py:363`) never fails here. The run has no plain
  `refresh`; the theorems are for any set of the three, and what `LegacyFilesSafe`
  promises of a plain `refresh` is proved only.
- `ArtifactInstall`: two installers are enough for one to move what the other has
  looked at; two faults allow a sync that fails and then a loss of power. The
  theorems bound neither.
- `Firewall`: every declaration and Compose file of the instance that is accepted is
  a start, with those of the refused ones that have a single ingress rule, so that
  each refusal happens; packets take every value of every field. The theorems are for
  every declaration, Compose file, earlier table, drift and packet.
- `Images`: a push between the two pulls, a digest of the same image left from an
  earlier run, and a prune or a removal between two commands of an observation are
  the cases the code guards against, and each needs one of each kind. The two
  container ids are interchangeable (`SYMMETRY`); the run has no liveness property.
- `ConfigTree`: one kill leaves any partial state, and the next runs may be of
  any other revision; two edits allow one before and one between the calls.

### Fairness

- `Reconcile`: weak fairness of each running process and of the timer's start
  (`Tick`): systemd starts the service again and again, and a process that runs
  is scheduled. Nothing forces a fault, a push, a promotion or an operator, and
  faults are bounded: liveness says what happens when they have stopped.
  The one operator calls once, so no stream of operators
  that hold the lock in shared mode is among the behaviours. A kill in the middle of
  `git reset` is taken for a torn cache that the next run repairs; an `index.lock` that
  git itself leaves behind is not modelled.
- `Apply`: weak fairness of `Progress`, the steps of a run and the start of the
  next. `Settles` allows for a check that refuses every run, whatever it refuses it for:
  mostly the revision is to blame, and once it is not (section 5).
- `HostInterface`: `Progress` and the end of a V2 service are weakly fair; the
  timer's `stage` is strongly fair because V2's runs and an operator's bootstrap may
  come first again and again, and the timer still gets its turn. Bootstraps of a host
  whose timer is ready are bounded: see section 5.
- `BoundedProcess`: the runner and time. The command gets no fairness at all.
- `ArtifactInstall`: each installer is scheduled and tries again. `InstallsAgain` then
  says that it succeeds again and again, unless from some moment on something is in
  place that every installer refuses.
- `EgressSnat`, `ConfigTree`, `Firewall` and `Images` have no liveness property: their
  callers decide whether they are called again, and a resolution or an observation
  may be refused for as long as others keep changing the host.

Deadlock is checked in every run; no configuration switches it off.

## 4. Proofs

`ReconcileProofs` proves `Spec => []IInv` (`Invariance`) for any finite or infinite
`Runs`, `Operators`, `Revisions`, `References` and `Digests`, from
`ReconcileAssumption` alone. The safety properties are not inductive: that the
cache is the verified one *now* depends on nobody else being able to move it,
which depends on who holds the lock. `IInv` adds what is missing:

- `LockInv`: the lock is held exactly by the processes whose program counter is
  inside a `with _reconcile_lock` block;
- `HandoffInv`: an inner process exists only behind a launcher that has handed
  off, and carries a complete hand-off;
- `GroundInv`: past verification the cache is clean and of the handed-off
  revision, the image is the handed-off digest until pruning, and the projection
  is as far as the program counter says;
- `ViewInv`: an operator that is pulling still has the revision it inspected.

Each conjunct has a step lemma with one case per action. From `IInv` follow
`TypeCorrect`, `MutualExclusion`, `HandOffSound`, `Deference`, `OperatorView` and,
with the step lemma `EarnedStep`, `SuccessEarned`. The refinement maps the inner
processes past verification to the contract's writers and `evidence` to its report;
`Implements` says that every step is a step of the contract or a stutter.

`ApplyProofs` proves all six safety properties of `Apply`, for any revisions, paths,
services, images and number of interruptions and promotions, from `ApplyAssumption`
(the functions that describe a revision have their types, and nothing is nothing).
That what is published is whole depends on what every stage before has established
and no later one disturbs, whatever an earlier, interrupted run of another revision
left behind. `IInv` is therefore one clause per stage on top of the types:

- `MemoryInv`: a run starts without an earlier one's `changed` and `excluded`;
- `FilesInv`: the Compose file, the config files, the managed set and the artifacts
  are the target's from the stage on that has written them;
- `HostInv`: from the firewall on, every affected consumer has been validated; from
  `up` on, the table is the target's;
- `ImagesInv`: the services that `up` leaves alone run an image of the declared
  digest, and what the preflight found of the protected ones holds until `up`;
- `ContainersInv`: after `up` the declared services run, in their declared definition or,
  left out by `up`, at least on the declared digest; at publication none holds an old
  copy of a file it mounts;
- `LiveInv`: what was completed (`live`) is what the host holds, until a run begins to
  write; a run has completed nothing between its first write and its publication.

`Implements` maps a run to `ApplyContract`: the run is the writer from `Begin` to its
end, the projection is whole if its run completed it and the host does hold all of it
(`Holds`: every declared file, the managed set, the table, every container). The
contract lets only the writer change that, to its own revision; so a run that is
refused by the preflight, or killed before it writes, has left the last projection
whole, and success is reported for nothing less. This is what `live.whole` stands for
in `Reconcile`, whose refinement of the same contract ignores how a projection comes
to be whole.

`HostInterfaceProofs` proves, for any lists of assets and V2 files, any units among
them, any versions and any number of faults and bootstraps, from
`HostInterfaceAssumption` (no file is listed twice or in both lists), the four safety
properties of a stage, a bootstrap and a plain refresh that interleave without a lock.
The invariant:

- `QueryInv`: what the queries have established so far, of which each is a step: a service
  that is found off stays off only once its timer is off, and nothing switches that on.
  stage and bootstrap ask for the service again after they have found the timer off, in
  one order or another (`Established`); a plain refresh does not;
- `RetireInv`: hence whoever is past its preflight and set on retiring V2 finds its timer
  off, and, but for a plain refresh, its service as well;
- `PlanInv`: the positions of a run, and that only who retires removes or puts back;
- `AloneInv`, `Sole`: who has the files to itself: a run that nobody joined, or a stage
  on a host whose V2 timer keeps every bootstrap out (its preflight refuses);
- `AssetsInv`, `RetiredInv`: such a run finds the files as it has left them so far;
- `PendingInv`: systemd differs from the disk only in units that some run has changed
  and not reloaded, or has yet to put back;
- `SnapshotInv`: a run that is alone has the snapshot systemd works from, so that
  putting it back brings the two in step again.

`InStep` (`UnitsInStep`) follows from `PendingInv`, as runs that are over have nothing
pending; `LegacySafe` from `RetireInv`; `HandOver` and `Installs` from `AssetsInv` and
`RetiredInv`.

`BoundedProcessProofs` proves, for any limits, graces, numbers of attempts and
failures, from `BoundedProcessAssumption` (each limit is positive and at most the
aggregate, which is at most their sum, as the code demands), that no more is
retained than one byte beyond a limit (`TypeCorrect`), that a result is complete
(`Complete`) and that nobody of the group is left (`GroupTornDown`), unless the kill was
refused or an interruption went past the teardown (`abandoned`). The invariant says
that before the cleanup everything read is kept and within its limits (`WithinInv`),
that a stream that is no longer watched is at its end (`EofInv`) and that after SIGKILL
who is left in the group is dying (`KilledInv`); `PhaseInv` places the drain and the
last wait.

`ConfigTreeProofs` proves the four properties of `ConfigTree` for any paths, trees,
revisions, edits and kills, from `ConfigTreeAssumption` (the trees of a revision are
within the paths and none of their files is a directory of another's; a temporary file
lies beside its file and is never itself declared). `CallInv` describes the call at hand: directories stay once
made, and the stale pass leaves only what is declared (`SweepInv`). `RunInv` holds of a
run that nobody disturbs: the trees are apart (`ApartInv`), those behind are exact
(`BehindInv`), those ahead can still be written (`AheadInv`), and what it has touched is
what differs so far (`ReportInv`, `DiffersInv`); `ReportsTruly` passes this through
`Reported`, whatever that does to a name. The heart is `OthersStay`: a step below one target
leaves trees apart from it exact and acceptable, by the order of paths (`PathOrder`).

`ImagesProofs` proves `ResolvedIsCurrent` and `ObservedIsRunning` for any image map,
registry and engine, any pushes, pulls, prunes and containers beside them, from
`DockerHostAssumption` and `ImageResolutionAssumption` (shapes of references and of what
is known of a host). Neither component locks anything, so the invariant says what
survives everybody else: tags only ever name more and containers keep their image
(`HostInv`); an image that was pulled and is still there leads to a digest its tag has
named since (`KnownHere`, `ResolutionInv`); what a command told of a container or an
image stays true of it (`ObservationInv`).

`ArtifactInstallProofs` proves, for any number of installers, files, failures,
losses of power and edits, from `ArtifactInstallAssumption` (the kinds of things a
name can refer to are different), that the installation keeps its promises
(`PromisesKept`), that its errors are honest (`HonestErrors`) and that it implements
`AtomicTarget` (`Implements`). The inductive invariant adds to the types:

- `FlushedInv`: whoever is about to rename has flushed; from it and the types
  follows that nothing torn is ever seen or comes back;
- `GroundInv`: what has been or may come back at the target's name lies in a real
  directory, and whoever is past making the directory works in one;
- `UnsavedInv`: a directory that is not on the disk may take the target with it;
- `PromiseInv`: what is promised is in place, the only thing that can survive, and in
  a directory that is on the disk itself;
- `HonestInv`: the two errors for every program counter on the way to them.

`NetfilterProofs` proves that a loaded table lets through what is declared
(`DeclaredServed`) and nothing else (`NothingElseServed`), from `FirewallAssumption` (the
marker for an open field is no value of a field; a table found at the start is that
of some declaration, worn). The argument is two chains of
lemmas about the rendering, for any declaration, Compose file and packet: from a
declared flow to the rule that accepts it (`InputServes`, `ForwardServes`, `SshServes`), and
from a rule back to the declaration (`InputOnly`, `ForwardOnly`). The invariant
`LoadedInv` carries them to every state: while nobody has changed it the table is the
rendered one. `VerifiedEnforced` proves the same of a table that was only verified, for
any earlier declaration and any drift: by `VerdictInv` the table holds rules of some
declaration only, and a rule's text can be part of another's line only if the two
agree but for the interface (`InputShape` and the lemmas after it), which ingress rules
always name. The exception in `VerifiedMeansEnforced`, ssh opened to any interface, is
real: the rule of such an ssh is part of the line of an older, narrower one, and the
verification passes on a table without it.

The same module, since both are the controller's part of the kernel's packet filter,
proves the four properties of `EgressSnat`, for any POSTROUTING, lists of SNAT rules,
failing commands and edits of Docker's, from `EgressSnatAssumption`. Of that only
`MaxJumps` >= 2 is more than a statement of types, and the code's `_MAX_JUMPS` is 128: with 1,
the loop in `_remove_jumps` would give up on a single jump, and nothing would ever be
replaced. `SnatInv`, the inductive invariant, is the types and two parts:

- `ChainInv`: what the chain holds before each command, and which failures
  (`failed`) can have been taken for "there is none" on the way there. Old rules until
  they are replaced, or no jump leads there (a chain that was just created is empty, and nothing
  can name one that was not there); the wanted ones from `iptables-restore` on; in a
  restoration, what was captured;
- `RestoreInv`: while nobody disturbs it, a call that captured at most one jump has
  POSTROUTING as it was captured, or as it was but for that jump (`Gone`), and a
  restoration has it at a known point between the two before each of its commands. It
  never ends as `broken`.

What `RemoveAt` and `InsertAt` do at every position (`Removed`, `Inserted`) is proved
from the library's facts on `SubSeq` and `\o`; from them, that deleting or inserting a jump
moves the other rules without reordering them (`RemovesJump`, `InsertsJump`), that what was
deleted comes back in its place when it is inserted there, and that Docker's edits leave
the number of jumps alone as far as it matters (`EditsKeepJumps`). `ForeignRulesKept` follows
from those, one command at a time. Every statement is about positions and none about a
recursive function of the sequence, so no induction is needed.

Every safety property that a passing run checks is a theorem. Only model-checked is
liveness (`TimerConverges`, `Settles`, `BecomesModern`, `AlwaysReturns`, `InstallsAgain`): liveness
under fairness and `ENABLED` are beyond the prover.

No module declares a `RECURSIVE` operator.

## 5. Not modelled, and known limits

- The failure of an earlier run may be published after the success of a later
  one; the code does this and the model allows it.
- What a run publishes as success is less than the declared projection in three ways.
  A protected service that runs the declared digest under another name is left out of
  `up` and keeps its old definition (`controller_runtime.py:926`,
  `controller_protected_transitions.py:160`): `RunsAs`, `Holds` and `Settled` ask only for
  the digest there. A config file that a killed run wrote and the next revision does not
  declare is in no managed set and stays (`template_renderer.py:263`). A consumer whose
  files an interrupted run changed is not validated or recreated (`apply_consumers`),
  unless it mounts one of them.
- A container that was started while a mounted file was missing may hold a directory in
  its place. When the file comes, and the run that wrote it is interrupted, the comparison
  refuses every later run (`controller_config_consumers.py:183`, `Uninspectable`), until
  somebody removes the container: one of the ways into the `[]<>Refused` of `Settles`.
- `FirewallFirst` is about the services. The validation containers of `docker compose
  run` are started and removed before the firewall is applied; they are no part of
  `running`.
- `BoundedProcess` does not reuse process numbers. An interruption just after the spawn or
  between two guarded calls of the teardown (`bounded_process.py:330`, `:351`) leaves the
  group running; `NobodyLeftBehind` leaves out exactly these calls (`abandoned`).
- `ConfigTree`: consumers are found by the reported names, and below a target that begins
  with a dot those are not the paths (`config_trees.py:478`), so that no `path_prefix` of a
  consumer matches (`controller_config_consumers.py:284`). Only one leading dot is in
  the instance; `lstrip` takes any number of dots and slashes.
- `ConfigTree` assumes that nobody moves the checkout during one call, as the
  docstring of `materialize_config_tree` asks, and that no declared file has the
  name of another's temporary file.
- `EgressSnat`: the docstring of the replacement says "Atomically", but it deletes the
  old jumps before it inserts the new one (`egress_snat.py:217`, `:233`); for that
  moment there is none. The model has the moment. A restoration of several jumps puts
  the last one back first, at the number it had when the others were still before it
  (`egress_snat.py:183`): iptables refuses it or it ends up further down, and with
  `_MAX_JUMPS` jumps the deletion already gives up. `RestoresOneJump` is the promise that
  is kept.
- `EgressSnat`: a failed command that exits with a status the code accepts is not told
  from a missing chain. A removal whose deletions and flush fail that way succeeds with
  its rules in force (`egress_snat.py:108`), and a listing that fails with status 1 makes
  a later restoration forget the old rules; `SuccessApplies` and `RestoresOneJump` name these
  cases, and a replacement that succeeds is in force in all of them.
- `HostInterface`: V2's service and timer are asked for one after the other. A plain
  `refresh` may find the service off, V2's timer then start it, a `stage` beside it switch
  the timer off, and the `refresh` find the timer off as well: it retires the files of a
  service that runs. `LegacyFilesSafe` says no more of it than that the timer is off; the
  second queries of `stage` and `bootstrap` are what protects them.
- `HostInterface`: after a refused daemon-reload the rollback restores the units and
  not the launcher (`controller_host_interface.py:331`); the model does the same. After
  a kill between a write and the reload the next run finds the files right and does
  not reload, so systemd keeps the old unit until another unit changes. `UnitsInStep`
  leaves such hosts out (`torn`).
- `HostInterface`: a bootstrap beside a reconcile may find a V2 file gone that it was
  about to remove, take that for a failure and put V2's files back
  (`controller_host_interface.py:304`), while the reconcile reports success. A later
  run removes them again; operators who bootstrapped beside every run could keep
  them there for ever. `InstallsPackaged` is therefore stated of runs without another
  beside them, and the liveness property of bounded bootstraps.
- `ArtifactInstall`: `ensure_artifact_directory` syncs no directory that it makes, so
  the promise is stated only for a directory that is on the disk. A killed
  installer's temporary file is never removed; it gets in nobody's way. A target with a
  second link is refused by every call, for ever (`artifact_target_install.py:83`).
- The typed materializer, as `Apply`'s own artifacts, forgets affected consumers when
  an interrupted call is made again (`typed_artifact_materializer.py:86`).
- `Firewall`: forward rules name the container's port and the original address, so
  two mappings of one address to the same container port are served alike
  (`SameTarget` in the properties). The rendering does not notice two services that
  declare the same socket (`OneOwner`); Docker starts only one of them. A verification
  does not notice rules that were added, their order, or that one of the two chains
  has lost its rule for known connections.
- `ComposeState` takes Docker's spelling of a repository literally: a container of
  Docker Hub that was configured with the canonical name (`docker.io/...`), as image
  resolution writes it, is never identified. A container that is recreated after the
  listing is missed by that observation.
- `ImageResolution`: an image that is on the host under two digests of one repository
  is refused until one of them is removed. The services are resolved one after
  another, so their digests need not be of one moment. `repository_aliases` knows one more
  alias of Docker Hub than `Aliases`, a form that Docker does not print. The limits on
  the number of listed containers and images are not exceeded in the instance.
- The doctor and the other reports only read, take no lock and promise nothing about
  parts that were read at different moments; there is no transition to model.
- Rendering, parsing, evidence formats, secrets, the adapter, Ansible and the Gitea
  hooks: see the components' notes.

## 6. Plan

Done, in this order: `Reconcile` with `ApplyContract` and their proofs; `Apply`;
`EgressSnat`; `HostInterface`; `BoundedProcess`; `ConfigTree`; `ArtifactInstall` with
`AtomicTarget` and their proofs; `FirewallPolicy` and `Firewall` with their proofs;
`DockerHost`, `ImageResolution`, `ComposeState` and `Images`.

Refined after that: the exit statuses that `EgressSnat` mistakes, the single queries of
`HostInterface` and its plain refresh, the mounts that Docker makes, the spelling of
reported paths, interruptions outside the guarded part of `BoundedProcess`, and linked
artifact targets.

Proved since: the safety of `Apply`, `BoundedProcess`, `ConfigTree`, `Images`,
`HostInterface` and `EgressSnat`, and what a verification of the firewall means.

`Apply` implements `ApplyContract`, as `Reconcile` does.

Left of the model: the typed materializer as a component of its own.
