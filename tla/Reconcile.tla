------------------------------ MODULE Reconcile ------------------------------
(***************************************************************************)
(* The lifecycle of one host's reconcile runs (controller_runtime.py).     *)
(*                                                                         *)
(* A run is two processes.  The OUTER process, in the transport image,     *)
(* takes reconcile.lock, converges the Registry cache to the configured    *)
(* ref, pulls the controller image that revision declares, RELEASES the    *)
(* lock and starts the INNER process in that image (`docker run`).  The    *)
(* inner process takes the lock again, verifies what it was handed,        *)
(* applies it to the host and publishes success evidence.  Failure         *)
(* evidence is written by main(), after the lock has been released.        *)
(* Operators run the public CLI against the reconciled cache: they hold    *)
(* the lock in shared mode while they inspect the cache, not while their   *)
(* command runs.                                                           *)
(*                                                                         *)
(* Several runs may overlap: the container of a run whose launcher was     *)
(* killed goes on, and a run may be started by hand beside the timer's.    *)
(* Every lock attempt is LOCK_NB: a process that finds the lock taken      *)
(* gives up at once.  Closing the lock file (or dying) releases it.        *)
(*                                                                         *)
(* Abstracted: what a projection consists of (module Apply), the           *)
(* host-interface stage of the inner process (module HostInterface), the   *)
(* texts of codes and stages.  A controller reference is a member of       *)
(* References, and every reference is of the one repository a host's       *)
(* declarations select.                                                    *)
(***************************************************************************)
EXTENDS Integers, FiniteSets

CONSTANTS
  Runs,        (* the run slots: a launcher and the container it starts     *)
  Timer,       (* the slots the systemd timer starts again and again        *)
  Operators,   (* invocations of the public CLI                             *)
  Revisions,   (* commits of the Registry                                   *)
  References,  (* controller image references (mutable tags)                *)
  Digests,     (* immutable image digests                                   *)
  Declares,    (* Declares[r]: the reference revision r declares            *)
  None,        (* no digest, no revision                                    *)
  MaxFaults    (* bound on failures, kills, pushes and promotions           *)

ASSUME ReconcileAssumption ==
  /\ Timer \subseteq Runs
  /\ Declares \in [Revisions -> References]
  /\ None \notin Revisions \union Digests
  /\ MaxFaults \in Nat

VARIABLES
  head,        (* remote: the revision the configured ref names             *)
  tags,        (* remote: the digest each reference names                   *)
  cache,       (* /var/lib/infralink/registry: its HEAD, and is it clean    *)
  images,      (* local Docker store: the digest of each pulled reference   *)
  exclusive,   (* holders of reconcile.lock in LOCK_EX mode                 *)
  shared,      (* holders of reconcile.lock in LOCK_SH mode                 *)
  outer,       (* where the outer process of each run is                    *)
  inner,       (* where the inner process of each run is                    *)
  handoff,     (* the INFRALINK_CONTROLLER_HANDOFF_* values of each run     *)
  live,        (* the host's projection: its revision, and is it whole      *)
  evidence,    (* reconcile-result.yml                                      *)
  metric,      (* infralink-controller-reconcile.prom                       *)
  operator,    (* where each operator invocation is                         *)
  view,        (* what each operator read under its shared lock             *)
  faults

remote == <<head, tags>>
lockVars == <<exclusive, shared>>
published == <<evidence, metric>>
operatorVars == <<operator, view>>
vars == <<head, tags, cache, images, exclusive, shared, outer, inner, handoff,
          live, evidence, metric, operator, view, faults>>

-----------------------------------------------------------------------------
Outer(p) == <<p, "outer">>
Inner(p) == <<p, "inner">>
Holders == Runs \X {"outer", "inner"}

NoHandoff == [revision |-> None, digest |-> None]
Success(h) == [status |-> "success", revision |-> h.revision, digest |-> h.digest]
(* Variant: a status outside the contract of reconcile-result.yml.         *)
UntypedFailure == [status |-> "error", revision |-> None, digest |-> None]
Failure == [status |-> "failure", revision |-> None, digest |-> None]
NoEvidence == [status |-> "none", revision |-> None, digest |-> None]

OuterLocked == {"fetching", "converging", "resolving"}
OuterStates == OuterLocked \union {"idle", "waiting", "failing", "failed", "done"}
InnerLocked == {"verifying", "projecting", "activating", "pruning",
                "publishing", "published", "leaving"}
InnerExited == {"exit_ok", "exit_refused", "exit_78", "exit_killed"}
InnerStates == InnerLocked \union InnerExited \union
               {"none", "starting", "failing", "failed"}
OperatorStates == {"idle", "inspecting", "pulling", "running", "done"}

HandoffValues == [revision: Revisions \union {None}, digest: Digests \union {None}]
EvidenceValues == [status: {"success", "failure", "none"},
                   revision: Revisions \union {None},
                   digest: Digests \union {None}]

TypeOK ==
  /\ head \in Revisions
  /\ tags \in [References -> Digests]
  /\ cache \in [revision: Revisions, clean: BOOLEAN]
  /\ images \in [References -> Digests \union {None}]
  /\ exclusive \in SUBSET Holders
  /\ shared \in SUBSET Operators
  /\ outer \in [Runs -> OuterStates]
  /\ inner \in [Runs -> InnerStates]
  /\ handoff \in [Runs -> HandoffValues]
  /\ live \in [revision: Revisions \union {None}, whole: BOOLEAN]
  /\ evidence \in EvidenceValues
  /\ metric \in EvidenceValues
  /\ operator \in [Operators -> OperatorStates]
  /\ view \in [Operators -> HandoffValues]
  /\ faults \in 0..MaxFaults

(* A bootstrapped host: a clean cache, nothing applied, nothing published. *)
Init ==
  /\ head \in Revisions
  /\ tags \in [References -> Digests]
  /\ cache \in [revision: Revisions, clean: {TRUE}]
  /\ images = [r \in References |-> None]
  /\ exclusive = {}
  /\ shared = {}
  /\ outer = [p \in Runs |-> "idle"]
  /\ inner = [p \in Runs |-> "none"]
  /\ handoff = [p \in Runs |-> NoHandoff]
  /\ live = [revision |-> None, whole |-> FALSE]
  /\ evidence = NoEvidence
  /\ metric = NoEvidence
  /\ operator = [o \in Operators |-> "idle"]
  /\ view = [o \in Operators |-> NoHandoff]
  /\ faults = 0

-----------------------------------------------------------------------------
(* flock(LOCK_NB) on reconcile.lock.                                       *)
LockFree == exclusive = {} /\ shared = {}
(* Variant: an exclusive lock that does not exclude the readers.           *)
AcquireDespiteReaders(h) ==
  exclusive = {} /\ exclusive' = exclusive \union {h} /\ UNCHANGED shared
Acquire(h) == LockFree /\ exclusive' = exclusive \union {h} /\ UNCHANGED shared
(* Variant: the lock file is never closed.                                 *)
NeverReleased(h) == h = h /\ UNCHANGED lockVars
Release(h) == exclusive' = exclusive \ {h} /\ UNCHANGED shared

OuterStep(p, from, to) == outer[p] = from /\ outer' = [outer EXCEPT ![p] = to]
InnerStep(p, from, to) == inner[p] = from /\ inner' = [inner EXCEPT ![p] = to]
OperatorStep(o, from, to) ==
  operator[o] = from /\ operator' = [operator EXCEPT ![o] = to]

(* One more failure, kill or change of the remote side.                    *)
Fault == faults < MaxFaults /\ faults' = faults + 1

-----------------------------------------------------------------------------
(* The outer process.                                                      *)

OuterAcquire(p) ==
  /\ OuterStep(p, "idle", "fetching")
  /\ Acquire(Outer(p))
  /\ UNCHANGED <<remote, cache, images, inner, handoff, live, published,
                 operatorVars, faults>>

(* controller_reconcile_in_progress, raised with publish_evidence=False.   *)
OuterRefused(p) ==
  /\ ~LockFree
  /\ OuterStep(p, "idle", "done")
  /\ UNCHANGED <<remote, cache, images, lockVars, inner, handoff, live,
                 published, operatorVars, faults>>

(* git fetch, then git reset --hard.  Moving to another revision writes    *)
(* the work tree file by file, and a failure or a kill can leave it half   *)
(* done: such a cache is not clean until OuterConverge.                    *)
OuterFetch(p) ==
  /\ OuterStep(p, "fetching", "converging")
  /\ cache' = [revision |-> head,
               clean |-> cache.clean /\ cache.revision = head]
  /\ UNCHANGED <<remote, images, lockVars, inner, handoff, live, published,
                 operatorVars, faults>>

(* git clean, git checkout --detach and verify_registry_revision.          *)
OuterConverge(p) ==
  /\ OuterStep(p, "converging", "resolving")
  /\ cache' = [cache EXCEPT !.clean = TRUE]
  /\ UNCHANGED <<remote, images, lockVars, inner, handoff, live, published,
                 operatorVars, faults>>

(* Pull the declared controller, leave the lock, start its container.      *)
OuterHandoff(p) ==
  LET reference == Declares[cache.revision]
      digest == tags[reference]
  IN  /\ OuterStep(p, "resolving", "waiting")
      /\ images' = [images EXCEPT ![reference] = digest]
      /\ handoff' = [handoff EXCEPT ![p] =
                       [revision |-> cache.revision, digest |-> digest]]
      /\ inner' = [inner EXCEPT ![p] = "starting"]
      /\ Release(Outer(p))
      /\ UNCHANGED <<remote, cache, live, published, operatorVars, faults>>

(* A failed fetch, declaration or pull: the lock is released first.        *)
OuterFail(p) ==
  /\ outer[p] \in OuterLocked
  /\ outer' = [outer EXCEPT ![p] = "failing"]
  /\ Release(Outer(p))
  /\ Fault
  /\ UNCHANGED <<remote, cache, images, inner, handoff, live, published,
                 operatorVars>>

(* Variant: every non-zero status is reported, 78 included.                *)
OuterReportsEveryFailure(p) ==
  /\ inner[p] \in InnerExited
  /\ OuterStep(p, "waiting", IF inner[p] = "exit_ok" THEN "done" ELSE "failing")
  /\ UNCHANGED <<remote, cache, images, lockVars, inner, handoff, live,
                 published, operatorVars, faults>>

(* The container exited.  Status 78 is the inner runtime's own report: the *)
(* outer one publishes nothing for it; any other status it reports itself. *)
OuterReturn(p) ==
  /\ inner[p] \in InnerExited
  /\ OuterStep(p, "waiting", IF inner[p] = "exit_killed" THEN "failing" ELSE "done")
  /\ UNCHANGED <<remote, cache, images, lockVars, inner, handoff, live,
                 published, operatorVars, faults>>

(* _publish_failure of the outer process: two files, no lock held.         *)
OuterFailureEvidence(p) ==
  /\ OuterStep(p, "failing", "failed")
  /\ evidence' = Failure
  /\ UNCHANGED <<remote, cache, images, lockVars, inner, handoff, live, metric,
                 operatorVars, faults>>

OuterFailureMetric(p) ==
  /\ OuterStep(p, "failed", "done")
  /\ metric' = Failure
  /\ UNCHANGED <<remote, cache, images, lockVars, inner, handoff, live,
                 evidence, operatorVars, faults>>

(* SIGKILL, an EvidenceError swallowed by _publish_failure, or a docker    *)
(* client killed by a signal (a negative status has no valid evidence):    *)
(* the launcher ends, its container does not.                              *)
OuterKill(p) ==
  /\ outer[p] \notin {"idle", "done"}
  /\ outer' = [outer EXCEPT ![p] = "done"]
  /\ Release(Outer(p))
  /\ Fault
  /\ UNCHANGED <<remote, cache, images, inner, handoff, live, published,
                 operatorVars>>

(* The systemd timer starts the one-shot unit again.                       *)
Tick(p) ==
  /\ p \in Timer
  /\ inner[p] \in InnerExited \union {"none"}
  /\ OuterStep(p, "done", "idle")
  /\ inner' = [inner EXCEPT ![p] = "none"]
  /\ handoff' = [handoff EXCEPT ![p] = NoHandoff]
  /\ UNCHANGED <<remote, cache, images, lockVars, live, published,
                 operatorVars, faults>>

-----------------------------------------------------------------------------
(* The inner process.                                                      *)

(* Variant: the inner process relies on the lock its launcher took.        *)
InnerWithoutLock(p) ==
  /\ InnerStep(p, "starting", "verifying")
  /\ UNCHANGED <<remote, cache, images, lockVars, outer, handoff, live,
                 published, operatorVars, faults>>

InnerAcquire(p) ==
  /\ InnerStep(p, "starting", "verifying")
  /\ Acquire(Inner(p))
  /\ UNCHANGED <<remote, cache, images, outer, handoff, live, published,
                 operatorVars, faults>>

InnerRefused(p) ==
  /\ ~LockFree
  /\ InnerStep(p, "starting", "exit_refused")
  /\ UNCHANGED <<remote, cache, images, lockVars, outer, handoff, live,
                 published, operatorVars, faults>>

(* Variant: the revision is verified, the controller's digest is not.      *)
HandoffRevisionValid(p) ==
  cache = [revision |-> handoff[p].revision, clean |-> TRUE]

(* verify_registry_revision, then the declared reference must still be, on *)
(* this host, the digest that was handed off.                              *)
HandoffValid(p) ==
  /\ cache = [revision |-> handoff[p].revision, clean |-> TRUE]
  /\ images[Declares[cache.revision]] = handoff[p].digest

InnerVerify(p) ==
  /\ HandoffValid(p)
  /\ InnerStep(p, "verifying", "projecting")
  /\ UNCHANGED <<remote, cache, images, lockVars, outer, handoff, live,
                 published, operatorVars, faults>>

InnerMismatch(p) ==
  /\ ~HandoffValid(p)
  /\ InnerStep(p, "verifying", "failing")
  /\ Release(Inner(p))
  /\ UNCHANGED <<remote, cache, images, outer, handoff, live, published,
                 operatorVars, faults>>

(* The staged candidate passed: the live projection begins to change.      *)
InnerProject(p) ==
  /\ InnerStep(p, "projecting", "activating")
  /\ live' = [revision |-> handoff[p].revision, whole |-> FALSE]
  /\ UNCHANGED <<remote, cache, images, lockVars, outer, handoff, published,
                 operatorVars, faults>>

(* Variant: a failed activation is taken for a completed one.              *)
InnerActivateCarriesOn(p) ==
  /\ InnerStep(p, "activating", "pruning")
  /\ UNCHANGED <<remote, cache, images, lockVars, outer, handoff, live,
                 published, operatorVars, faults>>

InnerActivate(p) ==
  /\ InnerStep(p, "activating", "pruning")
  /\ live' = [live EXCEPT !.whole = TRUE]
  /\ UNCHANGED <<remote, cache, images, lockVars, outer, handoff, published,
                 operatorVars, faults>>

(* docker image prune may drop any local reference, and never fails a run. *)
InnerPrune(p) ==
  /\ InnerStep(p, "pruning", "publishing")
  /\ \E pruned \in SUBSET References :
       images' = [r \in References |-> IF r \in pruned THEN None ELSE images[r]]
  /\ UNCHANGED <<remote, cache, lockVars, outer, handoff, live, published,
                 operatorVars, faults>>

(* _publish_success, under the lock: the evidence file, then the metrics.  *)
InnerSuccessEvidence(p) ==
  /\ InnerStep(p, "publishing", "published")
  /\ evidence' = Success(handoff[p])
  /\ UNCHANGED <<remote, cache, images, lockVars, outer, handoff, live, metric,
                 operatorVars, faults>>

InnerSuccessMetric(p) ==
  /\ InnerStep(p, "published", "leaving")
  /\ metric' = Success(handoff[p])
  /\ UNCHANGED <<remote, cache, images, lockVars, outer, handoff, live,
                 evidence, operatorVars, faults>>

InnerExit(p) ==
  /\ InnerStep(p, "leaving", "exit_ok")
  /\ Release(Inner(p))
  /\ UNCHANGED <<remote, cache, images, outer, handoff, live, published,
                 operatorVars, faults>>

(* Any stage may fail, publication included; pruning only ever warns.      *)
InnerFail(p) ==
  /\ inner[p] \in InnerLocked \ {"pruning", "leaving"}
  /\ inner' = [inner EXCEPT ![p] = "failing"]
  /\ Release(Inner(p))
  /\ Fault
  /\ UNCHANGED <<remote, cache, images, outer, handoff, live, published,
                 operatorVars>>

InnerFailureEvidence(p) ==
  /\ InnerStep(p, "failing", "failed")
  /\ evidence' = Failure
  /\ UNCHANGED <<remote, cache, images, lockVars, outer, handoff, live, metric,
                 operatorVars, faults>>

InnerFailureMetric(p) ==
  /\ InnerStep(p, "failed", "exit_78")
  /\ metric' = Failure
  /\ UNCHANGED <<remote, cache, images, lockVars, outer, handoff, live,
                 evidence, operatorVars, faults>>

(* The failure evidence itself cannot be written: still exit status 78.    *)
InnerSilentFailure(p) ==
  /\ inner[p] \in {"failing", "failed"}
  /\ inner' = [inner EXCEPT ![p] = "exit_78"]
  /\ Fault
  /\ UNCHANGED <<remote, cache, images, lockVars, outer, handoff, live,
                 published, operatorVars>>

(* The container dies, or never starts: a status that is not 78.           *)
InnerKill(p) ==
  /\ inner[p] \notin InnerExited \union {"none"}
  /\ inner' = [inner EXCEPT ![p] = "exit_killed"]
  /\ Release(Inner(p))
  /\ Fault
  /\ UNCHANGED <<remote, cache, images, outer, handoff, live, published,
                 operatorVars>>

-----------------------------------------------------------------------------
(* operator(): inspect and pull under the shared lock, run without it.     *)

OperatorAcquire(o) ==
  /\ exclusive = {}
  /\ OperatorStep(o, "idle", "inspecting")
  /\ shared' = shared \union {o}
  /\ UNCHANGED <<remote, cache, images, exclusive, outer, inner, handoff, live,
                 published, view, faults>>

OperatorRefused(o) ==
  /\ exclusive # {}
  /\ OperatorStep(o, "idle", "done")
  /\ UNCHANGED <<remote, cache, images, lockVars, outer, inner, handoff, live,
                 published, view, faults>>

(* _reconciled_registry: success evidence of exactly the cached revision.  *)
Reconciled ==
  /\ cache.clean
  /\ evidence.status = "success"
  /\ evidence.revision = cache.revision

(* Variant: the lock is let go between the inspection and the pull.        *)
OperatorInspectsUnlocked(o) ==
  /\ Reconciled
  /\ OperatorStep(o, "inspecting", "pulling")
  /\ shared' = shared \ {o}
  /\ view' = [view EXCEPT ![o] =
                [revision |-> cache.revision, digest |-> evidence.digest]]
  /\ UNCHANGED <<remote, cache, images, exclusive, outer, inner, handoff, live,
                 published, faults>>

OperatorInspect(o) ==
  /\ Reconciled
  /\ OperatorStep(o, "inspecting", "pulling")
  /\ view' = [view EXCEPT ![o] =
                [revision |-> cache.revision, digest |-> evidence.digest]]
  /\ UNCHANGED <<remote, cache, images, lockVars, outer, inner, handoff, live,
                 published, faults>>

OperatorReject(o) ==
  /\ ~Reconciled
  /\ OperatorStep(o, "inspecting", "done")
  /\ shared' = shared \ {o}
  /\ UNCHANGED <<remote, cache, images, exclusive, outer, inner, handoff, live,
                 published, view, faults>>

(* Pulling the evidenced digest moves no tag.  Then the lock is closed.    *)
OperatorPull(o) ==
  /\ OperatorStep(o, "pulling", "running")
  /\ shared' = shared \ {o}
  /\ UNCHANGED <<remote, cache, images, exclusive, outer, inner, handoff, live,
                 published, view, faults>>

OperatorFail(o) ==
  /\ OperatorStep(o, "pulling", "done")
  /\ shared' = shared \ {o}
  /\ Fault
  /\ UNCHANGED <<remote, cache, images, exclusive, outer, inner, handoff, live,
                 published, view>>

(* The public CLI's container has read the cache and exits.                *)
OperatorReturn(o) ==
  /\ OperatorStep(o, "running", "done")
  /\ UNCHANGED <<remote, cache, images, lockVars, outer, inner, handoff, live,
                 published, view, faults>>

-----------------------------------------------------------------------------
(* The remote side: a promotion (or rollback) of the ref, an image push.   *)

Promote(r) ==
  /\ head # r
  /\ head' = r
  /\ Fault
  /\ UNCHANGED <<tags, cache, images, lockVars, outer, inner, handoff, live,
                 published, operatorVars>>

Push(reference, digest) ==
  /\ tags[reference] # digest
  /\ tags' = [tags EXCEPT ![reference] = digest]
  /\ Fault
  /\ UNCHANGED <<head, cache, images, lockVars, outer, inner, handoff, live,
                 published, operatorVars>>

-----------------------------------------------------------------------------
OuterProgress(p) ==
  \/ OuterAcquire(p) \/ OuterRefused(p) \/ OuterFetch(p) \/ OuterConverge(p)
  \/ OuterHandoff(p) \/ OuterReturn(p)
  \/ OuterFailureEvidence(p) \/ OuterFailureMetric(p) \/ Tick(p)

InnerProgress(p) ==
  \/ InnerAcquire(p) \/ InnerRefused(p) \/ InnerVerify(p) \/ InnerMismatch(p)
  \/ InnerProject(p) \/ InnerActivate(p) \/ InnerPrune(p)
  \/ InnerSuccessEvidence(p) \/ InnerSuccessMetric(p) \/ InnerExit(p)
  \/ InnerFailureEvidence(p) \/ InnerFailureMetric(p)

OperatorProgress(o) ==
  \/ OperatorAcquire(o) \/ OperatorRefused(o) \/ OperatorInspect(o)
  \/ OperatorReject(o) \/ OperatorPull(o) \/ OperatorReturn(o)

RunFault(p) ==
  \/ OuterFail(p) \/ OuterKill(p)
  \/ InnerFail(p) \/ InnerSilentFailure(p) \/ InnerKill(p)

Next ==
  \/ \E p \in Runs : OuterProgress(p) \/ InnerProgress(p) \/ RunFault(p)
  \/ \E o \in Operators : OperatorProgress(o) \/ OperatorFail(o)
  \/ \E r \in Revisions : Promote(r)
  \/ \E r \in References, d \in Digests : Push(r, d)

Spec == Init /\ [][Next]_vars

(* A process that runs goes on running, and the timer is enabled.  Nothing *)
(* obliges a fault, a promotion or an operator to happen.                  *)
Fairness ==
  /\ \A p \in Runs : WF_vars(OuterProgress(p)) /\ WF_vars(InnerProgress(p))
  /\ \A o \in Operators : WF_vars(OperatorProgress(o))

FairSpec == Spec /\ Fairness
-----------------------------------------------------------------------------
(* Properties.                                                             *)

(* Past the verification of what it was handed, and before it lets go.     *)
Applying(p) == inner[p] \in InnerLocked \ {"verifying"}

(* The exclusive lock separates every process that writes the cache or the *)
(* host from every other one, and from the operators that inspect it: two  *)
(* inner processes, or an inner process and another run's fetch, are never *)
(* inside _reconcile_lock together (controller_runtime.py, reconcile).     *)
OneLockHolder ==
  /\ \A p, q \in Runs :
       /\ outer[p] \in OuterLocked => inner[q] \notin InnerLocked
       /\ p # q => ~(outer[p] \in OuterLocked /\ outer[q] \in OuterLocked)
       /\ p # q => ~(inner[p] \in InnerLocked /\ inner[q] \in InnerLocked)
  /\ \A p \in Runs, o \in Operators :
       operator[o] \in {"inspecting", "pulling"} =>
         outer[p] \notin OuterLocked /\ inner[p] \notin InnerLocked

(* From its verification until it leaves, an inner process works on a      *)
(* clean cache of the revision it was handed, and until it prunes images   *)
(* the declared reference still names, on this host, the digest it was     *)
(* handed: nothing moves the ground between check and use.                 *)
AppliesWhatWasHandedOff ==
  \A p \in Runs : Applying(p) =>
    /\ cache = [revision |-> handoff[p].revision, clean |-> TRUE]
    /\ inner[p] \in {"projecting", "activating", "pruning"} =>
         images[Declares[cache.revision]] = handoff[p].digest

(* Success is published (_publish_success: "only after every generic apply *)
(* stage completed") only when the live projection is whole, is of the     *)
(* revision named, and the cache still is; the metrics file follows the    *)
(* same rule.                                                              *)
Earned(result) ==
  result.status = "success" =>
    /\ live = [revision |-> result.revision, whole |-> TRUE]
    /\ cache = [revision |-> result.revision, clean |-> TRUE]
PublishesOnlyEarned ==
  /\ evidence' # evidence => Earned(evidence')
  /\ metric' # metric => Earned(metric')
SuccessIsEarned == [][PublishesOnlyEarned]_vars

(* A run that lost the race for the lock, or whose container has reported  *)
(* its own failure, leaves the published result alone: the outer process   *)
(* publishes only for a container that died (_handoff).                    *)
OuterDefersToInner ==
  \A p \in Runs :
    outer[p] \in {"failing", "failed"} =>
      inner[p] \notin {"exit_ok", "exit_refused", "exit_78"}

(* Between its inspection and the end of its pull, an operator's view is   *)
(* the revision the cache holds, and the cache is clean.                   *)
OperatorViewHolds ==
  \A o \in Operators :
    operator[o] = "pulling" =>
      cache = [revision |-> view[o].revision, clean |-> TRUE]

(* The same while the operator's command runs in its container, which      *)
(* mounts the cache: operator() claims to "read the current reconciled     *)
(* revision then execute its selected public CLI image".                   *)
OperatorReadsReconciled ==
  \A o \in Operators :
    operator[o] = "running" =>
      cache = [revision |-> view[o].revision, clean |-> TRUE]

(* The lifecycle implements the contract: its one writer is the inner      *)
(* process past verification.                                              *)
writers == {[run |-> p, revision |-> handoff[p].revision] :
              p \in {q \in Runs : Applying(q)}}
report == [status |-> evidence.status, revision |-> evidence.revision]
Contract == INSTANCE ApplyContract
  WITH writers <- writers, live <- live, report <- report
ImplementsContract == Contract!Spec

(* Once faults, pushes and promotions have stopped, the timer's runs bring *)
(* the host to the configured head and say so in both files, again and     *)
(* again ("the next scheduled reconciliation must also converge cleanly"). *)
Converged ==
  /\ live = [revision |-> head, whole |-> TRUE]
  /\ evidence.status = "success" /\ evidence.revision = head
  /\ metric = evidence
TimerConverges == []<>Converged
=============================================================================
