--------------------------- MODULE ReconcileProofs ---------------------------
(***************************************************************************)
(* Proofs about Reconcile, for any number of runs and operators.           *)
(*                                                                         *)
(* The inductive invariant ties the lock to the program counters           *)
(* (LockInv), the inner process to its hand-off (HandoffInv) and to the    *)
(* cache, images and projection it works on (GroundInv).                   *)
(* The last part maps the lifecycle to ApplyContract.                      *)
(***************************************************************************)
EXTENDS Reconcile, TLAPS

Inspecting == {"inspecting", "pulling"}

(* reconcile.lock is held exactly by the processes inside a with-block.    *)
LockInv ==
  /\ \A p \in Runs : Outer(p) \in exclusive <=> outer[p] \in OuterLocked
  /\ \A p \in Runs : Inner(p) \in exclusive <=> inner[p] \in InnerLocked
  /\ \A o \in Operators : o \in shared <=> operator[o] \in Inspecting
  /\ \A g, h \in exclusive : g = h
  /\ exclusive # {} => shared = {}

(* A container exists only once its launcher handed off to it.             *)
HandoffInv ==
  \A p \in Runs :
    /\ outer[p] \in OuterLocked \union {"idle"} => inner[p] = "none"
    /\ outer[p] = "waiting" => inner[p] # "none"
    /\ outer[p] \in {"failing", "failed"} =>
         inner[p] \in {"none", "exit_killed"}
    /\ inner[p] \in InnerLocked \union {"starting"} =>
         handoff[p].revision \in Revisions /\ handoff[p].digest \in Digests

(* What a verified inner process stands on, and what it has done so far.   *)
GroundInv ==
  \A p \in Runs :
    /\ Applying(p) =>
         cache = [revision |-> handoff[p].revision, clean |-> TRUE]
    /\ inner[p] \in {"projecting", "activating", "pruning"} =>
         images[Declares[cache.revision]] = handoff[p].digest
    /\ inner[p] = "activating" => live.revision = handoff[p].revision
    /\ inner[p] \in {"pruning", "publishing", "published", "leaving"} =>
         live = [revision |-> handoff[p].revision, whole |-> TRUE]

ViewInv ==
  \A o \in Operators : operator[o] = "pulling" =>
    cache = [revision |-> view[o].revision, clean |-> TRUE]

IInv == TypeOK /\ LockInv /\ HandoffInv /\ GroundInv /\ ViewInv

-----------------------------------------------------------------------------
(* Every step keeps every variable in its type.                            *)
LEMMA TypeStep == TypeOK /\ [Next]_vars => TypeOK'
<1> SUFFICES ASSUME TypeOK, [Next]_vars PROVE TypeOK'
  OBVIOUS
<1> USE ReconcileAssumption DEF TypeOK, HandoffValues, EvidenceValues, Holders,
        Outer, Inner, OuterStates, OuterLocked, InnerStates, InnerLocked,
        InnerExited, OperatorStates, OuterStep, InnerStep, OperatorStep,
        Acquire, Release, LockFree, Fault, remote, lockVars, published,
        operatorVars, Success, Failure, NoHandoff
<1>1. ASSUME NEW p \in Runs, OuterProgress(p) PROVE TypeOK'
  <2>1. CASE OuterAcquire(p) BY <2>1 DEF OuterAcquire
  <2>2. CASE OuterRefused(p) BY <2>2 DEF OuterRefused
  <2>3. CASE OuterFetch(p) BY <2>3 DEF OuterFetch
  <2>4. CASE OuterConverge(p) BY <2>4 DEF OuterConverge
  <2>5. CASE OuterHandoff(p) BY <2>5 DEF OuterHandoff
  <2>6. CASE OuterReturn(p) BY <2>6 DEF OuterReturn
  <2>7. CASE OuterFailureEvidence(p) BY <2>7 DEF OuterFailureEvidence
  <2>8. CASE OuterFailureMetric(p) BY <2>8 DEF OuterFailureMetric
  <2>9. CASE Tick(p) BY <2>9 DEF Tick
  <2>10. QED
    BY <1>1, <2>1, <2>2, <2>3, <2>4, <2>5, <2>6, <2>7, <2>8, <2>9
       DEF OuterProgress
<1>2. ASSUME NEW p \in Runs, InnerProgress(p) PROVE TypeOK'
  <2>1. CASE InnerAcquire(p) BY <2>1 DEF InnerAcquire
  <2>2. CASE InnerRefused(p) BY <2>2 DEF InnerRefused
  <2>3. CASE InnerVerify(p) BY <2>3 DEF InnerVerify
  <2>4. CASE InnerMismatch(p) BY <2>4 DEF InnerMismatch
  <2>5. CASE InnerProject(p) BY <2>5 DEF InnerProject
  <2>6. CASE InnerActivate(p) BY <2>6 DEF InnerActivate
  <2>7. CASE InnerPrune(p) BY <2>7 DEF InnerPrune
  <2>8. CASE InnerSuccessEvidence(p) BY <2>8 DEF InnerSuccessEvidence
  <2>9. CASE InnerSuccessMetric(p) BY <2>9 DEF InnerSuccessMetric
  <2>10. CASE InnerExit(p) BY <2>10 DEF InnerExit
  <2>11. CASE InnerFailureEvidence(p) BY <2>11 DEF InnerFailureEvidence
  <2>12. CASE InnerFailureMetric(p) BY <2>12 DEF InnerFailureMetric
  <2>13. QED
    BY <1>2, <2>1, <2>2, <2>3, <2>4, <2>5, <2>6, <2>7, <2>8, <2>9, <2>10,
       <2>11, <2>12 DEF InnerProgress
<1>3. ASSUME NEW p \in Runs, RunFault(p) PROVE TypeOK'
  <2>1. CASE OuterFail(p) BY <2>1 DEF OuterFail
  <2>2. CASE OuterKill(p) BY <2>2 DEF OuterKill
  <2>3. CASE InnerFail(p) BY <2>3 DEF InnerFail
  <2>4. CASE InnerSilentFailure(p) BY <2>4 DEF InnerSilentFailure
  <2>5. CASE InnerKill(p) BY <2>5 DEF InnerKill
  <2>6. QED
    BY <1>3, <2>1, <2>2, <2>3, <2>4, <2>5 DEF RunFault
<1>4. ASSUME NEW o \in Operators, OperatorProgress(o) \/ OperatorFail(o)
      PROVE  TypeOK'
  <2>1. CASE OperatorAcquire(o) BY <2>1 DEF OperatorAcquire
  <2>2. CASE OperatorRefused(o) BY <2>2 DEF OperatorRefused
  <2>3. CASE OperatorInspect(o) BY <2>3 DEF OperatorInspect
  <2>4. CASE OperatorReject(o) BY <2>4 DEF OperatorReject
  <2>5. CASE OperatorPull(o) BY <2>5 DEF OperatorPull
  <2>6. CASE OperatorReturn(o) BY <2>6 DEF OperatorReturn
  <2>7. CASE OperatorFail(o) BY <2>7 DEF OperatorFail
  <2>8. QED
    BY <1>4, <2>1, <2>2, <2>3, <2>4, <2>5, <2>6, <2>7 DEF OperatorProgress
<1>5. ASSUME NEW r \in Revisions, Promote(r) PROVE TypeOK'
  BY <1>5 DEF Promote
<1>6. ASSUME NEW r \in References, NEW d \in Digests, Push(r, d) PROVE TypeOK'
  BY <1>6 DEF Push
<1>7. CASE UNCHANGED vars
  BY <1>7 DEF vars
<1>8. QED
  BY <1>1, <1>2, <1>3, <1>4, <1>5, <1>6, <1>7 DEF Next

(* The lock is held exactly where a process is inside its with-block, by   *)
(* one exclusive holder or by readers: Acquire waits for a free lock, and  *)
(* every way out of a with-block, a kill included, releases it.            *)
LEMMA LockStep == TypeOK /\ LockInv /\ [Next]_vars => LockInv'
<1> SUFFICES ASSUME TypeOK, LockInv, [Next]_vars PROVE LockInv'
  OBVIOUS
<1> USE DEF TypeOK, LockInv, Inspecting, Holders, Outer, Inner, OuterStates,
        OuterLocked, InnerStates, InnerLocked, InnerExited, OperatorStates,
        OuterStep, InnerStep, OperatorStep, Acquire, Release, LockFree, Fault,
        remote, lockVars, published, operatorVars
<1>1. ASSUME NEW p \in Runs, OuterProgress(p) PROVE LockInv'
  <2>1. CASE OuterAcquire(p) BY <2>1 DEF OuterAcquire
  <2>2. CASE OuterRefused(p) BY <2>2 DEF OuterRefused
  <2>3. CASE OuterFetch(p) BY <2>3 DEF OuterFetch
  <2>4. CASE OuterConverge(p) BY <2>4 DEF OuterConverge
  <2>5. CASE OuterHandoff(p)
    <3>1. /\ outer[p] = "resolving" /\ outer' = [outer EXCEPT ![p] = "waiting"]
          /\ inner' = [inner EXCEPT ![p] = "starting"]
          /\ exclusive' = exclusive \ {<<p, "outer">>}
          /\ UNCHANGED <<shared, operator>>
      BY <2>5 DEF OuterHandoff
    <3>2. <<p, "outer">> \in exclusive /\ <<p, "inner">> \notin exclusive
      BY <3>1
    <3>3. QED
      BY <3>1, <3>2
  <2>6. CASE OuterReturn(p) BY <2>6 DEF OuterReturn
  <2>7. CASE OuterFailureEvidence(p) BY <2>7 DEF OuterFailureEvidence
  <2>8. CASE OuterFailureMetric(p) BY <2>8 DEF OuterFailureMetric
  <2>9. CASE Tick(p) BY <2>9 DEF Tick
  <2>10. QED
    BY <1>1, <2>1, <2>2, <2>3, <2>4, <2>5, <2>6, <2>7, <2>8, <2>9
       DEF OuterProgress
<1>2. ASSUME NEW p \in Runs, InnerProgress(p) PROVE LockInv'
  <2>1. CASE InnerAcquire(p) BY <2>1 DEF InnerAcquire
  <2>2. CASE InnerRefused(p) BY <2>2 DEF InnerRefused
  <2>3. CASE InnerVerify(p) BY <2>3 DEF InnerVerify
  <2>4. CASE InnerMismatch(p) BY <2>4 DEF InnerMismatch
  <2>5. CASE InnerProject(p) BY <2>5 DEF InnerProject
  <2>6. CASE InnerActivate(p) BY <2>6 DEF InnerActivate
  <2>7. CASE InnerPrune(p) BY <2>7 DEF InnerPrune
  <2>8. CASE InnerSuccessEvidence(p) BY <2>8 DEF InnerSuccessEvidence
  <2>9. CASE InnerSuccessMetric(p) BY <2>9 DEF InnerSuccessMetric
  <2>10. CASE InnerExit(p) BY <2>10 DEF InnerExit
  <2>11. CASE InnerFailureEvidence(p) BY <2>11 DEF InnerFailureEvidence
  <2>12. CASE InnerFailureMetric(p) BY <2>12 DEF InnerFailureMetric
  <2>13. QED
    BY <1>2, <2>1, <2>2, <2>3, <2>4, <2>5, <2>6, <2>7, <2>8, <2>9, <2>10,
       <2>11, <2>12 DEF InnerProgress
<1>3. ASSUME NEW p \in Runs, RunFault(p) PROVE LockInv'
  <2>1. CASE OuterFail(p) BY <2>1 DEF OuterFail
  <2>2. CASE OuterKill(p) BY <2>2 DEF OuterKill
  <2>3. CASE InnerFail(p) BY <2>3 DEF InnerFail
  <2>4. CASE InnerSilentFailure(p) BY <2>4 DEF InnerSilentFailure
  <2>5. CASE InnerKill(p) BY <2>5 DEF InnerKill
  <2>6. QED
    BY <1>3, <2>1, <2>2, <2>3, <2>4, <2>5 DEF RunFault
<1>4. ASSUME NEW o \in Operators, OperatorProgress(o) \/ OperatorFail(o)
      PROVE  LockInv'
  <2>1. CASE OperatorAcquire(o) BY <2>1 DEF OperatorAcquire
  <2>2. CASE OperatorRefused(o) BY <2>2 DEF OperatorRefused
  <2>3. CASE OperatorInspect(o) BY <2>3 DEF OperatorInspect
  <2>4. CASE OperatorReject(o) BY <2>4 DEF OperatorReject
  <2>5. CASE OperatorPull(o) BY <2>5 DEF OperatorPull
  <2>6. CASE OperatorReturn(o) BY <2>6 DEF OperatorReturn
  <2>7. CASE OperatorFail(o) BY <2>7 DEF OperatorFail
  <2>8. QED
    BY <1>4, <2>1, <2>2, <2>3, <2>4, <2>5, <2>6, <2>7 DEF OperatorProgress
<1>5. ASSUME NEW r \in Revisions, Promote(r) PROVE LockInv'
  BY <1>5 DEF Promote
<1>6. ASSUME NEW r \in References, NEW d \in Digests, Push(r, d) PROVE LockInv'
  BY <1>6 DEF Push
<1>7. CASE UNCHANGED vars
  BY <1>7 DEF vars
<1>8. QED
  BY <1>1, <1>2, <1>3, <1>4, <1>5, <1>6, <1>7 DEF Next

(* A container is where its launcher believes it to be, and carries a      *)
(* complete hand-off.                                                      *)
LEMMA HandoffStep ==
  TypeOK /\ LockInv /\ HandoffInv /\ [Next]_vars => HandoffInv'
<1> SUFFICES ASSUME TypeOK, LockInv, HandoffInv, [Next]_vars PROVE HandoffInv'
  OBVIOUS
<1> USE ReconcileAssumption DEF TypeOK, HandoffInv, HandoffValues, OuterStates,
        OuterLocked, InnerStates, InnerLocked, InnerExited, OperatorStates,
        OuterStep, InnerStep, remote, lockVars, published, operatorVars
<1>1. ASSUME NEW p \in Runs, OuterProgress(p) PROVE HandoffInv'
  <2>1. CASE OuterAcquire(p) BY <2>1 DEF OuterAcquire
  <2>2. CASE OuterRefused(p) BY <2>2 DEF OuterRefused
  <2>3. CASE OuterFetch(p) BY <2>3 DEF OuterFetch
  <2>4. CASE OuterConverge(p) BY <2>4 DEF OuterConverge
  <2>5. CASE OuterHandoff(p) BY <2>5 DEF OuterHandoff
  <2>6. CASE OuterReturn(p) BY <2>6 DEF OuterReturn
  <2>7. CASE OuterFailureEvidence(p) BY <2>7 DEF OuterFailureEvidence
  <2>8. CASE OuterFailureMetric(p) BY <2>8 DEF OuterFailureMetric
  <2>9. CASE Tick(p) BY <2>9 DEF Tick
  <2>10. QED
    BY <1>1, <2>1, <2>2, <2>3, <2>4, <2>5, <2>6, <2>7, <2>8, <2>9
       DEF OuterProgress
<1>2. ASSUME NEW p \in Runs, InnerProgress(p) PROVE HandoffInv'
  <2>1. CASE InnerAcquire(p) BY <2>1 DEF InnerAcquire
  <2>2. CASE InnerRefused(p) BY <2>2 DEF InnerRefused
  <2>3. CASE InnerVerify(p) BY <2>3 DEF InnerVerify
  <2>4. CASE InnerMismatch(p) BY <2>4 DEF InnerMismatch
  <2>5. CASE InnerProject(p) BY <2>5 DEF InnerProject
  <2>6. CASE InnerActivate(p) BY <2>6 DEF InnerActivate
  <2>7. CASE InnerPrune(p) BY <2>7 DEF InnerPrune
  <2>8. CASE InnerSuccessEvidence(p) BY <2>8 DEF InnerSuccessEvidence
  <2>9. CASE InnerSuccessMetric(p) BY <2>9 DEF InnerSuccessMetric
  <2>10. CASE InnerExit(p) BY <2>10 DEF InnerExit
  <2>11. CASE InnerFailureEvidence(p) BY <2>11 DEF InnerFailureEvidence
  <2>12. CASE InnerFailureMetric(p) BY <2>12 DEF InnerFailureMetric
  <2>13. QED
    BY <1>2, <2>1, <2>2, <2>3, <2>4, <2>5, <2>6, <2>7, <2>8, <2>9, <2>10,
       <2>11, <2>12 DEF InnerProgress
<1>3. ASSUME NEW p \in Runs, RunFault(p) PROVE HandoffInv'
  <2>1. CASE OuterFail(p) BY <2>1 DEF OuterFail
  <2>2. CASE OuterKill(p) BY <2>2 DEF OuterKill
  <2>3. CASE InnerFail(p) BY <2>3 DEF InnerFail
  <2>4. CASE InnerSilentFailure(p) BY <2>4 DEF InnerSilentFailure
  <2>5. CASE InnerKill(p) BY <2>5 DEF InnerKill
  <2>6. QED
    BY <1>3, <2>1, <2>2, <2>3, <2>4, <2>5 DEF RunFault
<1>4. ASSUME NEW o \in Operators, OperatorProgress(o) \/ OperatorFail(o)
      PROVE  HandoffInv'
  <2>1. CASE OperatorAcquire(o) BY <2>1 DEF OperatorAcquire
  <2>2. CASE OperatorRefused(o) BY <2>2 DEF OperatorRefused
  <2>3. CASE OperatorInspect(o) BY <2>3 DEF OperatorInspect
  <2>4. CASE OperatorReject(o) BY <2>4 DEF OperatorReject
  <2>5. CASE OperatorPull(o) BY <2>5 DEF OperatorPull
  <2>6. CASE OperatorReturn(o) BY <2>6 DEF OperatorReturn
  <2>7. CASE OperatorFail(o) BY <2>7 DEF OperatorFail
  <2>8. QED
    BY <1>4, <2>1, <2>2, <2>3, <2>4, <2>5, <2>6, <2>7 DEF OperatorProgress
<1>5. ASSUME NEW r \in Revisions, Promote(r) PROVE HandoffInv'
  BY <1>5 DEF Promote
<1>6. ASSUME NEW r \in References, NEW d \in Digests, Push(r, d)
      PROVE  HandoffInv'
  BY <1>6 DEF Push
<1>7. CASE UNCHANGED vars
  BY <1>7 DEF vars
<1>8. QED
  BY <1>1, <1>2, <1>3, <1>4, <1>5, <1>6, <1>7 DEF Next

(* The lock keeps its holders apart.                                       *)
LEMMA LockSeparates == LockInv => OneLockHolder
  BY DEF LockInv, OneLockHolder, Holders, Outer, Inner, Inspecting

(* Nobody but the lock holder moves the cache, the images or the           *)
(* projection, so what an inner process verified stays true under it.      *)
LEMMA GroundStep ==
  TypeOK /\ OneLockHolder /\ HandoffInv /\ GroundInv /\ [Next]_vars
    => GroundInv'
<1> SUFFICES ASSUME TypeOK, OneLockHolder, HandoffInv, GroundInv, [Next]_vars
             PROVE GroundInv'
  OBVIOUS
<1> USE ReconcileAssumption DEF TypeOK, OneLockHolder, HandoffInv, GroundInv,
        Applying, HandoffValues, OuterStates, OuterLocked, InnerStates,
        InnerLocked, InnerExited, OperatorStates, OuterStep, InnerStep, remote,
        lockVars, published, operatorVars
<1>1. ASSUME NEW p \in Runs, OuterProgress(p) PROVE GroundInv'
  <2>1. CASE OuterAcquire(p) BY <2>1 DEF OuterAcquire
  <2>2. CASE OuterRefused(p) BY <2>2 DEF OuterRefused
  <2>3. CASE OuterFetch(p) BY <2>3 DEF OuterFetch
  <2>4. CASE OuterConverge(p) BY <2>4 DEF OuterConverge
  <2>5. CASE OuterHandoff(p) BY <2>5 DEF OuterHandoff
  <2>6. CASE OuterReturn(p) BY <2>6 DEF OuterReturn
  <2>7. CASE OuterFailureEvidence(p) BY <2>7 DEF OuterFailureEvidence
  <2>8. CASE OuterFailureMetric(p) BY <2>8 DEF OuterFailureMetric
  <2>9. CASE Tick(p) BY <2>9 DEF Tick
  <2>10. QED
    BY <1>1, <2>1, <2>2, <2>3, <2>4, <2>5, <2>6, <2>7, <2>8, <2>9
       DEF OuterProgress
<1>2. ASSUME NEW p \in Runs, InnerProgress(p) PROVE GroundInv'
  <2>1. CASE InnerAcquire(p) BY <2>1 DEF InnerAcquire
  <2>2. CASE InnerRefused(p) BY <2>2 DEF InnerRefused
  <2>3. CASE InnerVerify(p) BY <2>3 DEF InnerVerify, HandoffValid
  <2>4. CASE InnerMismatch(p) BY <2>4 DEF InnerMismatch
  <2>5. CASE InnerProject(p) BY <2>5 DEF InnerProject
  <2>6. CASE InnerActivate(p) BY <2>6 DEF InnerActivate
  <2>7. CASE InnerPrune(p) BY <2>7 DEF InnerPrune
  <2>8. CASE InnerSuccessEvidence(p) BY <2>8 DEF InnerSuccessEvidence
  <2>9. CASE InnerSuccessMetric(p) BY <2>9 DEF InnerSuccessMetric
  <2>10. CASE InnerExit(p) BY <2>10 DEF InnerExit
  <2>11. CASE InnerFailureEvidence(p) BY <2>11 DEF InnerFailureEvidence
  <2>12. CASE InnerFailureMetric(p) BY <2>12 DEF InnerFailureMetric
  <2>13. QED
    BY <1>2, <2>1, <2>2, <2>3, <2>4, <2>5, <2>6, <2>7, <2>8, <2>9, <2>10,
       <2>11, <2>12 DEF InnerProgress
<1>3. ASSUME NEW p \in Runs, RunFault(p) PROVE GroundInv'
  <2>1. CASE OuterFail(p) BY <2>1 DEF OuterFail
  <2>2. CASE OuterKill(p) BY <2>2 DEF OuterKill
  <2>3. CASE InnerFail(p) BY <2>3 DEF InnerFail
  <2>4. CASE InnerSilentFailure(p) BY <2>4 DEF InnerSilentFailure
  <2>5. CASE InnerKill(p) BY <2>5 DEF InnerKill
  <2>6. QED
    BY <1>3, <2>1, <2>2, <2>3, <2>4, <2>5 DEF RunFault
<1>4. ASSUME NEW o \in Operators, OperatorProgress(o) \/ OperatorFail(o)
      PROVE  GroundInv'
  <2>1. CASE OperatorAcquire(o) BY <2>1 DEF OperatorAcquire
  <2>2. CASE OperatorRefused(o) BY <2>2 DEF OperatorRefused
  <2>3. CASE OperatorInspect(o) BY <2>3 DEF OperatorInspect
  <2>4. CASE OperatorReject(o) BY <2>4 DEF OperatorReject
  <2>5. CASE OperatorPull(o) BY <2>5 DEF OperatorPull
  <2>6. CASE OperatorReturn(o) BY <2>6 DEF OperatorReturn
  <2>7. CASE OperatorFail(o) BY <2>7 DEF OperatorFail
  <2>8. QED
    BY <1>4, <2>1, <2>2, <2>3, <2>4, <2>5, <2>6, <2>7 DEF OperatorProgress
<1>5. ASSUME NEW r \in Revisions, Promote(r) PROVE GroundInv'
  BY <1>5 DEF Promote
<1>6. ASSUME NEW r \in References, NEW d \in Digests, Push(r, d)
      PROVE  GroundInv'
  BY <1>6 DEF Push
<1>7. CASE UNCHANGED vars
  BY <1>7 DEF vars
<1>8. QED
  BY <1>1, <1>2, <1>3, <1>4, <1>5, <1>6, <1>7 DEF Next

(* Nobody moves the cache while an operator holds the lock in shared mode. *)
LEMMA ViewStep == TypeOK /\ OneLockHolder /\ ViewInv /\ [Next]_vars => ViewInv'
<1> SUFFICES ASSUME TypeOK, OneLockHolder, ViewInv, [Next]_vars PROVE ViewInv'
  OBVIOUS
<1> USE DEF TypeOK, OneLockHolder, ViewInv, HandoffValues, OuterStates,
        OuterLocked, InnerStates, InnerLocked, InnerExited, OperatorStates,
        OperatorStep, remote, lockVars, published, operatorVars
<1>1. ASSUME NEW p \in Runs, OuterProgress(p) PROVE ViewInv'
  <2>1. CASE OuterAcquire(p) BY <2>1 DEF OuterAcquire
  <2>2. CASE OuterRefused(p) BY <2>2 DEF OuterRefused
  <2>3. CASE OuterFetch(p) BY <2>3 DEF OuterStep, OuterFetch
  <2>4. CASE OuterConverge(p) BY <2>4 DEF OuterStep, OuterConverge
  <2>5. CASE OuterHandoff(p) BY <2>5 DEF OuterHandoff
  <2>6. CASE OuterReturn(p) BY <2>6 DEF OuterReturn
  <2>7. CASE OuterFailureEvidence(p) BY <2>7 DEF OuterFailureEvidence
  <2>8. CASE OuterFailureMetric(p) BY <2>8 DEF OuterFailureMetric
  <2>9. CASE Tick(p) BY <2>9 DEF Tick
  <2>10. QED
    BY <1>1, <2>1, <2>2, <2>3, <2>4, <2>5, <2>6, <2>7, <2>8, <2>9
       DEF OuterProgress
<1>2. ASSUME NEW p \in Runs, InnerProgress(p) PROVE ViewInv'
  <2>1. CASE InnerAcquire(p) BY <2>1 DEF InnerAcquire
  <2>2. CASE InnerRefused(p) BY <2>2 DEF InnerRefused
  <2>3. CASE InnerVerify(p) BY <2>3 DEF InnerVerify
  <2>4. CASE InnerMismatch(p) BY <2>4 DEF InnerMismatch
  <2>5. CASE InnerProject(p) BY <2>5 DEF InnerProject
  <2>6. CASE InnerActivate(p) BY <2>6 DEF InnerActivate
  <2>7. CASE InnerPrune(p) BY <2>7 DEF InnerPrune
  <2>8. CASE InnerSuccessEvidence(p) BY <2>8 DEF InnerSuccessEvidence
  <2>9. CASE InnerSuccessMetric(p) BY <2>9 DEF InnerSuccessMetric
  <2>10. CASE InnerExit(p) BY <2>10 DEF InnerExit
  <2>11. CASE InnerFailureEvidence(p) BY <2>11 DEF InnerFailureEvidence
  <2>12. CASE InnerFailureMetric(p) BY <2>12 DEF InnerFailureMetric
  <2>13. QED
    BY <1>2, <2>1, <2>2, <2>3, <2>4, <2>5, <2>6, <2>7, <2>8, <2>9, <2>10,
       <2>11, <2>12 DEF InnerProgress
<1>3. ASSUME NEW p \in Runs, RunFault(p) PROVE ViewInv'
  <2>1. CASE OuterFail(p) BY <2>1 DEF OuterFail
  <2>2. CASE OuterKill(p) BY <2>2 DEF OuterKill
  <2>3. CASE InnerFail(p) BY <2>3 DEF InnerFail
  <2>4. CASE InnerSilentFailure(p) BY <2>4 DEF InnerSilentFailure
  <2>5. CASE InnerKill(p) BY <2>5 DEF InnerKill
  <2>6. QED
    BY <1>3, <2>1, <2>2, <2>3, <2>4, <2>5 DEF RunFault
<1>4. ASSUME NEW o \in Operators, OperatorProgress(o) \/ OperatorFail(o)
      PROVE  ViewInv'
  <2>1. CASE OperatorAcquire(o) BY <2>1 DEF OperatorAcquire
  <2>2. CASE OperatorRefused(o) BY <2>2 DEF OperatorRefused
  <2>3. CASE OperatorInspect(o) BY <2>3 DEF Reconciled, OperatorInspect
  <2>4. CASE OperatorReject(o) BY <2>4 DEF OperatorReject
  <2>5. CASE OperatorPull(o) BY <2>5 DEF OperatorPull
  <2>6. CASE OperatorReturn(o) BY <2>6 DEF OperatorReturn
  <2>7. CASE OperatorFail(o) BY <2>7 DEF OperatorFail
  <2>8. QED
    BY <1>4, <2>1, <2>2, <2>3, <2>4, <2>5, <2>6, <2>7 DEF OperatorProgress
<1>5. ASSUME NEW r \in Revisions, Promote(r) PROVE ViewInv'
  BY <1>5 DEF Promote
<1>6. ASSUME NEW r \in References, NEW d \in Digests, Push(r, d) PROVE ViewInv'
  BY <1>6 DEF Push
<1>7. CASE UNCHANGED vars
  BY <1>7 DEF vars
<1>8. QED
  BY <1>1, <1>2, <1>3, <1>4, <1>5, <1>6, <1>7 DEF Next

-----------------------------------------------------------------------------
(* A bootstrapped host satisfies the inductive invariant.                  *)
LEMMA InitIInv == Init => IInv
<1> SUFFICES ASSUME Init PROVE IInv
  OBVIOUS
<1> USE ReconcileAssumption DEF Init, NoHandoff, NoEvidence
<1>1. TypeOK
  <2>1. cache \in [revision: Revisions, clean: BOOLEAN]
    OBVIOUS
  <2>2. exclusive \in SUBSET Holders /\ shared \in SUBSET Operators
    OBVIOUS
  <2>3. /\ handoff \in [Runs -> HandoffValues]
        /\ view \in [Operators -> HandoffValues]
    BY DEF HandoffValues
  <2>4. evidence \in EvidenceValues /\ metric \in EvidenceValues
    BY DEF EvidenceValues
  <2>5. /\ outer \in [Runs -> OuterStates]
        /\ inner \in [Runs -> InnerStates]
        /\ operator \in [Operators -> OperatorStates]
    BY DEF OuterStates, InnerStates, OperatorStates
  <2>6. live \in [revision: Revisions \union {None}, whole: BOOLEAN]
    OBVIOUS
  <2>7. QED
    BY <2>1, <2>2, <2>3, <2>4, <2>5, <2>6 DEF TypeOK
<1>2. LockInv
  BY DEF LockInv, Inspecting, OuterLocked, InnerLocked
<1>3. HandoffInv /\ GroundInv
  BY DEF HandoffInv, GroundInv, Applying, InnerLocked
<1>4. ViewInv
  BY DEF ViewInv
<1>5. QED
  BY <1>1, <1>2, <1>3, <1>4 DEF IInv

(* The inductive invariant of the lifecycle.                               *)
THEOREM Invariance == Spec => []IInv
<1>1. Init => IInv
  BY InitIInv
<1>2. IInv /\ [Next]_vars => IInv'
  BY TypeStep, LockStep, HandoffStep, GroundStep, ViewStep, LockSeparates
     DEF IInv
<1>3. QED
  BY <1>1, <1>2, PTL DEF Spec

(* Every variable stays in its type, for any number of runs.               *)
THEOREM TypeCorrect == Spec => []TypeOK
<1>1. IInv => TypeOK
  BY DEF IInv
<1>2. QED
  BY <1>1, Invariance, PTL

(* reconcile.lock keeps every writer of the cache or the host apart.       *)
THEOREM MutualExclusion == Spec => []OneLockHolder
<1>1. IInv => OneLockHolder
  BY LockSeparates DEF IInv
<1>2. QED
  BY <1>1, Invariance, PTL

(* A verified run applies exactly the revision and controller handed off.  *)
THEOREM HandOffSound == Spec => []AppliesWhatWasHandedOff
<1>1. IInv => AppliesWhatWasHandedOff
  BY DEF IInv, GroundInv, AppliesWhatWasHandedOff
<1>2. QED
  BY <1>1, Invariance, PTL

(* No outer process publishes over a container that reported for itself.   *)
THEOREM Deference == Spec => []OuterDefersToInner
<1>1. IInv => OuterDefersToInner
  BY DEF IInv, HandoffInv, OuterDefersToInner
<1>2. QED
  BY <1>1, Invariance, PTL

(* What an operator inspected stays put until its pull has ended.          *)
THEOREM OperatorView == Spec => []OperatorViewHolds
<1>1. IInv => OperatorViewHolds
  BY DEF IInv, ViewInv, OperatorViewHolds
<1>2. QED
  BY <1>1, Invariance, PTL

-----------------------------------------------------------------------------
(* A step publishes success only for a whole projection of that revision.  *)
LEMMA EarnedStep == IInv /\ [Next]_vars => [PublishesOnlyEarned]_vars
<1> SUFFICES ASSUME IInv, [Next]_vars PROVE PublishesOnlyEarned
  OBVIOUS
<1> USE DEF IInv, TypeOK, GroundInv, Applying, PublishesOnlyEarned, Earned,
        Success, Failure, OuterStep, InnerStep, InnerLocked, remote, lockVars,
        published, operatorVars
<1>1. ASSUME NEW p \in Runs, OuterProgress(p) PROVE PublishesOnlyEarned
  <2>1. CASE OuterAcquire(p) BY <2>1 DEF OuterAcquire
  <2>2. CASE OuterRefused(p) BY <2>2 DEF OuterRefused
  <2>3. CASE OuterFetch(p) BY <2>3 DEF OuterFetch
  <2>4. CASE OuterConverge(p) BY <2>4 DEF OuterConverge
  <2>5. CASE OuterHandoff(p) BY <2>5 DEF OuterHandoff
  <2>6. CASE OuterReturn(p) BY <2>6 DEF OuterReturn
  <2>7. CASE OuterFailureEvidence(p) BY <2>7 DEF OuterFailureEvidence
  <2>8. CASE OuterFailureMetric(p) BY <2>8 DEF OuterFailureMetric
  <2>9. CASE Tick(p) BY <2>9 DEF Tick
  <2>10. QED
    BY <1>1, <2>1, <2>2, <2>3, <2>4, <2>5, <2>6, <2>7, <2>8, <2>9
       DEF OuterProgress
<1>2. ASSUME NEW p \in Runs, InnerProgress(p) PROVE PublishesOnlyEarned
  <2>1. CASE InnerAcquire(p) BY <2>1 DEF InnerAcquire
  <2>2. CASE InnerRefused(p) BY <2>2 DEF InnerRefused
  <2>3. CASE InnerVerify(p) BY <2>3 DEF InnerVerify
  <2>4. CASE InnerMismatch(p) BY <2>4 DEF InnerMismatch
  <2>5. CASE InnerProject(p) BY <2>5 DEF InnerProject
  <2>6. CASE InnerActivate(p) BY <2>6 DEF InnerActivate
  <2>7. CASE InnerPrune(p) BY <2>7 DEF InnerPrune
  <2>8. CASE InnerSuccessEvidence(p) BY <2>8 DEF InnerSuccessEvidence
  <2>9. CASE InnerSuccessMetric(p) BY <2>9 DEF InnerSuccessMetric
  <2>10. CASE InnerExit(p) BY <2>10 DEF InnerExit
  <2>11. CASE InnerFailureEvidence(p) BY <2>11 DEF InnerFailureEvidence
  <2>12. CASE InnerFailureMetric(p) BY <2>12 DEF InnerFailureMetric
  <2>13. QED
    BY <1>2, <2>1, <2>2, <2>3, <2>4, <2>5, <2>6, <2>7, <2>8, <2>9, <2>10,
       <2>11, <2>12 DEF InnerProgress
<1>3. ASSUME NEW p \in Runs, RunFault(p) PROVE PublishesOnlyEarned
  <2>1. CASE OuterFail(p) BY <2>1 DEF OuterFail
  <2>2. CASE OuterKill(p) BY <2>2 DEF OuterKill
  <2>3. CASE InnerFail(p) BY <2>3 DEF InnerFail
  <2>4. CASE InnerSilentFailure(p) BY <2>4 DEF InnerSilentFailure
  <2>5. CASE InnerKill(p) BY <2>5 DEF InnerKill
  <2>6. QED
    BY <1>3, <2>1, <2>2, <2>3, <2>4, <2>5 DEF RunFault
<1>4. ASSUME NEW o \in Operators, OperatorProgress(o) \/ OperatorFail(o)
      PROVE  PublishesOnlyEarned
  <2>1. CASE OperatorAcquire(o) BY <2>1 DEF OperatorAcquire
  <2>2. CASE OperatorRefused(o) BY <2>2 DEF OperatorRefused
  <2>3. CASE OperatorInspect(o) BY <2>3 DEF OperatorInspect
  <2>4. CASE OperatorReject(o) BY <2>4 DEF OperatorReject
  <2>5. CASE OperatorPull(o) BY <2>5 DEF OperatorPull
  <2>6. CASE OperatorReturn(o) BY <2>6 DEF OperatorReturn
  <2>7. CASE OperatorFail(o) BY <2>7 DEF OperatorFail
  <2>8. QED
    BY <1>4, <2>1, <2>2, <2>3, <2>4, <2>5, <2>6, <2>7 DEF OperatorProgress
<1>5. ASSUME NEW r \in Revisions, Promote(r) PROVE PublishesOnlyEarned
  BY <1>5 DEF Promote
<1>6. ASSUME NEW r \in References, NEW d \in Digests, Push(r, d)
      PROVE  PublishesOnlyEarned
  BY <1>6 DEF Push
<1>7. CASE UNCHANGED vars
  BY <1>7 DEF vars
<1>8. QED
  BY <1>1, <1>2, <1>3, <1>4, <1>5, <1>6, <1>7 DEF Next

(* Success, in either file, is earned.                                     *)
THEOREM SuccessEarned == Spec => SuccessIsEarned
  BY Invariance, EarnedStep, PTL DEF Spec, SuccessIsEarned

-----------------------------------------------------------------------------
(* The reconcile lifecycle implements ApplyContract: the contract's one    *)
(* writer is the inner process past its verification.  Verification admits *)
(* it; leaving the lock, failing or being killed ends it; every other step *)
(* is a step of that writer, a failure report or a stutter.                *)
Step == Contract!Next \/ UNCHANGED Contract!contractVars

(* The same runs apply the same hand-offs as before.                       *)
SameWriters ==
  \A q \in Runs : /\ Applying(q)' <=> Applying(q)
                  /\ Applying(q) => handoff'[q] = handoff[q]

(* A step that touches neither the writers, the projection nor the report  *)
(* is a stutter of the contract: locking, fetching, operators.             *)
LEMMA Stutters ==
  ASSUME SameWriters, UNCHANGED <<live, evidence>> PROVE Step
BY DEF SameWriters, writers, report, Step, Contract!contractVars

(* Failure evidence, written with or without the lock, is ReportFailure.   *)
LEMMA FailureReported ==
  ASSUME SameWriters, UNCHANGED live, evidence' = Failure PROVE Step
<1>1. Contract!ReportFailure
  BY DEF SameWriters, writers, report, Failure, Contract!ReportFailure
<1>2. QED
  BY <1>1 DEF Step, Contract!Next

(* An exit, a failure or a kill of the inner process is the writer's Leave.*)
LEMMA WriterLeaves ==
  ASSUME UNCHANGED <<live, evidence>>, \A q \in Runs : ~Applying(q)'
  PROVE  Step
<1>1. Contract!Leave
  BY DEF writers, report, Contract!Leave
<1>2. QED
  BY <1>1 DEF Step, Contract!Next

(* Every step of the lifecycle is a step of the contract or a stutter.     *)
LEMMA ContractStep == IInv /\ OneLockHolder /\ [Next]_vars => Step
<1> SUFFICES ASSUME IInv, OneLockHolder, [Next]_vars PROVE Step
  OBVIOUS
<1> USE DEF IInv, TypeOK, OneLockHolder, HandoffInv, GroundInv, Applying,
        OuterStates, OuterLocked, InnerStates, InnerLocked, InnerExited,
        OuterStep, InnerStep, OperatorStep, remote, lockVars, published,
        operatorVars
<1>1. ASSUME NEW p \in Runs, OuterProgress(p) PROVE Step
  <2>1. CASE OuterAcquire(p)
    <3>1. SameWriters /\ UNCHANGED <<live, evidence>>
      BY <2>1 DEF OuterAcquire, SameWriters
    <3>2. QED BY <3>1, Stutters
  <2>2. CASE OuterRefused(p)
    <3>1. SameWriters /\ UNCHANGED <<live, evidence>>
      BY <2>2 DEF OuterRefused, SameWriters
    <3>2. QED BY <3>1, Stutters
  <2>3. CASE OuterFetch(p)
    <3>1. SameWriters /\ UNCHANGED <<live, evidence>>
      BY <2>3 DEF OuterFetch, SameWriters
    <3>2. QED BY <3>1, Stutters
  <2>4. CASE OuterConverge(p)
    <3>1. SameWriters /\ UNCHANGED <<live, evidence>>
      BY <2>4 DEF OuterConverge, SameWriters
    <3>2. QED BY <3>1, Stutters
  <2>5. CASE OuterHandoff(p)
    <3>1. SameWriters /\ UNCHANGED <<live, evidence>>
      BY <2>5 DEF OuterHandoff, SameWriters
    <3>2. QED BY <3>1, Stutters
  <2>6. CASE OuterReturn(p)
    <3>1. SameWriters /\ UNCHANGED <<live, evidence>>
      BY <2>6 DEF OuterReturn, SameWriters
    <3>2. QED BY <3>1, Stutters
  <2>7. CASE OuterFailureEvidence(p)
    <3>1. SameWriters /\ UNCHANGED live /\ evidence' = Failure
      BY <2>7 DEF OuterFailureEvidence, SameWriters
    <3>2. QED BY <3>1, FailureReported
  <2>8. CASE OuterFailureMetric(p)
    <3>1. SameWriters /\ UNCHANGED <<live, evidence>>
      BY <2>8 DEF OuterFailureMetric, SameWriters
    <3>2. QED BY <3>1, Stutters
  <2>9. CASE Tick(p)
    <3>1. SameWriters /\ UNCHANGED <<live, evidence>>
      BY <2>9 DEF Tick, SameWriters
    <3>2. QED BY <3>1, Stutters
  <2>10. QED
    BY <1>1, <2>1, <2>2, <2>3, <2>4, <2>5, <2>6, <2>7, <2>8, <2>9
       DEF OuterProgress
<1>2. ASSUME NEW p \in Runs, InnerProgress(p) PROVE Step
  <2>1. CASE InnerAcquire(p)
    <3>1. SameWriters /\ UNCHANGED <<live, evidence>>
      BY <2>1 DEF InnerAcquire, SameWriters
    <3>2. QED BY <3>1, Stutters
  <2>2. CASE InnerRefused(p)
    <3>1. SameWriters /\ UNCHANGED <<live, evidence>>
      BY <2>2 DEF InnerRefused, SameWriters
    <3>2. QED BY <3>1, Stutters
  <2>3. CASE InnerVerify(p)
    <3>1. writers = {}
      BY <2>3 DEF InnerVerify, writers
    <3>2. UNCHANGED <<live, evidence, handoff>>
      BY <2>3 DEF InnerVerify
    <3>3. \A q \in Runs : Applying(q)' <=> q = p
      BY <2>3 DEF InnerVerify
    <3>4. writers' = {[run |-> p, revision |-> handoff[p].revision]}
      BY <3>2, <3>3 DEF writers
    <3>5. handoff[p].revision \in Revisions
      BY <2>3 DEF InnerVerify
    <3>6. Contract!Admit(p, handoff[p].revision)
      BY <3>1, <3>2, <3>4 DEF Contract!Admit, report
    <3>7. QED
      BY <3>5, <3>6 DEF Step, Contract!Next
  <2>4. CASE InnerMismatch(p)
    <3>1. SameWriters /\ UNCHANGED <<live, evidence>>
      BY <2>4 DEF InnerMismatch, SameWriters
    <3>2. QED BY <3>1, Stutters
  <2>5. CASE InnerProject(p)
    <3> DEFINE w == [run |-> p, revision |-> handoff[p].revision]
    <3>1. w \in writers
      BY <2>5 DEF InnerProject, writers
    <3>2. writers' = writers
      <4>1. SameWriters BY <2>5 DEF InnerProject, SameWriters
      <4>2. QED BY <4>1 DEF SameWriters, writers
    <3>3. /\ live' = [revision |-> handoff[p].revision, whole |-> FALSE]
          /\ UNCHANGED evidence
      BY <2>5 DEF InnerProject
    <3>4. Contract!Change(w)
      BY <3>2, <3>3 DEF Contract!Change, report, Success
    <3>5. QED
      BY <3>1, <3>4 DEF Step, Contract!Next
  <2>6. CASE InnerActivate(p)
    <3> DEFINE w == [run |-> p, revision |-> handoff[p].revision]
    <3>1. w \in writers
      BY <2>6 DEF InnerActivate, writers
    <3>2. writers' = writers
      <4>1. SameWriters BY <2>6 DEF InnerActivate, SameWriters
      <4>2. QED BY <4>1 DEF SameWriters, writers
    <3>3. /\ live' = [live EXCEPT !.whole = TRUE]
          /\ live.revision = handoff[p].revision /\ UNCHANGED evidence
      BY <2>6 DEF InnerActivate
    <3>4. Contract!Complete(w)
      BY <3>2, <3>3 DEF Contract!Complete, report, Success
    <3>5. QED
      BY <3>1, <3>4 DEF Step, Contract!Next
  <2>7. CASE InnerPrune(p)
    <3>1. SameWriters /\ UNCHANGED <<live, evidence>>
      BY <2>7 DEF InnerPrune, SameWriters
    <3>2. QED BY <3>1, Stutters
  <2>8. CASE InnerSuccessEvidence(p)
    <3> DEFINE w == [run |-> p, revision |-> handoff[p].revision]
    <3>1. w \in writers
      BY <2>8 DEF InnerSuccessEvidence, writers
    <3>2. writers' = writers
      <4>1. SameWriters BY <2>8 DEF InnerSuccessEvidence, SameWriters
      <4>2. QED BY <4>1 DEF SameWriters, writers
    <3>3. /\ live = [revision |-> handoff[p].revision, whole |-> TRUE]
          /\ evidence' = Success(handoff[p]) /\ UNCHANGED live
      BY <2>8 DEF InnerSuccessEvidence
    <3>4. Contract!ReportSuccess(w)
      BY <3>2, <3>3 DEF Contract!ReportSuccess, report, Success
    <3>5. QED
      BY <3>1, <3>4 DEF Step, Contract!Next
  <2>9. CASE InnerSuccessMetric(p)
    <3>1. SameWriters /\ UNCHANGED <<live, evidence>>
      BY <2>9 DEF InnerSuccessMetric, SameWriters
    <3>2. QED BY <3>1, Stutters
  <2>10. CASE InnerExit(p)
    <3>1. UNCHANGED <<live, evidence>> /\ \A q \in Runs : ~Applying(q)'
      BY <2>10 DEF InnerExit
    <3>2. QED BY <3>1, WriterLeaves
  <2>11. CASE InnerFailureEvidence(p)
    <3>1. SameWriters /\ UNCHANGED live /\ evidence' = Failure
      BY <2>11 DEF InnerFailureEvidence, SameWriters
    <3>2. QED BY <3>1, FailureReported
  <2>12. CASE InnerFailureMetric(p)
    <3>1. SameWriters /\ UNCHANGED <<live, evidence>>
      BY <2>12 DEF InnerFailureMetric, SameWriters
    <3>2. QED BY <3>1, Stutters
  <2>13. QED
    BY <1>2, <2>1, <2>2, <2>3, <2>4, <2>5, <2>6, <2>7, <2>8, <2>9, <2>10,
       <2>11, <2>12 DEF InnerProgress
<1>3. ASSUME NEW p \in Runs, RunFault(p) PROVE Step
  <2>1. CASE OuterFail(p)
    <3>1. SameWriters /\ UNCHANGED <<live, evidence>>
      BY <2>1 DEF OuterFail, SameWriters
    <3>2. QED BY <3>1, Stutters
  <2>2. CASE OuterKill(p)
    <3>1. SameWriters /\ UNCHANGED <<live, evidence>>
      BY <2>2 DEF OuterKill, SameWriters
    <3>2. QED BY <3>1, Stutters
  <2>3. CASE InnerFail(p)
    <3>1. UNCHANGED <<live, evidence>> /\ \A q \in Runs : ~Applying(q)'
      BY <2>3 DEF InnerFail
    <3>2. QED BY <3>1, WriterLeaves
  <2>4. CASE InnerSilentFailure(p)
    <3>1. SameWriters /\ UNCHANGED <<live, evidence>>
      BY <2>4 DEF InnerSilentFailure, SameWriters
    <3>2. QED BY <3>1, Stutters
  <2>5. CASE InnerKill(p)
    <3>1. CASE inner[p] \in InnerLocked
      <4>1. UNCHANGED <<live, evidence>> /\ \A q \in Runs : ~Applying(q)'
        BY <2>5, <3>1 DEF InnerKill
      <4>2. QED BY <4>1, WriterLeaves
    <3>2. CASE inner[p] \notin InnerLocked
      <4>1. SameWriters /\ UNCHANGED <<live, evidence>>
        BY <2>5, <3>2 DEF InnerKill, SameWriters
      <4>2. QED BY <4>1, Stutters
    <3>3. QED BY <3>1, <3>2
  <2>6. QED
    BY <1>3, <2>1, <2>2, <2>3, <2>4, <2>5 DEF RunFault
<1>4. ASSUME NEW o \in Operators, OperatorProgress(o) \/ OperatorFail(o)
      PROVE  Step
  <2>1. CASE OperatorAcquire(o)
    <3>1. SameWriters /\ UNCHANGED <<live, evidence>>
      BY <2>1 DEF OperatorAcquire, SameWriters
    <3>2. QED BY <3>1, Stutters
  <2>2. CASE OperatorRefused(o)
    <3>1. SameWriters /\ UNCHANGED <<live, evidence>>
      BY <2>2 DEF OperatorRefused, SameWriters
    <3>2. QED BY <3>1, Stutters
  <2>3. CASE OperatorInspect(o)
    <3>1. SameWriters /\ UNCHANGED <<live, evidence>>
      BY <2>3 DEF OperatorInspect, SameWriters
    <3>2. QED BY <3>1, Stutters
  <2>4. CASE OperatorReject(o)
    <3>1. SameWriters /\ UNCHANGED <<live, evidence>>
      BY <2>4 DEF OperatorReject, SameWriters
    <3>2. QED BY <3>1, Stutters
  <2>5. CASE OperatorPull(o)
    <3>1. SameWriters /\ UNCHANGED <<live, evidence>>
      BY <2>5 DEF OperatorPull, SameWriters
    <3>2. QED BY <3>1, Stutters
  <2>6. CASE OperatorReturn(o)
    <3>1. SameWriters /\ UNCHANGED <<live, evidence>>
      BY <2>6 DEF OperatorReturn, SameWriters
    <3>2. QED BY <3>1, Stutters
  <2>7. CASE OperatorFail(o)
    <3>1. SameWriters /\ UNCHANGED <<live, evidence>>
      BY <2>7 DEF OperatorFail, SameWriters
    <3>2. QED BY <3>1, Stutters
  <2>8. QED
    BY <1>4, <2>1, <2>2, <2>3, <2>4, <2>5, <2>6, <2>7 DEF OperatorProgress
<1>5. ASSUME NEW r \in Revisions, Promote(r) PROVE Step
  <2>1. SameWriters /\ UNCHANGED <<live, evidence>>
    BY <1>5 DEF Promote, SameWriters
  <2>2. QED BY <2>1, Stutters
<1>6. ASSUME NEW r \in References, NEW d \in Digests, Push(r, d) PROVE Step
  <2>1. SameWriters /\ UNCHANGED <<live, evidence>>
    BY <1>6 DEF Push, SameWriters
  <2>2. QED BY <2>1, Stutters
<1>7. CASE UNCHANGED vars
  <2>1. SameWriters /\ UNCHANGED <<live, evidence>>
    BY <1>7 DEF vars, SameWriters
  <2>2. QED BY <2>1, Stutters
<1>8. QED
  BY <1>1, <1>2, <1>3, <1>4, <1>5, <1>6, <1>7 DEF Next

(* Whatever the interleaving of runs, kills and failures, the host sees    *)
(* one writer at a time, and success is reported only by that writer.      *)
THEOREM Implements == Spec => ImplementsContract
<1>1. Init => Contract!Init
  <2> SUFFICES ASSUME Init PROVE Contract!Init
    OBVIOUS
  <2>1. writers = {}
    BY DEF Init, writers, Applying, InnerLocked
  <2>2. report = [status |-> "none", revision |-> None]
    BY DEF Init, report, NoEvidence
  <2>3. live = [revision |-> None, whole |-> FALSE]
    BY DEF Init
  <2>4. QED
    BY <2>1, <2>2, <2>3 DEF Contract!Init
<1>2. IInv /\ [Next]_vars => [Contract!Next]_(Contract!contractVars)
  BY ContractStep, LockSeparates DEF IInv, Step
<1>3. QED
  BY <1>1, <1>2, Invariance, PTL DEF Spec, Contract!Spec, ImplementsContract
=============================================================================
