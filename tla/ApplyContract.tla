---------------------------- MODULE ApplyContract ----------------------------
(***************************************************************************)
(* What the reconcile lifecycle promises about the host, whatever the      *)
(* processes, locks and hand-offs behind it: one writer at a time, which   *)
(* changes the live projection only to the revision it was admitted for,   *)
(* and success reported only by that writer, for a projection that is      *)
(* whole and still of that revision.  Failure may be reported at any time. *)
(***************************************************************************)
CONSTANTS Runs, Revisions, None

VARIABLES
  writers,   (* the admitted writer, at most one: its run and revision      *)
  live,      (* the host's projection: its revision, and is it whole        *)
  report     (* the last result reported                                    *)

contractVars == <<writers, live, report>>

Init ==
  /\ writers = {}
  /\ live = [revision |-> None, whole |-> FALSE]
  /\ report = [status |-> "none", revision |-> None]

Admit(p, r) ==
  /\ writers = {}
  /\ writers' = {[run |-> p, revision |-> r]}
  /\ UNCHANGED <<live, report>>

Change(w) ==
  /\ live' = [revision |-> w.revision, whole |-> FALSE]
  /\ UNCHANGED <<writers, report>>

Complete(w) ==
  /\ live.revision = w.revision
  /\ live' = [live EXCEPT !.whole = TRUE]
  /\ UNCHANGED <<writers, report>>

(* A writer may leave with its report.                                     *)
ReportSuccess(w) ==
  /\ live = [revision |-> w.revision, whole |-> TRUE]
  /\ report' = [status |-> "success", revision |-> w.revision]
  /\ writers' \in {writers, {}}
  /\ UNCHANGED live

ReportFailure ==
  /\ report' = [status |-> "failure", revision |-> None]
  /\ writers' \in {writers, {}}
  /\ UNCHANGED live

Leave ==
  /\ writers' = {}
  /\ UNCHANGED <<live, report>>

Next ==
  \/ \E p \in Runs, r \in Revisions : Admit(p, r)
  \/ \E w \in writers : Change(w) \/ Complete(w) \/ ReportSuccess(w)
  \/ ReportFailure
  \/ Leave

Spec == Init /\ [][Next]_contractVars
=============================================================================
