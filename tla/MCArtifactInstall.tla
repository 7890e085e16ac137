-------------------------- MODULE MCArtifactInstall --------------------------
(* Instances of ArtifactInstall for TLC: a reconcile and a call by hand,   *)
(* two revisions' files.                                                   *)
EXTENDS ArtifactInstall

CONSTANTS reconcile, byHand, old, new
=============================================================================
