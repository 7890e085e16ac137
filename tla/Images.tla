------------------------------- MODULE Images -------------------------------
(***************************************************************************)
(* Image resolution and Compose observation on one host: the containers    *)
(* that the second looks at run what the first pulled, and each works      *)
(* while the other, the registry and the host's users go on.               *)
(***************************************************************************)
EXTENDS ImageResolution, ComposeState

vars == <<host, resolution, observation>>

Init == HostInit /\ ResolutionInit /\ ObservationInit

(* `docker compose up` of what was resolved.                               *)
Deploy ==
  /\ step = "done"
  /\ \E s \in DOMAIN resolved : StartContainer(resolved[s])

Next ==
  \/ ResolutionNext /\ UNCHANGED observation
  \/ ObservationNext /\ UNCHANGED resolution
  \/ (Environment \/ Deploy) /\ UNCHANGED <<resolution, observation>>

Spec == Init /\ [][Next]_vars
=============================================================================
