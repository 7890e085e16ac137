---------------------------- MODULE ComposeState ----------------------------
(***************************************************************************)
(* compose_state_protocol.py: a Compose project is observed with three     *)
(* Docker commands, whose output is either parsed or refused: the list of  *)
(* containers, their inspection, and that of the images they run; then     *)
(* each container is given the one distribution identity it runs.          *)
(*                                                                         *)
(* The commands' order is that of their arguments: the ids of one command  *)
(* come from the output of the one before.  No module of the repository    *)
(* runs them; their caller is external and stops at the first refusal.     *)
(*                                                                         *)
(* Abstracted: the host has one project; syntax, sizes and secrets of the  *)
(* output, restart counts and health are left out.                         *)
(***************************************************************************)
EXTENDS DockerHost, FiniteSets

CONSTANTS
  MaxListing,    (* MAX_LISTING_RECORDS                                     *)
  MaxInspect     (* MAX_INSPECT_RECORDS                                     *)

VARIABLES
  command,       (* the next command: "list", "containers" or "images";     *)
                 (* or "select", or the outcome: "observed", or the reason  *)
                 (* of the refusal                                          *)
  listed,        (* parse_listing_output: a set of ids                      *)
  inspected,     (* parse_container_output, by id                           *)
  available,     (* parse_image_output: RepoDigests by local image id       *)
  identity       (* select_distribution_identity, by container id           *)

observation == <<command, listed, inspected, available, identity>>

Reasons == {"listing_output", "container_output", "lifecycle",
            "image_invalid", "image_unavailable", "image_ambiguous"}

ObservationInit ==
  /\ command = "list"
  /\ listed = {}
  /\ inspected = <<>>
  /\ available = <<>>
  /\ identity = <<>>

Fail(reason) ==
  /\ command' = reason
  /\ UNCHANGED <<listed, inspected, available, identity>>

(* docker container ls --all, parse_listing_output.                        *)
List ==
  /\ command = "list"
  /\ LET present == {c \in DOMAIN containers : containers[c].state # None}
     IN  IF Cardinality(present) > MaxListing
           THEN Fail("listing_output")
           ELSE /\ command' = "containers"
                /\ listed' = present
                /\ UNCHANGED <<inspected, available, identity>>
  /\ UNCHANGED host

(* _validated_ids *)
ValidIds(ids) == Cardinality(ids) \in 1..MaxInspect

(* docker container inspect, parse_container_output.  A container that was *)
(* removed since it was listed has no record.  One that is neither running *)
(* nor stopped has no lifecycle.                                           *)
Lifecycle(state) ==
  CASE state = "running" -> "running"
    [] state \in {"created", "exited"} -> "stopped"
    [] OTHER -> None

(* Variant: who is gone is left out.                                       *)
SomeSeen(found) == TRUE
AllSeen(found) == found = listed

InspectContainers ==
  /\ command = "containers"
  /\ LET found == {c \in listed : containers[c].state # None}
         lifecycles == [c \in found |-> Lifecycle(containers[c].state)]
     IN  IF ~ValidIds(listed) THEN Fail("container_output")
         ELSE \/ /\ \E c \in found : lifecycles[c] = None
                 /\ Fail("lifecycle")
              \/ ~AllSeen(found) /\ Fail("container_output")
              \/ /\ AllSeen(found)
                 /\ \A c \in found : lifecycles[c] # None
                 /\ command' = "images"
                 /\ inspected' =
                      [c \in found |->
                         [image      |-> containers[c].image,
                          configured |-> containers[c].configured,
                          lifecycle  |-> lifecycles[c]]]
                 /\ UNCHANGED <<listed, available, identity>>
  /\ UNCHANGED host

(* docker image inspect of the ids that run, parse_image_output.           *)
RunningImages == {inspected[c].image : c \in DOMAIN inspected}

InspectImages ==
  /\ command = "images"
  /\ IF ~ValidIds(RunningImages) THEN Fail("image_invalid")
     ELSE IF \E id \in RunningImages : RepoDigests(id) = {}
       THEN Fail("image_unavailable")
       ELSE /\ command' = "select"
            /\ available' = [id \in RunningImages |-> RepoDigests(id)]
            /\ UNCHANGED <<listed, inspected, identity>>
  /\ UNCHANGED host

(* select_distribution_identity: Docker's spelling of the repository must  *)
(* be the configured one.                                                  *)
(* Variant: any distribution of the image will do.                         *)
AnyRepository(c) == available[inspected[c].image]
Matching(c) ==
  {r \in available[inspected[c].image] :
     r.repository = inspected[c].configured.repository}

Pinned(c) == ~Mutable(inspected[c].configured)
Selected(c) == CHOOSE r \in Matching(c) : TRUE

Unavailable(c) ==
  \/ Matching(c) = {}
  \/ /\ Cardinality(Matching(c)) = 1
     /\ Pinned(c)
     /\ Selected(c).digest # inspected[c].configured.digest
Ambiguous(c) == Cardinality(Matching(c)) > 1

Select ==
  /\ command = "select"
  /\ \/ /\ \E c \in DOMAIN inspected : Unavailable(c)
        /\ Fail("image_unavailable")
     \/ /\ \E c \in DOMAIN inspected : Ambiguous(c)
        /\ Fail("image_ambiguous")
     \/ /\ \A c \in DOMAIN inspected : ~Unavailable(c) /\ ~Ambiguous(c)
        /\ command' = "observed"
        /\ identity' = [c \in DOMAIN inspected |-> Selected(c)]
        /\ UNCHANGED <<listed, inspected, available>>
  /\ UNCHANGED host

ObserveAnew ==
  /\ command \in {"observed"} \union Reasons
  /\ command' = "list"
  /\ listed' = {}
  /\ inspected' = <<>>
  /\ available' = <<>>
  /\ identity' = <<>>
  /\ UNCHANGED host

ObservationNext ==
  List \/ InspectContainers \/ InspectImages \/ Select \/ ObserveAnew

-----------------------------------------------------------------------------
(* An observation that is accepted has every container it listed, and the  *)
(* identity it gives each is a distribution of the very image the          *)
(* container was made from, in the repository it was configured with,      *)
(* although between the commands tags moved, images were pulled and pruned *)
(* and containers came and went (parse_container_output,                   *)
(* parse_image_output, select_distribution_identity).                      *)
ObservedIsRunning ==
  command = "observed" =>
    /\ DOMAIN identity = listed
    /\ \A c \in listed :
         /\ IdOf[identity[c].digest] = containers[c].image
         /\ identity[c].repository = containers[c].configured.repository
         /\ ~Mutable(containers[c].configured) =>
              identity[c].digest = containers[c].configured.digest
=============================================================================
