----------------------------- MODULE DockerHost -----------------------------
(***************************************************************************)
(* What image resolution and Compose observation share and neither owns:   *)
(* the registry, whose tags move, and a host's Docker engine, its images   *)
(* and its containers.  External to the repository; modelled from the      *)
(* commands that image_resolution.py and compose_state_protocol.py run and *)
(* from the fields they read.                                              *)
(***************************************************************************)
EXTENDS Naturals, Sequences, FiniteSets, Functions

CONSTANTS
  Spelled,       (* a reference, by name: [repository, tag], or             *)
                 (* [repository, digest]; repositories as they are spelled  *)
  Familiar,      (* Familiar[r]: how Docker itself spells repository r      *)
  Digests,       (* manifest digests, which images are distributed by       *)
  IdOf,          (* IdOf[d]: the local id of the image that d unpacks to    *)
  Containers,    (* container ids, none ever used twice                     *)
  States,        (* what `State.Status` can say                             *)
  Before,        (* the images that the host may hold at first              *)
  None,
  MaxMoves, MaxPulls, MaxPrunes  (* bounds on the environment, whose starts *)
                                 (* are bounded by Containers               *)

ASSUME DockerHostAssumption ==
  /\ \A ref \in Spelled :
       DOMAIN ref \in {{"repository", "tag"}, {"repository", "digest"}}
  /\ \A known \in Before : /\ DOMAIN known = {"digests", "local"}
                            /\ IsFiniteSet(known.digests)

VARIABLES
  tags,          (* tags[t]: the digests that a tag has named in the        *)
                 (* registry, the current one last                          *)
  images,        (* [digests: RepoDigests of all images; local: the ids     *)
                 (* that tags name here]                                    *)
  containers,    (* [image, configured, state] of every container made;     *)
                 (* state is None when it is removed                        *)
  pulls, prunes  (* how many of the environment's happened                  *)

host == <<tags, images, containers, pulls, prunes>>

Mutable(ref) == "tag" \in DOMAIN ref
Tag(ref) == [ref EXCEPT !.repository = Familiar[@]]
Names == {Tag(ref) : ref \in {r \in Spelled : Mutable(r)}}
Namings(ref) == tags[Tag(ref)]
Named(ref) ==
  IF Mutable(ref) THEN Namings(ref)[Len(Namings(ref))] ELSE ref.digest

(* An entry of RepoDigests.                                                *)
RepoDigest(ref, digest) ==
  [repository |-> Familiar[ref.repository], digest |-> digest]
RepoDigests(id) == {r \in images.digests : IdOf[r.digest] = id}

(* The id that a reference names on this host, None when nothing does.     *)
Local(ref) ==
  IF Mutable(ref)
    THEN IF Tag(ref) \in DOMAIN images.local
           THEN images.local[Tag(ref)] ELSE None
    ELSE IF RepoDigest(ref, ref.digest) \in images.digests
           THEN IdOf[ref.digest] ELSE None

(* f with key bound to value.                                              *)
Bound(f, key, value) ==
  [k \in DOMAIN f \union {key} |-> IF k = key THEN value ELSE f[k]]

Pulled(ref) ==
  LET id == IdOf[Named(ref)]
  IN  [digests |-> images.digests \union {RepoDigest(ref, Named(ref))},
       local   |-> IF Mutable(ref) THEN Bound(images.local, Tag(ref), id)
                     ELSE images.local]

InUse == {containers[c].image : c \in {d \in DOMAIN containers :
                                         containers[d].state # None}}

HostInit ==
  /\ tags \in [Names -> {<<d>> : d \in Digests}]
  /\ images \in Before
  /\ containers = <<>>
  /\ pulls = 0
  /\ prunes = 0

-----------------------------------------------------------------------------
(* A new build is pushed to a tag.                                         *)
Push ==
  /\ \E tag \in Names :
       /\ Len(tags[tag]) <= MaxMoves
       /\ \E d \in Digests \ {tags[tag][Len(tags[tag])]} :
            tags' = [tags EXCEPT ![tag] = Append(@, d)]
  /\ UNCHANGED <<images, containers, pulls, prunes>>

(* Somebody else on the host pulls.                                        *)
PullElsewhere ==
  /\ pulls < MaxPulls
  /\ pulls' = pulls + 1
  /\ \E ref \in Spelled : images' = Pulled(ref)
  /\ UNCHANGED <<tags, containers, prunes>>

(* `docker image prune --all` removes what no container uses.              *)
Prune ==
  /\ prunes < MaxPrunes
  /\ prunes' = prunes + 1
  /\ LET kept == {n \in DOMAIN images.local : images.local[n] \in InUse}
     IN  images' = [digests |-> {r \in images.digests : IdOf[r.digest] \in InUse},
                    local   |-> Restrict(images.local, kept)]
  /\ UNCHANGED <<tags, containers, pulls>>

(* `docker compose up`, `stop`, `rm`, and containers that exit or restart. *)
StartContainer(ref) ==
  /\ Local(ref) # None
  /\ \E c \in Containers \ DOMAIN containers :
       containers' = Bound(containers, c, [image |-> Local(ref),
                                           configured |-> ref,
                                           state |-> "running"])
  /\ UNCHANGED <<tags, images, pulls, prunes>>

ChangeContainer ==
  /\ \E c \in DOMAIN containers, s \in States \union {None} :
       /\ containers[c].state \notin {s, None}
       /\ containers' = [containers EXCEPT ![c].state = s]
  /\ UNCHANGED <<tags, images, pulls, prunes>>

Environment ==
  \/ Push \/ PullElsewhere \/ Prune \/ ChangeContainer
  \/ \E ref \in Spelled : StartContainer(ref)
=============================================================================
