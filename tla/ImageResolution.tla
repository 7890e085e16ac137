--------------------------- MODULE ImageResolution ---------------------------
(***************************************************************************)
(* image_resolution.py: the image map of a host, whose selectors may be    *)
(* tags or branches that move, is turned into digests, one service after   *)
(* another, by pulling and inspecting (resolve_host_image_evidence).       *)
(*                                                                         *)
(* Abstracted: the registry checkout and the document's shape are checked  *)
(* elsewhere (module Reconcile); the map has been read; names and digests  *)
(* are model values, their syntax is left out.                             *)
(***************************************************************************)
EXTENDS DockerHost, FiniteSets

CONSTANTS
  Selectors,     (* the image map, sorted by service: a sequence of         *)
                 (* [repository, sha, tag, branch], None where not declared *)
  Canonical      (* Canonical[r]: the fully qualified name of repository r  *)

VARIABLES
  step,          (* "pull", "inspect", "repull", "reinspect",               *)
                 (* "done" or "failed"                                      *)
  service,       (* index in Selectors                                      *)
  first,         (* what the first pull of this service resolved to         *)
  resolved,      (* the references resolved so far, a sequence              *)
  pulledAt       (* history: per service, how many digests its tag had      *)
                 (* named when it was last pulled                           *)

resolution == <<step, service, first, resolved, pulledAt>>

(* canonical_repository, repository_aliases: a Docker Hub repository has a *)
(* long and a short name.                                                  *)
Aliases(repository) == {repository, Familiar[repository]}

(* selector_reference: a digest before a tag before a branch.              *)
Reference(selector) ==
  LET repository == Canonical[selector.repository]
      tag == IF selector.tag \notin {None, "head"} THEN selector.tag
             ELSE IF selector.branch # None THEN selector.branch ELSE "main"
  IN  IF selector.sha # None
        THEN [repository |-> repository, digest |-> selector.sha]
        ELSE [repository |-> repository, tag |-> tag]

Current == Reference(Selectors[service])

(* A host without images has nothing to resolve; a tag that the registry   *)
(* does not know is a pull that fails.                                     *)
ASSUME ImageResolutionAssumption ==
  /\ Selectors # <<>> /\ Selectors \in Seq(Range(Selectors))
  /\ \A s \in DOMAIN Selectors :
       LET ref == Reference(Selectors[s]) IN Mutable(ref) => Tag(ref) \in Names

ResolutionInit ==
  /\ step = "pull"
  /\ service = 1
  /\ first = None
  /\ resolved = <<>>
  /\ pulledAt = [s \in DOMAIN Selectors |-> 0]

(* docker pull                                                             *)
PullImage ==
  /\ \/ /\ step = "pull" /\ step' = "inspect"
     \/ /\ step = "repull" /\ step' = "reinspect"
  /\ images' = Pulled(Current)
  /\ pulledAt' = [pulledAt EXCEPT ![service] =
                    IF Mutable(Current) THEN Len(Namings(Current)) ELSE 0]
  /\ UNCHANGED <<tags, containers, pulls, prunes, service, first, resolved>>

(* A command that fails, or an answer that is not accepted.                *)
GiveUp ==
  /\ step' = "failed"
  /\ UNCHANGED <<host, service, first, resolved, pulledAt>>
PullFails ==
  /\ step \in {"pull", "repull"}
  /\ GiveUp

(* docker image inspect: those of RepoDigests that belong to `repository`. *)
Matches ==
  {r \in RepoDigests(Local(Current)) :
     r.repository \in Aliases(Current.repository)}

(* Variant: one of the matches is good enough.                             *)
AnyMatch == Matches # {}
OneMatch == Cardinality(Matches) = 1

Answer ==
  [repository |-> Current.repository,
   digest |-> (CHOOSE r \in Matches : TRUE).digest]

Resolve(answer) ==
  /\ resolved' = Append(resolved, answer)
  /\ first' = None
  /\ IF service = Len(Selectors)
       THEN step' = "done" /\ UNCHANGED service
       ELSE step' = "pull" /\ service' = service + 1

Inspect ==
  /\ step = "inspect"
  /\ Local(Current) # None
  /\ OneMatch
  /\ IF Mutable(Current)
       THEN /\ step' = "repull"
            /\ first' = Answer
            /\ UNCHANGED <<service, resolved>>
       ELSE Resolve(Answer)
  /\ UNCHANGED <<host, pulledAt>>

(* Variant: the second answer is not looked at.                            *)
Ignored(answer) == TRUE
Unchanged(answer) == answer = first

InspectAgain ==
  /\ step = "reinspect"
  /\ Local(Current) # None
  /\ OneMatch
  /\ Unchanged(Answer)
  /\ Resolve(first)
  /\ UNCHANGED <<host, pulledAt>>

Refuse ==
  /\ \/ /\ step \in {"inspect", "reinspect"}
        /\ Local(Current) = None \/ ~OneMatch
     \/ step = "reinspect" /\ Local(Current) # None
        /\ OneMatch /\ ~Unchanged(Answer)
  /\ GiveUp

(* The timer's next reconciliation resolves everything anew.               *)
ResolveAnew ==
  /\ step \in {"done", "failed"}
  /\ step' = "pull"
  /\ service' = 1
  /\ first' = None
  /\ resolved' = <<>>
  /\ pulledAt' = [s \in DOMAIN Selectors |-> 0]
  /\ UNCHANGED host

ResolutionNext ==
  PullImage \/ PullFails \/ Inspect \/ InspectAgain \/ Refuse \/ ResolveAnew

-----------------------------------------------------------------------------
(* A service is given the digest its declaration pins; or, for a tag, one  *)
(* that the registry's tag named when it was pulled for the second time or *)
(* later, never an older one that was still on the host, nor that of       *)
(* another push of the same image (resolved_reference,                     *)
(* resolve_host_image_evidence).                                           *)
ResolvedIsCurrent ==
  \A s \in DOMAIN resolved :
    LET ref == Reference(Selectors[s])
    IN  /\ resolved[s].repository = ref.repository
        /\ IF Mutable(ref)
             THEN \E n \in pulledAt[s]..Len(Namings(ref)) :
                    Namings(ref)[n] = resolved[s].digest
             ELSE resolved[s].digest = ref.digest
=============================================================================
