------------------------------ MODULE MCImages ------------------------------
(* A Docker Hub repository, by its two names, and one of another registry. *)
(* Digests d1 and d2 are two pushes of one image, d3 is another image.     *)
EXTENDS Images, TLC

CONSTANTS d1, d2, d3, i1, i2, c1, c2

Hub == "docker.io/library/web"
MCFamiliar == [r \in {Hub, "web", "ghcr.io/api"} |-> IF r = Hub THEN "web" ELSE r]
MCCanonical == [r \in {Hub, "web", "ghcr.io/api"} |-> IF r = "web" THEN Hub ELSE r]
MCIdOf == (d1 :> i1) @@ (d2 :> i1) @@ (d3 :> i2)

Tagged(repository, tag) == [repository |-> repository, tag |-> tag]
MCSpelled == {Tagged("web", "main")}

MCSelectors ==
  <<[repository |-> "ghcr.io/api", sha |-> d1, tag |-> "v1", branch |-> None],
    [repository |-> "web", sha |-> None, tag |-> "head", branch |-> None]>>

MCBefore ==
  {[digests |-> D, local |-> <<>>] :
     D \in {{}, {[repository |-> "ghcr.io/api", digest |-> d2]},
            {[repository |-> "web", digest |-> d1]}}}

(* Container ids are alike.                                                *)
Twins == Permutations(Containers)
=============================================================================
