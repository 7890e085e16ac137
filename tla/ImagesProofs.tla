----------------------------- MODULE ImagesProofs -----------------------------
(***************************************************************************)
(* What image resolution answers is current, and what the observation of a *)
(* Compose project says is true, for any number of services, containers,   *)
(* digests, pushes, pulls and prunes beside them.                          *)
(***************************************************************************)
EXTENDS Images, FiniteSetTheorems, TLAPS

-----------------------------------------------------------------------------
(* The host.                                                               *)

(* Tags only ever name more digests, and containers keep what they were    *)
(* made from.                                                              *)
HostInv ==
  /\ DOMAIN tags = Names
  /\ \A t \in Names : tags[t] \in Seq(Digests) /\ Len(tags[t]) # 0
  /\ DOMAIN images = {"digests", "local"}
  /\ IsFiniteSet(images.digests)
  /\ \A c \in DOMAIN containers :
       DOMAIN containers[c] = {"image", "configured", "state"}

-----------------------------------------------------------------------------
(* Resolution.                                                             *)

(* An image that has been pulled, while it is still on the host: the tag   *)
(* leads to one that it has named since the pull, and Docker knows its     *)
(* digest under the spelling of its repository.                            *)
KnownHere(ref, since) ==
  Tag(ref) \in DOMAIN images.local =>
    \E n \in since..Len(Namings(ref)) :
      /\ images.local[Tag(ref)] = IdOf[Namings(ref)[n]]
      /\ RepoDigest(ref, Namings(ref)[n]) \in images.digests

ResolutionInv ==
  /\ step \in {"pull", "inspect", "repull", "reinspect", "done", "failed"}
  /\ service \in DOMAIN Selectors
  /\ DOMAIN pulledAt = DOMAIN Selectors
  /\ \A s \in DOMAIN Selectors : pulledAt[s] \in Nat
  /\ resolved \in Seq({resolved[s] : s \in DOMAIN resolved})
  /\ Len(resolved) = IF step = "done" THEN service ELSE service - 1
  /\ \A s \in DOMAIN resolved :
       Mutable(Reference(Selectors[s])) => pulledAt[s] \in Nat \ {0}
  /\ step \in {"inspect", "reinspect"} /\ Mutable(Current) =>
       /\ pulledAt[service] \in 1..Len(Namings(Current))
       /\ KnownHere(Current, pulledAt[service])

-----------------------------------------------------------------------------
(* Observation.                                                            *)

(* What a command has told stays true of the containers it was about, and  *)
(* of the images, whose ids are what they are made of.                     *)
ObservationInv ==
  /\ command \in {"images", "select", "observed"} =>
       /\ DOMAIN inspected = listed
       /\ \A c \in listed :
            /\ c \in DOMAIN containers
            /\ inspected[c].image = containers[c].image
            /\ inspected[c].configured = containers[c].configured
  /\ command = "select" => \A c \in listed :
       /\ IsFiniteSet(available[inspected[c].image])
       /\ \A r \in available[inspected[c].image] :
            IdOf[r.digest] = inspected[c].image
  /\ command = "containers" => listed \subseteq DOMAIN containers

IInv == /\ HostInv /\ ResolutionInv /\ ObservationInv
        /\ ResolvedIsCurrent /\ ObservedIsRunning

-----------------------------------------------------------------------------
(* How the host changes.                                                   *)

(* A tag and its repository, as Docker spells it.                          *)
LEMMA TagSpelled ==
  ASSUME NEW ref, DOMAIN ref = {"repository", "tag"}
  PROVE  Mutable(ref) /\ Tag(ref).repository = Familiar[ref.repository]
BY DEF Mutable, Tag

(* The reference of a selector, which is either mutable or a digest.       *)
LEMMA ReferenceSpelled ==
  ASSUME NEW selector
  PROVE  /\ Reference(selector).repository = Canonical[selector.repository]
         /\ Mutable(Reference(selector)) =>
              DOMAIN Reference(selector) = {"repository", "tag"}
BY DEF Reference, Mutable

(* What a pull adds to the host.                                           *)
LEMMA PullAdds ==
  ASSUME NEW ref
  PROVE  /\ DOMAIN Pulled(ref) = {"digests", "local"}
         /\ Pulled(ref).digests =
              images.digests \union {RepoDigest(ref, Named(ref))}
         /\ ~Mutable(ref) => Pulled(ref).local = images.local
         /\ Mutable(ref) =>
              /\ Tag(ref) \in DOMAIN Pulled(ref).local
              /\ Pulled(ref).local[Tag(ref)] = IdOf[Named(ref)]
              /\ \A t : t # Tag(ref) =>
                   /\ t \in DOMAIN Pulled(ref).local <=>
                        t \in DOMAIN images.local
                   /\ t \in DOMAIN images.local =>
                        Pulled(ref).local[t] = images.local[t]
BY DEF Pulled, Bound

(* What anybody does on the host leaves what tags have named and what      *)
(* containers are made of.                                                 *)
TagsGrow ==
  \A t \in Names :
    /\ Len(tags[t]) <= Len(tags'[t])
    /\ \A n \in 1..Len(tags[t]) : tags'[t][n] = tags[t][n]
ContainersKept ==
  \A c \in DOMAIN containers :
    /\ c \in DOMAIN containers'
    /\ containers'[c].image = containers[c].image
    /\ containers'[c].configured = containers[c].configured

(* The ways in which the host changes.                                     *)
HostStep ==
  \/ Push \/ Prune \/ ChangeContainer
  \/ \E ref : StartContainer(ref)
  \/ \E ref : /\ Mutable(ref) => DOMAIN ref = {"repository", "tag"}
              /\ images' = Pulled(ref)
              /\ UNCHANGED <<tags, containers>>
  \/ UNCHANGED <<tags, images, containers>>

(* Whatever happens changes the engine and the registry in one of these    *)
(* ways, or not at all.                                                    *)
LEMMA NextIsHostStep == [Next]_vars => HostStep
<1> SUFFICES ASSUME [Next]_vars PROVE HostStep
  OBVIOUS
<1> USE DEF HostStep, host
<1>1. CASE ResolutionNext
  BY <1>1, ReferenceSpelled DEF ResolutionNext, Current, PullImage, PullFails,
     GiveUp, Inspect, InspectAgain, Refuse, ResolveAnew
<1>2. CASE ObservationNext
  BY <1>2 DEF ObservationNext, List, InspectContainers, InspectImages, Select,
     ObserveAnew
<1>3. CASE Environment
  <2>1. \A ref \in Spelled : Mutable(ref) => DOMAIN ref = {"repository", "tag"}
    BY DockerHostAssumption DEF Mutable
  <2> QED
    BY <1>3, <2>1 DEF Environment, PullElsewhere
<1>4. CASE Deploy
  BY <1>4 DEF Deploy
<1> QED
  BY <1>1, <1>2, <1>3, <1>4 DEF Next, vars

(* What each of them leaves alone.                                         *)
LEMMA HostStepChanges ==
  ASSUME HostStep
  PROVE  /\ Push \/ UNCHANGED tags
         /\ \/ Prune \/ UNCHANGED images
            \/ \E ref : /\ Mutable(ref) => DOMAIN ref = {"repository", "tag"}
                        /\ images' = Pulled(ref)
                        /\ UNCHANGED tags
<1>1. Push => UNCHANGED images
  BY DEF Push
<1>2. Prune => UNCHANGED tags
  BY DEF Prune
<1>3. ChangeContainer => UNCHANGED <<tags, images>>
  BY DEF ChangeContainer
<1>4. \A ref : StartContainer(ref) => UNCHANGED <<tags, images>>
  BY DEF StartContainer
<1> QED
  BY <1>1, <1>2, <1>3, <1>4 DEF HostStep

(* Such a step keeps the engine's invariant; tags only ever grow, and a    *)
(* container keeps its image.                                              *)
LEMMA HostInvStep ==
  ASSUME HostInv, HostStep
  PROVE  HostInv' /\ TagsGrow /\ ContainersKept
<1>1. CASE Push
  <2>1. PICK t \in Names, d \in Digests :
          tags' = [tags EXCEPT ![t] = Append(@, d)]
    BY <1>1 DEF Push
  <2>2. tags[t] \in Seq(Digests) /\ tags'[t] = Append(tags[t], d)
    BY <2>1 DEF HostInv
  <2>3. /\ tags'[t] \in Seq(Digests) /\ Len(tags'[t]) = Len(tags[t]) + 1
        /\ \A n \in 1..Len(tags[t]) : tags'[t][n] = tags[t][n]
        /\ Len(tags[t]) \in Nat
    BY <2>2
  <2>4. \A u \in Names \ {t} : tags'[u] = tags[u] /\ Len(tags[u]) \in Nat
    BY <2>1 DEF HostInv
  <2> QED
    BY <1>1, <2>1, <2>3, <2>4 DEF Push, HostInv, TagsGrow, ContainersKept
<1>2. CASE UNCHANGED tags
  <2>1. TagsGrow
    <3>1. \A t \in Names : Len(tags[t]) \in Nat
      BY DEF HostInv
    <3> QED
      BY <1>2, <3>1 DEF TagsGrow
  <2>2. CASE Prune
    <3>1. images'.digests \in SUBSET images.digests
      BY <2>2 DEF Prune
    <3>2. IsFiniteSet(images'.digests)
      BY <3>1, FS_Subset DEF HostInv
    <3> QED
      BY <1>2, <2>1, <2>2, <3>2 DEF Prune, HostInv, ContainersKept
  <2>3. CASE ChangeContainer
    BY <1>2, <2>1, <2>3 DEF ChangeContainer, HostInv, ContainersKept
  <2>4. ASSUME NEW ref, StartContainer(ref) PROVE HostInv' /\ ContainersKept
    BY <1>2, <2>4 DEF StartContainer, Bound, HostInv, ContainersKept
  <2>5. ASSUME NEW ref, images' = Pulled(ref), UNCHANGED containers
        PROVE  HostInv' /\ ContainersKept
    <3>1. images'.digests = images.digests \union {RepoDigest(ref, Named(ref))}
      BY <2>5, PullAdds
    <3>2. IsFiniteSet(images.digests)
      BY DEF HostInv
    <3>3. IsFiniteSet(images.digests \union {RepoDigest(ref, Named(ref))})
      BY <3>2, FS_AddElement, Zenon
    <3> QED
      BY <1>2, <2>5, <3>1, <3>3, PullAdds DEF HostInv, ContainersKept
  <2>6. CASE UNCHANGED <<images, containers>>
    BY <1>2, <2>1, <2>6 DEF HostInv, ContainersKept
  <2>7. \A ref : StartContainer(ref) => HostInv' /\ ContainersKept
    BY <2>4
  <2>8. \A ref : /\ images' = Pulled(ref) /\ UNCHANGED containers
                 => HostInv' /\ ContainersKept
    BY <2>5
  <2> QED
    BY <1>1, <2>1, <2>2, <2>3, <2>6, <2>7, <2>8 DEF HostStep
<1>3. HostStep => Push \/ UNCHANGED tags
  BY HostStepChanges
<1> QED
  BY <1>1, <1>2, <1>3

(* A known image stays known, or is gone.                                  *)
LEMMA KnownHereStep ==
  ASSUME HostInv, [Next]_vars,
         NEW ref, DOMAIN ref = {"repository", "tag"}, Tag(ref) \in Names,
         NEW since \in 1..Len(Namings(ref)), KnownHere(ref, since)
  PROVE  KnownHere(ref, since)' /\ since \in 1..Len(Namings(ref)')
<1>1. TagsGrow /\ HostInv'
  BY NextIsHostStep, HostInvStep
<1>2. /\ Len(Namings(ref)) \in Nat /\ Len(Namings(ref)') \in Nat
      /\ Len(Namings(ref)) <= Len(Namings(ref)')
      /\ \A n \in 1..Len(Namings(ref)) : Namings(ref)'[n] = Namings(ref)[n]
  BY <1>1 DEF TagsGrow, Namings, HostInv
<1>3. since \in 1..Len(Namings(ref)')
  BY <1>2
<1>4. /\ KnownHere(ref, since)' <=>
           (Tag(ref) \in DOMAIN images'.local =>
             \E n \in since..Len(Namings(ref)') :
               /\ images'.local[Tag(ref)] = IdOf[Namings(ref)'[n]]
               /\ RepoDigest(ref, Namings(ref)'[n]) \in images'.digests)
  BY DEF KnownHere, Tag, RepoDigest
<1> SUFFICES ASSUME Tag(ref) \in DOMAIN images'.local
             PROVE  \E n \in since..Len(Namings(ref)') :
                      /\ images'.local[Tag(ref)] = IdOf[Namings(ref)'[n]]
                      /\ RepoDigest(ref, Namings(ref)'[n]) \in images'.digests
  BY <1>3, <1>4
<1>5. ASSUME Tag(ref) \in DOMAIN images.local,
             images'.local[Tag(ref)] = images.local[Tag(ref)],
             \A digest : /\ RepoDigest(ref, digest) \in images.digests
                         /\ IdOf[digest] = images.local[Tag(ref)]
                         => RepoDigest(ref, digest) \in images'.digests
      PROVE  \E n \in since..Len(Namings(ref)') :
               /\ images'.local[Tag(ref)] = IdOf[Namings(ref)'[n]]
               /\ RepoDigest(ref, Namings(ref)'[n]) \in images'.digests
  <2>1. PICK n \in since..Len(Namings(ref)) :
          /\ images.local[Tag(ref)] = IdOf[Namings(ref)[n]]
          /\ RepoDigest(ref, Namings(ref)[n]) \in images.digests
    BY <1>5 DEF KnownHere
  <2>2. n \in since..Len(Namings(ref)') /\ Namings(ref)'[n] = Namings(ref)[n]
    BY <1>2
  <2> QED
    BY <1>5, <2>1, <2>2
<1>6. CASE UNCHANGED images
  BY <1>5, <1>6
<1>7. CASE Prune
  <2>1. /\ Tag(ref) \in DOMAIN images.local
        /\ images'.local[Tag(ref)] = images.local[Tag(ref)]
        /\ images.local[Tag(ref)] \in InUse
    BY <1>7 DEF Prune, Restrict
  <2>2. \A digest : /\ RepoDigest(ref, digest) \in images.digests
                    /\ IdOf[digest] \in InUse
                    => RepoDigest(ref, digest) \in images'.digests
    BY <1>7 DEF Prune, RepoDigest
  <2> QED
    BY <1>5, <2>1, <2>2
<1>8. ASSUME NEW other, images' = Pulled(other), UNCHANGED tags,
             Mutable(other) => DOMAIN other = {"repository", "tag"}
      PROVE  \E n \in since..Len(Namings(ref)') :
               /\ images'.local[Tag(ref)] = IdOf[Namings(ref)'[n]]
               /\ RepoDigest(ref, Namings(ref)'[n]) \in images'.digests
  <2>1. CASE Mutable(other) /\ Tag(other) = Tag(ref)
    <3>1. /\ images'.local[Tag(ref)] = IdOf[Named(other)]
          /\ RepoDigest(other, Named(other)) \in images'.digests
      BY <1>8, <2>1, PullAdds
    <3>2. Named(other) = Namings(ref)'[Len(Namings(ref)')]
      BY <1>8, <2>1 DEF Named, Namings
    <3>3. RepoDigest(other, Named(other)) = RepoDigest(ref, Named(other))
      BY <1>8, <2>1, TagSpelled DEF RepoDigest
    <3>4. Len(Namings(ref)') \in since..Len(Namings(ref)')
      BY <1>2, <1>3
    <3> QED
      BY <3>1, <3>2, <3>3, <3>4
  <2>2. CASE ~(Mutable(other) /\ Tag(other) = Tag(ref))
    <3>1. /\ Tag(ref) \in DOMAIN images.local
          /\ images'.local[Tag(ref)] = images.local[Tag(ref)]
          /\ images.digests \subseteq images'.digests
      BY <1>8, <2>2, PullAdds
    <3> QED
      BY <1>5, <3>1
  <2> QED
    BY <2>1, <2>2
<1>9. \/ Prune \/ UNCHANGED images
      \/ \E other : /\ Mutable(other) => DOMAIN other = {"repository", "tag"}
                    /\ images' = Pulled(other)
                    /\ UNCHANGED tags
  BY NextIsHostStep, HostStepChanges
<1> QED
  BY <1>6, <1>7, <1>8, <1>9
-----------------------------------------------------------------------------
(* Resolution, step by step.                                               *)

(* What ResolvedIsCurrent says of one service.                             *)
Answers(s, answer, since) ==
  LET ref == Reference(Selectors[s])
  IN  /\ answer.repository = ref.repository
      /\ IF Mutable(ref)
           THEN \E n \in since..Len(Namings(ref)) :
                  Namings(ref)[n] = answer.digest
           ELSE answer.digest = ref.digest

(* That every resolved service is current says so of each answer.          *)
LEMMA ResolvedMeans ==
  ResolvedIsCurrent <=>
    \A s \in DOMAIN resolved : Answers(s, resolved[s], pulledAt[s])
BY DEF ResolvedIsCurrent, Answers

(* An answer that was current when it was given is so ever after.          *)
LEMMA AnswersKept ==
  ASSUME HostInv, [Next]_vars, NEW s \in DOMAIN Selectors, NEW answer,
         NEW since \in Nat, Mutable(Reference(Selectors[s])) => since # 0,
         Answers(s, answer, since)
  PROVE  Answers(s, answer, since)'
<1> DEFINE ref == Reference(Selectors[s])
<1>1. CASE ~Mutable(ref)
  BY <1>1 DEF Answers
<1>2. CASE Mutable(ref)
  <2>1. Tag(ref) \in Names
    BY <1>2, ImageResolutionAssumption
  <2>2. TagsGrow /\ HostInv'
    BY NextIsHostStep, HostInvStep
  <2>3. /\ Len(Namings(ref)) \in Nat /\ Len(Namings(ref)') \in Nat
        /\ Len(Namings(ref)) <= Len(Namings(ref)')
        /\ \A n \in 1..Len(Namings(ref)) : Namings(ref)'[n] = Namings(ref)[n]
    BY <2>1, <2>2 DEF TagsGrow, Namings, HostInv
  <2>4. answer.repository = ref.repository
    BY DEF Answers
  <2>5. PICK n \in since..Len(Namings(ref)) : Namings(ref)[n] = answer.digest
    BY <1>2 DEF Answers
  <2>6. /\ n \in since..Len(Namings(ref)')
        /\ Namings(ref)'[n] = answer.digest
    BY <1>2, <2>3, <2>5
  <2>7. \E m \in since..Len(Namings(ref)') : Namings(ref)'[m] = answer.digest
    BY <2>6
  <2> QED
    BY <1>2, <2>4, <2>7 DEF Answers
<1> QED
  BY <1>1, <1>2

(* An answer that is accepted is current.                                  *)
LEMMA AcceptedIsCurrent ==
  ASSUME HostInv, ResolutionInv, step \in {"inspect", "reinspect"},
         Local(Current) # None, OneMatch
  PROVE  Answers(service, Answer, pulledAt[service])
<1>1. PICK m : Matches = {m}
  <2>1. Matches \in SUBSET images.digests
    BY DEF Matches, RepoDigests
  <2>2. IsFiniteSet(Matches)
    BY <2>1, FS_Subset DEF HostInv
  <2> QED
    BY <2>2, FS_Singleton DEF OneMatch
<1>2. Answer = [repository |-> Current.repository, digest |-> m.digest]
  BY <1>1 DEF Answer
<1>3. ASSUME NEW digest, RepoDigest(Current, digest) \in images.digests,
             Local(Current) = IdOf[digest]
      PROVE  Answer.digest = digest
  <2>1. RepoDigest(Current, digest) \in Matches
    BY <1>3 DEF Matches, RepoDigests, RepoDigest, Aliases
  <2>2. m = RepoDigest(Current, digest)
    BY <1>1, <2>1
  <2>3. m.digest = digest
    BY <2>2 DEF RepoDigest
  <2> QED
    BY <1>2, <2>3
<1>4. CASE Mutable(Current)
  <2>1. /\ Tag(Current) \in DOMAIN images.local
        /\ Local(Current) = images.local[Tag(Current)]
    BY <1>4 DEF Local
  <2>2. KnownHere(Current, pulledAt[service])
    BY <1>4 DEF ResolutionInv
  <2>3. PICK n \in pulledAt[service]..Len(Namings(Current)) :
          /\ images.local[Tag(Current)] = IdOf[Namings(Current)[n]]
          /\ RepoDigest(Current, Namings(Current)[n]) \in images.digests
    BY <2>1, <2>2 DEF KnownHere
  <2>4. Answer.digest = Namings(Current)[n]
    BY <1>3, <2>1, <2>3
  <2> QED
    BY <1>2, <1>4, <2>3, <2>4 DEF Answers, Current
<1>5. CASE ~Mutable(Current)
  <2>1. /\ RepoDigest(Current, Current.digest) \in images.digests
        /\ Local(Current) = IdOf[Current.digest]
    BY <1>5 DEF Local
  <2>2. Answer.digest = Current.digest
    BY <1>3, <2>1
  <2> QED
    BY <1>2, <1>5, <2>2 DEF Answers, Current
<1> QED
  BY <1>4, <1>5

(* While a service waits for its inspection, the host keeps what it has    *)
(* been pulled to, or loses it.                                            *)
LEMMA WaitingStep ==
  ASSUME HostInv, ResolutionInv, [Next]_vars,
         step \in {"inspect", "reinspect"}, Mutable(Current),
         UNCHANGED <<service, pulledAt>>
  PROVE  /\ pulledAt[service] \in 1..Len(Namings(Current)')
         /\ KnownHere(Current, pulledAt[service])'
<1>1. service \in DOMAIN Selectors
  BY DEF ResolutionInv
<1>2. DOMAIN Current = {"repository", "tag"} /\ Tag(Current) \in Names
  BY <1>1, ReferenceSpelled, ImageResolutionAssumption DEF Current
<1>3. /\ pulledAt[service] \in 1..Len(Namings(Current))
      /\ KnownHere(Current, pulledAt[service])
  BY DEF ResolutionInv
<1>4. PICK ref : ref = Current
  OBVIOUS
<1>5. Current' = ref
  BY <1>4 DEF Current
<1>6. PICK since : since = pulledAt[service]
  OBVIOUS
<1>7. KnownHere(ref, since)' /\ since \in 1..Len(Namings(ref)')
  BY <1>2, <1>3, <1>4, <1>6, KnownHereStep
<1>8. Namings(Current)' = Namings(ref)'
  BY <1>5 DEF Namings
<1> QED
  BY <1>5, <1>6, <1>7, <1>8 DEF KnownHere, Namings, Tag, RepoDigest

(* What the current service declares, where it moves.                      *)
LEMMA CurrentTag ==
  ASSUME HostInv, ResolutionInv, Mutable(Current)
  PROVE  /\ DOMAIN Current = {"repository", "tag"} /\ Tag(Current) \in Names
         /\ Len(Namings(Current)) \in Nat \ {0}
<1>1. service \in DOMAIN Selectors
  BY DEF ResolutionInv
<1>2. DOMAIN Current = {"repository", "tag"} /\ Tag(Current) \in Names
  BY <1>1, ReferenceSpelled, ImageResolutionAssumption DEF Current
<1>3. Namings(Current) \in Seq(Digests) /\ Len(Namings(Current)) # 0
  BY <1>2 DEF HostInv, Namings
<1> QED
  BY <1>2, <1>3

(* The services are numbered.                                              *)
LEMMA Numbered ==
  \E last \in Nat \ {0} : last = Len(Selectors) /\ DOMAIN Selectors = 1..last
<1>1. PICK S : Selectors \in Seq(S) /\ Selectors # <<>>
  BY ImageResolutionAssumption
<1>2. PICK last : last = Len(Selectors)
  OBVIOUS
<1>3. last \in Nat /\ DOMAIN Selectors = 1..last
  BY <1>1, <1>2
<1>4. last # 0
  BY <1>1, <1>2
<1> QED
  BY <1>2, <1>3, <1>4

(* The services that have their answer come before the current one.        *)
LEMMA ResolvedSoFar ==
  ASSUME ResolutionInv
  PROVE  /\ service \in Nat \ {0}
         /\ resolved \in Seq({resolved[s] : s \in DOMAIN resolved})
         /\ DOMAIN resolved \subseteq DOMAIN Selectors
         /\ step # "done" => Len(resolved) = service - 1
         /\ step # "done" => DOMAIN resolved = 1..(service - 1)
<1>1. PICK last \in Nat \ {0} : DOMAIN Selectors = 1..last
  BY Numbered
<1>2. service \in 1..last
  BY <1>1 DEF ResolutionInv
<1>3. PICK S : resolved \in Seq(S)
  BY DEF ResolutionInv
<1>4. PICK n : n = Len(resolved)
  OBVIOUS
<1>5. n \in Nat /\ DOMAIN resolved = 1..n
  BY <1>3, <1>4
<1>6. n = IF step = "done" THEN service ELSE service - 1
  BY <1>4 DEF ResolutionInv
<1>7. resolved \in Seq({resolved[s] : s \in DOMAIN resolved})
  BY DEF ResolutionInv
<1> QED
  BY <1>1, <1>2, <1>4, <1>5, <1>6, <1>7

(* Whatever happens, the answers that are left alone stay current.         *)
LEMMA AnswersStay ==
  ASSUME HostInv, ResolutionInv, ResolvedIsCurrent, [Next]_vars,
         NEW s \in DOMAIN resolved,
         resolved'[s] = resolved[s], pulledAt'[s] = pulledAt[s]
  PROVE  Answers(s, resolved[s], pulledAt[s])'
<1>1. PICK answer, since : answer = resolved[s] /\ since = pulledAt[s]
  OBVIOUS
<1>2. s \in DOMAIN Selectors
  BY ResolvedSoFar
<1>3. Answers(s, answer, since)
  BY <1>1, ResolvedMeans
<1>4. since \in Nat /\ (Mutable(Reference(Selectors[s])) => since # 0)
  BY <1>1, <1>2 DEF ResolutionInv
<1>5. Answers(s, answer, since)'
  BY <1>2, <1>3, <1>4, AnswersKept
<1> QED
  BY <1>1, <1>5 DEF Answers

(* Steps that answer nothing.                                              *)
LEMMA NothingResolved ==
  ASSUME HostInv, ResolutionInv, ResolvedIsCurrent, [Next]_vars,
         UNCHANGED <<service, resolved, pulledAt>>,
         \/ UNCHANGED step
         \/ step # "done" /\ step' = "failed"
         \/ step = "inspect" /\ step' = "repull"
  PROVE  ResolutionInv' /\ ResolvedIsCurrent'
<1>1. ResolvedIsCurrent'
  <2>1. \A s \in DOMAIN resolved : Answers(s, resolved[s], pulledAt[s])'
    BY AnswersStay
  <2> QED
    BY <2>1 DEF ResolvedIsCurrent, Answers
<1>2. ASSUME (step \in {"inspect", "reinspect"} /\ Mutable(Current))'
      PROVE  /\ pulledAt'[service'] \in 1..Len(Namings(Current)')
             /\ KnownHere(Current, pulledAt[service])'
  <2>1. step \in {"inspect", "reinspect"} /\ Mutable(Current)
    BY <1>2 DEF Current
  <2> QED
    BY <2>1, WaitingStep
<1> QED
  BY <1>1, <1>2 DEF ResolutionInv

(* An answer is added, and the next service is turned to.                  *)
LEMMA ResolveStep ==
  ASSUME HostInv, ResolutionInv, ResolvedIsCurrent, [Next]_vars,
         step \in {"inspect", "reinspect"}, NEW answer, Resolve(answer),
         UNCHANGED pulledAt, Answers(service, answer, pulledAt[service])
  PROVE  ResolutionInv' /\ ResolvedIsCurrent'
<1>0. /\ service \in Nat \ {0} /\ DOMAIN resolved = 1..(service - 1)
      /\ \A s \in DOMAIN resolved : s \in DOMAIN Selectors
      /\ service \in DOMAIN Selectors
  BY ResolvedSoFar DEF ResolutionInv
<1>1. \/ step' = "done" /\ service' = service
      \/ step' = "pull" /\ service' = service + 1 /\ service # Len(Selectors)
  BY DEF Resolve
<1>2. Len(resolved) = service - 1
  BY DEF ResolutionInv
<1>3. /\ DOMAIN resolved' = 1..service
      /\ resolved' \in Seq({resolved'[s] : s \in DOMAIN resolved'})
      /\ Len(resolved') = service
      /\ resolved'[service] = answer
      /\ DOMAIN resolved = 1..(service - 1)
      /\ \A s \in 1..(service - 1) : resolved'[s] = resolved[s]
  <2> DEFINE All == {resolved[s] : s \in DOMAIN resolved} \union {answer}
  <2>1. resolved \in Seq(All) /\ answer \in All
    BY ResolvedSoFar
  <2>a. resolved' = Append(resolved, answer)
    BY DEF Resolve
  <2> HIDE DEF All
  <2>2. /\ resolved' \in Seq(All) /\ Len(resolved') = service
        /\ resolved'[service] = answer
        /\ \A s \in 1..(service - 1) : resolved'[s] = resolved[s]
    BY <1>2, <2>1, <2>a, <1>0
  <2>3. DOMAIN resolved' = 1..service
    BY <2>2, <1>0
  <2>4. resolved' \in Seq({resolved'[s] : s \in DOMAIN resolved'})
    BY <2>2, <2>3
  <2> QED
    BY <1>2, <2>2, <2>3, <2>4, <1>0
<1>4. Mutable(Reference(Selectors[service])) => pulledAt[service] # 0
  BY CurrentTag DEF ResolutionInv, Current
<1>5. ResolutionInv'
  <2>1. service' \in DOMAIN Selectors
    <3>1. PICK last \in Nat \ {0} :
            last = Len(Selectors) /\ DOMAIN Selectors = 1..last
      BY Numbered
    <3> QED
      BY <1>0, <1>1, <3>1
  <2>2. Len(resolved') = IF step' = "done" THEN service' ELSE service' - 1
    BY <1>1, <1>3, <1>0
  <2>3. \A s \in DOMAIN resolved' :
          Mutable(Reference(Selectors[s])) => pulledAt'[s] \in Nat \ {0}
    BY <1>3, <1>4, <1>0 DEF ResolutionInv
  <2> QED
    BY <1>1, <1>3, <2>1, <2>2, <2>3 DEF ResolutionInv
<1>6. ResolvedIsCurrent'
  <2>1. ASSUME NEW s \in 1..(service - 1)
        PROVE  Answers(s, resolved[s], pulledAt[s])'
    BY <1>3, <2>1, AnswersStay
  <2>2. PICK n, since : n = service /\ since = pulledAt[service]
    OBVIOUS
  <2>3. Answers(n, answer, since)'
    BY <1>0, <1>4, <2>2, AnswersKept DEF ResolutionInv
  <2>4. Answers(n, resolved[n], pulledAt[n])'
    BY <1>3, <2>2, <2>3 DEF Answers
  <2>5. \A s \in 1..service : s \in 1..(service - 1) \/ s = n
    BY <1>0, <2>2
  <2>6. \A s \in DOMAIN resolved' : Answers(s, resolved[s], pulledAt[s])'
    BY <1>3, <2>1, <2>4, <2>5
  <2> QED
    BY <2>6 DEF ResolvedIsCurrent, Answers
<1> QED
  BY <1>5, <1>6

(* A service is pulled: the tag leads to the digest the registry names.    *)
LEMMA PullStep ==
  ASSUME HostInv, ResolutionInv, ResolvedIsCurrent, [Next]_vars, PullImage
  PROVE  ResolutionInv' /\ ResolvedIsCurrent'
<1>1. /\ step \in {"pull", "repull"} /\ step' \in {"inspect", "reinspect"}
      /\ images' = Pulled(Current) /\ UNCHANGED <<tags, service, resolved>>
      /\ pulledAt' = [pulledAt EXCEPT ![service] =
                        IF Mutable(Current) THEN Len(Namings(Current)) ELSE 0]
  BY DEF PullImage
<1>2. /\ service \in DOMAIN Selectors /\ service \notin DOMAIN resolved
      /\ DOMAIN pulledAt = DOMAIN Selectors
      /\ \A s \in DOMAIN resolved : s \in DOMAIN Selectors
      /\ \A s \in DOMAIN Selectors : pulledAt[s] \in Nat
  BY <1>1, ResolvedSoFar DEF ResolutionInv
<1>3. \A s \in DOMAIN resolved : pulledAt'[s] = pulledAt[s]
  BY <1>1, <1>2
<1>4. ResolvedIsCurrent'
  <2>1. \A s \in DOMAIN resolved : Answers(s, resolved[s], pulledAt[s])'
    BY <1>1, <1>3, AnswersStay
  <2> QED
    BY <1>1, <2>1 DEF ResolvedIsCurrent, Answers
<1>5. ASSUME Mutable(Current)
      PROVE  /\ pulledAt'[service] = Len(Namings(Current))
             /\ Len(Namings(Current)) \in Nat \ {0}
  BY <1>1, <1>2, <1>5, CurrentTag
<1>6. ASSUME Mutable(Current)'
      PROVE  (/\ pulledAt[service] \in 1..Len(Namings(Current))
              /\ KnownHere(Current, pulledAt[service]))'
  <2>1. PICK ref, last : ref = Current /\ last = Len(Namings(Current))
    OBVIOUS
  <2>2. Current' = ref
    BY <1>1, <2>1 DEF Current
  <2>3. Namings(ref)' = Namings(ref)
    BY <1>1 DEF Namings
  <2>4. /\ pulledAt'[service'] = last /\ last \in Nat \ {0}
        /\ Len(Namings(ref)) = last
    BY <1>1, <1>5, <1>6, <2>1, <2>2 DEF Mutable
  <2>5. /\ images'.local[Tag(ref)] = IdOf[Named(ref)]
        /\ RepoDigest(ref, Named(ref)) \in images'.digests
        /\ Named(ref) = Namings(ref)[last]
    BY <1>1, <1>6, <2>1, <2>2, <2>4, PullAdds DEF Mutable, Named
  <2>6. last \in last..last /\ last \in 1..last
    BY <2>4
  <2>7. KnownHere(ref, last)'
    BY <2>3, <2>4, <2>5, <2>6 DEF KnownHere, Tag, RepoDigest
  <2> QED
    BY <2>2, <2>3, <2>4, <2>6, <2>7 DEF KnownHere, Namings, Tag, RepoDigest
<1>7. ResolutionInv'
  <2>1. \A s \in DOMAIN Selectors : pulledAt'[s] \in Nat
    BY <1>1, <1>2, <1>5
  <2>2. \A s \in DOMAIN resolved' :
          Mutable(Reference(Selectors[s])) => pulledAt'[s] \in Nat \ {0}
    BY <1>1, <1>3 DEF ResolutionInv
  <2> QED
    BY <1>1, <1>2, <1>6, <2>1, <2>2 DEF ResolutionInv
<1> QED
  BY <1>4, <1>7

(* All of resolution.                                                      *)
LEMMA ResolutionStep ==
  ASSUME HostInv, ResolutionInv, ResolvedIsCurrent, [Next]_vars
  PROVE  ResolutionInv' /\ ResolvedIsCurrent'
<1>1. CASE UNCHANGED resolution
  BY <1>1, NothingResolved DEF resolution
<1>2. CASE PullImage
  BY <1>2, PullStep
<1>3. CASE PullFails
  BY <1>3, NothingResolved DEF PullFails, GiveUp
<1>4. CASE Inspect
  <2>1. /\ step = "inspect" /\ Local(Current) # None /\ OneMatch
        /\ UNCHANGED pulledAt
    BY <1>4 DEF Inspect
  <2>2. CASE Mutable(Current)
    BY <1>4, <2>2, NothingResolved DEF Inspect
  <2>3. CASE ~Mutable(Current)
    <3>1. PICK answer : answer = Answer
      OBVIOUS
    <3>2. Resolve(answer)
      BY <1>4, <2>3, <3>1 DEF Inspect, Resolve
    <3> QED
      BY <2>1, <3>1, <3>2, AcceptedIsCurrent, ResolveStep
  <2> QED
    BY <2>2, <2>3
<1>5. CASE InspectAgain
  <2>1. /\ step = "reinspect" /\ Local(Current) # None /\ OneMatch
        /\ UNCHANGED pulledAt
    BY <1>5 DEF InspectAgain
  <2>2. PICK answer : answer = Answer
    OBVIOUS
  <2>3. Resolve(answer)
    BY <1>5, <2>2 DEF InspectAgain, Unchanged, Resolve
  <2> QED
    BY <2>1, <2>2, <2>3, AcceptedIsCurrent, ResolveStep
<1>6. CASE Refuse
  BY <1>6, NothingResolved DEF Refuse, GiveUp
<1>7. CASE ResolveAnew
  <2>1. /\ step' = "pull" /\ service' = 1 /\ resolved' = <<>>
        /\ pulledAt' = [s \in DOMAIN Selectors |-> 0]
    BY <1>7 DEF ResolveAnew
  <2>2. 1 \in DOMAIN Selectors
    BY Numbered
  <2> QED
    BY <2>1, <2>2 DEF ResolutionInv, ResolvedIsCurrent
<1> QED
  BY <1>1, <1>2, <1>3, <1>4, <1>5, <1>6, <1>7
     DEF Next, ResolutionNext, vars

-----------------------------------------------------------------------------
(* Observation, step by step.                                              *)

(* What the host does leaves what has been observed true.                  *)
LEMMA ObservationStays ==
  ASSUME HostInv, ObservationInv, ObservedIsRunning, [Next]_vars,
         UNCHANGED observation
  PROVE  ObservationInv' /\ ObservedIsRunning'
<1>1. ContainersKept
  BY NextIsHostStep, HostInvStep
<1>2. UNCHANGED <<command, listed, inspected, available, identity>>
  BY DEF observation
<1>3. ObservationInv'
  BY <1>1, <1>2 DEF ContainersKept, ObservationInv
<1>4. ASSUME command = "observed"
      PROVE  \A c \in listed : c \in DOMAIN containers
  BY <1>4 DEF ObservationInv
<1>5. ObservedIsRunning'
  BY <1>1, <1>2, <1>4 DEF ContainersKept, ObservedIsRunning
<1> QED
  BY <1>3, <1>5

(* A refusal observes nothing.                                             *)
LEMMA FailStep ==
  ASSUME NEW reason \in Reasons, Fail(reason)
  PROVE  ObservationInv' /\ ObservedIsRunning'
BY DEF Fail, Reasons, ObservationInv, ObservedIsRunning

(* docker compose ps lists the containers there are.                       *)
LEMMA ListStep ==
  ASSUME List
  PROVE  ObservationInv' /\ ObservedIsRunning'
<1>1. CASE Fail("listing_output")
  BY <1>1, FailStep DEF Reasons
<1>2. CASE ~Fail("listing_output")
  <2>1. /\ command' = "containers"
        /\ listed' = {c \in DOMAIN containers : containers[c].state # None}
        /\ UNCHANGED containers
    BY <1>2 DEF List, host
  <2> QED
    BY <2>1 DEF ObservationInv, ObservedIsRunning
<1> QED
  BY <1>1, <1>2

(* docker inspect of the listed containers.                                *)
LEMMA InspectContainersStep ==
  ASSUME ObservationInv, InspectContainers
  PROVE  ObservationInv' /\ ObservedIsRunning'
<1>1. CASE Fail("container_output") \/ Fail("lifecycle")
  BY <1>1, FailStep DEF Reasons
<1>2. CASE ~(Fail("container_output") \/ Fail("lifecycle"))
  <2>1. listed \subseteq DOMAIN containers
    BY DEF ObservationInv, InspectContainers
  <2>2. PICK found :
          /\ found = listed
          /\ command' = "images"
          /\ inspected' =
               [c \in found |->
                  [image      |-> containers[c].image,
                   configured |-> containers[c].configured,
                   lifecycle  |-> Lifecycle(containers[c].state)]]
          /\ UNCHANGED <<listed, containers>>
    BY <1>2 DEF InspectContainers, AllSeen, host
  <2>3. /\ DOMAIN inspected' = listed
        /\ \A c \in listed :
             /\ inspected'[c].image = containers[c].image
             /\ inspected'[c].configured = containers[c].configured
    BY <2>2
  <2> QED
    BY <2>1, <2>2, <2>3 DEF ObservationInv, ObservedIsRunning
<1> QED
  BY <1>1, <1>2

(* docker image inspect of the images that they run.                       *)
LEMMA InspectImagesStep ==
  ASSUME HostInv, ObservationInv, InspectImages
  PROVE  ObservationInv' /\ ObservedIsRunning'
<1>1. CASE Fail("image_invalid") \/ Fail("image_unavailable")
  BY <1>1, FailStep DEF Reasons
<1>2. CASE ~(Fail("image_invalid") \/ Fail("image_unavailable"))
  <2>1. /\ command = "images" /\ command' = "select"
        /\ available' = [id \in RunningImages |-> RepoDigests(id)]
        /\ UNCHANGED <<listed, inspected, containers>>
    BY <1>2 DEF InspectImages, host
  <2>2. ASSUME NEW c \in listed
        PROVE  /\ available'[inspected[c].image] =
                    RepoDigests(inspected[c].image)
               /\ IsFiniteSet(RepoDigests(inspected[c].image))
    <3>1. inspected[c].image \in RunningImages
      BY <2>1 DEF ObservationInv, RunningImages
    <3>2. RepoDigests(inspected[c].image) \in SUBSET images.digests
      BY DEF RepoDigests
    <3>3. IsFiniteSet(RepoDigests(inspected[c].image))
      BY <3>2, FS_Subset DEF HostInv
    <3> QED
      BY <2>1, <3>1, <3>3
  <2> QED
    BY <2>1, <2>2 DEF ObservationInv, ObservedIsRunning, RepoDigests
<1> QED
  BY <1>1, <1>2

(* A container whose identity is neither unavailable nor ambiguous has one *)
(* distribution, which is of the image it runs.                            *)
LEMMA SelectedRuns ==
  ASSUME ObservationInv, command = "select", NEW c \in listed,
         ~Unavailable(c), ~Ambiguous(c)
  PROVE  /\ IdOf[Selected(c).digest] = containers[c].image
         /\ Selected(c).repository = containers[c].configured.repository
         /\ ~Mutable(containers[c].configured) =>
              Selected(c).digest = containers[c].configured.digest
<1>1. /\ inspected[c].image = containers[c].image
      /\ inspected[c].configured = containers[c].configured
      /\ IsFiniteSet(available[inspected[c].image])
      /\ \A r \in available[inspected[c].image] :
           IdOf[r.digest] = inspected[c].image
  BY DEF ObservationInv
<1>2. Matching(c) # {}
  BY DEF Unavailable
<1>3. Selected(c) \in Matching(c)
  BY <1>2 DEF Selected
<1>4. Cardinality(Matching(c)) = 1
  <2>1. Matching(c) \in SUBSET available[inspected[c].image]
    BY DEF Matching
  <2>2. IsFiniteSet(Matching(c))
    BY <1>1, <2>1, FS_Subset
  <2>3. Cardinality(Matching(c)) \in Nat /\ Cardinality(Matching(c)) # 0
    BY <1>2, <2>2, FS_CardinalityType, FS_EmptySet
  <2> QED
    BY <2>3 DEF Ambiguous
<1>5. ~Mutable(inspected[c].configured) =>
        Selected(c).digest = inspected[c].configured.digest
  BY <1>4 DEF Unavailable, Pinned
<1> QED
  BY <1>1, <1>3, <1>5 DEF Matching

(* An identity is selected for each container.                             *)
LEMMA SelectStep ==
  ASSUME ObservationInv, Select
  PROVE  ObservationInv' /\ ObservedIsRunning'
<1>1. CASE Fail("image_unavailable") \/ Fail("image_ambiguous")
  BY <1>1, FailStep DEF Reasons
<1>2. CASE ~(Fail("image_unavailable") \/ Fail("image_ambiguous"))
  <2>1. /\ command = "select" /\ command' = "observed"
        /\ identity' = [c \in DOMAIN inspected |-> Selected(c)]
        /\ UNCHANGED <<listed, inspected, containers>>
        /\ \A c \in DOMAIN inspected : ~Unavailable(c) /\ ~Ambiguous(c)
    BY <1>2 DEF Select, host
  <2>2. DOMAIN inspected = listed
    BY <2>1 DEF ObservationInv
  <2>3. \A c \in listed : identity'[c] = Selected(c)
    BY <2>1, <2>2
  <2>4. ObservedIsRunning'
    BY <2>1, <2>2, <2>3, SelectedRuns DEF ObservedIsRunning
  <2>5. ObservationInv'
    BY <2>1 DEF ObservationInv
  <2> QED
    BY <2>4, <2>5
<1> QED
  BY <1>1, <1>2

(* All of observation.                                                     *)
LEMMA ObservationStep ==
  ASSUME HostInv, ObservationInv, ObservedIsRunning, [Next]_vars
  PROVE  ObservationInv' /\ ObservedIsRunning'
<1>1. CASE UNCHANGED observation
  BY <1>1, ObservationStays
<1>2. CASE ObserveAnew
  BY <1>2 DEF ObserveAnew, ObservationInv, ObservedIsRunning
<1> QED
  BY <1>1, <1>2, ListStep, InspectContainersStep, InspectImagesStep,
     SelectStep DEF Next, ObservationNext, vars

-----------------------------------------------------------------------------
(* The invariant.                                                          *)

(* It holds of a host before its first resolution and observation.         *)
LEMMA InitIInv == Init => IInv
<1> SUFFICES ASSUME Init PROVE IInv
  OBVIOUS
<1>1. HostInv
  <2>1. /\ DOMAIN tags = Names
        /\ \A t \in Names : \E d \in Digests : tags[t] = <<d>>
    BY DEF Init, HostInit
  <2>2. ASSUME NEW t \in Names
        PROVE  tags[t] \in Seq(Digests) /\ Len(tags[t]) # 0
    <3>1. PICK d \in Digests : tags[t] = <<d>>
      BY <2>1
    <3> QED
      BY <3>1
  <2>3. DOMAIN images = {"digests", "local"} /\ IsFiniteSet(images.digests)
    BY DockerHostAssumption DEF Init, HostInit
  <2>4. DOMAIN containers = {}
    BY DEF Init, HostInit
  <2> QED
    BY <2>1, <2>2, <2>3, <2>4 DEF HostInv
<1>2. ResolutionInv /\ ResolvedIsCurrent
  <2>1. /\ step = "pull" /\ service = 1 /\ resolved = <<>>
        /\ pulledAt = [s \in DOMAIN Selectors |-> 0]
    BY DEF Init, ResolutionInit
  <2>2. 1 \in DOMAIN Selectors
    BY Numbered
  <2> QED
    BY <2>1, <2>2 DEF ResolutionInv, ResolvedIsCurrent
<1>3. ObservationInv /\ ObservedIsRunning
  BY DEF Init, ObservationInit, ObservationInv, ObservedIsRunning
<1> QED
  BY <1>1, <1>2, <1>3 DEF IInv

(* Every step keeps every part of it.                                      *)
LEMMA IInvStep == IInv /\ [Next]_vars => IInv'
BY NextIsHostStep, HostInvStep, ResolutionStep, ObservationStep DEF IInv

(* What a resolution or an observation may rely on holds whatever the      *)
(* registry and others on the engine do in between.                        *)
THEOREM Invariance == Spec => []IInv
BY InitIInv, IInvStep, PTL DEF Spec

-----------------------------------------------------------------------------
(* The digest that a service is given is one that its tag named when it    *)
(* was pulled, or later, or the one it pins (resolved_reference,           *)
(* resolve_host_image_evidence).                                           *)
THEOREM Resolution == Spec => []ResolvedIsCurrent
<1>1. IInv => ResolvedIsCurrent
  BY DEF IInv
<1> QED
  BY <1>1, Invariance, PTL

(* The identity that an observed container is given is a distribution of   *)
(* the image it runs, in the repository that it was configured with        *)
(* (select_distribution_identity).                                         *)
THEOREM Observation == Spec => []ObservedIsRunning
<1>1. IInv => ObservedIsRunning
  BY DEF IInv
<1> QED
  BY <1>1, Invariance, PTL
=============================================================================
