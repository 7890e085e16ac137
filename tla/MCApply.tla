------------------------------- MODULE MCApply -------------------------------
(* Instances of Apply for TLC.                                             *)
EXTENDS Apply, TLC

CONSTANTS r1, r2, r3, r4, dir, extra, gen, bound, web, db, v1, v2, bad,
          rules1, rules2, tag, digest, newer, plain, tuned

(* r1 runs web from a tag, without db.  r2 protects web at the same digest,*)
(* changes the rest of it, adds db and a configuration web's validation    *)
(* refuses.  r3 moves web to a newer digest, replaces the file db mounts,  *)
(* withdraws a config file, an artifact and the firewall.  r4 is r3        *)
(* without the file db mounts.                                             *)
ForEach(f) == [r \in Revisions |-> f[r]]

Content3 == dir :> v2 @@ extra :> Absent @@ gen :> Absent @@ bound :> v2
MCContent == ForEach(
  r1 :> (dir :> v1 @@ extra :> Absent @@ gen :> v1 @@ bound :> Absent) @@
  r2 :> (dir :> bad @@ extra :> v1 @@ gen :> v2 @@ bound :> v1) @@
  r3 :> Content3 @@
  r4 :> [Content3 EXCEPT ![bound] = Absent])

Db == [image |-> newer, spec |-> plain]
Compose3 == web :> [image |-> newer, spec |-> plain] @@ db :> Db
MCCompose == ForEach(
  r1 :> (web :> [image |-> tag, spec |-> plain] @@ db :> Absent) @@
  r2 :> (web :> [image |-> digest, spec |-> tuned] @@ db :> Db) @@
  r3 :> Compose3 @@ r4 :> Compose3)

MCRules == ForEach(r1 :> rules1 @@ r2 :> rules2 @@ r3 :> Absent @@ r4 :> Absent)
MCCovers == web :> {dir, extra, gen} @@ db :> {}
MCFileBinds == web :> {} @@ db :> {bound}
MCRejected == web :> {bad} @@ db :> {}
MCDigest == tag :> digest @@ digest :> digest @@ newer :> newer
MCProtected == ForEach(r1 :> {} @@ r2 :> {web} @@ r3 :> {web} @@ r4 :> {web})

(* r3 authorises the transition from the name r2 declares, not from r1's.  *)
MCAuthorized == ForEach(
  r1 :> {} @@ r2 :> {} @@ r3 :> {<<web, digest, newer>>} @@ r4 :> {})
=============================================================================
