\* Four revisions; three failures, kills or promotions.
SPECIFICATION FairSpec
CONSTANTS
  r1 = r1
  r2 = r2
  r3 = r3
  r4 = r4
  dir = dir
  extra = extra
  gen = gen
  bound = bound
  web = web
  db = db
  v1 = v1
  v2 = v2
  bad = bad
  rules1 = rules1
  rules2 = rules2
  tag = tag
  digest = digest
  newer = newer
  plain = plain
  tuned = tuned
  Absent = Absent
  Empty = Empty
  Directory = Directory
  Revisions = {r1, r2, r3, r4}
  Paths = {dir, extra, gen, bound}
  Artifacts = {gen}
  Services = {web, db}
  Bodies = {v1, v2, bad}
  Images = {tag, digest, newer}
  Specs = {plain, tuned}
  RuleSets = {rules1, rules2}
  Content <- MCContent
  Compose <- MCCompose
  Rules <- MCRules
  Covers <- MCCovers
  FileBinds <- MCFileBinds
  Rejected <- MCRejected
  Digest <- MCDigest
  Protected <- MCProtected
  Authorized <- MCAuthorized
  MaxFaults = 3
INVARIANTS
  PublishesWholeProjection
PROPERTIES
  NeverMixesRevisions
  FirewallFirst
  ValidatesWhatItChanged
  ProtectedImages
  Settles
  AppliesByContract
