\* Calls one after another; two failing commands, two edits by Docker.
SPECIFICATION SnatSpec
CONSTANTS
  docker = docker
  masquerade = masquerade
  old = old
  new = new
  Nothing = Nothing
  NoChain = NoChain
  Jump = Jump
  Contents = {old, new, Nothing}
  Foreign = {docker, masquerade}
  FirstRules <- MCFirstRules
  MaxJumps = 3
  MaxFailures = 2
  MaxEdits = 2
INVARIANTS
  LiveChainIsWhole
  SuccessApplies
  RestoresOneJump
PROPERTIES
  ForeignRulesKept
