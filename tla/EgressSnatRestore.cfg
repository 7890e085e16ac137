\* A call over two jumps fails and is undone.
SPECIFICATION SnatSpec
CONSTANTS
  docker = docker
  masquerade = masquerade
  old = old
  new = new
  Nothing = Nothing
  NoChain = NoChain
  Jump = Jump
  Contents = {old, new, Nothing}
  Foreign = {docker, masquerade}
  FirstRules <- MCFirstRules
  MaxJumps = 3
  MaxFailures = 1
  MaxEdits = 0
INVARIANTS
  RestoresSnapshot
