\* Two installers, two files; two faults and one edit.
SPECIFICATION FairSpec
CONSTANTS
  reconcile = reconcile
  byHand = byHand
  old = old
  new = new
  Installers = {reconcile, byHand}
  Files = {old, new}
  Absent = Absent
  Link = Link
  Linked = Linked
  EmptyDir = EmptyDir
  FullDir = FullDir
  Torn = Torn
  MaxFaults = 2
  MaxEdits = 1
INVARIANTS
  PromiseKept
  ErrorsAreHonest
PROPERTIES
  ImplementsTarget
  InstallsAgain
