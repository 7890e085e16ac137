\* Two overlapping runs, one of the timer, one operator; two faults, promotions or pushes.
SPECIFICATION LifecycleSpec
CONSTANTS
  p1 = p1
  p2 = p2
  o1 = o1
  r1 = r1
  r2 = r2
  d1 = d1
  d2 = d2
  main = main
  None = None
  Runs = {p1, p2}
  Timer = {p1}
  Operators = {o1}
  Revisions = {r1, r2}
  References = {main}
  Digests = {d1, d2}
  Declares <- MCDeclares
  MaxFaults = 2
INVARIANTS
  TypeOK
  OneLockHolder
  AppliesWhatWasHandedOff
  OuterDefersToInner
  OperatorViewHolds
PROPERTIES
  SuccessIsEarned
  ImplementsContract
  TimerConverges
