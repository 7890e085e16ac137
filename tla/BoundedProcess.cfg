\* One command and its helper; one failing call or interruption.
SPECIFICATION FairSpec
CONSTANTS
  Limit <- MCLimit
  Aggregate = 1
  PipeSize = 2
  Deadline = 1
  TermGrace = 1
  KillGrace = 1
  MaxAttempts = 2
  MaxFaults = 1
INVARIANTS
  SuccessIsComplete
  NobodyLeftBehind
PROPERTIES
  AlwaysReturns
