\* Declarations of two services; one change from outside, one failing command.
SPECIFICATION Spec
CONSTANTS
  Open = Open
  Absent = Absent
  Loopback = "lo"
  Family <- MCFamily
  Declarations <- MCDeclarations
  Inventories <- MCInventories
  Before <- MCBefore
  Packets <- MCPackets
  MaxDrifts = 1
  MaxFaults = 1
INVARIANTS
  AdmitsDeclared
  AdmitsNothingElse
  VerifiedMeansEnforced
