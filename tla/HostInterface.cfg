\* A new host, or one V2 reconciles; two failures, kills or updates, and one
\* bootstrap beside the timer.
SPECIFICATION FairSpec
CONSTANTS
  launcher = launcher
  service = service
  v2_script = v2_script
  v2_timer = v2_timer
  v1 = v1
  v2 = v2
  Refreshers <- Reconciling
  Assets <- MCAssets
  Retired <- MCRetired
  Units = {service, v2_timer}
  Versions = {v1, v2}
  Legacy = Legacy
  Absent = Absent
  MaxFaults = 2
  MaxBootstraps = 1
INVARIANTS
  UnitsInStep
PROPERTIES
  InstallsPackaged
  LegacyFilesSafe
  HandsOver
  BecomesModern
