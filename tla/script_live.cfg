SPECIFICATION FairSpec
CONSTANTS
  Instance = {p1, p2}
  Governor = {performance, powersave}
  Performance = performance
  None = None
  NCores = 2
  Hosts <- RestorableHosts
  MayAbort = FALSE
INVARIANT
  FailsOnlyIfReloaded
PROPERTIES
  SettingsEventuallyRestored
CHECK_DEADLOCK FALSE
