SPECIFICATION Spec
CONSTANTS
  Instance = {p1, p2}
  Governor = {performance, powersave}
  Performance = performance
  None = None
  NCores = 2
  Hosts <- AllHosts
  MayAbort = TRUE
INVARIANTS
  TypeOK
  GovernorRestored
  NoTurboRestored
  MeasuresUnscaled
PROPERTIES
  SettingsLeased
CHECK_DEADLOCK FALSE
