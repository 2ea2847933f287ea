SPECIFICATION Spec
CONSTANTS
  Instance = {p1}
  Governor = {performance, powersave}
  Performance = performance
  None = None
  NCores = 2
  Hosts <- MsrHosts
  MayAbort = FALSE
INVARIANT
  TurboBack
CHECK_DEADLOCK FALSE
