SPECIFICATION FairSpec
CONSTANTS
  b1 = b1
  b2 = b2
  b3 = b3
  b4 = b4
  s1 = s1
  s2 = s2
  fake = fake
  Bench <- MCBench
  Timers <- MCTimers
  Unknown = Unknown
  Groups <- MCGroups
  CPU <- MCCPU
  None = None
  Path <- MCPath
  Tags <- MCTags
  NamePatterns <- MCNamePatterns
  TagPatterns <- MCTagPatterns
  FlagSets <- MCFlagSets
  Machines <- MCMachines
INVARIANTS
  TypeOK
  ReportInOrder
  MeasuresReady
  ExitStatusRight
PROPERTIES
  Terminates
CHECK_DEADLOCK FALSE
