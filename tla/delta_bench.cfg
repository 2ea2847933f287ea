SPECIFICATION FairSpec
CONSTANTS
  method = method
  dummy_bench = dummy_bench
  empty = empty
  Method <- MCMethod
  PerLoop <- MCPerLoop
  Fixed <- MCFixed
  Overhead = 1
  ColdCalls = 2
  ColdCost = 4
  Disturbances = {1, 9}
  MaxDisturbances = 3
  total_samples = 4
  warmup_samples = 2
  default_loop_count = 2
  LoopCounts = {1}
  ops_per_loop = 2
  BENCH_METHOD = method
  BASE_METHOD = dummy_bench
  inlined_empty = empty
INVARIANTS
  TypeOK
  SamplesSound
  DeltaBracketed
  LoopDeltaExact
  ArgOutlivesUse
PROPERTIES
  Finishes
CHECK_DEADLOCK FALSE
