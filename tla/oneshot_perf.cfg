SPECIFICATION Spec
CONSTANTS
  method = method
  touch = touch
  empty = empty
  dummy = dummy
  Method <- MCMethod
  PerLoop <- MCPerLoop
  Fixed <- MCFixed
  Overhead = 1
  ColdCalls = 1
  ColdCost = 2
  Disturbances = {1, 6}
  MaxDisturbances = 3
  noisy = noisy
  AVX2 = AVX2
  Tag <- MCTag
  Feature <- MCFeature
  Program <- MCProgram
  samples = 3
  ONESHOT_OVERHEAD_WARMUP = 1
  ONESHOT_OVERHEAD_REAL = 3
  dummy_bench = dummy
  inlined_empty = empty
  raw_overhead = touch
  Unset = Unset
  UnsignedAggr = TRUE
  Bits = 6
INVARIANTS
  MedianRight
CHECK_DEADLOCK FALSE
