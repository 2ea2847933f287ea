\* Regions of up to 64 KiB are walked; the 32 MiB of the missing accesses are
\* scaled down, keeping a power of two.
CONSTANTS
  BUFSIZE = 16384
  MAX_SIZE = 419430400
  MinSize = 0
  MaxSize = 65536
SPECIFICATION FairSpec
INVARIANTS TypeOK OpsAsReported InsideMemory WholeRegion
PROPERTY Returns
CHECK_DEADLOCK FALSE
