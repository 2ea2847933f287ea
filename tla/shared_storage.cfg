SPECIFICATION Spec
CONSTANTS
  UB_CACHE_LINE_SIZE = 2
  TWO_MB = 4
  STORAGE_SIZE = 8
  MAX_SHUFFLED_REGION_SIZE = 6
  EXTRA_SIZE = 1
  PageAlignment = 4
  Null = Null
  AlignedRequests <- MCAlignedRequests
  AlignedRequests4k <- MCAlignedRequests4k
  RegionRequests <- MCRegionRequests
  WorkingSets = {3, 4}
  Skews = {1}
  PageSize = 2
  Backed <- MCBacked
  Privileges <- MCPrivileges
INVARIANTS
  TypeOK
  LentInBlock
  RegionIntact
  FlushCovers
  PagesReported
CHECK_DEADLOCK FALSE
