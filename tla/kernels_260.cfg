\* Only the 260 KiB regions are walked.
CONSTANTS
  BUFSIZE = 16384
  MAX_SIZE = 419430400
  MinSize = 266240
  MaxSize = 266240
SPECIFICATION Spec
INVARIANT Footprint
CHECK_DEADLOCK FALSE
