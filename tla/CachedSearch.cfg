CONSTANTS
  t1 = t1
  t2 = t2
  NONE = NONE
  Archive <- MCArchive
  MAX_LIMIT = 3
  MAX_OFFSET = 5
  DefaultLimit <- MCDefault
  Tags <- MCTags
  Threads = {t1, t2}
  Requests <- MCRequests
  Workloads <- MCWorkloads
  TTL <- MCTTL
  MaxEntries = 1
  SLOW = 1
  MAX_TIME = 3
  MAX_PUBLISH = 1
SPECIFICATION Spec
INVARIANTS TypeOK CacheBounded KeyDeterminesAnswer WalkComplete PageFitsTotal JumpShowsPost
PROPERTY ServesArchive
SYMMETRY ThreadSymmetry
CHECK_DEADLOCK FALSE
