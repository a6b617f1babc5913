CONSTANTS
  p1 = p1
  p2 = p2
  t1 = t1
  t2 = t2
  t3 = t3
  t4 = t4
  Procs = {p1}
  Threads = {t1, t2, t3, t4}
  Unparsable = {t4}
  Sources = {"zip", "folders"}
  Singles = {t1}
  BATCH = 2
  CHUNK = 2
  MAX_VERSION = 2
  MAX_FAULTS = 3
SPECIFICATION FairSpec
INVARIANTS TypeOK IntactUnlessTorn IndexSound
PROPERTY ArchiveStored
CHECK_DEADLOCK FALSE
