CONSTANTS
  p1 = p1
  p2 = p2
  t1 = t1
  t2 = t2
  t3 = t3
  t4 = t4
  Procs = {p1}
  Threads = {t1, t2}
  Unparsable = {}
  Sources = {"zip", "folders"}
  Singles = {t1}
  BATCH = 1
  CHUNK = 2
  MAX_VERSION = 1
  MAX_FAULTS = 1
SPECIFICATION Spec
INVARIANT IndexBackAfterParsing
CHECK_DEADLOCK FALSE
