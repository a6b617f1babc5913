CONSTANTS
  p1 = p1
  p2 = p2
  t1 = t1
  t2 = t2
  t3 = t3
  t4 = t4
  Procs = {p1, p2}
  Threads = {t1, t2}
  Unparsable = {}
  Sources = {}
  Singles = {t1, t2}
  BATCH = 1
  CHUNK = 2
  MAX_VERSION = 2
  MAX_FAULTS = 0
SPECIFICATION Spec
INVARIANT UpsertsKeepIndex
CHECK_DEADLOCK FALSE
