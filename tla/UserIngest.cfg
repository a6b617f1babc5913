CONSTANTS
  u1 = u1
  u2 = u2
  u3 = u3
  Users = {u1, u2, u3}
  Missing = {u3}
  Raising <- MCRaising
  Heavy = {u1}
  NoAlts = {u1}
  First = {u1}
  Singles = {u1, u3}
  Sources = {"zip", "folders"}
  BATCH = 2
  MAX_VERSION = 2
  MAX_FAULTS = 3
SPECIFICATION FairSpec
INVARIANTS TypeOK IndexSound IntactUnlessLost NothingMeansIndexed ReputationFollows DoneIsStored
PROPERTIES RepairComplete IndexComesBack
CHECK_DEADLOCK FALSE
