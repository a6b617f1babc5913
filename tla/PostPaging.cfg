CONSTANTS
  f1 = f1
  f2 = f2
  Forms = {f1, f2}
  Size <- SmallSize
  Counted = {f1}
  Links = {3, 8}
  PAGE = 2
  FETCH = 4
  NoTotal = NoTotal
  MAX_CLICKS = 3
SPECIFICATION FairSpec
INVARIANTS TypeOK PageMatchesOffset SpinnerAwaited OneSearch ButtonsLeadToPosts
PROPERTY EverySearchSettles
CHECK_DEADLOCK FALSE
