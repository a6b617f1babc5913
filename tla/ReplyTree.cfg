CONSTANTS
  d1 = d1
  d2 = d2
  a1 = a1
  a2 = a2
  s1 = s1
  NONE = NONE
  PageNumbers = {1, 2, 10}
  Dates = {d1, d2}
  Names = {a1, a2}
  Starts = {s1}
  MAX_POSTS = 3
  MAX_PER_PAGE = 2
SPECIFICATION Spec
INVARIANTS TypeOK FiledUnderLatest StoredUnlessLost
SYMMETRY ReplySymmetry
CHECK_DEADLOCK FALSE
