CONSTANTS
  s1 = s1
  s2 = s2
  w1 = w1
  w2 = w2
  ip1 = ip1
  Ips = {ip1}
  Slots = {s1, s2}
  Workers = {w1, w2}
  WorkerOf <- WorkersOfTwo
  IpOf <- SameAddress
  EPOCH = 10
  HORIZON = 5
  RequestPaths = {"search"}
  FailingPaths = {}
  SEARCH_RATE_LIMIT = 2
  SEARCH_RATE_WINDOW = 3
  READ_RATE_LIMIT = 1
  READ_RATE_WINDOW = 2
  FAILED_REQUEST_LIMIT = 2
  FAILED_REQUEST_WINDOW = 3
  BLOCK_HARD_LIMIT = 3
  BLOCK_COOLDOWN_SECONDS = 3
  TURNSTILE_SOFT_LIMIT = 1
  TURNSTILE_GRACE_SECONDS = 2
  MIN_GRACE_SECONDS = 1
  TURNSTILE_ENABLED = TRUE
  BUSY_TIMEOUT = 1
SPECIFICATION ClaimSpec
INVARIANT HardLimitBlocks
CHECK_DEADLOCK FALSE
