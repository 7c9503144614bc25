SPECIFICATION FairSpec
CONSTANTS
  u1 = u1
  u2 = u2
  w1 = w1
  w2 = w2
  Indexes = {"a"}
  Urls = {u1, u2}
  Serves <- Redirected
  Workers = {w1}
  Attempts = 3
  RedisRestarts = TRUE
  MaxCommissions = 2
  MaxFaults = 2
  None = None
PROPERTIES PromiseKept EventuallyEmbedded
CHECK_DEADLOCK FALSE
