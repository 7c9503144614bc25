SPECIFICATION FairSpec
CONSTANTS
  Indexes = {"a", "b"}
  Documents = {"d"}
  Holds <- Shared
  Sweeps = {"s1"}
  Attempts = 2
  RedisRestarts = TRUE
  MaxCrawls = 2
  MaxFaults = 2
  None = None
INVARIANT TypeOK
INVARIANT NeverPaidTwice
PROPERTY OwedIsAttested
PROPERTY ComesToRest
CHECK_DEADLOCK FALSE
