SPECIFICATION Spec
CONSTANTS
  u1 = u1
  u2 = u2
  w1 = w1
  w2 = w2
  Indexes = {"a"}
  Urls = {u1, u2}
  Serves <- Direct
  Workers = {w1, w2}
  Attempts = 3
  RedisRestarts = FALSE
  MaxCommissions = 2
  MaxFaults = 3
  None = None
INVARIANT TypeOK
INVARIANT NothingVanishes
INVARIANT OneCrawler
INVARIANT CompletedSearchable
PROPERTY RetiredStays
SYMMETRY WorkerSymmetry
CHECK_DEADLOCK FALSE
