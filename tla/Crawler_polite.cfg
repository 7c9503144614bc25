SPECIFICATION FairSpec
CONSTANTS
  Urls = {"home", "moved", "plain", "other", "hidden", "away"}
  HostOf <- MCHostOf
  OriginOf <- MCOriginOf
  Fetchable = {"home", "moved", "plain", "other", "hidden", "away"}
  Seeds = {"home", "other"}
  Serves <- MCServes
  LinksOf <- MCLinksOf
  RobotsOf <- MCRobotsOf
  Detours <- MCDetours
  Sitemaps <- MCSitemaps
  Declared = {"s"}
  NewerSays = {"plain"}
  AgeOf <- MCAgeOf
  Discover = TRUE
  RefetchAll = FALSE
  MaxPerHost = 2
  MaxRequests = 4
  MaxRetries = 2
  MAX_REDIRECTS = 1
  MAX_DEPTH = 1
  Interval = 2
  Workers = {"w1", "w2"}
  Main = "main"
  None = None
  MaxFaults = 1
INVARIANT TypeOK
INVARIANT WithinBudget
INVARIANT StaysWhereAllowed
INVARIANT TrailComplete
INVARIANT FailedRunHasNothing
PROPERTY Spaced
PROPERTY Ends
CHECK_DEADLOCK FALSE
