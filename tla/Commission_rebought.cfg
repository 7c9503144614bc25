SPECIFICATION Spec
CONSTANTS
  w1 = w1
  w2 = w2
  p1 = p1
  p2 = p2
  None = None
  a = a
  b = b
  Clients = {a}
  Wallets = {w1, w2}
  Pages = {p1, p2}
  Spellings = {"s1", "s1frag", "s2", "bad"}
  PageOf <- MCPageOf
  Seeds = {}
  Fails = {p1}
  Standing <- Nothing
  StandingPages = {}
  Commands <- OneBuyer
  Operator = w2
  Meter = {TRUE}
  PricePerPage = 2
  PricePerQuery = 1
  RequestUrlLimit = 3
  PageCap = 2
  MaxSpend = 4
  Funds = 6
  MaxIndexes = 2
  MaxCommands = 2
  MaxFaults = 0
PROPERTY PaidIsRequested
CHECK_DEADLOCK FALSE
