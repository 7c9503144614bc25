SPECIFICATION Spec
CONSTANTS
  w1 = w1
  w2 = w2
  p1 = p1
  p2 = p2
  None = None
  a = a
  b = b
  Clients = {a, b}
  Wallets = {w1, w2}
  Pages = {p1, p2}
  Spellings = {"s1", "s1frag", "s2", "bad"}
  PageOf <- MCPageOf
  Seeds = {p2}
  Fails = {p2}
  Standing <- MCStanding
  StandingPages = {p1}
  Commands <- MCCommands
  Operator = w2
  Meter = {TRUE, FALSE}
  PricePerPage = 2
  PricePerQuery = 1
  RequestUrlLimit = 3
  PageCap = 3
  MaxSpend = 4
  Funds = 4
  MaxIndexes = 3
  MaxCommands = 3
  MaxFaults = 1
INVARIANT TypeOK
INVARIANT RefusedIsFree
INVARIANT ChargedTheQuote
PROPERTY OwnersOnly
PROPERTY PaidIsTaken
SYMMETRY Symmetry
CHECK_DEADLOCK FALSE
