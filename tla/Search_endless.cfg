SPECIFICATION FairSpec
CONSTANTS
  Passages = {"a1", "a2", "b1", "b2"}
  DocumentOf <- MCDocumentOf
  Typed = {"q"}
  Samples = {"q", "r"}
  Lexical <- MCLexical
  Nearest <- MCNearest
  Modes = {"hybrid"}
  candidates = 3
  rrfK = 60
  PageSize = 1
  Networks = {"n1"}
  Home = "n1"
  Open = {FALSE}
  Limit = 1
  Window = 1
  MAX_KEYS = 2
  None = None
  MaxEdits = 0
  MaxRequests = 2
  MaxOffset = 2
PROPERTY WalkEnds
CHECK_DEADLOCK FALSE
