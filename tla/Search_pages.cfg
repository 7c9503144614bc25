SPECIFICATION Spec
CONSTANTS
  Passages = {"a1", "a2", "b1", "b2"}
  DocumentOf <- MCDocumentOf
  Typed = {"q"}
  Samples = {"q", "r"}
  Lexical <- MCLexical
  Nearest <- MCNearest
  Modes = {"hybrid", "lexical"}
  candidates = 3
  rrfK = 60
  PageSize = 1
  Networks = {"n1", "n2", "n3"}
  Home = "n1"
  Open = {TRUE, FALSE}
  Limit = 1
  Window = 2
  MAX_KEYS = 2
  None = None
  MaxEdits = 1
  MaxRequests = 3
  MaxOffset = 2
INVARIANT TypeOK
INVARIANT WalkIsWhole
INVARIANT BoxTellsTruth
INVARIANT FreeShare
CHECK_DEADLOCK FALSE
