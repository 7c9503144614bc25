SPECIFICATION Spec
CONSTANTS
  u1 = u1  u2 = u2  w1 = w1  w2 = w2  e1 = e1  e2 = e2
  a = a  b = b  outline = outline
  Urls = {u1, u2}
  Contents = {a, b, outline}
  HeadingsOnly = {outline}
  Indexes = {"i"}
  WholeStore = "whole"
  Crawlers = {w1}
  Embedders = {e1, e2}
  BatchSize = 2
  StagesOverlap = TRUE
  None = None
  MaxFetches = 3
  MaxFaults = 1
SYMMETRY PageSymmetry
INVARIANTS TypeOK ReceiptsBacked ChunksExplained DocumentIsReplay TrailTellsChanges Searchable BillBounded
CHECK_DEADLOCK FALSE
