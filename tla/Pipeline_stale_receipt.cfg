SPECIFICATION Spec
CONSTANTS
  u1 = u1  u2 = u2  w1 = w1  w2 = w2  e1 = e1  e2 = e2
  a = a  b = b  outline = outline
  Urls = {u1}
  Contents = {a, b}
  HeadingsOnly = {}
  Indexes = {"i"}
  WholeStore = "whole"
  Crawlers = {w1}
  Embedders = {e1}
  BatchSize = 2
  StagesOverlap = TRUE
  None = None
  MaxFetches = 3
  MaxFaults = 0
INVARIANTS ReceiptCurrent
CHECK_DEADLOCK FALSE
