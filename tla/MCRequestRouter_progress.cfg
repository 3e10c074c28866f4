\* Four calls, one of them refused, scheduled fairly.
SPECIFICATION FairSpec
CONSTANTS
  c1 = c1
  c2 = c2
  c3 = c3
  c4 = c4
  arxiv = arxiv
  crossref = crossref
  Calls = {c1, c2, c3, c4}
  Origins = {arxiv, crossref}
  OriginOf <- TwoAndTwo
  Unroutable = {c4}
  GlobalLimit = 2
  PerOriginLimit = 2
  MaxDelay = 1
  CanCancel = TRUE
PROPERTIES
  EveryCallReturns
CHECK_DEADLOCK FALSE
