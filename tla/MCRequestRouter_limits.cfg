\* Three calls compete for one origin, one goes to another.
SPECIFICATION Spec
CONSTANTS
  c1 = c1
  c2 = c2
  c3 = c3
  c4 = c4
  arxiv = arxiv
  crossref = crossref
  Calls = {c1, c2, c3, c4}
  Origins = {arxiv, crossref}
  OriginOf <- ThreeAndOne
  Unroutable = {}
  GlobalLimit = 2
  PerOriginLimit = 2
  MaxDelay = 1
  CanCancel = TRUE
SYMMETRY Symmetry
INVARIANTS
  CountersHold
  CooldownHolds
PROPERTIES
  PoolSpec
CHECK_DEADLOCK FALSE
