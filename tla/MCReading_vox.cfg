SPECIFICATION Spec
CONSTANTS
  Calls = {c1, c2}
  a1 = a1
  a2 = a2
  a3 = a3
  d1 = d1
  d2 = d2
  h1 = h1
  i1 = i1
  Openers = {c1}
  Askers = {c2}
  Item = i1
  Listed <- Listed1
  Elsewhere = {a3}
  Pdfs <- Pdfs1
  Configured = TRUE
  AutoSpawn = TRUE
  MaxVersion = 2
  NONE = NONE
  Works = {d1, d2}
  Hash = h1
  Targets <- Targets1
  Asks <- Asks1
  Views <- Views1
  Threads = {t1}
  Readers = {r1}
  Items <- Items1
  SafeName <- Name1
  BLANK = BLANK
CONSTRAINT OneSide
INVARIANT KeyReadsItself
CHECK_DEADLOCK FALSE
