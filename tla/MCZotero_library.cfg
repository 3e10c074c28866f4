\* Two calls and other clients change two objects; reads try twice.
SPECIFICATION FairSpec
CONSTANTS
  NONE = NONE
  c1 = c1
  c2 = c2
  k1 = k1
  k2 = k2
  Calls = {c1, c2}
  Keys = {k1, k2}
  Modes = {"local", "hybrid"}
  Requests <- Asked
  MaxRetries = 1
  MaxVersion = 3
INVARIANTS
  ChangesOnce
  NoLostUpdate
  HonestAnswers
PROPERTIES
  CallsReturn
CHECK_DEADLOCK FALSE
