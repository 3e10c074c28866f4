SPECIFICATION Spec
CONSTANTS
  Fields <- MCFields
  B <- MCB
  Weight <- MCWeight
  Tokens <- MCTokens
  Texts <- MCTexts
  Queries <- MCQueries
  Ids = {p1, p2}
  Threads = {t1, t2}
  MaxTime = 1
  MaxOps = 4
  MaxFaults = 1
  Nil = Nil
  Broken = Broken
SYMMETRY Symmetry
CONSTRAINT Budget
INVARIANTS
  IndexMirrorsCorpus
  AnswersCurrent
CHECK_DEADLOCK FALSE
