\* The operations that take the write lock, with failures, scheduled fairly.
SPECIFICATION FairSpec
CONSTANTS
  h1 = h1
  h2 = h2
  t1 = t1
  t2 = t2
  server = server
  Nil = Nil
  Garbled = Garbled
  Hash <- MCHash
  Threads <- MCThreads
  Processes <- ServerOnly
  ProcessOf <- InServer
  Exts = {"pdf"}
  Titles = {"A", "B"}
  Requests <- OpenAndPrivate
  Extraction <- AllText
  Ops = {"import", "text", "remove"}
  YamsEnabled = FALSE
  CanDamage = FALSE
  MaxOps = 3
  MaxFaults = 2
PROPERTIES
  PersistedIndexTracksMembership
  EveryOperationReturns
CHECK_DEADLOCK FALSE
