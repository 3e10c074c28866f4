\* Every operation, two threads, damaged files, one crash or
\* failing I/O call.
SPECIFICATION Spec
CONSTANTS
  h1 = h1
  h2 = h2
  t1 = t1
  t2 = t2
  server = server
  Nil = Nil
  Garbled = Garbled
  Hash <- MCHash
  Threads <- MCThreads
  Processes <- ServerOnly
  ProcessOf <- InServer
  Exts = {"pdf"}
  Titles = {"A", "B"}
  Requests <- OpenAndPrivate
  Extraction <- AllText
  Ops = {"import", "text", "remove", "reindex", "search", "seed"}
  YamsEnabled = FALSE
  CanDamage = TRUE
  MaxOps = 4
  MaxFaults = 1
SYMMETRY Symmetry
INVARIANTS
  NoLostImport
  TextOfPaper
PROPERTIES
  CatalogSpec
CHECK_DEADLOCK FALSE
