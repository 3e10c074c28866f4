\* One caller at a time, every operation, YAMS, damaged files, two extensions,
\* one crash or failing I/O call.
SPECIFICATION LeftoverSpec
CONSTANTS
  h1 = h1
  h2 = h2
  t1 = t1
  t2 = t2
  server = server
  Nil = Nil
  Garbled = Garbled
  Hash <- MCHash
  Exts = {"pdf", "bin"}
  Threads <- OneThread
  Processes <- ServerOnly
  ProcessOf <- OneInServer
  Titles = {"A", "B"}
  Requests <- OtherFiles
  Extraction <- SecondFails
  Ops = {"import", "text", "remove", "reindex", "search", "seed"}
  YamsEnabled = TRUE
  CanDamage = TRUE
  MaxOps = 4
  MaxFaults = 1
INVARIANTS
  FilesMatchEntries
  LeftoversAccounted
CHECK_DEADLOCK FALSE
