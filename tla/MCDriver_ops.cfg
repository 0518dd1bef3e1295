CONSTANTS
  Programs <- BothPrograms
  NumThreads = 2
  record_count = 5
  operation_count = 5
  insert_start = 1
  Ops <- AllOps
  Drawn = {0, 2, 7}
  ScanThrows = TRUE
SPECIFICATION FairSpec
INVARIANTS InsertOnce LoadComplete DestroyAlone
PROPERTIES Ends
