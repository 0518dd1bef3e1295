CONSTANTS
  Programs = {"ycsbc"}
  NumThreads = 2
  record_count = 4
  operation_count = 2
  insert_start = 0
  Ops = {"READ", "UPDATE"}
  Drawn = {0, 1, 2, 3}
  ScanThrows = FALSE
SPECIFICATION LockOverheadSpec
PROPERTIES BarrierPassed
