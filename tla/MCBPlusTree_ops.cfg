CONSTANTS
  Thread = {t1, t2}
  Key = {1, 2, 3, 4, 5, 6, 7, 8, 9}
  Version = {1, 2}
  Zero = 0
  Absent = Absent
  Torn = Torn
  None = None
  MIN_DEGREE = 2
  MaxNode = 9
  MaxEntry = 10
  ScanLen = {2}
  Classes <- OpsAndFailures
  Cell <- TreeCell
  Value <- TreeValue
SPECIFICATION Spec
INVARIANTS MapCorrect PlusShape ScanComplete NodesPersisted LeavesFreedOnce
PROPERTIES DisciplineBelowRoot
