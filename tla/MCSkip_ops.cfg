CONSTANTS
  Thread = {t1, t2}
  Key = {1, 2, 3}
  Version = {1, 2}
  Zero = 0
  Absent = Absent
  Torn = Torn
  None = None
  SKIPLIST_LEVELS_NUM = 2
  ScanLen = {1, 2}
  MaxNode = 5
  Classes <- OpsAndFailures
  Cell <- SkipCell
  Value <- SkipValue
SPECIFICATION Spec
INVARIANTS MapCorrect LevelsNested
PROPERTIES Discipline
