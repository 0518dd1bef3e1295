CONSTANTS
  Thread = {t1, t2}
  Key = {1, 2}
  Version = {1, 2}
  Zero = 0
  Absent = Absent
  Torn = Torn
  None = None
  Beyond = Beyond
  ARRAY_SIZE = 2
  ScanLen = {1, 2}
  MaxArray = 2
  Classes <- OpsAndFailures
  Cell <- ArrayCell
  Value <- ArrayValue
SPECIFICATION FairSpec
INVARIANTS MapCorrect ScanWhole ImageDurable
PROPERTIES Discipline CallsEnd
