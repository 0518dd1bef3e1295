CONSTANTS
  Thread = {t1, t2}
  Key = {1, 2}
  Version = {1, 2}
  Zero = 0
  Absent = Absent
  Torn = Torn
  None = None
  Wild = Wild
  MaxNode = 4
  Classes <- OpsAndFailures
  Cell <- ListCells
  Value <- ListValue
SPECIFICATION ListsSpec
INVARIANTS ListMapCorrect TailIsLast ReadLegal ImageDurable IndexKept
PROPERTIES AppendOnly RestartKeeps
