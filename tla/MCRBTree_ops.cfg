CONSTANTS
  Thread = {t1, t2}
  Key = {1, 2, 3, 4, 5, 6, 7, 8, 9}
  Version = {1, 2}
  Zero = 0
  Absent = Absent
  Torn = Torn
  None = None
  MaxNode = 9
  Classes <- OpsAndFailures
  Cell <- RBCell
  Value <- RBValue
SPECIFICATION Spec
INVARIANTS MapCorrect RedBlack ImageKeepsRecords
PROPERTIES DisciplineButRoot
