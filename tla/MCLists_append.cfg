CONSTANTS
  Thread = {t1}
  Key = {1, 2, 3}
  Version = {1}
  Zero = 0
  Absent = Absent
  Torn = Torn
  None = None
  Wild = Wild
  MaxNode = 4
  Classes <- TxRestarted
  Cell <- ListCell
  Value <- ListValue
SPECIFICATION Spec
PROPERTIES AppendOnly
