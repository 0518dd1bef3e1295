CONSTANTS
  Thread = {t1, t2}
  Key = {1, 2}
  Version = {1, 2}
  Zero = 0
  Absent = Absent
  Torn = Torn
  None = None
  INIT_BUCKETS_NUM = 2
  HASH_FUNC_COEFF_P = 7
  Coeff <- SpreadAndCollide
  MaxTable = 2
  MaxEntry = 4
  Classes <- OpsAndFailures
  Cell <- HashCell
  Value <- HashValue
SPECIFICATION Spec
INVARIANTS MapCorrect KeysUnique DestroyFreesAll
  ImageDurable
PROPERTIES Discipline
