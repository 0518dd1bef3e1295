CONSTANTS
  Cell = {c1, c2}
  Value = {0, 1}
  Zero = 0
  Root = {c1}
SPECIFICATION Spec
INVARIANTS AtomicRecovery
