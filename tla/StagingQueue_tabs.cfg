CONSTANTS
  i1 = i1
  i2 = i2
  t1 = t1
  t2 = t2
  Id = {i1, i2}
  Tab = {t1, t2}
  Chunk = 1
  None = None
  MaxChanges = 2
  MaxFaults = 0
SPECIFICATION Spec
INVARIANT LastChangeWins
SYMMETRY Symmetric
CHECK_DEADLOCK FALSE
