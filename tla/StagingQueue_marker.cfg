CONSTANTS
  i1 = i1
  i2 = i2
  t1 = t1
  t2 = t2
  Id = {i1, i2}
  Tab = {t1}
  Chunk = 1
  None = None
  MaxChanges = 1
  MaxFaults = 1
SPECIFICATION Spec
INVARIANT MarkerAfterCleanPass
CHECK_DEADLOCK FALSE
