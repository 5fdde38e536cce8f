CONSTANTS
  i1 = i1
  i2 = i2
  t1 = t1
  t2 = t2
  Id = {i1, i2}
  Tab = {t1}
  Chunk = 2
  None = None
  MaxChanges = 4
  MaxFaults = 1
SPECIFICATION FairSpec
INVARIANTS TypeOK NoSignalLost LastChangeWins NothingStranded
PROPERTIES StagedRowsStay QueueEmpties
CHECK_DEADLOCK FALSE
