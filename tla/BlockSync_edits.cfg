CONSTANTS
  d1 = d1  d2 = d2  c1 = c1  c2 = c2  a = a  b = b
  Cap = 1
  Device = {d1, d2}
  Column = {c1, c2}
  Value = {a, b}
  Blank = a
  Skew <- NoSkew
  Template <- SameTemplate
  None = None
  Stamp = {0, 1, 2, 3, 4, 5, 6}
  MaxNow = 3
  Scenarios <- Edits
SPECIFICATION Spec
SYMMETRY Symmetric
INVARIANTS TypeOK PendingWritesOnDisk DiskConverges CacheConverges EqualStampsAgree
CHECK_DEADLOCK FALSE
