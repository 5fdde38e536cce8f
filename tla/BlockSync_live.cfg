CONSTANTS
  d1 = d1  d2 = d2  c1 = c1  c2 = c2  a = a  b = b
  Cap = 1
  Device = {d1, d2}
  Column = {c1}
  Value = {a, b}
  Blank = a
  Skew <- OneSlow
  Template <- TwoTemplates
  None = None
  Stamp = {0, 1, 2, 3, 4, 5, 6}
  MaxNow = 2
  Scenarios <- Anything
SPECIFICATION FairSpec
PROPERTIES ServerImplemented AllConverge
CHECK_DEADLOCK FALSE
