CONSTANTS
  Last = 4
  BatchMax = 2
  Budget = 2
  Creates = {1, 3}
  Patches = {2, 3}
  Sealed = {2, 3}
  MaxBlips = 2
  MaxRestarts = 1
  Cap = 1
  Content = {c1, c2, c3}
  NoRow = NoRow
  MaxClock = 3
  Stamps = {0, 1, 2, 3, 4, 5}
  MaxVersion = 6
SPECIFICATION UploadSpec
INVARIANTS TypeOK NothingLost OnlyHeadIsCounted SealedWaits HistoryTypeOK VersionNamesContent
PROPERTIES ImplementsOutbox QueueDrains Monotone
CHECK_DEADLOCK FALSE
