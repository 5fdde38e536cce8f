CONSTANTS
  h1 = h1  h2 = h2  k1 = k1  k2 = k2  u1 = u1  u2 = u2
  Handle = {h1, h2}
  Key = {k1, k2}
  Val = {0, 1}
  Root <- Roots
  Linked <- Links
  Opens = 1
  Subscriber = {u1, u2}
  On <- Watches
  Primed = {h1}
  Start <- Either
  Unset = Unset
  MaxTrouble = 2
  keeper = keeper  twin = twin  kid = kid  ax = ax  ay = ay  grp = grp
  Page = {keeper, twin, kid}
  Alias = {ax, ay}
  NoRow = NoRow  NoParent = NoParent  NoAlias = NoAlias  NoGroup = NoGroup
  Paper <- Desk
  Edits <- Acts
  Drifts <- Syncs
  Groups = {grp, NoGroup}
  MaxDepth = 2
  Allowed <- Sessions
SPECIFICATION TabSpec
INVARIANTS TabTypeOK NoLostInvalidation NoHungBarrier OnlyAnUndoneChangeIsMissed
PROPERTIES PushesAreCurrent LoadFreshIsTrue UndoIsExact
CHECK_DEADLOCK FALSE
