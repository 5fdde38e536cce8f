CONSTANTS
  h1 = h1  h2 = h2  k1 = k1  k2 = k2  u1 = u1  u2 = u2
  Handle = {h1, h2}
  Key = {k1, k2}
  Val = {0, 1}
  Root <- Roots
  Linked <- Links
  Opens = 1
  Subscriber = {u1, u2}
  On <- Watches
  Primed = {h1}
  Start <- Either
  Unset = Unset
  MaxTrouble = 2
SPECIFICATION Spec
CHECK_DEADLOCK FALSE
INVARIANT SubscribersSeeTheValue
