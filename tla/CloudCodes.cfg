SPECIFICATION MCSpec
CONSTANTS
  Workers = {w1, w2}
  Daemons = {d1}
  Clients = {k1}
  PairIds = {p1}
  Codes = {c1}
  BindingIds = {b1, b2}
  None = None
  MaxTime = 1
  MaxRequests = 5
  SaveCanFail = TRUE
SYMMETRY Symmetry
INVARIANTS TypeOK AtMostOneActive DurableKept RevokedNotServed BoundIsServed SavedCodeSingleUse
PROPERTY StoreSpec
CHECK_DEADLOCK FALSE
