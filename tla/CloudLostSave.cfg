SPECIFICATION MCSpec
CONSTANTS
  Workers = {w1}
  Daemons = {d1}
  Clients = {k1}
  PairIds = {}
  Codes = {c1}
  BindingIds = {b1, b2}
  None = None
  MaxTime = 1
  MaxRequests = 3
  SaveCanFail = TRUE
INVARIANT CodeSingleUse
CHECK_DEADLOCK FALSE
