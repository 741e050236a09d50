SPECIFICATION MCSpec
CONSTANTS
  Workers = {w1, w2}
  Daemons = {d1}
  Clients = {k1}
  PairIds = {}
  Codes = {c1}
  BindingIds = {b1}
  None = None
  MaxTime = 1
  SaveCanFail = FALSE
  MaxGen = 2
  MaxEvents = 3
INVARIANT TabTypeOK
PROPERTIES EventuallySaved AttachedIsTrue ConnectingTabEnds TabFetchRecovers ResumeReconnectsHeld
CHECK_DEADLOCK FALSE
