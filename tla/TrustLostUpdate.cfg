SPECIFICATION Spec
CONSTANTS
  Cmds = {m1, m2}
  Daemon = daemon
  Clients = {k1, k2}
  Ids = {i1}
  None = None
  Torn = Torn
SYMMETRY Symmetry
INVARIANT PairedIsStored
CHECK_DEADLOCK FALSE
