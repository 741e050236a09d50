SPECIFICATION Spec
CONSTANTS
  Cmds = {m1, m2, m3}
  Daemon = daemon
  Clients = {k1, k2}
  Ids = {i1, i2}
  None = None
  Torn = Torn
SYMMETRY Symmetry
INVARIANTS TypeOK TrustsOnlyBound DaemonOwnsFile ParsesAtRest PairedIsStoredInTurn
PROPERTY RevokedGetsInOnlyLate
CHECK_DEADLOCK FALSE
