SPECIFICATION Spec
CONSTANTS
  a1 = a1  a2 = a2  b1 = b1  ka = ka  kb = kb
  Conns = {a1}
  Clients = {ka, kb}
  ClientOf <- MCClientOf
  Sizes = {small}
  None = None
  MaxOut = 3
  MaxInput = 1
  Capacity = 2
  RingChunks = 3
  ReplayChunks = 2
INVARIANT NoHole
CHECK_DEADLOCK FALSE
