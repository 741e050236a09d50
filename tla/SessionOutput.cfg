SPECIFICATION Spec
CONSTANTS
  a1 = a1  a2 = a2  b1 = b1  ka = ka  kb = kb
  Conns = {a1, b1}
  Clients = {ka, kb}
  ClientOf <- MCClientOf
  Sizes = {small}
  None = None
  MaxOut = 3
  MaxInput = 2
  Capacity = 1
  RingChunks = 3
  ReplayChunks = 2
INVARIANTS TypeOK LiveContiguous AtMostOneRepeated AtMostOneStaleWrite
CHECK_DEADLOCK FALSE
