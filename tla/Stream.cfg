SPECIFICATION MCSpec
CONSTANTS
  a1 = a1  b1 = b1  ka = ka  kb = kb
  Conns = {a1, b1}
  Clients = {ka, kb}
  ClientOf <- MCClientOf
  Local = {b1}
  Sizes = {small}
  None = None
  MaxOut = 1
  MaxInput = 1
  Capacity = 2
  RingChunks = 3
  ReplayChunks = 2
  MaxRead = 4
  MaxPrinted = 8
  MaxLimit = 6
  Texts <- MCTexts
  Ids <- MCIds
  Payloads <- MCPayloads
  OwnKind = 2
  ToAgent = FALSE
  MaxFrames = 2
INVARIANTS StreamTypeOK EndsAgree RingIsNewest ReplayIsNewest FramesArrive NeverWaitsInVain LengthsUndone
PROPERTIES ScreenReaches ClientHearsOfEnd AgentLetsGo
CHECK_DEADLOCK FALSE
