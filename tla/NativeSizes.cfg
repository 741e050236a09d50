SPECIFICATION Spec
CONSTANTS
  Sizes <- TwoSizes
  None = None
  SilentBeats = 1
  MaxLayouts = 1
INVARIANTS TypeOK QueuedSizeArrives
CHECK_DEADLOCK FALSE
