SPECIFICATION Spec
CONSTANTS
  Sizes <- TwoSizes
  None = None
  SilentBeats = 1
  MaxLayouts = 1
INVARIANT ViewSizeReachesPty
CHECK_DEADLOCK FALSE
