SPECIFICATION FairSpec
CONSTANTS
  Sizes <- OneSize
  None = None
  SilentBeats = 1
  MaxLayouts = 1
INVARIANTS AttachedHasSession LeakedOnlyByRace CrashesOnlyWhenLost
PROPERTIES SilenceIsReported TasksEnd
CHECK_DEADLOCK FALSE
