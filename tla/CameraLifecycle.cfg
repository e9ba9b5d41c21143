SPECIFICATION FairSpec
CONSTANTS
  d1 = d1
  d2 = d2
  Devices = {d1, d2}
  None = None
INVARIANTS
  CrashPlaces
  LeakOnlyIfOvertaken
  BinaryUnlessLost
PROPERTIES
  PauseCompletes
  PreviewStarts
CHECK_DEADLOCK FALSE
