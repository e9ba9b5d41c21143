SPECIFICATION FairSpec
CONSTANTS
  MaxImages = 2
  MaxFrames = 4
  MaxResumes = 3
INVARIANTS
  OneFrameAtATime
  NativeStateReady
  ImagesAreClosed
PROPERTIES
  OrphanedOnlyByPause
  ImplementsSlot
  PauseCompletes
CHECK_DEADLOCK FALSE
