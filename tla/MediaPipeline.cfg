SPECIFICATION PipelineSpec
CONSTANTS
  MaxWidth = 1
  MaxHeight = 2
  Frames <- MCFrames
  Formats = {4}
  Bases <- MCBases
  Sizes <- MCSizes
  FitsShm <- MCFits
  Upscaled <- MCSmall
  None = None
CHECK_DEADLOCK FALSE
INVARIANTS CrashIsToldWithReason PicturesHold
PROPERTIES DeathEndsSession
