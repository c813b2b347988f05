\* One run that gets a signal reports success without an update.
SPECIFICATION Spec
CONSTANTS
  Images <- TwoImages
  Firmwares <- Boards
  Factory = 2490368
  MaxRuns = 1
  MaxSignals = 1
  MaxBoots = 1
CHECK_DEADLOCK FALSE
INVARIANT NoSilentFailure
