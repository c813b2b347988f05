\* The script on every kind of board: three runs, a signal, two boots.
SPECIFICATION Spec
CONSTANTS
  Images <- TwoImages
  Firmwares <- Boards
  Factory = 2490368
  MaxRuns = 3
  MaxSignals = 1
  MaxBoots = 1
\* The user may leave it at the last run.
CHECK_DEADLOCK FALSE
INVARIANTS
  TypeOK
  SuccessMeansStaged
  LeftMountIsReported
PROPERTY AdvertisedAfterFlush
