\* A build in one go, repeated once, with extensions, both boot modes and variants.
SPECIFICATION Spec
CONSTANTS
  Name <- MCName
  Raspi <- MCRaspi
  Semver <- MCSemver
  Canon <- MCCanon
  NoKernel = 0
  Released <- MCReleased
  Split <- MCSplit
  Faults <- MCFaults
  Commands <- MCOneGo
  Platforms <- MCUbuntu
  MaxRuns = 2
  MaxLayers = 1
\* The system stops when the runs and the layers are used up.
CHECK_DEADLOCK FALSE
INVARIANTS
  TypeOK
  InitAfterInstall
  InitrdHasKairos
  ReleaseDescribesBuild
  
