\* Install and init in layers on every kind of base image, with other flags each time.
SPECIFICATION Spec
CONSTANTS
  Name <- MCName
  Raspi <- MCRaspi
  Semver <- MCSemver
  Canon <- MCCanon
  NoKernel = 0
  Released <- MCReleased
  Split <- MCSplit
  Faults <- MCKinds
  Commands <- MCLayered
  Platforms <- MCPlatforms
  MaxRuns = 3
  MaxLayers = 1
\* The system stops when the runs and the layers are used up.
CHECK_DEADLOCK FALSE
INVARIANTS
  InitrdOfLinkedKernel
  VmlinuzResolves
  KernelStageRepeatable
  TrustedHasNoInitrd
  NoHostKeys
  GoodBuildValidates
