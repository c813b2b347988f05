\* The comment of GetKernelStage: the step creates the /boot/vmlinuz link.
SPECIFICATION Spec
CONSTANTS
  Name <- MCName
  Raspi <- MCRaspi
  Semver <- MCSemver
  Canon <- MCCanon
  NoKernel = 0
  Released <- MCReleased
  Split <- MCSplit
  Faults <- MCFaults
  Commands <- MCLayered
  Platforms <- MCUbuntu
  MaxRuns = 2
  MaxLayers = 2
\* The system stops when the runs and the layers are used up.
CHECK_DEADLOCK FALSE
INVARIANTS
  KernelLinkMade
