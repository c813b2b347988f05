\* Which entry of /lib/modules a build and a validation choose.
SPECIFICATION Spec
CONSTANTS
  Name <- MCName
  Raspi <- MCRaspi
  Semver <- MCSemver
  Canon <- MCCanon
  NoKernel = 0
INVARIANTS
  FailsOnlyWhenEmpty
  PiBootsRaspi
  NewestWins
  ValidateAgrees
