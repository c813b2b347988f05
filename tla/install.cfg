\* The install stage, run twice, on every system of the test matrix.
SPECIFICATION Spec
CONSTANTS
  Builds <- MCBuilds
  Supported <- MCSupported
  MaxRuns = 2
  MaxBreaks = 1
\* The system stops when the runs are used up.
CHECK_DEADLOCK FALSE
INVARIANTS
  TypeOK
  PackagesAsPlanned
  OneKernel
  InitramfsModulesProvided
  ServicesProvided
  SuccessMeansWhole
  FailureIsExplained
PROPERTY FirmwareKept
