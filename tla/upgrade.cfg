\* Upgrades of a machine to images of every kind, with faults and an operator.
SPECIFICATION Spec
CONSTANTS
  old = old
  new = new
  broken = broken
  late = late
  corrupt = corrupt
  Images <- MCImages
  Installed = old
  Health <- MCHealth
  Version <- MCVersion
  MaxFaults = 1
  MaxPicks = 1
  MaxPlans = 2
\* The machine may be left up, its job complete.
CHECK_DEADLOCK FALSE
INVARIANTS
  TypeOK
  RollbackTarget
  SuspectGuarded
  OneTry
  FallbackIsReported
PROPERTIES
  NodeRecovers
  JobCompletes
  Implements
