\* The comment of 08_grub.yaml: the first boot after an upgrade is a try.
SPECIFICATION Spec
CONSTANTS
  old = old
  new = new
  broken = broken
  late = late
  corrupt = corrupt
  Images <- MCImages
  Installed = old
  Health <- MCHealth
  Version <- MCVersion
  MaxFaults = 0
  MaxPicks = 0
  MaxPlans = 2
INVARIANT UpgradeIsTried
CHECK_DEADLOCK FALSE
