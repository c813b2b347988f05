\* The comment of ValidateRHELServicesWithPaths: critical services are not masked.
SPECIFICATION Spec
CONSTANTS
  Services = {"systemd-udevd", "systemd-logind", "getty.target"}
  MaxLayers = 2
INVARIANTS
  ValidationSeesMasks
