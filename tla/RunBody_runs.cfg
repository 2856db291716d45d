\* Two sources, three runs; redirects disable at the second, a quarantine at the first.
SPECIFICATION Spec
CONSTANTS
  Sources = {1, 2}
  RedirectLimit = 2
  QuarantineLimit = 1
  Window = 2
  Outages = {"network"}
  MaxRuns = 3
  MaxFaults = 2
INVARIANT RedIsLoud
PROPERTIES OkMeansAll DoctorIsRight
CHECK_DEADLOCK FALSE
