SPECIFICATION Spec
CONSTANTS
  Duration = 3
  RenewalInterval = 1
  HealthCheckInterval = 1
  FailbackStabilization = 2
  ShutdownTimeout = 1
  Horizon = 3
  Faults = {"crash", "stop", "probe", "store", "request"}
  MaxFaults = 3
  MaxStall = 1
INVARIANTS
  SingleOwnerUnlessLostUpdate
  OpenIsGranted
  OverlapIsResolved
