SPECIFICATION Spec
CONSTANTS
  Duration = 3
  RenewalInterval = 1
  HealthCheckInterval = 1
  FailbackStabilization = 2
  ShutdownTimeout = 1
  Horizon = 5
  Faults = {"stall", "crash", "outage", "stop"}
  MaxFaults = 2
  MaxStall = 1
INVARIANTS
  OwnGrantIsLive
PROPERTIES
  HandoverSpec
  HandoverIsHonoured
