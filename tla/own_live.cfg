SPECIFICATION FairSpec
CONSTANTS
  Duration = 3
  RenewalInterval = 1
  HealthCheckInterval = 1
  FailbackStabilization = 3
  ShutdownTimeout = 1
  Horizon = 3
  Faults = {"outage", "crash", "request", "store"}
  MaxFaults = 2
  MaxStall = 1
PROPERTIES
  ServingOwnerIsNotFailedOver
  SomebodyServes
  PrimaryIsPreferred
