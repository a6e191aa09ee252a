SPECIFICATION FairInstances
CONSTANTS
  primary = primary
  standby = standby
  Observer = {primary, standby}
  Interval = 2
  Timeout = 1
  Retries = 2
  Jitter <- Phases
  Delay = 0
  MaxFaults = 1
  CheckTimeout = 2
  PeerTimeout = 1
INVARIANTS
  FreshWhileHeard
  UnhealthyIsEarned
  RecoveryIsSeen
  OutageIsSeen
  HealthIsSeenPromptly
  MonitorSpeaksForItself
PROPERTIES
  DistributionSettles
