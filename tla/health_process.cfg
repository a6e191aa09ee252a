SPECIFICATION FairSpec
CONSTANTS
  primary = primary
  standby = standby
  Observer = {primary}
  Service = {alarm, gate}
  Outcomes = {"healthy"}
  Faults = {"stop", "refuse", "activate"}
  MaxEpoch <- PrimaryRestartsActivated
  MaxReports <- PrimaryReportsTwice
  MaxStrays = 0
INVARIANTS
  ReportsAreUnique
  EveryReportIsCounted
PROPERTIES
  ReportsLeave
  StopCompletes
CHECK_DEADLOCK FALSE
