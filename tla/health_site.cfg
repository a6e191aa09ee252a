SPECIFICATION Spec
CONSTANTS
  primary = primary
  standby = standby
  Observer = {primary, standby}
  Service = {alarm}
  Outcomes = {"healthy"}
  Faults = {"crash", "stray", "repeat"}
  MaxEpoch <- EachRestarts
  MaxReports <- SiteReports
  MaxStrays = 1
INVARIANTS
  NewestReportWins
  SameReportsSameView
  OwnReportIsNews
CHECK_DEADLOCK FALSE
