SPECIFICATION Spec
CONSTANTS
  Absent = Absent
  Malformed = Malformed
  NoPlan = NoPlan
  Refused = Refused
  IPWords <- MCIPWords
  RequestTargets <- MCRequestTargets
  MaxPort = 9
  MaxDuration = 100
  Loopback = "127.0.0.1"
  Baseline <- MCBaseline
  Edits <- MCEdits
  MaxEdits = 3
INVARIANTS
  PlannedMachinesRun
  SiteFormsOneFabric
  SiteSharesOneInventory
  TruncatedDescriptorsAreRefused
\* The builder has returned its plan or its error and stops.
CHECK_DEADLOCK FALSE
