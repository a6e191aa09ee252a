SPECIFICATION FairSpec
CONSTANTS
  Request = {r1, r2}
  MaxEpoch = 3
INVARIANTS
  RetiredHandlerIsQuiet
  SiteOutlivesRequests
PROPERTIES
  EndIsStatedLast
  IncarnationsDiffer
  StopEndsTheProcess
CHECK_DEADLOCK FALSE
