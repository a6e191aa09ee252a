SPECIFICATION FairSpec
CONSTANTS
  primary = primary
  standby = standby
  main = main
  loop = loop
  Instance = {primary, standby}
  Machine = machine
  Thread = {main, loop}
  MaxFacts <- Facts
  MaxFaults = 2
INVARIANTS
  BackendsOutlivePublications
  AcceptedIsRecorded
PROPERTIES
  CloseCompletes
