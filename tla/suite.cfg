SPECIFICATION FairSpec
CONSTANTS
  small = small
  other = other
  large = large
  Scenario = {small, other, large}
  Machines <- Sizes
  Capacity = 2
  BuildCapacity = 1
  Ports <- OnePort
  Band = 3
INVARIANTS
  CapacityIsAccounted
  NobodyWaitsInVain
  ScenariosAreApart
PROPERTIES
  EveryScenarioIsServed
CHECK_DEADLOCK FALSE
