SPECIFICATION Spec
CONSTANTS
  Machines <- MCMachines
  Order <- MCOrder
  Directory <- MCDirectory
  Versions = {v1, v2}
  MaxBuilds = 4
  Nothing = Nothing
  Broken = Broken
INVARIANTS
  ChecksumsVouch
