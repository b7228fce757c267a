SPECIFICATION Spec
CONSTANTS
  Machines = {m1, m2}
  MaxQueued = 1
  StableRuntimes = TRUE
INVARIANTS
  OnlyWhereItMay
  
PROPERTIES
  CallsReturn
