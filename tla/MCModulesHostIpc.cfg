SPECIFICATION Spec
CONSTANTS
  Machines = {m1}
  MaxQueued = 1
  StableRuntimes = FALSE
INVARIANTS
  RunsWhereConnected
