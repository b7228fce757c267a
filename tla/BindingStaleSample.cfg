SPECIFICATION Safety
CONSTANTS
  Devices = {1, 2}
  Wans = {w1, w2}
  MaxChanges = 1
  MaxActions = 1
  MaxFailures = 0
CHECK_DEADLOCK FALSE
INVARIANT OneClientPerWan
