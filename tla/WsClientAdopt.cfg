SPECIFICATION Safety
CONSTANTS
  MaxSockets = 4
  MaxInvokes = 1
  MaxEpochs = 1
CHECK_DEADLOCK FALSE
INVARIANT OneSocket
