SPECIFICATION Safety
CONSTANTS
  Ids = {alpha}
  MaxContexts = 2
  MaxRequests = 2
CHECK_DEADLOCK FALSE
INVARIANT ConnectedIsPooled
