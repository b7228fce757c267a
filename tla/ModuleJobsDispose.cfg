SPECIFICATION Spec
CONSTANTS
  Jobs = {j1}
  N = 3
CHECK_DEADLOCK FALSE
INVARIANT StopsQuietly
