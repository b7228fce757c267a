SPECIFICATION Spec
CONSTANTS
  Size = 2
  Limit = 2
  Occupied = {}
  Patient = FALSE
  MaxForms = 1
  MaxDeletes = 1
  MaxCancels = 0
  MaxFailures = 0
CHECK_DEADLOCK FALSE
INVARIANT SectionsAreRecorded
