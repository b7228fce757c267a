SPECIFICATION Safety
CONSTANTS
  Clients = {a}
  Watchers = {a}
  Machines = {m, n}
  Kinds = {"read"}
  MaxFrames = 1
  MaxPushes = 2
  MaxQueued = 4
CHECK_DEADLOCK FALSE
INVARIANT StateIsCurrent
