SPECIFICATION AllSpec
CONSTANTS
  Clients = {a, b}
  Watchers = {}
  Machines = {m}
  Kinds = {"read", "send", "mutate", "evict"}
  MaxFrames = 3
  MaxPushes = 0
  MaxQueued = 1
  Viewers = {a}
  EventKinds = {"protect", "evict"}
  EventFrames = 2
  EventPushes = 4
  EventQueue = 2
CHECK_DEADLOCK FALSE
INVARIANTS
  DrainedIsQuiet
  PushesAreSound
PROPERTIES
  EveryInvokeAnswered
  EventsDrainAgain
