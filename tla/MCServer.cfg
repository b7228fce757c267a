SPECIFICATION AllSpec
CONSTANTS
  Callers = {c1, c2, c3}
  ResourceCount = 6
  Requests <- MCRequests
  Targets = {"alpha", "beta"}
  MaxContexts = 3
  MaxConnRequests = 4
  MaxSockets = 4
  MaxInvokes = 2
  MaxEpochs = 2
  Browsers = {"b1"}
  Calls = {"c1"}
  Registered = {"r1", "r2"}
  MaxWorkspaces = 2
  OptionalData = {"settings", "users"}
  Custom = {"m1"}
  MaxSettingsRequests = 2
  MaxImports = 1
  MaxTroubles = 3
  MaxLives = 2
  Streams = {"s1", "s2"}
CHECK_DEADLOCK FALSE
INVARIANTS
  MutualExclusion
  NoDeadlock
  OnlyPooledCollect
  PooledAreServed
  NoGhosts
  PoolIsAnnounced
  CloseIsQuiet
  ShutdownIsClean
  UpdateIsSound
  UpdateIsRecoverable
  FilesAgree
PROPERTIES
  EveryCallRuns
  NothingReplayed
  ClientRecovers
  EndsAreReached
