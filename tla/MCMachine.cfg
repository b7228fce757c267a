SPECIFICATION AllSpec
CONSTANTS
  MaxRequests = 3
  SshExecs = {e1, e2}
  SshHandles = {h1}
  MaxChannels = 1
  MaxWaiting = 1
  LocalExecs = {e1}
  LocalStreams = {s1}
  LocalShells = {t1}
  MaxContexts = 2
  MaxLinks = 3
  Shells = {s1}
  Uses = {{"collector"}, {"terminals"}, {"packages"}}
  BmcIds = {1, 2}
  BmcWorkers = 1
  BmcChanges = 2
  ModuleJobIds = {j1}
  JobItems = 3
  FleetIps = {1, 2}
  FleetPinned = {1}
  FleetBatch = 1
  FleetChanges = 2
  BatchSize = 2
  SeqLimit = 5
  SeqOccupied = {3}
  MaxDialerForms = 2
  MaxDeletes = 1
  MaxCancels = 1
  MaxCommandFailures = 1
  LanDevices = {1, 2}
  LanWans = {"w1", "w2"}
  EngineChanges = 1
  EngineActions = 1
  EngineFailures = 1
CHECK_DEADLOCK FALSE
INVARIANTS
  NoForgottenExecutor
  DisconnectSticks
  LossIsHeard
  PhaseAgrees
  ServicesAgree
  ExecutorsAreBounded
  JobsAreTold
  BindingAgrees
  PppoeAgrees
PROPERTIES
  ImplementsLink
  WorkSettles
  BindingConverges
