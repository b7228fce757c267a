SPECIFICATION AllSpec
CONSTANTS
  Versions = {v1, v2}
  None = None
  Broken = Broken
  Plans = {p1, p2}
  Pairs = {c1, c2}
  Slots = {0, 1, 2}
  Tables = {1, 2}
  MaxForms = 2
  MaxActions = 1
  MaxFailures = 1
  MaxRestarts = 1
INVARIANTS
  Recoverable
  RunsWhatIsInstalled
  NothingLeftBehind
  PreparationsAgree
PROPERTIES
  ImplementsInstalledModule
  GuardsConverge
