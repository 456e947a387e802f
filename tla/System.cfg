SPECIFICATION Spec
CONSTANTS
  FMaxFds = 3
  FPages = 5
  FRamMax = 2
  FPoolMax = 2
  XMaxPids = 4
  XMaxProcs = 3
  XSlots = 12
  XPolicyCaps = 3
  XPolicyText = 9
  XEntries = 2
  XPoolMax = 2
  TSteps = 5
  TLevels = 3
  TWidth = 3
  TProcs = {p1, p2}
  TVas <- MCVas
  TKvas <- MCKvas
  LClients = {"c1", "c2"}
  LMaxWindows = 3
  LMaxClients = 1
  LPerClient = 2
  LDown = 2
  GBuf = 2
  GChildren = 3
  GRows = 2
  GClient = 4
  GBorder = 1
  GTitle = 1
  GSteps = 4
  SName = 2
  SPass = 2
  SAttempts = 2
  STries = 2
  VWaits = 2
  DServers = {"a", "b"}
  DAttempts = 2
  DRetries = 2
  HStages = 3
  HArgs = 5
  HLine = 20
  HBuf = 4
  HEnv = 1
  HHist = 2
  HCands = 2
INVARIANTS KernelIntact UserIntact
PROPERTY SystemReturns
CHECK_DEADLOCK FALSE
