\* Load plans of up to three groups over two names; models of a few dozen
\* bytes in four-byte chunks; planner inputs around two blocks; three requests
\* over three keys; two manifest versions and two readers; three runs and three
\* loads of one Dianome.
SPECIFICATION BenchSpec
CONSTANTS
  Shas = {1, 2}
  MaxGroups = 3
  MaxOwn = 2
  MaxSegs = 1
  Budgets = {3, 4, 8, 9, 12}
  MaxFile = 6
  ChunkSize = 4
  Align = 2
  Q4Group = 2
  BlockRows = 2
  MaxBytes = 2000
  MaxMs = 2000
  MaxCount = 3
  KeyIds = {k1, k2, k3}
  FirstKey = k1
  NoKey = nokey
  Requests = {1, 2, 3}
  Ops = {"open", "owned", "list", "revoke", "session", "report"}
  Limit = 1
  WriteAttempts = 2
  MaxFaults = 2
  Versions = {"v1", "v2"}
  ChunksOf <- ChunksOfVersion
  NoVersion = "none"
  PlanCache = 3
  PlanTimeout = 2
  StatsTtl = 3
  Readers = {1, 2}
  MaxClock = 7
  MaxCtx = 3
  Round16 = TRUE
  MaxCalls = 4
  WExp = 4
  WMant = 5
  NExp = 3
  NMant = 2
  QGroup = 2
  Whole = 6
  Draws = 12
  CachedPieces = 1
  LeastCtx = 4
  MostCtx = 16
  CtxStep = 4
  NewTokens = 4
  Spare = 1
  FrameChunks = {"x", "y"}
  MaxPosts = 2
  SharedRunIds = {1, 2, 3}
  RuntimeKeys = {"a", "b"}
  DecodeSteps = 1
  StoreLoads = {1, 2, 3}
  MaxGrants = 2
INVARIANTS
  LoadsAreExact
  PlannerIsSound
  
  TelemetryIsSound
  KeysAreSound
  EdgeIsTrue
  RuntimeIsTheModel
  NumbersAreKept
  TokenizerIsExact
  FrameCallsAreSound
  AdaptersServeTheArtifact
  SharedStateIsKept
\* A state is one task done: nothing follows it.
CHECK_DEADLOCK FALSE
