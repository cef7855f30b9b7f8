SPECIFICATION FairSpec
CONSTANTS
  NumWorkers = 2
  NumRoutes = 2
  PrimaryPair <- MCPrimaryPair
  RoutePair <- MCRoutePair
  Blocks = {7, 8}
  Catalogs <- MCCatalogs
  MaxRpcConcurrency = 2
  WorkStealing = TRUE
  MayRaise = {1}
  NumLiquidations = 1
  ObserveOnly = {2}
  MaxReplays = 0
INVARIANTS
  CycleTypeOK
  RecordedBeforeFork
  RecordedOnce
  ReportAddsUp
PROPERTIES
  CycleEnds
