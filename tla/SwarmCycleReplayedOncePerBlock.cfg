SPECIFICATION Spec
CONSTANTS
  NumWorkers = 2
  NumRoutes = 2
  PrimaryPair <- MCPrimaryPair
  RoutePair <- MCRoutePair
  Blocks = {7}
  Catalogs <- MCCatalogs
  MaxRpcConcurrency = 1
  WorkStealing = TRUE
  MayRaise = {}
  NumLiquidations = 1
  ObserveOnly = {2}
  MaxReplays = 2
INVARIANT
  ReplayedOncePerBlock
