SPECIFICATION FairAllocSpec
CONSTANTS
  NumWorkers = 3
  NumRoutes = 4
  PrimaryPair <- MCPrimaryPair
  RoutePair <- MCRoutePair
  Blocks = {7}
  Catalogs <- MCCatalogs
  MaxRpcConcurrency = 2
  WorkStealing = TRUE
  MayRaise = {2}
INVARIANTS
  AllocTypeOK
  ScannedOnce
  RouteInOnePlace
  NoRouteDropped
  NothingLeftBehind
PROPERTIES
  ImplementsRouteClaims
  WorkRunsOut
  PoolDrains
  EveryRouteReached
