SPECIFICATION FairSpec
CONSTANTS
  Tokens = {"WETH", "USDC"}
  Pairs <- MCPairs
  Venues = {"sushi_v3", "camelot_v3"}
  UniListed <- MCPairs
  Listed <- MCListed
  StaticTTL = 2
  TopologyTTL = 1
  BuildTime = 1
  RouteCap = 1
  Watched <- MCWatched
  MaxAge = 1
  CycleMod = 2
  MaxErrors = 2
INVARIANTS
  ServiceTypeOK
  OutageBounded
  StatusTellsTruth
  DeathIsNoticed
PROPERTIES
  CycleNumberKept
  HeartbeatGoesOn
