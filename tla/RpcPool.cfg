SPECIFICATION FairPoolSpec
CONSTANTS
  t1 = t1
  t2 = t2
  Caller <- MCCallers
  NumEndpoints = 2
  Cooldown = 2
  MaxAge = 3
INVARIANTS
  PoolTypeOK
  PassedOverOnlyAfterFailure
PROPERTIES
  CallsEnd
  EndpointComesBack
