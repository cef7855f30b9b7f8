SPECIFICATION Spec
CONSTANTS
  Ladder = {1000, 3000}
  Probe = 1000
  Wider = {3000}
  WidenThreshold = 3
  Price = 2
  Gas = 2
  ScanBps = 0
  Grosses <- MCGrosses
  Borrowers <- MCBorrowers
  Routes <- MCRoutes
  KindOf <- MCKinds
  Ready = {"mixed"}
  AaveBps = 5
  GasUnits = 2
  GasUsed = {1, 3}
  MaxFork = 2
  Batch = 3
  Lookback = 3
  MinSamples = 2
  Share = 5
  Floor = 0
  Cap = 3
  Bootstrap = 1
  Static = 0
INVARIANTS
  ForkTypeOK
  SuccessEarnsReserve
  RevertIsPremium
  ResultIsOwn
  OneReservePerCycle
PROPERTIES
  ImplementsLearnedReserve
