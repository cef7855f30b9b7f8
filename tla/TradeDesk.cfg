SPECIFICATION MCSpec
CONSTANTS
  Procs = {"trader", "sniper", "watcher"}
  Fragile = {"trader"}
  GasCap = 2
  MaxShots = 5
  DeskShots = 2
  MaxHead = 2
  MaxRows = 1
  Staleness = 0
  Warmup = 1
INVARIANTS
  GasCapOvershoot
  KillStopsFiring
  RowFiredOnce
  NothingSkippedSilently
