\* One worker whose Spawn is cancelled.
SPECIFICATION Spec
CONSTANTS
  Spawns = {s1}
  QueueMax = 1
  SmSize = 1
  MaxDrops = 0
  MaxCrashes = 0
  None = None
INVARIANT KilledIsDead
CHECK_DEADLOCK FALSE
