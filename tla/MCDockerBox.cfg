\* Two Spawn calls for a queue of one and a semaphore of one; the event stream
\* breaks twice, and the box crashes twice.
SPECIFICATION FairSpec
CONSTANTS
  Spawns = {s1, s2}
  QueueMax = 1
  SmSize = 1
  MaxDrops = 2
  MaxCrashes = 2
  None = None
INVARIANTS GateExact RunningTracked
PROPERTIES RefinesGate DeadRemoved
CHECK_DEADLOCK FALSE
