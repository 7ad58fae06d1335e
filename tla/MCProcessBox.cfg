\* Two Spawn calls for a queue of one, a semaphore of one and two pids: the
\* queue overflows, the slot and the lock are waited for and pids are recycled.
SPECIFICATION FairSpec
CONSTANTS
  Spawns = {s1, s2}
  Pids = {p1, p2}
  QueueMax = 1
  SmSize = 1
  None = None
INVARIANTS ChildrenAccurate
PROPERTIES RefinesGate HandlerSparesWorkers ZombiesReaped SpawnReturns
CHECK_DEADLOCK FALSE
