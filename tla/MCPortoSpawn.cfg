\* Two concurrent Spools of one application, three Spawns for a queue of one
\* and a semaphore of one, and a crash.
SPECIFICATION BoxSpec
CONSTANTS
  Spools = {p1, p2}
  Spawns = {s1, s2, s3}
  QueueMax = 1
  SmSize = 1
  MaxRestarts = 1
  None = None
SYMMETRY Symmetry
INVARIANTS JournalBacked GateDrift
PROPERTY RefinesGate
CHECK_DEADLOCK FALSE
