\* A container with two extra volumes: the first can exist while the second
\* fails; two crashes, so that a collection can itself be cut short.
SPECIFICATION Spec
CONSTANTS
  N = 2
  MaxCrashes = 2
INVARIANTS RunningKeepsVolumes LeakExplained
PROPERTY ExitCleaned
CHECK_DEADLOCK FALSE
