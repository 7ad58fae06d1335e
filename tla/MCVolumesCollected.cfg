\* Violated: a volume that was not linked yet when the daemon crashed stays.
SPECIFICATION Spec
CONSTANTS
  N = 1
  MaxCrashes = 1
INVARIANT VolumesCollected
CHECK_DEADLOCK FALSE
