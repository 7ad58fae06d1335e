\* One container, one address: the client's Kill and waitLoop's race.
SPECIFICATION Spec
CONSTANTS
  Containers = {c1}
  Ids = {i1}
  Allocbuffer = 1
  MaxCrashes = 0
  None = None
INVARIANT UnusedOnce
CHECK_DEADLOCK FALSE
