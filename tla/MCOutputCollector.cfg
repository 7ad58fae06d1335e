\* The standard output and the standard error of a worker of the process box.
SPECIFICATION Spec
CONSTANTS
  Copiers = {stdout, stderr}
  Box = box
  MaxChunks = 3
INVARIANTS OutputComplete OneNotification
PROPERTY StartNotified
CHECK_DEADLOCK FALSE
