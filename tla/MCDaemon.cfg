\* Three configured boxes of any types, two endpoints and two connections: one
\* endpoint can fail while the other serves, and a box can fail to be
\* constructed before, between and after the others.
SPECIFICATION DaemonSpec
CONSTANTS
  Boxes = {b1, b2, b3}
  Endpoints = {e1, e2}
  Conns = {c1, c2}
INVARIANTS ServingIsComplete HandlersGivenUpFirst FailedStartUndone CloseComplete
PROPERTY DeafDaemonEnds
CHECK_DEADLOCK FALSE
