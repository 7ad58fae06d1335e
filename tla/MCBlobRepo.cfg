\* Three callers: the one that starts a download, one that joins it and one
\* that comes when it ends.
SPECIFICATION FairRepoSpec
CONSTANTS
  Gets = {c1, c2, c3}
  Nothing = Nothing
INVARIANTS OneFetch WaiterServed PathExists
PROPERTY GetReturns
CHECK_DEADLOCK FALSE
