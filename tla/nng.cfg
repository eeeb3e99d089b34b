CONSTANTS
  Interval = 3
  MaxFailures = 3
SPECIFICATION FairSpec
INVARIANTS
  TypeOK
  ConnectedIsDialed
PROPERTIES
  RateLimited
  Reconnects
\* the process may end in listen
CHECK_DEADLOCK FALSE
