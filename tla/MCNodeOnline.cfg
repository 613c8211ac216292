SPECIFICATION Spec
CONSTANTS
  MaxSessions = 2
  Requests = {r1}
  DbFaults = FALSE
INVARIANT ConnectedIsOnline
CHECK_DEADLOCK FALSE
