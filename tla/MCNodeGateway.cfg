SPECIFICATION Spec
CONSTANTS
  MaxSessions = 2
  Requests = {r1, r2}
  DbFaults = TRUE
INVARIANTS PendingExact AnsweredExecuted TableOwned
PROPERTIES Implements OneOutcome CallsEnd HandlersEnd
CHECK_DEADLOCK FALSE
