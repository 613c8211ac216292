SPECIFICATION LiveSpec
CONSTANTS
  Chunks = {1, 2}
  MaxConns = 2
  MaxBytes = 4
  MaxReports = 3
  Faults = TRUE
  ObserverFaults = TRUE
INVARIANTS NoUnderflow NeverOverbilled
PROPERTY Reported
CHECK_DEADLOCK FALSE
