SPECIFICATION Spec
CONSTANTS
  Names = {n1, n2}
  Addrs = {a1}
  None = None
  Free = Free
  Foreign = Foreign
  Torn = Torn
  MaxBatch = 2
  MaxEntries = 1
  ParseFaults = TRUE
  DiskFaults = TRUE
  Contended = {a1}
PROPERTY CommandsEnd
CHECK_DEADLOCK FALSE
