SPECIFICATION Spec
CONSTANTS
    Names = {n1, n2}
    Addrs = {a1, a2}
    None = None
    Free = Free
    Foreign = Foreign
    Torn = Torn
    MaxBatch = 2
    MaxEntries = 2
    ParseFaults = TRUE
    DiskFaults = FALSE
    Contended = {a1, a2}
INVARIANTS RegisteredHasConfig CleanAgreement FileCurrent
PROPERTY CommandEffect
SYMMETRY Symmetry
CHECK_DEADLOCK FALSE
