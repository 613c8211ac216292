SPECIFICATION Spec
CONSTANTS
    Programs <- AllPrograms
    Roots <- Entries
INVARIANTS
    Released
    Guarded
    Answered
    NoStaleDeadline
