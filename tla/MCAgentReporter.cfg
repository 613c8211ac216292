SPECIFICATION LiveSpec
CONSTANTS
  Conns = {c1, c2, c3}
  None = None
INVARIANT NotDeaf
PROPERTY Reconnects
