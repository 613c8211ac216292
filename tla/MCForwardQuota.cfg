SPECIFICATION Spec
CONSTANTS
  Forwards = {f1, f2}
  Ports = {p1, p2}
  Requests = {i1}
  Kind = "direct"
  NetFaults = FALSE
  Replays = FALSE
  Restarts = FALSE
INVARIANT OverIsStopped
SYMMETRY Symmetry
