SPECIFICATION Spec
CONSTANTS
  Forwards = {f1}
  Ports = {p1}
  Requests = {i1, i2, i3}
  Kind = "reverseQuic"
  NetFaults = TRUE
  Replays = TRUE
  Restarts = TRUE
 
PROPERTY ManualPauseSticks
 
SYMMETRY Symmetry
