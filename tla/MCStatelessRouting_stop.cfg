SPECIFICATION Spec
CONSTANTS
  Turnout = {1, 2, 17, 257}
  Rail = "MM2"
  LnDepth = 2
  MaxIssued = 6
  Scenarios <- LineUsers
INVARIANTS
  EachStopStops
CHECK_DEADLOCK FALSE
