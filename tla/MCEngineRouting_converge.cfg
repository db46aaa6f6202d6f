SPECIFICATION FairLearnedSpec
CONSTANTS
  NumSlots = 1
  Addr = {3}
  Known = {3}
  Mode = "PASSIVE"
  LnDepth = 8
  Steps = {0, 1}
  Velocities = {0, 4, 8}
  Inputs = {"SPD", "DIRF", "speed", "dir", "f0", "TURN", "STOP"}
  MaxOps = 4
  Assigned <- OneHeld
INVARIANTS
  Converged
PROPERTIES
  EventuallyAgree
CHECK_DEADLOCK FALSE
