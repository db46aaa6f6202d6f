SPECIFICATION Spec
CONSTANTS
  NumSlots = 2
  Addr = {0, 3, 4}
  Known = {3}
  Mode = "PASSIVE"
  LnDepth = 2
  Steps = {0, 1}
  Velocities = {0, 8}
  Inputs = {"SPD", "SND2", "RQ", "ADR", "MOVE", "WR", "speed"}
  MaxOps = 4
  Assigned <- OneHeld
INVARIANTS
  TypeOK
  FollowsMaster
  UidOfSlot
  QueuesServed
CHECK_DEADLOCK FALSE
