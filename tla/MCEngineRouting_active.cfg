SPECIFICATION Spec
CONSTANTS
  NumSlots = 2
  Addr = {0, 3, 4}
  Known = {3, 4}
  Mode = "ACTIVE"
  LnDepth = 8
  Steps = {0, 1}
  Velocities = {0, 8}
  Inputs = {"SPD", "ADR", "PUT", "GET", "RQ", "speed", "f9", "DISPATCH"}
  MaxOps = 4
  Assigned <- Unused
INVARIANTS
  UniqueSlot
  NothingPending
  DispatchNamesEngine
PROPERTIES
  SlotKept
CHECK_DEADLOCK FALSE
