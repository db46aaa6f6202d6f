SPECIFICATION FairSpec
CONSTANTS
  Task <- Tasks
  BasePriority <- Priorities
  Object <- Objects
  Ticks = 4
  Text <- Lines
  Writes <- Often
  MaxFrames = 2
  Sizes = {2, 3, 12}
INVARIANTS
  BytesInOrder
  OneOwner
  NothingLeftBehind
  HolderInherits
PROPERTIES
  RestsIfFits
CHECK_DEADLOCK FALSE
