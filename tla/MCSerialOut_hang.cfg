SPECIFICATION FairSpec
CONSTANTS
  Task <- Tasks
  BasePriority <- Priorities
  Object <- Objects
  Ticks = 4
  Text <- Lines
  Writes <- Often
  MaxFrames = 2
  Sizes = {2}
PROPERTIES
  WriteReturns
CHECK_DEADLOCK FALSE
