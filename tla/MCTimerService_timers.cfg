SPECIFICATION Spec
CONSTANTS
  Task <- Tasks
  BasePriority <- Priorities
  Object <- Objects
  Ticks = 4
  Timer = {"a"}
  InitPeriod <- Periods
  NewPeriod <- OtherPeriods
  Notifying = {"a"}
  QueueLength = 2
  Senders = {"RoutingTask"}
  MaxLate = 1
  MaxOps = 2
INVARIANTS
  AssertOnlyWhenFull
  HighestRuns
  SleepsNoLonger
  WokenInItsTick
  NotifiedIsAwake
PROPERTY
  KeepsPromise
CHECK_DEADLOCK FALSE
