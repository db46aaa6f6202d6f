SPECIFICATION FairSpec
CONSTANTS
  NumEngines = 5
  MaxEntries = 6
  Page = 2
  MaxTries = 2
  QueueLength = 7
  Environments <- AllEnvironments
INVARIANTS
  ArmedWhenNeeded
  CompleteIsWhole
  NoEngineTwice
  IndicatorTells
PROPERTIES
  ComesToRest
CHECK_DEADLOCK FALSE
