SPECIFICATION FairSpec
CONSTANTS
  Turnout = {1, 2, 17, 257}
  Rail = "MM2"
  LnDepth = 2
  MaxIssued = 6
  Scenarios <- AllScenarios
INVARIANTS
  EachReachesTheOthers
  LampsFollow
  IndicatorAgrees
  StopStops
PROPERTIES
  KeyboardServed
CHECK_DEADLOCK FALSE
