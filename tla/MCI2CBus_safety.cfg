SPECIFICATION Spec
CONSTANTS
  TxSize = 2
  RxSize = 2
  MaxSend = 3
  MaxFrames = 3
  MaxErrors = 1
  FrameLens <- AccessoryLens
  Errors <- AllErrors
INVARIANTS
  TypeOK
  NoAbandonedMessage
  BlockHoldsHead
  ReceivedWholeOnce
  NoLostWakeup
  BreakpointOnlyWhenFull
PROPERTIES
  ConsumedWasSent
CHECK_DEADLOCK FALSE
