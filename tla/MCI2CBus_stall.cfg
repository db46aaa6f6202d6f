SPECIFICATION FairSpec
CONSTANTS
  TxSize = 2
  RxSize = 2
  MaxSend = 2
  MaxFrames = 0
  MaxErrors = 0
  FrameLens <- AccessoryLens
  Errors <- NoErrors
PROPERTIES
  NextIsStarted
