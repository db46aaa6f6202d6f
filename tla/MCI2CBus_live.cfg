SPECIFICATION FairSpec
CONSTANTS
  TxSize = 2
  RxSize = 2
  MaxSend = 2
  MaxFrames = 2
  MaxErrors = 1
  FrameLens <- CompleteLens
  Errors <- NoArbitration
PROPERTIES
  ReceivedIsProcessed
  ResumedIsSent
CHECK_DEADLOCK FALSE
