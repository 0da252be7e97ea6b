SPECIFICATION Spec
CONSTANTS
  TxDepth = 2
  RxDepth = 1
  MaxErrors = 1
  MaxSent = 2
  MaxCame = 2
  PerBlock = 2
  MaxPhones = 2
INVARIANT TransfersAreKnown
INVARIANT FramesInOrder
PROPERTY FramesLeave
CHECK_DEADLOCK FALSE
