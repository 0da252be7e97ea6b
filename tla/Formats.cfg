SPECIFICATION FormatsSpec
CONSTANTS
  console = console
  phone = phone
  peer = peer
  broadcast = broadcast
  Native = console
  Tether = phone
  Macs <- MCMacs
  Groups <- MCGroups
  MaxOptions = 2
  MaxTokens = 5
  BlockSizes = {0, 1, 2, 3, 4}
  Capacity = 3
  DpeFields = {0, 1, 2, 9}
  MaxPointers = 4
  HeaderFloor = 1
  MaxDpe = 3
  MinFrame = 1
  Word = 16
INVARIANT NativeIsTranslated
INVARIANT FramesAreReceived
INVARIANT VerdictByLines
