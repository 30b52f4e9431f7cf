SPECIFICATION FairSpec
CONSTANTS
  Junk = Junk
  Garbled = Garbled
  ForeignHop = ForeignHop
  Nets <- AllNets
  QueueDepth = 2
  MaxPath = 6
INVARIANTS TypeOK HopTagTellsPath LoopDropsAreLoops CommandsGoHome OneCopyPerPath CopyInv
PROPERTY MessagesGetThrough
CHECK_DEADLOCK FALSE
