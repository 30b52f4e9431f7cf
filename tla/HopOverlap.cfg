SPECIFICATION Spec
CONSTANTS
  Junk = Junk
  Garbled = Garbled
  ForeignHop = ForeignHop
  Nets <- ClassNamedChannel
  QueueDepth = 2
  MaxPath = 6
INVARIANT OneCopyPerPath
CHECK_DEADLOCK FALSE
