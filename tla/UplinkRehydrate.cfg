SPECIFICATION FairSpec
CONSTANTS
  evtInstance = evtInstance
  evtComponent = evtComponent
  data = data
  Pump = {evtInstance}
  EvtPump = {evtInstance}
  Configs <- DefaultOnly
  MaxMsgs <- OnePumpMsgs
  MaxFlaps = 1
  NoMsg = NoMsg
PROPERTY EveryReconnectRehydrates
CHECK_DEADLOCK FALSE
