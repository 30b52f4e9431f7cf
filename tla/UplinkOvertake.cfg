SPECIFICATION Spec
CONSTANTS
  evtInstance = evtInstance
  evtComponent = evtComponent
  data = data
  Pump = {evtInstance}
  EvtPump = {evtInstance}
  Configs <- DefaultOnly
  MaxMsgs <- OnePumpMsgs
  MaxFlaps = 1
  NoMsg = NoMsg
INVARIANT NoOvertaking
CHECK_DEADLOCK FALSE
