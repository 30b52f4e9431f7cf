SPECIFICATION FairSpec
CONSTANTS
  evtInstance = evtInstance
  evtComponent = evtComponent
  data = data
  Pump = {evtInstance, evtComponent}
  EvtPump = {evtInstance, evtComponent}
  Configs <- DefaultOnly
  MaxMsgs <- LivenessMsgs
  MaxFlaps = 2
  NoMsg = NoMsg
PROPERTY BufferDrains
