SPECIFICATION Spec
CONSTANTS
  evtInstance = evtInstance
  evtComponent = evtComponent
  data = data
  Pump = {evtInstance, evtComponent, data}
  EvtPump = {evtInstance, evtComponent}
  Configs <- AllConfigs
  MaxMsgs <- SafetyMsgs
  MaxFlaps = 1
  NoMsg = NoMsg
INVARIANTS TypeOK NoSilentLoss CountersAddUp ReplayInOrder OvertakesAtMostOne BufferedInTurn RelayInv
