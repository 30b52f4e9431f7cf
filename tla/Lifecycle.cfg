SPECIFICATION FairSpec
CONSTANTS
  Absent = Absent
  Junk = Junk
  Garbled = Garbled
  DefaultEvtMax = 2
  Worlds <- AllWorlds
  Moving <- Moved
  MaxCount <- Bound
  MaxStuck = 1
INVARIANTS TypeOK NeverHalfSubscribed CleanStop SiteIsUnambiguous DeltasTelescope LifeInv
PROPERTIES SignalStops ComesUp
CHECK_DEADLOCK FALSE
