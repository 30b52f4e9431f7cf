SPECIFICATION Spec
CONSTANTS
  Absent = Absent
  DefaultEvtMax = 1
  Scale = 2
  Uplinks <- Blocks
  MaxU32 = 3
  MaxTime = 5
  MaxOffers = 5
INVARIANTS TypeOK AppIsAgreed
PROPERTY LimitSpec
