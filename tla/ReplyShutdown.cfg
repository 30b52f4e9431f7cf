SPECIFICATION SSpec
CONSTANTS
  Topic = {t1, t2}
  SiteTopic = {s1}
  Pump = {p1, p2}
  NoTopic = NoTopic
  NoSite = NoSite
  Sweeper = Sweeper
  Ttl = 1
  MaxPending = 1
  MaxClock = 2
SYMMETRY Symmetry
INVARIANTS
  StoppedLeaksOnlyCut
  ShutdownInv
CHECK_DEADLOCK FALSE
