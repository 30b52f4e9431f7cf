SPECIFICATION Spec
CONSTANTS
  Topic = {t1, t2, t3}
  SiteTopic = {s1, s2}
  Pump = {p1, p2}
  NoTopic = NoTopic
  NoSite = NoSite
  Ttl = 1
  MaxPending = 2
  MaxClock = 2
SYMMETRY Symmetry
INVARIANTS TypeOK PendingIsListening LiveHasOwner OneOutcome ReplyGoesHome StaleIsPrefix IInv
PROPERTIES NoEarlyExpiry
