SPECIFICATION SSpec
CONSTANTS
  Topic = {t1}
  SiteTopic = {s1}
  Pump = {p1}
  NoTopic = NoTopic
  NoSite = NoSite
  Sweeper = Sweeper
  Ttl = 4
  MaxPending = 1
  MaxClock = 4
INVARIANT NoReplyTopicOutlivesShutdown
CHECK_DEADLOCK FALSE
