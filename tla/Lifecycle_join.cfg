SPECIFICATION FairSpec
CONSTANTS
  g1 = g1
  g2 = g2
  Host = Host
  Guests <- TwoGuests
  HostKillable = TRUE
INVARIANTS LifecycleTypeOK NothingLeftBehind GuestsFailOnlyWithoutHost
PROPERTIES GuestsEndWithHost
CHECK_DEADLOCK FALSE
