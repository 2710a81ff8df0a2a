SPECIFICATION PagesSpec
CONSTANTS
  i1 = i1 i2 = i2
  d1 = d1
  PeerIds = {i1}
  Payloads = {d1}
  MaxPeers = 2
  OpenDelay = 5
  Scripts = {"any", "console", "tracker"}
  Limit <- SomeLimits
INVARIANTS TypeOK ConnectFirst ConsoleFollows
PROPERTIES NothingAfterClose RootForward UnlistedAreDisconnected GoneAreErased
CHECK_DEADLOCK FALSE
