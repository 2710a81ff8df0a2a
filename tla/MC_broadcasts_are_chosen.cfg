SPECIFICATION PagesSpec
CONSTANTS
  i1 = i1 i2 = i2
  d1 = d1
  PeerIds = {i1, i2}
  Payloads = {}
  MaxPeers = 2
  OpenDelay = 50
  Scripts = {"console"}
  Limit <- SomeLimits
INVARIANT BroadcastsAreChosen
CHECK_DEADLOCK FALSE
