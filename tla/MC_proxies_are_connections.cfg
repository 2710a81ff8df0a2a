SPECIFICATION Spec
CONSTANTS
  x1 = x1 x2 = x2 x3 = x3
  p1 = p1 p2 = p2 p3 = p3
  c1 = c1 c2 = c2 d1 = d1
  Proxies = {x1, x2, x3}
  Channels = {c1}
  Peers = {p1, p2, p3}
  Data = {}
  Home <- ThreeHomes
  ChannelOf <- OneChannel
  Announcements = 1
  Leavers = {}
  Loopback = FALSE
  MaxFailures = 1
INVARIANTS ProxiesAreConnections
CHECK_DEADLOCK FALSE
