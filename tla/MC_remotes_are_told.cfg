SPECIFICATION Spec
CONSTANTS
  x1 = x1 x2 = x2 x3 = x3
  p1 = p1 p2 = p2 p3 = p3
  c1 = c1 c2 = c2 d1 = d1
  Proxies = {x1, x2}
  Channels = {c1}
  Peers = {p1, p2, p3}
  Data = {}
  Home <- OneTwoHome
  ChannelOf <- OneChannel
  Announcements = 2
  Leavers = {}
  Loopback = FALSE
  MaxFailures = 0
INVARIANTS RemotesAreTold
CHECK_DEADLOCK FALSE
