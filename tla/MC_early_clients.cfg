SPECIFICATION Spec
CONSTANTS
  p1 = p1 p2 = p2 p3 = p3 q1 = q1 q2 = q2 mdnsName = mdnsName
  Hosts = {"desktop"}
  Interfaces <- SomeInterfaces
  Ports = {5}
  Symbols = {"a", "b", "[", "]._ws._tcp.local", "$&", "{peerId}"}
  Clients = {p1, p2, p3}
  Path <- SomePaths
  Elsewhere = "ip9"
  Hostname = mdnsName
  Foreign <- SomeForeign
INVARIANT LocalsAreConnected
CHECK_DEADLOCK FALSE
