------------------------ MODULE NamedWebsocketProxy ------------------------
(***************************************************************************)
(* The named-websocket proxies of one network: their lists of channels,    *)
(* local peers, remote peers and proxies, the multicast DNS that announces *)
(* peers, and the WebSocket connections that proxies open to each other.   *)
(*                                                                         *)
(* Source: background/src/named-websocket-proxy.js and the modules it      *)
(* calls (router.js, channel.js, proxy.js, peer.js, peer-discovery.js).    *)
(* Every proxy is one node.js event loop, so a handler is one action; the  *)
(* interleavings are those of the events of different proxies, timers and  *)
(* sockets.  The model begins when every proxy has finished starting.      *)
(***************************************************************************)
EXTENDS Naturals, Sequences, FiniteSets, ShimProtocol

CONSTANTS
  Proxies,        \* the machines; each runs one proxy
  Channels,       \* channel names
  Home,           \* Home[p]: the machine on which the client with uuid p runs
  ChannelOf,      \* ChannelOf[p]: the channel that client joins
  Announcements,  \* how often an advert or a goodbye is sent (3 in the code)
  Leavers,        \* bound, for TLC: the clients that may close their socket
  Loopback,       \* may a proxy hear its own multicasts?
  MaxFailures     \* bound on connections broken and proxies crashed, for TLC

ASSUME ConstantsAssumption ==
  /\ Home \in [Peers -> Proxies]
  /\ ChannelOf \in [Peers -> Channels]
  /\ Announcements \in Nat \ {0}
  /\ Leavers \subseteq Peers
  /\ Loopback \in BOOLEAN
  /\ MaxFailures \in Nat

VARIABLES
  client,           \* client[p]: the life of the client whose uuid is p
  advSent, byeSent, \* adverts and goodbyes of p that timers have sent so far
  mdns,             \* multicast packets not received (yet, or ever), per hearer
  channels,         \* the App's five lists, for each proxy
  localPeers,
  remotePeers,
  proxies,
  discoveryAdverts,
  status,           \* status[s]: readyState of the socket object s; the side
                    \* that is dialled may also have "refused" to be one
  inbox,            \* inbox[s]: bursts of messages under way to socket s
  told,             \* told[p]: peers whose last notice to client p was connect
  posts,            \* history: the payloads posted, by whom, for whom, and
                    \* which peers the sender had been told of
  delivered,        \* delivered[p][d]: copies of payload d that reached p
  failures          \* connections broken and proxies crashed so far

clientVars == <<client, told>>
timerVars == <<advSent, byeSent>>
appVars == <<channels, localPeers, remotePeers, proxies, discoveryAdverts>>
socketVars == <<status, inbox>>
dataVars == <<posts, delivered>>
vars == <<clientVars, timerVars, mdns, appVars, socketVars, dataVars, failures>>
-----------------------------------------------------------------------------
(* Sockets.  A connection between two proxies is named by the proxy that   *)
(* dials, the peer whose advert made it dial and the number of that        *)
(* advert; a socket object is one side of a connection.                    *)

Sockets == [client : Proxies, peer : Peers, advert : 1..Announcements,
            side : {"client", "server"}]

Owner(s) == IF s.side = "client" THEN s.client ELSE Home[s.peer]

Far(s) == [s EXCEPT !.side = IF s.side = "client" THEN "server" ELSE "client"]

Addr(x) == [kind |-> "address", of |-> x]
HostHeader(x) == [kind |-> "address:port", of |-> x]

\* The ip stored beside a socket: that of the advert when this proxy dialled,
\* and the Host header of the request, which is the receiver's OWN address
\* and port, when it accepted.
Ip(s) == IF s.side = "client" THEN Addr(Home[s.peer]) ELSE HostHeader(Owner(s))

RemotePeers == [id : Peers, channel : Channels, socket : Sockets]

Packets == [kind : {"advert", "goodbye"}, peer : Peers,
            number : 1..Announcements, to : Proxies]
-----------------------------------------------------------------------------
(* Lookups.                                                                *)

Ids(entries) == {r.id : r \in entries}

\* Deviation: Channel.peers without its filter on the channel.
LocalsOfAnyChannel(x, c) == localPeers[x]

LocalsIn(x, c) == {q \in localPeers[x] : ChannelOf[q] = c}

\* Deviation: the same for remote peers.
RemotesOfAnyChannel(x, c) == remotePeers[x]

RemotesIn(x, c) == {r \in remotePeers[x] : r.channel = c}

RemotesNamed(x, id) == {r \in remotePeers[x] : r.id = id}

\* Deviation: the first proxy, whatever its ip.
AnyProxies(x, ip) == proxies[x]

ProxiesAt(x, ip) == {s \in proxies[x] : Ip(s) = ip}

\* Deviations: only the entries in hand, or none, are removed.
WithoutEntries(x, entries) == remotePeers[x] \ entries
WithoutNothing(x, entries) == remotePeers[x]

\* Peer.remove of each of entries: _.remove goes by id.
WithoutIds(x, entries) == {r \in remotePeers[x] : r.id \notin Ids(entries)}

(* Notices to local clients and messages to other proxies.                 *)

\* Deviation: connectPeers only tells the new peer.
NotifiedNobody(receivers, new) == told

\* Channel.connectPeers(new, receivers) seen from the clients in receivers.
Notified(receivers, new) ==
  [q \in Peers |-> IF q \in receivers THEN told[q] \cup new ELSE told[q]]

\* Deviation: entries are dropped without a word.
DismissedSilently(x, entries) == told

\* Channel.disconnectPeers(r, locals of r's channel) for each r in entries.
Dismissed(x, entries) ==
  [q \in Peers |->
     IF q \in localPeers[x]
     THEN told[q] \ Ids({r \in entries : r.channel = ChannelOf[q]})
     ELSE told[q]]

\* What a handler that sends each m.message on the socket m.on adds to the
\* inboxes.  The messages of one handler to one socket form a burst: its
\* order, that of the lists, is left open.
Transmitted(sent) ==
  [s \in Sockets |->
     LET burst == {m.message : m \in {n \in sent : Far(n.on) = s}}
     IN  IF burst # {} /\ status[s] = "open"
         THEN Append(inbox[s], burst)
         ELSE inbox[s]]

\* The notices that Channel.connectPeers(new, peers) sends to the remote one
\* of two sides, over the socket of the remote peer's entry.
ConnectEntries(p, entries) ==
  {[on |-> r.socket, message |-> Connect(p, r.id)] : r \in entries}
DisconnectEntries(p, entries) ==
  {[on |-> r.socket, message |-> Disconnect(p, r.id)] : r \in entries}
ConnectLocals(id, socket, locals) ==
  {[on |-> socket, message |-> Connect(q, id)] : q \in locals}
BroadcastEntries(p, entries, d) ==
  {[on |-> r.socket, message |-> Broadcast(p, r.id, d)] : r \in entries}
-----------------------------------------------------------------------------
Init ==
  /\ client = [p \in Peers |-> "new"]
  /\ advSent = [p \in Peers |-> 0]
  /\ byeSent = [p \in Peers |-> 0]
  /\ mdns = {}
  /\ channels = [x \in Proxies |-> {}]
  /\ localPeers = [x \in Proxies |-> {}]
  /\ remotePeers = [x \in Proxies |-> {}]
  /\ proxies = [x \in Proxies |-> {}]
  /\ discoveryAdverts = [x \in Proxies |-> {}]
  /\ status = [s \in Sockets |-> "none"]
  /\ inbox = [s \in Sockets |-> <<>>]
  /\ told = [p \in Peers |-> {}]
  /\ posts = {}
  /\ delivered = [p \in Peers |-> [d \in Data |-> 0]]
  /\ failures = 0
-----------------------------------------------------------------------------
(* Clients of the local server.                                            *)

\* 'connection' on the local server: the peer's three adverts are scheduled.
ClientJoin(p) ==
  LET x == Home[p]
      c == ChannelOf[p]
      remotes == RemotesIn(x, c)
  IN  /\ client[p] = "new"
      /\ client' = [client EXCEPT ![p] = "open"]
      /\ channels' = [channels EXCEPT ![x] = @ \cup {c}]
      /\ localPeers' = [localPeers EXCEPT ![x] = @ \cup {p}]
      /\ told' = [Notified(LocalsIn(x, c), {p})
                    EXCEPT ![p] = LocalsIn(x, c) \cup Ids(remotes)]
      /\ inbox' = Transmitted(ConnectEntries(p, remotes))
      /\ UNCHANGED <<timerVars, mdns, remotePeers, proxies, discoveryAdverts,
                     status, dataVars, failures>>

\* 'close' on a client's socket.  handleLocalDisconnection is called without
\* its channels argument, so the channel stays.  Three goodbyes are scheduled;
\* the timers of adverts not yet sent are left running.
ClientLeave(p) ==
  LET x == Home[p]
      c == ChannelOf[p]
  IN  /\ client[p] = "open" /\ p \in Leavers
      /\ client' = [client EXCEPT ![p] = "closed"]
      /\ localPeers' = [localPeers EXCEPT ![x] = @ \ {p}]
      /\ told' = [q \in Peers |->
                    IF q = p THEN {}
                    ELSE IF q \in LocalsIn(x, c) THEN told[q] \ {p}
                    ELSE told[q]]
      /\ inbox' = Transmitted(DisconnectEntries(p, RemotesIn(x, c)))
      /\ UNCHANGED <<timerVars, mdns, channels, remotePeers, proxies,
                     discoveryAdverts, status, dataVars, failures>>

Posts == [source : Peers, data : Data, to : SUBSET Peers, known : SUBSET Peers]

Post(p, d, to) == [source |-> p, data |-> d, to |-> to, known |-> told[p]]

\* Whom a broadcast of p is for: the others on its channel.
Audience(p) == {q \in Peers \ {p} : ChannelOf[q] = ChannelOf[p]}

\* A client broadcasts d: local companions get it at once, and one copy
\* leaves for each remote entry of the channel.
BroadcastPost(p, d) ==
  LET x == Home[p]
      c == ChannelOf[p]
  IN  /\ client[p] = "open"
      /\ \A m \in posts : m.data # d
      /\ posts' = posts \cup {Post(p, d, Audience(p))}
      /\ delivered' = [q \in Peers |->
                         IF q \in LocalsIn(x, c) \ {p}
                         THEN [delivered[q] EXCEPT ![d] = @ + 1]
                         ELSE delivered[q]]
      /\ inbox' = Transmitted(BroadcastEntries(p, RemotesIn(x, c), d))
      /\ UNCHANGED <<clientVars, timerVars, mdns, appVars, status, failures>>

\* A client sends d to the uuid q, which may be any: of a peer that has gone, of
\* one on another channel, its own.  The lists are searched whole: d goes to the
\* local peer of that id if there is one, else on the socket of the first remote
\* entry of that id, else nowhere.
DirectPost(p, q, d) ==
  LET x == Home[p]
  IN  /\ client[p] = "open"
      /\ \A m \in posts : m.data # d
      /\ posts' = posts \cup {Post(p, d, {q})}
      /\ \/ /\ q \in localPeers[x]
            /\ delivered' = [delivered EXCEPT ![q][d] = @ + 1]
            /\ UNCHANGED inbox
         \/ /\ q \notin localPeers[x]
            /\ \E r \in RemotesNamed(x, q) :
                 inbox' = Transmitted({[on |-> r.socket,
                                        message |-> Message(p, q, d)]})
            /\ UNCHANGED delivered
         \/ /\ q \notin localPeers[x] \cup Ids(remotePeers[x])
            /\ UNCHANGED <<inbox, delivered>>
      /\ UNCHANGED <<clientVars, timerVars, mdns, appVars, status, failures>>
-----------------------------------------------------------------------------
(* Multicast DNS.                                                          *)

Hearers(p) == IF Loopback THEN Proxies ELSE Proxies \ {Home[p]}

\* One timer of PeerDiscovery.advertisePeer fires.  A packet that is lost is
\* one that stays in mdns.
SendAdvert(p) ==
  /\ client[p] \in {"open", "closed"}
  /\ advSent[p] < Announcements
  /\ advSent' = [advSent EXCEPT ![p] = @ + 1]
  /\ mdns' = mdns \cup [kind : {"advert"}, peer : {p},
                        number : {advSent[p] + 1}, to : Hearers(p)]
  /\ UNCHANGED <<clientVars, byeSent, appVars, socketVars, dataVars, failures>>

\* One timer of cancelPeerAdvert fires: the n-th goodbye is due after the
\* n-th advert, since both count from 0, 1, 2 seconds after their event.
SendGoodbye(p) ==
  /\ client[p] = "closed"
  /\ byeSent[p] < advSent[p]
  /\ byeSent' = [byeSent EXCEPT ![p] = @ + 1]
  /\ mdns' = mdns \cup [kind : {"goodbye"}, peer : {p},
                        number : {byeSent[p] + 1}, to : Hearers(p)]
  /\ UNCHANGED <<clientVars, advSent, appVars, socketVars, dataVars, failures>>

\* createRemotePeer: list the peer, tell the local peers of its channel, and
\* tell the peer's own proxy of each of them.
CreateRemotePeer(x, p, socket) ==
  /\ remotePeers' =
       [remotePeers EXCEPT
          ![x] = @ \cup {[id |-> p, channel |-> ChannelOf[p],
                          socket |-> socket]}]
  /\ told' = Notified(LocalsIn(x, ChannelOf[p]), {p})
  /\ inbox' = Transmitted(ConnectLocals(p, socket, LocalsIn(x, ChannelOf[p])))

\* The handler's early returns: own advert, channel unknown, peer known.
IgnoreAdvert(x, p) ==
  /\ \/ Home[p] = x
     \/ ChannelOf[p] \in channels[x] /\ RemotesNamed(x, p) # {}
  /\ UNCHANGED <<client, told, timerVars, appVars, socketVars, dataVars,
                 failures>>

CacheAdvert(x, p) ==
  /\ Home[p] # x
  /\ ChannelOf[p] \notin channels[x]
  /\ discoveryAdverts' = [discoveryAdverts EXCEPT ![x] = @ \cup {p}]
  /\ UNCHANGED <<client, told, timerVars, channels, localPeers, remotePeers,
                 proxies, socketVars, dataVars, failures>>

\* Deviation: handleResponse does not compare the advert's ip with its own.
WantsAnyPeer(x, p) ==
  /\ ChannelOf[p] \in channels[x]
  /\ RemotesNamed(x, p) = {}

\* Deviation: a peer is wanted even if its channel is unknown here.
WantsUnboundPeer(x, p) ==
  /\ Home[p] # x
  /\ RemotesNamed(x, p) = {}

WantsPeer(x, p) ==
  /\ Home[p] # x
  /\ ChannelOf[p] \in channels[x]
  /\ RemotesNamed(x, p) = {}

\* No proxy entry of that address: dial.  The peer is listed only when the
\* socket opens.  A proxy that crashed after advertising p has another port and
\* refuses.
Dial(x, p, n) ==
  LET s == [client |-> x, peer |-> p, advert |-> n, side |-> "client"]
  IN  /\ WantsPeer(x, p)
      /\ ProxiesAt(x, Addr(Home[p])) = {}
      /\ status' = [status EXCEPT
                      ![s] = "connecting",
                      ![Far(s)] = IF client[p] = "lost" THEN "refused" ELSE @]
      /\ UNCHANGED <<client, told, timerVars, appVars, inbox, dataVars, failures>>

ReuseProxy(x, p) ==
  /\ WantsPeer(x, p)
  /\ \E s \in ProxiesAt(x, Addr(Home[p])) : CreateRemotePeer(x, p, s)
  /\ UNCHANGED <<client, timerVars, channels, localPeers, proxies,
                 discoveryAdverts, status, dataVars, failures>>

\* An advert of p reaches x: PeerDiscovery.handleResponse and 'discover'.
Discover(x, p, n) ==
  LET packet == [kind |-> "advert", peer |-> p, number |-> n, to |-> x]
  IN  /\ packet \in mdns
      /\ mdns' = mdns \ {packet}
      /\ \/ IgnoreAdvert(x, p)
         \/ CacheAdvert(x, p)
         \/ Dial(x, p, n)
         \/ ReuseProxy(x, p)

\* A goodbye of p reaches x: every entry of that id is removed.  A goodbye
\* has no A record, so the test on the sender's ip does not apply to it.
Goodbye(x, p, n) ==
  LET packet == [kind |-> "goodbye", peer |-> p, number |-> n, to |-> x]
      gone == IF ChannelOf[p] \in channels[x] THEN RemotesNamed(x, p) ELSE {}
  IN  /\ packet \in mdns
      /\ mdns' = mdns \ {packet}
      /\ told' = Dismissed(x, gone)
      /\ remotePeers' = [remotePeers EXCEPT ![x] = WithoutIds(x, gone)]
      /\ UNCHANGED <<client, timerVars, channels, localPeers, proxies,
                     discoveryAdverts, socketVars, dataVars, failures>>
-----------------------------------------------------------------------------
(* Connections between proxies.                                            *)

\* 'connection' on the external server of the proxy dialled.
Accept(s) ==
  /\ s.side = "server"
  /\ status[Far(s)] = "connecting"
  /\ status[s] = "none"
  /\ status' = [status EXCEPT ![s] = "open"]
  /\ proxies' = [proxies EXCEPT ![Owner(s)] = @ \cup {s}]
  /\ UNCHANGED <<clientVars, timerVars, mdns, channels, localPeers,
                 remotePeers, discoveryAdverts, inbox, dataVars, failures>>

\* 'open' on the socket of the dialler, once the other side has accepted, even if
\* that has closed since: what the discover handler looked up when the advert
\* came is not looked at again.
OpenSocket(s) ==
  LET x == Owner(s)
  IN  /\ s.side = "client"
      /\ status[s] = "connecting"
      /\ status[Far(s)] \in {"open", "closed"}
      /\ status' = [status EXCEPT ![s] = "open"]
      /\ proxies' = [proxies EXCEPT ![x] = @ \cup {s}]
      /\ CreateRemotePeer(x, s.peer, s)
      /\ UNCHANGED <<client, timerVars, mdns, channels, localPeers,
                     discoveryAdverts, dataVars, failures>>

\* One more failure that nothing in the model explains.
Fail == failures < MaxFailures /\ failures' = failures + 1

\* A dial that fails leaves no trace at the dialler: nothing handles it.  It may
\* fail although it was accepted, if the other side closes.
DialFails(s) ==
  /\ s.side = "client"
  /\ status[s] = "connecting"
  /\ IF status[Far(s)] \in {"closed", "refused"} THEN UNCHANGED failures ELSE Fail
  /\ status' = [status EXCEPT ![s] = "closed",
                              ![Far(s)] = IF @ = "none" THEN "refused" ELSE @]
  /\ UNCHANGED <<clientVars, timerVars, mdns, appVars, inbox, dataVars>>

\* 'close' on either side: Proxy.close goes by ip and removes by id.
CloseSocket(s) ==
  LET x == Owner(s)
      remotes == {r \in remotePeers[x] : Ip(r.socket) = Ip(s)}
  IN  /\ status[s] = "open"
      /\ IF status[Far(s)] = "closed" THEN UNCHANGED failures ELSE Fail
      /\ status' = [status EXCEPT ![s] = "closed"]
      /\ inbox' = [inbox EXCEPT ![s] = <<>>]
      /\ told' = Dismissed(x, remotes)
      /\ remotePeers' = [remotePeers EXCEPT ![x] = WithoutIds(x, remotes)]
      /\ proxies' = [proxies EXCEPT ![x] = @ \ ProxiesAt(x, Ip(s))]
      /\ UNCHANGED <<client, timerVars, mdns, channels, localPeers,
                     discoveryAdverts, dataVars>>
-----------------------------------------------------------------------------
(* 'message' on a proxy's socket: Router.handleRemoteMessage.              *)

\* What is left of a queue of bursts once m is taken out of the first one.
Rest(bursts, m) ==
  IF Head(bursts) = {m} THEN Tail(bursts)
  ELSE <<Head(bursts) \ {m}>> \o Tail(bursts)

\* The inboxes when socket s takes m, boxes being the inboxes with what the
\* handler sends.
Consumed(boxes, s, m) == [boxes EXCEPT ![s] = Rest(boxes[s], m)]

ReceiveData(s, m) ==
  /\ m.action \in {"broadcast", "message"}
  /\ delivered' = IF m.target \in localPeers[Owner(s)]
                  THEN [delivered EXCEPT ![m.target][m.data] = @ + 1]
                  ELSE delivered
  /\ inbox' = Consumed(inbox, s, m)
  /\ UNCHANGED <<clientVars, remotePeers>>

\* Only the one local peer that the message is for learns of the new peer.
ReceiveConnect(s, m) ==
  LET x == Owner(s)
  IN  /\ m.action = "connect"
      /\ RemotesNamed(x, m.target) = {}
      /\ m.source \in localPeers[x]
      /\ remotePeers' =
           [remotePeers EXCEPT
              ![x] = @ \cup {[id |-> m.target,
                              channel |-> ChannelOf[m.source],
                              socket |-> s]}]
      /\ told' = Notified({m.source}, {m.target})
      /\ inbox' = Consumed(Transmitted(ConnectLocals(m.target, s, {m.source})),
                           s, m)
      /\ UNCHANGED <<client, delivered>>

\* Known peer, unknown addressee, or a disconnect: nothing is done.
ReceiveIgnored(s, m) ==
  /\ \/ m.action = "disconnect"
     \/ /\ m.action = "connect"
        /\ \/ RemotesNamed(Owner(s), m.target) # {}
           \/ m.source \notin localPeers[Owner(s)]
  /\ inbox' = Consumed(inbox, s, m)
  /\ UNCHANGED <<clientVars, remotePeers, delivered>>

Receive(s) ==
  /\ status[s] = "open"
  /\ inbox[s] # <<>>
  /\ \E m \in Head(inbox[s]) :
       \/ ReceiveData(s, m)
       \/ ReceiveConnect(s, m)
       \/ ReceiveIgnored(s, m)
  /\ UNCHANGED <<timerVars, mdns, channels, localPeers, proxies,
                 discoveryAdverts, status, posts, failures>>
-----------------------------------------------------------------------------
\* Proxy x dies and is started again: its lists, its timers and its ends of
\* all connections are gone, and so are its clients.
Crash(x) ==
  /\ Fail
  /\ client' = [p \in Peers |->
                  IF Home[p] = x /\ client[p] # "new" THEN "lost" ELSE client[p]]
  /\ told' = [p \in Peers |-> IF Home[p] = x THEN {} ELSE told[p]]
  /\ mdns' = {k \in mdns : k.to # x}
  /\ channels' = [channels EXCEPT ![x] = {}]
  /\ localPeers' = [localPeers EXCEPT ![x] = {}]
  /\ remotePeers' = [remotePeers EXCEPT ![x] = {}]
  /\ proxies' = [proxies EXCEPT ![x] = {}]
  /\ discoveryAdverts' = [discoveryAdverts EXCEPT ![x] = {}]
  /\ status' = [s \in Sockets |->
                  IF Owner(s) = x /\ status[s] \in {"connecting", "open"}
                  THEN "closed"
                  ELSE IF Owner(s) = x /\ status[s] = "none"
                                       /\ status[Far(s)] # "none"
                  THEN "refused"
                  ELSE status[s]]
  /\ inbox' = [s \in Sockets |-> IF Owner(s) = x THEN <<>> ELSE inbox[s]]
  /\ UNCHANGED <<timerVars, dataVars>>
-----------------------------------------------------------------------------
ClientStep ==
  \E p \in Peers :
    \/ ClientJoin(p)
    \/ ClientLeave(p)
    \/ \E d \in Data : BroadcastPost(p, d) \/ \E q \in Peers : DirectPost(p, q, d)

\* What the timers, the network and the event loops do without being asked.
LoopStep ==
  \/ \E x \in Proxies, p \in Peers, n \in 1..Announcements :
       Discover(x, p, n) \/ Goodbye(x, p, n)
  \/ \E s \in Sockets : Accept(s) \/ OpenSocket(s) \/ Receive(s)

Timer == \E p \in Peers : SendAdvert(p) \/ SendGoodbye(p)

Failure ==
  \/ \E s \in Sockets : DialFails(s) \/ CloseSocket(s)
  \/ \E x \in Proxies : Crash(x)

Next == ClientStep \/ LoopStep \/ Timer \/ Failure

Spec == Init /\ [][Next]_vars
-----------------------------------------------------------------------------
(* A calm network: no connection fails and no proxy dies.  Timers fire, and *)
(* connections and messages that have arrived are handled, since node.js   *)
(* serves every ready event.  Packets may be lost, but of the adverts of a *)
(* peer at least one reaches each hearer.  Clients owe nothing.            *)

CalmNext == ClientStep \/ LoopStep \/ Timer

\* All adverts of p have been sent and none of them has reached x.
Unheard(x, p) ==
  /\ advSent[p] = Announcements
  /\ [kind : {"advert"}, peer : {p}, number : 1..Announcements, to : {x}] \subseteq mdns

OwedStep ==
  \/ \E k \in mdns : Unheard(k.to, k.peer) /\ Discover(k.to, k.peer, k.number)
  \/ \E s \in Sockets : Accept(s) \/ OpenSocket(s) \/ Receive(s)
  \/ Timer

CalmSpec == Init /\ [][CalmNext]_vars /\ WF_vars(OwedStep)
=============================================================================
