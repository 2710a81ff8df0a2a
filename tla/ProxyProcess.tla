---------------------------- MODULE ProxyProcess ----------------------------
(***************************************************************************)
(* One proxy as a process: how it starts, what it takes from its servers   *)
(* and from the multicast while it does, and what becomes of it when a     *)
(* handler throws or its window is closed.                                 *)
(*                                                                         *)
(* Source: background/src/main.js and bin/cli, named-websocket-proxy.js    *)
(* (init to createPeerDiscovery), network-utils.js, proxy-server.js, and   *)
(* peer-discovery.js with its records.  What handlers do to the lists and  *)
(* to other machines once all has started is NamedWebsocketProxy's.        *)
(***************************************************************************)
EXTENDS PeerDiscoveryRecord

CONSTANTS
  Hosts,        \* how it is run, a subset of {"cli", "desktop", "mac"}
  Interfaces,   \* what the machine's network interfaces may be
  Ports,        \* what the system may choose as port of the external server
  Symbols,      \* what names of channels are made of
  Clients,      \* the uuids of the clients of this machine
  Path,         \* Path[c]: the channel in the URL that c opens, maybe none
  Elsewhere,    \* the address of another machine
  Hostname,     \* the uuid that stands in for a host name
  Foreign       \* params of the peers that other proxies announce

ASSUME ProcessAssumption ==
  /\ Hosts \subseteq {"cli", "desktop", "mac"}
  /\ \A i \in Interfaces :
       i.family \in {"IPv4", "IPv6"} /\ i.internal \in BOOLEAN /\ i.address # Elsewhere
  /\ Ports \subseteq Nat \ {0}
  /\ Path \in [Clients -> Seq(Symbols)]
  /\ Clients \cap {"[", Suffix, Placeholder} = {}
  /\ \A f \in Foreign :  \* as this program announces its own
       /\ Encodable(f)
       /\ f.channelName \in Seq(Symbols)
       /\ f.peerId = <<f.peerId[1]>>
       /\ f.peerId[1] \notin {"[", Suffix, Placeholder}
       /\ f.port \in Nat \ {0}

VARIABLES
  host,             \* how this one is run
  process,          \* "running" or "gone"
  stage,            \* how far the start has come
  publicIp, publicPort,
  localServer,      \* the two HTTP servers
  externalServer,
  channelName,      \* the global of proxy-server.js
  client,           \* client[c]: the socket of c
  localPeers,       \* App.localPeers, ids with their channels
  handled,          \* the clients whose socket has its handlers
  announced,        \* packets given to the timers of PeerDiscovery
  heard,            \* history: the events that handleResponse emitted
  window            \* the dashboard

serverVars == <<publicIp, publicPort, localServer, externalServer>>
listVars == <<localPeers, handled, announced>>
vars == <<host, process, stage, serverVars, channelName, client, listVars,
          heard, window>>
-----------------------------------------------------------------------------
(* Exceptions.  One that no handler catches ends a node.js process, while  *)
(* Electron shows a box and goes on with the next event.                   *)

Closed(clients) ==
  [c \in Clients |-> IF clients[c] = "open" THEN "closed" ELSE clients[c]]

\* How an action ends that leaves the sockets of clients as given.
Ends(gone, clients) ==
  /\ process' = IF gone THEN "gone" ELSE process
  /\ client' = IF gone THEN Closed(clients) ELSE clients

Uncaught(throws, clients) == Ends(throws /\ host = "cli", clients)
-----------------------------------------------------------------------------
(* The start.                                                              *)

Init ==
  /\ host \in Hosts
  /\ process = "running"
  /\ stage = "loaded"
  /\ publicIp = "none" /\ publicPort = 0
  /\ localServer = "none" /\ externalServer = "none"
  /\ channelName = <<>>
  /\ client = [c \in Clients |-> "new"]
  /\ localPeers = {} /\ handled = {} /\ announced = {}
  /\ heard = {}
  /\ window = "none"

\* Deviation: only Electron starts the proxy.
InitOnReady ==
  /\ process = "running" /\ stage = "loaded" /\ host # "cli"
  /\ stage' = "resolving"
  /\ window' = "open"
  /\ UNCHANGED <<host, process, serverVars, channelName, client, listVars,
                 heard>>

\* Electron's 'ready', or the last line of bin/cli: App.init.
InitApp ==
  /\ process = "running" /\ stage = "loaded"
  /\ stage' = "resolving"
  /\ window' = IF host = "cli" THEN window ELSE "open"
  /\ UNCHANGED <<host, process, serverVars, channelName, client, listVars,
                 heard>>

External(interfaces) ==
  {i.address : i \in {j \in interfaces : ~j.internal /\ j.family = "IPv4"}}

\* findv4Ip resolves: startWithPublicIp makes both servers listen.  The first
\* address is taken, of interfaces that come in no particular order.
StartWithPublicIp(interfaces) ==
  /\ process = "running" /\ stage = "resolving"
  /\ publicIp' \in External(interfaces)
  /\ stage' = "starting"
  /\ publicPort' = 0
  /\ localServer' = "binding" /\ externalServer' = "binding"
  /\ UNCHANGED <<host, process, channelName, client, listVars, heard, window>>

\* findv4Ip is rejected, which is logged and nothing else.
NoAddress(interfaces) ==
  /\ process = "running" /\ stage = "resolving"
  /\ External(interfaces) = {}
  /\ stage' = "noAddress"
  /\ UNCHANGED <<host, process, serverVars, channelName, client, listVars,
                 heard, window>>

LocalListens ==
  /\ process = "running" /\ localServer = "binding"
  /\ localServer' = "listening"
  /\ UNCHANGED <<host, process, stage, publicIp, publicPort, externalServer,
                 channelName, client, listVars, heard, window>>

\* Port 9009 is taken: an 'error' event that nobody listens to.
LocalFails ==
  /\ process = "running" /\ localServer = "binding"
  /\ localServer' = "failed"
  /\ Uncaught(TRUE, client)
  /\ UNCHANGED <<host, stage, publicIp, publicPort, externalServer,
                 channelName, listVars, heard, window>>

\* Deviation: discovery does not wait for the external server's port.
ExternalListensLate(port) ==
  /\ process = "running" /\ externalServer = "binding"
  /\ externalServer' = "listening"
  /\ stage' = "ready"
  /\ UNCHANGED <<host, process, publicIp, publicPort, localServer,
                 channelName, client, listVars, heard, window>>

\* 'listening' and 'ready' of the external server; the promise resolves and
\* createPeerDiscovery runs before another event is taken.
ExternalListens(port) ==
  /\ process = "running" /\ externalServer = "binding"
  /\ externalServer' = "listening"
  /\ publicPort' = port
  /\ stage' = "ready"
  /\ UNCHANGED <<host, process, publicIp, localServer, channelName, client,
                 listVars, heard, window>>

\* The address has gone: another 'error' event that nobody listens to, and a
\* promise that is never resolved.
ExternalFails ==
  /\ process = "running" /\ externalServer = "binding"
  /\ externalServer' = "failed"
  /\ Uncaught(TRUE, client)
  /\ UNCHANGED <<host, stage, publicIp, publicPort, localServer,
                 channelName, listVars, heard, window>>
-----------------------------------------------------------------------------
(* The servers.  An upgrade that is not to a WebSocket is left alone.      *)

\* What advertisePeer and cancelPeerAdvert are told of a peer.
Params(peer) ==
  [channelName |-> peer.channel, peerId |-> <<peer.id>>, url |-> "/nourl",
   hostname |-> Hostname, ip |-> publicIp, port |-> publicPort]

Joined(c) == [client EXCEPT ![c] = "open"]

\* A URL without a channel: the server closes the socket.
RefuseClient(c) ==
  /\ channelName' = Path[c]
  /\ channelName' = <<>>
  /\ client' = [client EXCEPT ![c] = "closed"]
  /\ UNCHANGED <<process, listVars>>

\* 'connection' on the local server.  The peer is listed before it is
\* advertised; before createPeerDiscovery has run advertisePeer throws, and the
\* socket gets no handlers.
AcceptClient(c) ==
  LET peer == [id |-> c, channel |-> channelName']
      ready == stage = "ready"
  IN  /\ channelName' = Path[c]
      /\ channelName' # <<>>
      /\ localPeers' = localPeers \cup {peer}
      /\ announced' = IF ready THEN announced \cup {Advert(Params(peer))}
                      ELSE announced
      /\ handled' = IF ready THEN handled \cup {c} ELSE handled
      /\ Uncaught(~ready, Joined(c))

ClientConnects(c) ==
  /\ process = "running" /\ localServer = "listening" /\ client[c] = "new"
  /\ RefuseClient(c) \/ AcceptClient(c)
  /\ UNCHANGED <<host, stage, serverVars, heard, window>>

\* An upgrade on the external server: another proxy asks for "/remote".
ProxyConnects ==
  /\ process = "running" /\ externalServer = "listening"
  /\ channelName' = <<"remote">>
  /\ UNCHANGED <<host, process, stage, serverVars, client, listVars, heard,
                 window>>

Companions(c) ==
  {peer \in localPeers :
     \E own \in localPeers : own.id = c /\ own.channel = peer.channel}

\* A client broadcasts: Channel.broadcastMessage throws if there is no payload
\* or nobody in the channel, the sender counting as one.
ClientBroadcasts(c, payload) ==
  /\ process = "running" /\ client[c] = "open" /\ c \in handled
  /\ Uncaught(payload = "null" \/ Companions(c) = {}, client)
  /\ UNCHANGED <<host, stage, serverVars, channelName, listVars, heard,
                 window>>

\* 'close' of a client's socket, if it has its handlers: the peer is unlisted
\* and a goodbye announced.
ClientCloses(c) ==
  LET own == {peer \in localPeers : peer.id = c}
  IN  /\ process = "running" /\ client[c] = "open"
      /\ client' = [client EXCEPT ![c] = "closed"]
      /\ localPeers' = IF c \in handled THEN localPeers \ own ELSE localPeers
      /\ announced' =
           IF c \in handled
           THEN announced \cup {Goodbye(Params(peer)) : peer \in own}
           ELSE announced
      /\ UNCHANGED <<host, process, stage, serverVars, channelName, handled,
                     heard, window>>
-----------------------------------------------------------------------------
(* The multicast.                                                          *)

\* Each peer's packets, and what is left of them when answers are missing.
Packets ==
  UNION {{[type \in types |-> packet[type]] : types \in SUBSET DOMAIN packet} :
           packet \in {Advert(f) : f \in Foreign} \cup {Goodbye(f) : f \in Foreign}}

\* Channel.find and Peer.find, which both events call first, throw on a
\* missing name.
Named(data) ==
  /\ Has(data, "channelName") /\ Has(data, "peerId")
  /\ \E i \in DOMAIN data.channelName : data.channelName[i] # ""

\* handleResponse, for a packet of another proxy or an own one that comes back.
ReceivePacket(packet) ==
  LET outcome == Heard(packet, publicIp)
      emits == outcome.event \in {"discover", "goodbye"}
  IN  /\ process = "running" /\ stage = "ready"
      /\ heard' = IF emits THEN heard \cup {outcome} ELSE heard
      /\ Uncaught(outcome.event = "throws" \/ (emits /\ ~Named(outcome.data)),
                  client)
      /\ UNCHANGED <<host, stage, serverVars, channelName, listVars, window>>
-----------------------------------------------------------------------------
(* The end.                                                                *)

\* 'window-all-closed': only on a Mac does the proxy go on without windows.
EndsWithWindow == host # "mac"

\* The window's 'closed', and what follows from it.
WindowCloses ==
  /\ process = "running" /\ window = "open"
  /\ window' = "closed"
  /\ Ends(EndsWithWindow, client)
  /\ UNCHANGED <<host, stage, serverVars, channelName, listVars, heard>>

\* Ctrl+C; 'will-quit' calls App.destroy, which announces nothing.
Quit ==
  /\ process = "running"
  /\ Ends(TRUE, client)
  /\ UNCHANGED <<host, stage, serverVars, channelName, listVars, heard, window>>
-----------------------------------------------------------------------------
Starting ==
  \/ InitApp
  \/ \E interfaces \in SUBSET Interfaces :
       StartWithPublicIp(interfaces) \/ NoAddress(interfaces)
  \/ LocalListens
  \/ LocalFails
  \/ \E port \in Ports : ExternalListens(port)
  \/ ExternalFails

Next ==
  \/ Starting
  \/ \E c \in Clients :
       \/ ClientConnects(c)
       \/ ClientCloses(c)
       \/ \E payload \in {"data", "null"} : ClientBroadcasts(c, payload)
  \/ ProxyConnects
  \/ \E packet \in Packets \cup announced : ReceivePacket(packet)
  \/ WindowCloses
  \/ Quit

\* The promises and the binds of the start come to an end.
Spec == Init /\ [][Next]_vars /\ WF_vars(Starting)
-----------------------------------------------------------------------------
(* Properties.                                                             *)

Listing(c) == [id |-> c, channel |-> Path[c]]

\* Every variable keeps its type; the port is known exactly when discovery is.
TypeOK ==
  /\ host \in Hosts
  /\ process \in {"running", "gone"}
  /\ stage \in {"loaded", "resolving", "noAddress", "starting", "ready"}
  /\ IF stage = "ready" THEN publicPort \in Ports ELSE publicPort = 0
  /\ localServer \in {"none", "binding", "listening", "failed"}
  /\ externalServer \in {"none", "binding", "listening", "failed"}
  /\ client \in [Clients -> {"new", "open", "closed"}]
  /\ handled \subseteq Clients
  /\ window \in {"none", "open", "closed"}

\* What another machine makes of a packet.
HeardAfar(packet) == Heard(packet, Elsewhere)

\* Whoever hears the advert of a client learns its channel, its uuid, and the
\* address at which this proxy really accepts connections: for a name that may
\* have all the signs of an instance name, but for one with a placeholder or a
\* pattern of String.replace never (peer-discovery-record.js:149-153).
AdvertsDiscoverable ==
  \A c \in handled :
    /\ publicPort # 0
    /\ Survives(Path[c]) <=>
         \E packet \in announced :
           HeardAfar(packet) =
             Event("discover",
                   [channelName |-> Path[c], peerId |-> <<c>>, ip |-> publicIp,
                    port |-> publicPort, isGoodbye |-> FALSE])

\* The goodbye of a client, as others hear it.
Farewell(c) ==
  Event("goodbye", [channelName |-> Path[c], peerId |-> <<c>>,
                    port |-> publicPort, isGoodbye |-> TRUE])

\* Others hear the goodbye of a client, under the channel and the id of its
\* advert, if and only if its socket has closed while the proxy ran and its
\* channel's name is one that adverts can tell.
GoodbyesUndo ==
  process = "running" =>
    \A c \in handled :
      client[c] = "closed" /\ Survives(Path[c]) <=>
        \E packet \in announced : HeardAfar(packet) = Farewell(c)

\* data says where the peer with these params is, and who it is in all but the
\* names that do not survive: of those the id may be the bare placeholder.
Faithful(data, params) ==
  /\ {"channelName", "peerId", "port"} \subseteq DOMAIN data
  /\ \A key \in {"ip", "port"} \cap DOMAIN data : data[key] = params[key]
  /\ data.peerId \in {params.peerId, <<Placeholder>>}
  /\ Survives(params.channelName) =>
       data.channelName = params.channelName /\ data.peerId = params.peerId

\* What handleResponse emits of whole and broken packets is always all that some
\* proxy announced of one peer, and it discovers none at the own address:
\* neither of its own nor of a process that ran here before.
HeardSound ==
  \A e \in heard :
    \/ /\ e.event = "goodbye"
       /\ \E c \in handled : Faithful(e.data, Params(Listing(c)))
    \/ \E f \in Foreign :
         /\ Faithful(e.data, f)
         /\ e.event = "discover" => "ip" \in DOMAIN e.data /\ f.ip # publicIp

\* Once loaded the proxy gets ready, with clients admitted, unless the machine
\* has no address, a server cannot listen, or the process ends.
GetsReady ==
  stage = "loaded" ~>
    \/ stage = "ready" /\ localServer = "listening"
    \/ stage = "noAddress"
    \/ "failed" \in {localServer, externalServer}
    \/ process = "gone"

\* "All connected sockets on this machine" (named-websocket-proxy.js:52): no
\* peer is listed whose socket has closed.
LocalsAreConnected ==
  process = "running" => \A peer \in localPeers : client[peer.id] = "open"
=============================================================================
