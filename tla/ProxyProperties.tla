--------------------------- MODULE ProxyProperties ---------------------------
(***************************************************************************)
(* What the named-websocket proxies should guarantee, and what the source  *)
(* says of them.                                                           *)
(***************************************************************************)
EXTENDS NamedWebsocketProxy

SameChannel(p, q) == ChannelOf[p] = ChannelOf[q]

Listed(x, id) == id \in Ids(remotePeers[x])

Open(p) == client[p] = "open"

Joined == {p \in Peers : client[p] # "new"}

\* Every variable keeps its type; in particular a remote entry names a known
\* peer and channel, and an inbox holds only messages of the shim protocol.
TypeOK ==
  /\ client \in [Peers -> {"new", "open", "closed", "lost"}]
  /\ advSent \in [Peers -> 0..Announcements]
  /\ byeSent \in [Peers -> 0..Announcements]
  /\ mdns \subseteq Packets
  /\ channels \in [Proxies -> SUBSET Channels]
  /\ localPeers \in [Proxies -> SUBSET Peers]
  /\ remotePeers \in [Proxies -> SUBSET RemotePeers]
  /\ proxies \in [Proxies -> SUBSET Sockets]
  /\ discoveryAdverts \in [Proxies -> SUBSET Peers]
  /\ status \in [Sockets -> {"none", "connecting", "open", "closed", "refused"}]
  /\ inbox \in [Sockets -> Seq(SUBSET Messages)]
  /\ told \in [Peers -> SUBSET Peers]
  /\ posts \subseteq Posts
  /\ delivered \in [Peers -> [Data -> Nat]]
  /\ failures \in Nat
-----------------------------------------------------------------------------
(* Safety.                                                                 *)

\* "If a peer exists in either list, a channel should be in here"
\* (named-websocket-proxy.js, on channels): remote entries are made long after
\* the channel was looked up, and the channel must still be there.
ChannelsCoverPeers ==
  \A x \in Proxies :
    /\ \A p \in localPeers[x] : ChannelOf[p] \in channels[x]
    /\ \A r \in remotePeers[x] : r.channel \in channels[x]

\* A remote peer is listed with a socket of this proxy that is still open and
\* whose other side belongs to the proxy that peer joined, so what the router
\* sends to the entry goes to the right machine.
RoutesLead ==
  \A x \in Proxies : \A r \in remotePeers[x] :
    /\ Owner(r.socket) = x
    /\ status[r.socket] = "open"
    /\ Owner(Far(r.socket)) = Home[r.id]
    /\ r.id \in Joined

\* A peer that a client counts as connected is one its proxy can still route
\* to: a local peer or a remote entry, of the same channel.  No entry goes
\* without a disconnect notice to everyone who got the connect.
ViewSound ==
  \A p \in Peers : \A q \in told[p] :
    /\ SameChannel(p, q)
    /\ q # p
    /\ \/ q \in localPeers[Home[p]]
       \/ \E r \in RemotesNamed(Home[p], q) : r.channel = ChannelOf[p]

\* A connect under way to socket s introduces a peer of the sender's machine to
\* one of the receiver's machine that is on the same channel.
Introduces(s, m) ==
  /\ SameChannel(m.source, m.target)
  /\ Home[m.source] = Owner(s)
  /\ Home[m.target] = Owner(Far(s))

\* Channels do not mix: remote entries carry the channel their peer joined,
\* though a receiver takes it from the local peer that the connect is for.
ChannelIsolation ==
  /\ \A x \in Proxies : \A r \in remotePeers[x] : r.channel = ChannelOf[r.id]
  /\ \A s \in Sockets : \A i \in DOMAIN inbox[s] : \A m \in inbox[s][i] :
       m.action = "connect" => Introduces(s, m)

\* One of posted carries d to q.
MeantFor(posted, q, d) == \E m \in posted : m.data = d /\ q \in m.to

\* A broadcast reaches only other clients of its sender's channel, and a direct
\* message nobody but the client it was addressed to, whatever the lists said
\* when it left and say when it arrives.  A direct message is not held to a
\* channel: Router.handleLocalMessage looks its target up in the whole lists.
DeliveredToAudience ==
  \A q \in Peers, d \in Data : delivered[q][d] > 0 => MeantFor(posts, q, d)

\* A proxy never lists a peer of its own as remote, even if it hears its own
\* multicasts: it would relay that peer's messages to itself.
NoSelfRemote ==
  \A x \in Proxies : \A r \in remotePeers[x] : Home[r.id] # x

DisconnectOnlyGone ==
  \A p, q \in Peers :
    (q \in told[p] /\ q \notin told'[p] /\ client'[p] = "open") =>
      /\ q \notin localPeers'[Home[p]]
      /\ q \notin Ids(remotePeers'[Home[p]])

\* A client that stays is told of a disconnection only when its proxy has
\* dropped every entry of that peer (Proxy.close and Peer.remove go by id).
DisconnectMeansGone == [][DisconnectOnlyGone]_vars

\* The clients of one machine always see each other exactly.
Local == INSTANCE LocalMembership WITH
  Group <- [p \in Peers |-> <<Home[p], ChannelOf[p]>>],
  members <- {p \in Peers : p \in localPeers[Home[p]]},
  gone <- {p \in Peers : client[p] \in {"closed", "lost"}},
  view <- [p \in Peers |-> {q \in told[p] : Home[q] = Home[p]}]

LocalMembership == Local!Spec
-----------------------------------------------------------------------------
(* The inductive invariant: what the safety properties above rest on.      *)

\* localPeers is exactly the clients with an open socket.
LocalsAreOpen ==
  \A x \in Proxies :
    localPeers[x] = {p \in Peers : Open(p) /\ Home[p] = x}

\* Only clients with an open socket hold notices.
ToldAreOpen == \A p \in Peers : told[p] # {} => Open(p)

\* An entry of proxies is an open socket of this proxy.
ProxiesAreOpen ==
  \A x \in Proxies : \A s \in proxies[x] : Owner(s) = x /\ status[s] = "open"

\* Every packet announces a peer that has joined.
PacketsJoined == \A k \in mdns : k.peer \in Joined

\* Every advert in the network has been counted, and a connection does not
\* exist before the advert that is to bring it about has been handled.
AdvertsSent ==
  \A k \in mdns : k.kind = "advert" => k.number <= advSent[k.peer]

Advert(s) ==
  [kind |-> "advert", peer |-> s.peer, number |-> s.advert, to |-> s.client]

SocketsFresh ==
  \A s \in Sockets :
    (advSent[s.peer] < s.advert \/ Advert(s) \in mdns) => status[s] = "none"

\* Every dial was made for a peer of another machine that has joined, and the
\* channel it was made for is still there when it opens.
DialsWanted ==
  \A s \in Sockets :
    /\ status[s] # "none" => s.client # Home[s.peer]
    /\ status[s] = "connecting" =>
         /\ s.side = "client"
         /\ s.peer \in Joined
         /\ ChannelOf[s.peer] \in channels[s.client]

\* The messages that may be under way to socket s when joined have joined.
Fitting(s, joined) ==
  {m \in Messages :
     m.action = "connect" => Introduces(s, m) /\ m.target \in joined}

InboxesFit == \A s \in Sockets : inbox[s] \in Seq(SUBSET Fitting(s, Joined))

RemotesFit ==
  \A x \in Proxies : \A r \in remotePeers[x] : r.channel = ChannelOf[r.id]

IInv ==
  /\ TypeOK
  /\ LocalsAreOpen
  /\ ToldAreOpen
  /\ ChannelsCoverPeers
  /\ ProxiesAreOpen
  /\ RoutesLead
  /\ ViewSound
  /\ RemotesFit
  /\ InboxesFit
  /\ PacketsJoined
  /\ AdvertsSent
  /\ SocketsFresh
  /\ DialsWanted

\* A payload under way to another proxy names an addressee it is meant for.
Addressed(posted) ==
  {m \in Messages :
     m.action \in {"broadcast", "message"} => MeantFor(posted, m.target, m.data)}

InboxesAddressed ==
  \A s \in Sockets : inbox[s] \in Seq(SUBSET Addressed(posts))

\* What a client has been told of its own machine is exact.
LocalViewExact ==
  \A p, q \in Peers :
    Home[p] = Home[q] =>
      (q \in told[p] <=> Open(p) /\ Open(q) /\ q # p /\ SameChannel(p, q))
-----------------------------------------------------------------------------
(* A calm network.                                                         *)

\* Nothing is left to fire, arrive or be handled.
Quiet ==
  /\ \A p \in Peers :
       /\ client[p] \in {"open", "closed"} => advSent[p] = Announcements
       /\ client[p] = "closed" => byeSent[p] = Announcements
  /\ mdns = {}
  /\ \A s \in Sockets : status[s] # "connecting" /\ inbox[s] = <<>>

Apart(p, q) == Home[p] # Home[q] /\ SameChannel(p, q)

\* Two open clients of one channel on different machines end up with each of
\* their proxies listing the other client, unless one of them leaves.
EventuallyMutual ==
  \A p, q \in Peers :
    (Apart(p, q) /\ Open(p) /\ Open(q)) ~>
      \/ Listed(Home[p], q) /\ Listed(Home[q], p)
      \/ ~Open(p) \/ ~Open(q)

\* A payload reaches every addressee that its sender had been told of, unless
\* that client leaves: the proxies route to whom they have announced.
DeliveredToKnown ==
  \A d \in Data, q \in Peers :
    (\E m \in posts : m.data = d /\ q \in m.to \cap m.known) ~>
      (delivered[q][d] > 0 \/ ~Open(q))
-----------------------------------------------------------------------------
(* What the source says and the code does not do.                          *)

\* "Remove channel if no local peers left" (router.js:71), and "If no local
\* peers exists for a channel then any remote peers in that channel will be
\* removed also." (named-websocket-proxy.js:56)
NothingWithoutLocals ==
  \A x \in Proxies, c \in Channels :
    LocalsIn(x, c) = {} => c \notin channels[x] /\ RemotesIn(x, c) = {}

\* "Connect remote peer to local peers and vice versa"
\* (named-websocket-proxy.js:227): once all is quiet, every local peer of the
\* channel has been told of every remote peer listed.
RemotesAreTold ==
  Quiet => \A p \in Peers :
             Open(p) => Ids(RemotesIn(Home[p], ChannelOf[p])) \subseteq told[p]

\* "WebSocket connections to other proxies" (named-websocket-proxy.js:63):
\* the list holds every connection that is open.
ProxiesAreConnections ==
  \A x \in Proxies :
    proxies[x] = {s \in Sockets : Owner(s) = x /\ status[s] = "open"}
=============================================================================
