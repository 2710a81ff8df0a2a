# Verification of the named-websocket proxy

TLA+ modules, TLC models and TLAPS proofs for the program in `background/src`:
a node.js process on each machine of a network that lets the web pages of all
machines talk to each other on named channels.

## 1. The system

A page connects by WebSocket to the proxy of its own machine (`127.0.0.1:9009`)
with a channel name and becomes a *local peer* with a fresh uuid. The proxy
advertises it by multicast DNS. A proxy that hears the advert and has a client on
that channel dials the advertiser, unless it knows a connection to that address,
and lists the peer as a *remote peer* with that socket. Pages are told of peers by
`connect` and `disconnect` messages and send payloads with `broadcast` and
`message`; proxies send each other the same four messages.

### Inventory

| Component (source) | State | Operations | What makes it correct | Status |
|---|---|---|---|---|
| App (`named-websocket-proxy.js`) | `channels`, `localPeers`, `remotePeers`, `proxies`, `discoveryAdverts`; the address and the port | start in three steps; handlers of the local and the external server, of `discover`, `goodbye`, and of `open`, `message`, `close` on sockets | the lists agree with each other, with the sockets and with what clients have been told, though lookups and uses are apart | modelled |
| Router (`router.js`) | none of its own, works on the lists | local and remote message, local and remote disconnection | routing reaches the right client once, channels do not mix, notices are true | modelled |
| Channel (`channel.js`) | none | filter, (dis)connect notices, three ways to send | who is told of whom | modelled |
| Proxy (`proxy.js`) | none | `close`: clean-up by ip and by id | no entry outlives its socket, nobody is forgotten | modelled |
| Peer (`peer.js`) | none | find, create, remove, send | identity by uuid | modelled |
| Shim protocol (`shim-protocol.js`) | none | four constructors | who is source, who is target | modelled |
| PeerDiscovery (`peer-discovery.js`) | timers of adverts and goodbyes | advertise, cancel, handle a response | repeated, lost, late and broken packets do no harm | modelled |
| PeerDiscoveryRecord (`peer-discovery-record.js`) | none | encode, decode, parse, classify | decoding inverts encoding, for all names that encoding does not spoil; goodbye and advert are told apart | modelled |
| ProxyServer (`proxy-server.js`) | a global `channelName` that all servers share | upgrade to connection, listening, failing to | a client gets in as soon as the start allows, or it is known why not | modelled |
| Shim (`ui/shim.js`) | the page's root object, its peer objects, pending timers | `open`, `message`, `close` of the socket, `close` by the page, timers | events fire in their order though timers put them off; the page's list follows the proxy's notices | modelled |
| Entry points (`main.js`, `bin/cli`) | the window | start, window and process end | the proxy gets ready, or it is known why not | modelled but for the copy of the lists sent to the window |
| Network utilities (`network-utils.js`) | none | read the address | an address other machines can reach | modelled |
| Demonstration pages (`ui/advanced-console.js`, `ui/peer-tracker.js`, `ui/vis.js`) | radio buttons, peer count, bubbles | listeners of the root object, send, disconnect, render | what is shown follows the list of peers | lists and targets modelled |
| Dashboard, `debug.js`, `background/lib` | | | | not modelled, see section 5 |

Components interact by direct calls (App to Router, Channel, Proxy, Peer), by
callbacks (sockets, servers and mDNS to App), by timers (adverts and goodbyes) and,
between machines, by multicast packets and WebSocket messages. The lists are shared
by all handlers of one process; handlers never overlap, but the events that start
them come in any order.

The hard behaviours: adverts and goodbyes are lost, repeated and overtaken by
dials; a lookup made when an advert arrives is used when a socket opens; two proxies
dial each other at once; the `connect` messages of both sides cross; a remote peer is
listed twice or known to some clients only; clients come before discovery exists; a handler throws half-way; a page's events pass through timers of different length; a connection breaks or a process dies while
others hold entries for it; clean-up goes by ip and by id while entries use sockets.
`PROJECT.json` lists these hazards with the lines where they bite.

## 2. The modules

* `ShimProtocol` - the messages, with the exchange of source and target that
  `connect` and `disconnect` make.
* `NamedWebsocketProxy` - all proxies of a network, the multicast and the connections.
* `ProxyProperties` - the properties and the inductive invariant.
* `LocalMembership` - an abstract specification: what a proxy promises to the clients
  of its own machine. `ProxyProperties` gives the refinement mapping.
* `Shim` - the NetworkWebSocket of one page: root object, peer objects, timers; and
  its properties. The proxy at the other end may send any notice at any time, which is more than
  proxies do; they do repeat connects, and send disconnects to clients that got no connect.
* `PageScripts` - the pages that come with the proxy, composed with their `Shim`: the listeners of the
  console and of the tracker, called with each event that is dispatched, and a page that may do anything.
* `PagePeers` - composes the proxies with the peer lists of their pages: each action of
  `NamedWebsocketProxy` together with the connects and disconnects it sends to pages, counted.
* `PeerDiscoveryRecord` - the DNS records as operators: encoding, decoding, and what `handleResponse`
  makes of a packet.
* `ProxyProcess` - one proxy as a process, on top of the records: the steps of its start, its two servers,
  the packets it announces and hears, exceptions, and its end.
* `MCNamedWebsocketProxy`, `MCPagePeers`, `MCPageScripts`, `MCProxyProcess` - small networks, pages and a
  machine for TLC.
* `NamedWebsocketProxyProofs` - the invariant and the properties it carries.
* `LocalMembershipProofs` - what clients are told, and the refinement.
* `DeliveryProofs` - payloads reach only whom they are meant for.
* `ProxyProcessProofs` - what the records convey of a name, the invariant of a process, and what it hears.
* `ShimProofs` - the queue of timers, and the invariant of any page's NetworkWebSocket.
* `PageScriptsProofs` - the same with the scripts on top, and what the console shows.
* `PagePeersProofs` - the lists of pages agree with what their proxies have told them.

`NamedWebsocketProxy` starts with proxies that are ready and whole packets; `ProxyProcess` is what comes
before and beneath, for one machine: it has no remote peers, and another proxy is a request or a packet.

### State

| Variable | Code |
|---|---|
| `client[p]` | whether the page with uuid `p` has not come, is connected, has closed, or was lost with its proxy |
| `advSent[p]`, `byeSent[p]` | how many of the timers of `advertisePeer` and `cancelPeerAdvert` have fired |
| `mdns` | packets not received; a lost packet is one that stays for ever |
| `channels`, `localPeers`, `remotePeers`, `proxies`, `discoveryAdverts` | the fields of `App`, as sets, per proxy |
| `status[s]` | the readyState of a socket object; "refused" is the side of a dial that was never accepted |
| `inbox[s]` | messages under way to a socket |
| `told[p]` | the peers whose last notice to page `p` was `connect` |
| `posts`, `delivered`, `failures` | history of payloads, copies received, failures so far |
| `page[p][q]` (`PagePeers`) | how many objects for `q` are in `networkWebSocket.peers` of page `p` |
| `ws`, `readyState`, `peers`, `timers` (`Shim`) | the page's socket, the state of each object, `networkWebSocket.peers`, pending timers with the ms left |
| `fired`, `arrived`, `asked` (`Shim`) | history of events fired, payloads arrived, objects closed by the page |
| `list`, `count`, `target` (`PageScripts`) | the console's radio buttons for peers, the count shown, the button that is checked |
| `sent` (`PageScripts`) | history: what was checked at the last send, and who was sent to |
| `tracked`, `drawn` (`PageScripts`) | `channel.peers` of `peer-tracker.js`; the bubbles on the screen, of which one may be `Nameless` (see `Render`) |
| `host`, `process`, `window` (`ProxyProcess`) | bin/cli, Electron or Electron on a Mac; whether the process lives; the dashboard |
| `stage`, `publicIp`, `publicPort` (`ProxyProcess`) | how far init has come; "ready" is that `peerDiscovery` exists |
| `localServer`, `externalServer`, `channelName` (`ProxyProcess`) | the HTTP servers, the global of `proxy-server.js` |
| `handled` (`ProxyProcess`) | the clients whose socket has got its `message` and `close` handlers |
| `announced`, `heard` (`ProxyProcess`) | packets handed to the timers of `PeerDiscovery`; history of the events emitted |

The lists are sets because no property depends on their order; where the code takes
the *first* match (`_.find`), the model takes any. Two entries for one peer differ in
their socket, so duplicates are kept. The one thing lost is a second entry with the same
socket, which the code cannot make, as it looks for the id first in the same handler.

A socket object is one side of a connection, named by who dials and the advert that
made it dial. `Ip(s)` is what the code stores beside it: the advert's address when this
proxy dialled; the Host header of the request, which is the *receiver's own* address and
port, when it accepted. Hence an accepted connection is never found by the
address of an advert, and all accepted connections share one ip.

Messages that one handler sends to one socket form a burst, a set in the inbox: the
order within it is that of the lists, which the model leaves open; bursts arrive in
order, as WebSocket frames do.

### Actions

| Action | Handler |
|---|---|
| `ClientJoin`, `ClientLeave` | `connection` and `close` of the local server; `Router.handleLocalDisconnection` |
| `BroadcastPost`, `DirectPost` | `Router.handleLocalMessage` |
| `SendAdvert`, `SendGoodbye` | the timers of `createAnswerResponder` |
| `Discover` = `IgnoreAdvert`, `CacheAdvert`, `Dial` or `ReuseProxy` | `PeerDiscovery.handleResponse` and `discover`, one disjunct per way out |
| `Goodbye` | `goodbye` and `Router.handleRemoteDisconnection` |
| `Accept`, `OpenSocket` | `connection` of the external server; `open` of a dialled socket, which comes even if the other side has closed since the handshake |
| `DialFails` | a dial that is refused, or breaks before it opens: no handler, so nothing but the socket changes |
| `CloseSocket` | `close` of a socket: `Proxy.close` |
| `Receive` = `ReceiveData`, `ReceiveConnect` or `ReceiveIgnored` | `Router.handleRemoteMessage` |
| `Crash` | the process dies and starts again, with new ports and no memory |

In `Shim`, `SocketOpens`, `SocketCloses`, `ReceiveConnect`, `ReceiveDisconnect`, `ReceiveBroadcast`
and `ReceiveMessage` are the handlers of the page's socket, `CloseNetworkWebSocket` and
`ClosePeer` the calls of the page, and `Dispatch`, `Handle` and `OpenPeer` the callbacks of the three kinds of
timer (2, 1 and 50 ms). `Elapse` is one millisecond; a timer that is due may wait, but timers
fire in the order in which they are due, as browsers have it.

In `PageScripts`, `DispatchToPage` is `Dispatch` with what the listeners do; `Choose`, `SendToAll`, `SendToPeer` and
`Disconnect` are the console's buttons, `Render` the timer of `app.js`; the others are steps of `Shim` that no listener sees.
Without peers d3's layout takes the root of the data for a bubble without an id: the first `Render` throws when it colours that
one, before it has removed the bubbles of those that have left, and the next removes them.

| Action of `ProxyProcess` | Handler |
|---|---|
| `InitApp` | Electron's `ready`, or the line of bin/cli |
| `StartWithPublicIp`, `NoAddress` | the promise of `findv4Ip` |
| `LocalListens`, `LocalFails`, `ExternalListens`, `ExternalFails` | `listening` and `error` of the servers; the promise of `createExternalProxy` and `createPeerDiscovery` |
| `ClientConnects` = `RefuseClient` or `AcceptClient`; `ProxyConnects` | `upgrade` of the two servers and `connection` of the local one |
| `ClientBroadcasts`, `ClientCloses` | `message` and `close` of a client |
| `ReceivePacket` | `handleResponse`, and `discover` and `goodbye` as far as they throw |
| `WindowCloses`, `Quit` | `window-all-closed`, `will-quit`, Ctrl+C |

An exception that nothing catches (`Uncaught`) undoes nothing: what the handler has done before stays. It
ends a node.js process; Electron shows a box and takes the next event. In `PeerDiscoveryRecord` an object is a function from
the keys it has, so that a missing key and `_.merge` mean what they mean in the code; a name is a sequence of
symbols. "[" and the constant end count in decoding, which has to find the right bracket; `{peerId}` and the patterns of
`String.replace` count in encoding, since `instanceName` puts the channel in with one replace and the uuid with a second, which
finds the first `{peerId}` of the result. `Survives` are the names that come through both.

A direct message goes to whatever client has the id it names: `Router.handleLocalMessage` looks in the whole of `localPeers` and
`remotePeers`, not in those of the sender's channel, and does not leave out the sender. So does `DirectPost`.

A handler runs to its end before the next event, so each is one action with all the
calls it makes. Dialling spans three (`Dial`, `Accept`, `OpenSocket`) because the code
returns to the event loop between them.

Left out: logging, unknown actions (only logged), the `query` event (an empty
handler), the fields no receiver reads.

Definitions introduced by "Deviation" are plausible mistakes; nothing in the
specification uses them. Each shows that a property notices the mistake.

## 3. What is checked

`CHECK_DEADLOCK FALSE`, because a bounded network
comes to rest when its clients have done what they may, and so does a page.

| Run | Instance | Checks |
|---|---|---|
| `membership` | two machines and their pages, 3 clients, 1 may leave, 1 failure | `TypeOK`, `PagesAgree`, `ChannelsCoverPeers`, `RoutesLead`, `ViewSound`, `LocalMembership`, `DisconnectMeansGone` |
| `data` | two machines, 3 clients in two channels, one payload, own packets heard, 1 may leave, fairness | `ChannelIsolation`, `DeliveredToAudience`, `NoSelfRemote`, `DeliveredToKnown` |
| `calm` | two clients, 2 adverts of which one may be lost, 1 may leave, fairness | `EventuallyMutual` |
| `page` | one uuid, one payload; any page with one object, the console and the tracker with two; fairness of timers | `TypeOK`, `ConnectFirst`, `NothingAfterClose`, `RootForward`, `UnlistedAreDisconnected`, `ConsoleFollows`, `GoneAreErased` |
| `process` | one machine with any subset of four interfaces, three hosts, three clients, two peers elsewhere, fairness of the start | `TypeOK`, `AdvertsDiscoverable`, `GoodbyesUndo`, `HeardSound`, `GetsReady` |

Bounds. `Announcements` is 3 in the code; 1 lets all orders of one advert and one
goodbye happen and 2 all orders of a repeated one, so a peer can be dialled and listed
twice. `MaxFailures` counts broken connections and crashes that nothing else
explains; what follows from one, at the other ends, is not counted. `Leavers` are the clients
that may close. A uuid is used once, so a page that returns is another peer. Two
peers on one machine suffice for everything said of companions; three machines for two accepted
connections at one proxy. Repeated adverts with a failure, which `membership` is too large for, are left to the
proofs. No symmetry is used.

A page creates `Limit` peer objects. For a page that may do anything, whose timers may be late, one is enough:
objects share nothing but the list and the queue of timers, in which the root's events
compete with them; it closes an object once. For the console and the tracker there are two, of one id, so that a list can grow, shrink and
hold one id twice; their timers are punctual, and `OpenDelay` is 5 ms instead of 50, which is still
longer than the longest chain of the others (4 ms from a disconnect to the root's event). The runs that end in a counterexample use 50.
A page has one NetworkWebSocket; the console begins anew with another.

The machine of `process` has a client whose channel contains a bracket and the constant end of instance names, one whose
channel contains `$&` and `{peerId}`, and one without channel. Of the two announced peers, one in each of those channels, one
has the machine's own address, as after a restart. Every subset of the answers of a packet may arrive.

What holds of a payload. `DeliveredToAudience` keeps broadcasts, whose audience is the sender's channel without the sender, apart
from direct messages, whose audience is the client they name. That direct messages cross channels, or come back to their
sender, is what the code does; its texts do not say otherwise.

Fairness. `CalmSpec` has no failures and weak fairness of "some timer fires, or some
connection or message that has arrived is handled": the event loops of node.js
serve every ready event. Packets may be lost, as multicasts are, but not all adverts of one peer to one
hearer: when the last has been sent and none has been heard, one is (`Unheard`). Each such step uses up something that no later step of the kind
restores, so one condition on their disjunction is enough. Clients owe nothing. It is not assumed of a
network with failures, where a failed dial is not retried. `PagesSpec` has weak fairness of time, of the timers and of `Render`: a browser calls
every timer in the end. The `Spec` of `ProxyProcess` has weak fairness of the start: promises are settled, and a server that binds listens or
fails. Each of its steps happens once, so one condition on all of them is enough; closing the window and quitting
are never owed.

### What the source says and the code does not do

Seven runs end in a counterexample, against a comment, a text or a test of the
repository, each quoted in `PROJECT.json`:

* `nothing_without_locals`: after the last client of a channel
  leaves, its remote peers and the channel itself stay. The close handler
  does not pass `channels` to `handleLocalDisconnection`.
* `remotes_are_told`: a remote peer learnt from a `connect` message is made known to
  one client; the messages for the others find it "already" listed.
* `proxies_are_connections`: one accepted connection that closes takes the `proxies` entries
  of all accepted connections with it.
* `page_forgets`: two adverts, or both sides' dials, make a proxy list one peer twice; its pages make
  two objects, and a goodbye, which removes both entries with one disconnect, leaves one of them for ever.
* `reopened`: a peer disconnected within 50 ms of its connect is closed and then opened, since
  the timer is not cancelled.
* `broadcasts_are_chosen`: the console loses the user's choice of a peer whenever any peer comes or goes, and
  sends what follows to everybody.
* `early_clients`: a client that connects before discovery exists is listed and then abandoned by an exception;
  under Electron it stays listed after its socket has closed.

The invariants that hold say how far these reach: `ViewSound` and `RoutesLead` hold in
spite of duplicates and shared ips, because clean-up by id takes all duplicates
and an entry's own socket is among those cleaned up.

`AdvertsDiscoverable` and `GoodbyesUndo` say the same of the last: every client
*with handlers* is announced as long as it is connected, and dismissed afterwards.

## 4. What is proved

### The network

For all machines, channels, clients, payloads, numbers of announcements, with or without
loopback, any number of failures. The only assumption is `ConstantsAssumption`: `Home` and
`ChannelOf` are functions, `Announcements` is positive, `Leavers` are peers.

`NamedWebsocketProxyProofs` proves `Invariant == Spec => []IInv` and from it
`TypeCorrect`, `ChannelsCoverPeersAlways`, `RoutesLeadAlways`, `ViewSoundAlways`,
`ChannelIsolationAlways` and `NoSelfRemoteAlways`.

The properties are not inductive alone. `RoutesLead` needs
`ProxiesAreOpen` (the socket that `ReuseProxy` takes is open), the form of `Ip` (found by the address of
a machine, it leads there) and `InboxesFit` (a `connect` under way introduces a peer of
the sender's machine that has joined). `ChannelsCoverPeers` needs `DialsWanted`: the
channel of a dial in progress is still listed, which is true because no channel is ever
removed while the process lives - the defect shown by `nothing_without_locals` is what this
invariant rests on. `DialsWanted`, kept by `Accept` and `Dial`, needs `SocketsFresh`
(a dial uses a new socket object), and that `AdvertsSent` (an advert that
is not handled has not been dialled for).

The proof has one lemma per action. `ListingKeeps` covers the three ways to
list a peer (`ReuseProxy`, `OpenSocket`, `ReceiveConnect`), `DroppingKeeps` the two ways to drop entries
(`Goodbye`, `CloseSocket`), `SendFits` and `ReceiveFits` the inboxes, `ListsStay` the steps
that touch no list.

`LocalMembershipProofs` classifies every step by the notices it sends (`NoticeKinds`) and proves
`DisconnectMeansGoneAlways`, an action property, and `LocalMembershipImplemented`: the
detailed specification implements the abstract one, by `LocalViewExact`, an
invariant proved on top of `IInv`.

`DeliveryProofs` proves `DeliveredToAudienceAlways` on top of `IInv`. The property is not inductive, since
a payload is delivered long after it was posted: `InboxesAddressed` says that every copy under way
names a target that its post is for. For broadcasts that rests on the remote entries
carrying the channel their peer joined and on no entry being one's own (`EntryFacts`), and it survives
closed sockets and crashes because these only empty inboxes.

### One process

`ProxyProcessProofs` is about any clients, paths, ports, interfaces and packets. It assumes
`ProcessAssumption`: a path is a sequence of symbols, a uuid is neither "[" nor the constant end nor the placeholder, a port is not 0 (of
this machine's clients and of the peers elsewhere, which the same program announces), and
no interface has the address of the other machine that listens.

First the records. Every instance name has a last bracket with an id and the constant end behind it (`BracketedShape`,
`FirstHole`), so `NameDecodes` can say what decoding one gives: channel and uuid, whatever brackets the channel's name has, if
the name survives, and otherwise either another channel, since a pattern has become something else, or the bare placeholder
as the uuid. `Conveys` and `Reads` are what a packet then tells. `AnswersParsed` follows the merge of the decoded records for any packet that has the three answers that `parse` asks
for, with or without the address, and `AdvertHeard` and `GoodbyeHeard` go on to the event that a machine with any given
address emits.

Then the invariant. `TypeOK` is kept by every step by itself, and so is `ListedAsAsked`, that a client is listed in the channel of
its URL. `AdvertsDiscoverable` and `GoodbyesUndo` speak of the meaning of packets, which contain the address and the port, so
they need `Booted` (nothing is announced before these are fixed, which is why the order address, port, discovery of the start matters),
`Announces` (which packets there are) and `Follows` (a client with handlers is listed until it closes, without which the
close handler would find nothing to say goodbye for). `QuietKeeps` covers all steps that only
close sockets or throw. The theorems are `TypeCorrect`,
`AdvertsAlwaysDiscoverable` and `GoodbyesAlwaysUndo`. The first of these two is an equivalence: the names that do not survive are
exactly those under which nobody can find a client.

`HeardAlwaysSound` is about the other direction, whatever answers are missing from a packet. A goodbye of one's own that
comes back is emitted like any other, since it has no address to be told by, and an advert of one's own is not. The history is
true of the moment when something was heard; it stays true because nothing is heard before discovery runs and then
address, port and handlers stay (`HeardInv`, `ReadyStays`).

### The page's NetworkWebSocket

`ShimProofs` is about any page, any number of objects, any `OpenDelay` from 1 ms, and timers that may be as late as they like. It assumes
`ShimAssumption`: the number of objects is a number, and the delay is positive.

What a page hears is decided by the order of its pending timers, so everything rests on one lemma about setting one.
`ScheduledAllInserts` says what `window.setTimeout` does to the queue: the timers that were pending keep their order, the new ones
stand together, behind those due no later and before the others.

`SInv` says which queues there are. `InOrder`: by due time. `Fit`: an event waits for the timer of its kind, not longer than that
takes. `AnnouncedFirst`: the `connect` of every object made has fired or is pending, and what is to be dispatched about the object
stands behind it. `RootOrder`: the root closes once, behind what it was to handle and to dispatch, so only a
`disconnect` can follow. `Unclosed`: while the socket has not closed, no end of the root is pending or done. `RootState`: a root
that closes has nothing left to handle but its `close`. The properties only speak of what has fired; these conjuncts say of
what is pending that it cannot break them later, and `InOrder` with `Fit` why a step cannot break the conjuncts.
The theorems are `ShimTypeCorrect`, `ConnectAlwaysFirst`, `NothingEverAfterClose` and `RootAlwaysForward`.

### The pages that come with the proxy

`PageScriptsProofs` proves the same four properties with the listeners of the console and the tracker on top (`PagesTypeCorrect`, `PagesConnectFirst`,
`PagesNothingAfterClose`, `PagesRootForward`), and `ConsoleAlwaysFollows`. The console reads the list of peers whenever an event
comes in, not when the list changes, so what it shows lags behind. The invariant `ConsoleInv` says that the lag is always owed:
`ListFollows` and `CountFollows` find, for every list or count that is wrong, a pending timer at whose end it is made anew. The
difficult case is `close`: it empties the count, and a `disconnect` that fired after it would show it again. `EndsOrder` excludes that: at the console every
link in the closing chain of a peer's object comes before the same link of the root's chain. That timers are
punctual, which the run needs to be finite, is not needed.

### Lists of pages

Each action of `PageSpec` contains the proxies' own action, so all that is proved of the network holds with pages (the lemma
`PagesAreProxies`). `PagePeersProofs` proves `PagesAlwaysAgree`. `PagesAgree` is not inductive: how many objects a page adds and removes is decided by the lists of
its proxy and by what its client has been told, so the proof needs `IInv`, `LocalViewExact` and that the entries of a proxy are
finitely many.

### Only model-checked

* Liveness (`EventuallyMutual`, `DeliveredToKnown`, `UnlistedAreDisconnected`, `GoneAreErased`, `GetsReady`), which is beyond
  the prover.
* The runs that end in a counterexample.

## 5. Not modelled

* `background/lib`: HTTP and WebSocket servers on the socket API of the former Chrome app, "from various sources" as
  README.md has it. Nothing in `background/src` requires them; the program runs on node's `http` and `faye-websocket`,
  which are modelled by what the code relies on: frames of one socket in order, one `close` at the end.
* `ui/dashboard`, `sync` in `main.js` and `debug.js`: a copy of the lists once a second, and logging. No state
  of the proxy depends on them.
* What pages show of payloads and pings, and pages that keep no state (`basic-console.js`, `test-ws.html`, `test-multi-peers.html`).
* Delivery in order and at most once for each entry of a list: posts are a set, so two copies of one payload are one. A peer
  that is listed twice does get a broadcast twice; no text of the repository promises otherwise.
* A placeholder in a name that exists only once an empty pattern (`` $` ``) in its middle has been expanded.
* A peer that has gone and stays listed until a connection closes, because its goodbye overtook a dial or an advert followed it:
  it happens in the model as in the code, and no property is about it.
* More than one failure together with repeated adverts in one TLC run; the proofs have no such bound.
