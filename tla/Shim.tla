-------------------------------- MODULE Shim --------------------------------
(***************************************************************************)
(* The NetworkWebSocket object of one page (ui/shim.js): the root object,  *)
(* an object for each peer the proxy announced, and the timers by which    *)
(* every change of readyState and every event is put off.                  *)
(*                                                                         *)
(* The page's WebSocket and the browser's timers are external.  The proxy  *)
(* may send any notice at any time: it repeats connects for a peer listed  *)
(* twice, and sends disconnects to clients that got no connect.            *)
(***************************************************************************)
EXTENDS Naturals, Sequences, FiniteSets, SequencesExt

CONSTANTS
  PeerIds,      \* the uuids in the proxy's notices
  Payloads,     \* what peers send; each arrives at most once
  MaxPeers,     \* bound, for TLC: peer objects that a page creates
  OpenDelay     \* ms until a peer object opens (50 in the code)

ASSUME ShimAssumption ==
  /\ MaxPeers \in Nat
  /\ OpenDelay \in Nat \ {0}

VARIABLES
  ws,           \* readyState of the page's real WebSocket
  readyState,   \* readyState[k] of each NetworkWebSocket object
  peers,        \* networkWebSocket.peers: peer objects with their ids
  timers,       \* pending timers, in the order in which they are due
  fired,        \* history: the events that listeners have got
  arrived,      \* history: the payloads that have arrived
  asked         \* history: the peer objects that the page has closed itself

vars == <<ws, readyState, peers, timers, fired, arrived, asked>>

Root == 0
PeerObjects == 1..MaxPeers
Objects == {Root} \cup PeerObjects

Created == {k \in PeerObjects : readyState[k] # "none"}
-----------------------------------------------------------------------------
(* Timers.  A browser fires them by due time and, of those due together,   *)
(* in the order they were set; how late it fires them is open.             *)

Event(on, type, detail) == [on |-> on, type |-> type, detail |-> detail]

\* An event without detail.
Simple(k, type) == Event(k, type, k)

\* Where a timer due in delay ms goes: behind those that are due no later.
Place(queue, delay) ==
  1 + Cardinality({n \in DOMAIN queue : queue[n].wait <= delay})

\* window.setTimeout, for each of events in turn.
ScheduledAll(queue, delay, job, events) ==
  LET n == Place(queue, delay)
  IN  SubSeq(queue, 1, n - 1)
        \o [i \in DOMAIN events |->
              [wait |-> delay, job |-> job, event |-> events[i]]]
        \o SubSeq(queue, n, Len(queue))

Scheduled(queue, delay, job, event) == ScheduledAll(queue, delay, job, <<event>>)

DispatchEvent(queue, event) == Scheduled(queue, 2, "dispatch", event)

HandleEvent(queue, event) == Scheduled(queue, 1, "handle", event)

\* Deviation: the peer's object closes without telling the root object.
HandledAlone(queue, event) == DispatchEvent(queue, event)

\* The end of __handleEvent's timer: the event is dispatched and the callback
\* runs, which takes __doClose from closing to close and from there, at the
\* object of a peer, to the root's 'disconnect'.
Handled(queue, event) ==
  LET dispatched == DispatchEvent(queue, event)
      k == event.on
  IN  CASE event.type = "closing" -> HandleEvent(dispatched, Simple(k, "close"))
        [] event.type = "close" /\ k # Root ->
             DispatchEvent(dispatched, Event(Root, "disconnect", k))
        [] OTHER -> dispatched

StateAfter(event) ==
  CASE event.type = "open" -> "open"
    [] event.type = "closing" -> "closing"
    [] event.type = "close" -> "closed"
    [] OTHER -> readyState[event.on]

\* Deviation: the event is named as the readyState, which __handleEvent does
\* not know.
ClosingUnknown(k) == Simple(k, "closed")

\* The event that __doClose begins with.
Closing(k) == Simple(k, "closing")

DoClose(queue, k) == HandleEvent(queue, Closing(k))

\* __doClose of each object listed, in the order of the list.
DoCloseAll(queue, listed) ==
  ScheduledAll(queue, 1, "handle", [n \in DOMAIN listed |-> Closing(listed[n].object)])

\* Deviation: 'close' is dispatched at once.
CloseRootAtOnce(queue) == DispatchEvent(queue, Simple(Root, "close"))

CloseRoot(queue) == DoClose(queue, Root)

\* Deviation: the root opens with the delay that peers have.
OpenRootLate(queue) ==
  Scheduled(queue, OpenDelay, "openPeer", Simple(Root, "open"))

OpenRoot(queue) == HandleEvent(queue, Simple(Root, "open"))

\* Deviation: 'connect' is put off until the new object opens.
AnnounceWhenOpen(queue, k) ==
  Scheduled(Scheduled(queue, OpenDelay, "openPeer", Simple(k, "open")),
            OpenDelay, "dispatch", Event(Root, "connect", k))

\* 'connect' at the root object, and later 'open' at the new one.
Announce(queue, k) ==
  Scheduled(DispatchEvent(queue, Event(Root, "connect", k)),
            OpenDelay, "openPeer", Simple(k, "open"))
-----------------------------------------------------------------------------
Init ==
  /\ ws = "connecting"
  /\ readyState = [k \in Objects |-> IF k = Root THEN "connecting" ELSE "none"]
  /\ peers = <<>>
  /\ timers = <<>>
  /\ fired = {}
  /\ arrived = {}
  /\ asked = {}

\* webSocket.onopen
SocketOpens ==
  /\ ws = "connecting"
  /\ ws' = "open"
  /\ timers' = OpenRoot(timers)
  /\ UNCHANGED <<readyState, peers, fired, arrived, asked>>

\* webSocket.onclose: also that of a socket that never opened.
SocketCloses ==
  /\ ws # "closed"
  /\ ws' = "closed"
  /\ timers' = CloseRoot(DoCloseAll(timers, peers))
  /\ peers' = <<>>
  /\ UNCHANGED <<readyState, fired, arrived, asked>>

\* webSocket.onmessage with a connect about i.
ReceiveConnect(i) ==
  LET k == 1 + Cardinality(Created)
  IN  /\ ws = "open"
      /\ k \in PeerObjects
      /\ readyState' = [readyState EXCEPT ![k] = "connecting"]
      /\ peers' = Append(peers, [object |-> k, id |-> i])
      /\ timers' = Announce(timers, k)
      /\ UNCHANGED <<ws, fired, arrived, asked>>

\* getPeerById: the first object listed for i.
IsPeerById(n, i) ==
  /\ peers[n].id = i
  /\ \A m \in 1..(n - 1) : peers[m].id # i

\* A disconnect about i closes that object and unlists it; one about a peer
\* that is not listed is ignored.
ReceiveDisconnect(i) ==
  /\ ws = "open"
  /\ \E n \in DOMAIN peers :
       /\ IsPeerById(n, i)
       /\ timers' = DoClose(timers, peers[n].object)
       /\ peers' = RemoveAt(peers, n)
  /\ UNCHANGED <<ws, readyState, fired, arrived, asked>>

\* A payload arrives for object k, whatever its readyState.
ReceiveData(k, d) ==
  /\ ws = "open"
  /\ d \notin arrived
  /\ arrived' = arrived \cup {d}
  /\ timers' = HandleEvent(timers, Event(k, "message", d))
  /\ UNCHANGED <<ws, readyState, peers, fired, asked>>

ReceiveBroadcast(d) == ReceiveData(Root, d)

\* One of a peer that is not listed is dropped.
ReceiveMessage(i, d) ==
  \E n \in DOMAIN peers : IsPeerById(n, i) /\ ReceiveData(peers[n].object, d)

\* The page closes the root object: the real socket closes some time later.
CloseNetworkWebSocket ==
  /\ ws = "open"
  /\ readyState[Root] = "open"
  /\ ws' = "closing"
  /\ UNCHANGED <<readyState, peers, timers, fired, arrived, asked>>

\* The page closes a peer's object.  It stays listed, and the proxy is not told.
ClosePeer(k) ==
  /\ readyState[k] = "open"
  /\ k \notin asked  \* bound, for TLC: once for each object
  /\ asked' = asked \cup {k}
  /\ timers' = DoClose(timers, k)
  /\ UNCHANGED <<ws, readyState, peers, fired, arrived>>
-----------------------------------------------------------------------------
Elapse ==
  /\ \E n \in DOMAIN timers : timers[n].wait > 0
  /\ timers' = [n \in DOMAIN timers |->
                  [timers[n] EXCEPT !.wait = IF @ = 0 THEN 0 ELSE @ - 1]]
  /\ UNCHANGED <<ws, readyState, peers, fired, arrived, asked>>

Due(job) ==
  /\ timers # <<>>
  /\ Head(timers).wait = 0
  /\ Head(timers).job = job

\* The listeners of the event are called.
Dispatch ==
  /\ Due("dispatch")
  /\ fired' = fired \cup {Head(timers).event}
  /\ timers' = Tail(timers)
  /\ UNCHANGED <<ws, readyState, peers, arrived, asked>>

Handle ==
  LET event == Head(timers).event
  IN  /\ Due("handle")
      /\ readyState' = [readyState EXCEPT ![event.on] = StateAfter(event)]
      /\ timers' = Handled(Tail(timers), event)
      /\ UNCHANGED <<ws, peers, fired, arrived, asked>>

OpenPeer ==
  /\ Due("openPeer")
  /\ timers' = HandleEvent(Tail(timers), Head(timers).event)
  /\ UNCHANGED <<ws, readyState, peers, fired, arrived, asked>>

Fire == Dispatch \/ Handle \/ OpenPeer

Page == CloseNetworkWebSocket \/ \E k \in PeerObjects : ClosePeer(k)

Socket ==
  \/ SocketOpens
  \/ SocketCloses
  \/ \E i \in PeerIds :
       \/ ReceiveConnect(i)
       \/ ReceiveDisconnect(i)
       \/ \E d \in Payloads : ReceiveMessage(i, d)
  \/ \E d \in Payloads : ReceiveBroadcast(d)

Next == Page \/ Socket \/ Fire \/ Elapse

\* Time passes, and a browser calls every timer that is due.
Spec == Init /\ [][Next]_vars /\ WF_vars(Elapse) /\ WF_vars(Fire)
-----------------------------------------------------------------------------
(* Properties.                                                             *)

EventTypes == {"open", "closing", "close", "connect", "disconnect", "message"}

Events == [on : Objects, type : EventTypes, detail : Objects \cup Payloads]

TypeOK ==
  /\ ws \in {"connecting", "open", "closing", "closed"}
  /\ readyState \in
       [Objects -> {"none", "connecting", "open", "closing", "closed"}]
  /\ peers \in Seq([object : Created, id : PeerIds])
  /\ timers \in Seq([wait : 0..(2 + OpenDelay),
                     job : {"dispatch", "handle", "openPeer"}, event : Events])
  /\ fired \subseteq Events
  /\ arrived \subseteq Payloads
  /\ asked \subseteq PeerObjects

\* A page hears of a peer by 'connect' before anything else about that peer or
\* at its object, whose listeners it can only add then, though each event takes
\* timers of its own (dispatchEvent 2 ms, __handleEvent 1 ms).
ConnectFirst ==
  \A e \in fired, k \in PeerObjects :
    (e.on = k \/ (e.type = "disconnect" /\ e.detail = k)) =>
      Event(Root, "connect", k) \in fired

\* Once the root object has fired 'close', all that it still fires is the
\* 'disconnect' of a peer: no open, connect or message that came before is late,
\* though all of them are put off by timers.
NothingLate ==
  Event(Root, "close", Root) \in fired =>
    \A e \in fired' \ fired : e.on = Root => e.type = "disconnect"

NothingAfterClose == [][NothingLate]_vars

Rank == [connecting |-> 0, open |-> 1, closing |-> 2, closed |-> 3, none |-> 0]

Forward(k) == Rank[readyState[k]] <= Rank[readyState'[k]]

\* The root object's readyState never goes back.
RootForward == [][Forward(Root)]_vars

\* "... use the returned `ws` object just like a normal JavaScript WebSocket
\* object" (ui/shim.js:11): nor does that of the object of a peer.
PeersForward == [][\A k \in PeerObjects : Forward(k)]_vars
=============================================================================
