--------------------------- MODULE DeliveryProofs ---------------------------
(***************************************************************************)
(* Proof, for any machines, channels, clients and payloads, that a payload *)
(* reaches only the clients it is meant for: a broadcast the others on its *)
(* sender's channel, a direct message the client that it names.  A copy    *)
(* under way to another proxy stays addressed to one of them               *)
(* (InboxesAddressed), whatever is lost, closed or crashes, and the        *)
(* receiving proxy goes by that address.                                   *)
(***************************************************************************)
EXTENDS NamedWebsocketProxyProofs

Delivery == DeliveredToAudience /\ InboxesAddressed

\* What is meant for a client, or addressed, stays so when more is posted.
LEMMA AddressedWider ==
  ASSUME NEW posted, NEW more, posted \subseteq more
  PROVE  /\ \A q, d : MeantFor(posted, q, d) => MeantFor(more, q, d)
         /\ Addressed(posted) \subseteq Addressed(more)
<1>1. \A q, d : MeantFor(posted, q, d) => MeantFor(more, q, d)
  BY DEF MeantFor
<1> QED
  BY <1>1 DEF Addressed

\* Notices of connections carry no payload.
LEMMA NoticesAddressed ==
  ASSUME NEW posted, NEW p \in Peers, NEW q \in Peers
  PROVE  /\ Connect(p, q) \in Addressed(posted)
         /\ Disconnect(p, q) \in Addressed(posted)
<1>1. Connect(p, q) \in Messages /\ Connect(p, q).action = "connect"
  BY DEF Connect, Messages, MembershipMessages
<1>2. Disconnect(p, q) \in Messages /\ Disconnect(p, q).action = "disconnect"
  BY DEF Disconnect, Messages, MembershipMessages
<1> QED
  BY <1>1, <1>2 DEF Addressed

\* A payload on its way to q is addressed once it is meant for q.
LEMMA PayloadsAddressed ==
  ASSUME NEW posted, NEW p \in Peers, NEW q \in Peers, NEW d \in Data,
         MeantFor(posted, q, d)
  PROVE  /\ Broadcast(p, q, d) \in Addressed(posted)
         /\ Message(p, q, d) \in Addressed(posted)
<1>1. /\ Broadcast(p, q, d) \in Messages
      /\ Broadcast(p, q, d).target = q /\ Broadcast(p, q, d).data = d
  BY DEF Broadcast, Messages, DataMessages
<1>2. /\ Message(p, q, d) \in Messages
      /\ Message(p, q, d).target = q /\ Message(p, q, d).data = d
  BY DEF Message, Messages, DataMessages
<1> QED
  BY <1>1, <1>2 DEF Addressed

\* Sending addressed messages, with or without posting something.
LEMMA SendAddressed ==
  ASSUME InboxesAddressed, NEW posted, posts \subseteq posted, NEW sent,
         \A n \in sent : n.on \in Sockets /\ n.message \in Addressed(posted)
  PROVE  /\ Transmitted(sent) = [s \in Sockets |-> Transmitted(sent)[s]]
         /\ \A s \in Sockets : Transmitted(sent)[s] \in Seq(SUBSET Addressed(posted))
<1> DEFINE G == [s \in Sockets |-> Addressed(posted)]
<1>1. \A s \in Sockets : inbox[s] \in Seq(SUBSET G[s])
  BY AddressedWider, QueueWider DEF InboxesAddressed
<1>2. \A n \in sent : n.on \in Sockets /\ n.message \in G[Far(n.on)]
  BY SocketFacts
<1>3. \A s \in Sockets : G[s] = Addressed(posted)
  OBVIOUS
<1> HIDE DEF G
<1>4. /\ Transmitted(sent) = [s \in Sockets |-> Transmitted(sent)[s]]
      /\ \A s \in Sockets : Transmitted(sent)[s] \in Seq(SUBSET G[s])
  BY <1>1, <1>2, TransmittedKeeps
<1> QED
  BY <1>3, <1>4

\* Taking a message out.
LEMMA TakeAddressed ==
  ASSUME NEW boxes, boxes = [t \in Sockets |-> boxes[t]],
         \A t \in Sockets : boxes[t] \in Seq(SUBSET Addressed(posts)),
         NEW s \in Sockets, boxes[s] # <<>>, NEW m
  PROVE  \A t \in Sockets :
           Consumed(boxes, s, m)[t] \in Seq(SUBSET Addressed(posts))
<1> DEFINE G == [t \in Sockets |-> Addressed(posts)]
<1>1. \A t \in Sockets : G[t] = Addressed(posts)
  OBVIOUS
<1>2. \A t \in Sockets : boxes[t] \in Seq(SUBSET G[t])
  OBVIOUS
<1> HIDE DEF G
<1>3. \A t \in Sockets : Consumed(boxes, s, m)[t] \in Seq(SUBSET G[t])
  BY <1>2, ConsumedKeeps
<1> QED
  BY <1>1, <1>3
-----------------------------------------------------------------------------
(* The actions.                                                            *)

\* Nothing is posted or delivered, and no inbox gets more than it has.
LEMMA EmptyingDelivers ==
  ASSUME Delivery, UNCHANGED dataVars,
         \A s \in Sockets : inbox'[s] = inbox[s] \/ inbox'[s] = <<>>
  PROVE  Delivery'
<1>1. DeliveredToAudience'
  BY DEF Delivery, DeliveredToAudience, dataVars, MeantFor
<1>2. \A s \in Sockets : inbox'[s] \in Seq(SUBSET Addressed(posts))
  <2>1. \A s \in Sockets : inbox[s] \in Seq(SUBSET Addressed(posts))
    BY DEF Delivery, InboxesAddressed
  <2>2. <<>> \in Seq(SUBSET Addressed(posts))
    OBVIOUS
  <2> QED
    BY <2>1, <2>2
<1> QED
  BY <1>1, <1>2 DEF Delivery, InboxesAddressed, dataVars

\* Notices are sent, and nothing is posted or delivered.
LEMMA NoticesDeliver ==
  ASSUME Delivery, UNCHANGED dataVars, NEW sent, inbox' = Transmitted(sent),
         \A n \in sent : n.on \in Sockets /\ n.message \in Addressed(posts)
  PROVE  Delivery'
<1>1. DeliveredToAudience'
  BY DEF Delivery, DeliveredToAudience, dataVars, MeantFor
<1>2. \A s \in Sockets : inbox'[s] \in Seq(SUBSET Addressed(posts))
  BY SendAddressed DEF Delivery
<1> QED
  BY <1>1, <1>2 DEF Delivery, InboxesAddressed, dataVars

LEMMA ClientJoinDelivers ==
  ASSUME IInv, Delivery, NEW p \in Peers, ClientJoin(p)
  PROVE  Delivery'
<1> DEFINE sent == ConnectEntries(p, RemotesIn(Home[p], ChannelOf[p]))
<1>1. inbox' = Transmitted(sent) /\ UNCHANGED dataVars
  BY DEF ClientJoin
<1>2. \A n \in sent : n.on \in Sockets /\ n.message \in Addressed(posts)
  BY ConstantsAssumption, EntryFacts, NoticesAddressed
     DEF ConnectEntries, RemotesIn
<1> HIDE DEF sent
<1> QED
  BY <1>1, <1>2, NoticesDeliver

LEMMA ClientLeaveDelivers ==
  ASSUME IInv, Delivery, NEW p \in Peers, ClientLeave(p)
  PROVE  Delivery'
<1> DEFINE sent == DisconnectEntries(p, RemotesIn(Home[p], ChannelOf[p]))
<1>1. inbox' = Transmitted(sent) /\ UNCHANGED dataVars
  BY DEF ClientLeave
<1>2. \A n \in sent : n.on \in Sockets /\ n.message \in Addressed(posts)
  BY ConstantsAssumption, EntryFacts, NoticesAddressed
     DEF DisconnectEntries, RemotesIn
<1> HIDE DEF sent
<1> QED
  BY <1>1, <1>2, NoticesDeliver

\* createRemotePeer sends connects only.
LEMMA CreateRemotePeerDelivers ==
  ASSUME IInv, Delivery, UNCHANGED dataVars, NEW x \in Proxies, NEW p \in Peers,
         NEW s \in Sockets, CreateRemotePeer(x, p, s)
  PROVE  Delivery'
<1> DEFINE sent == ConnectLocals(p, s, LocalsIn(x, ChannelOf[p]))
<1>1. inbox' = Transmitted(sent)
  BY DEF CreateRemotePeer
<1>2. \A q \in LocalsIn(x, ChannelOf[p]) : q \in Peers
  BY DEF LocalsIn, IInv, TypeOK
<1>3. \A n \in sent : n.on \in Sockets /\ n.message \in Addressed(posts)
  BY <1>2, NoticesAddressed DEF ConnectLocals
<1> HIDE DEF sent
<1> QED
  BY <1>1, <1>3, NoticesDeliver

\* What is delivered at once, or copied to other proxies, when a client
\* broadcasts is for the clients of its channel, and never for itself.
LEMMA BroadcastDelivers ==
  ASSUME IInv, Delivery, NEW p \in Peers, NEW d \in Data, BroadcastPost(p, d)
  PROVE  Delivery'
<1> DEFINE x == Home[p]
           c == ChannelOf[p]
           post == Post(p, d, Audience(p))
           sent == BroadcastEntries(p, RemotesIn(x, c), d)
<1>1. x \in Proxies
  BY ConstantsAssumption
<1>2. /\ posts' = posts \cup {post}
      /\ delivered' = [q \in Peers |->
                         IF q \in LocalsIn(x, c) \ {p}
                         THEN [delivered[q] EXCEPT ![d] = @ + 1]
                         ELSE delivered[q]]
      /\ inbox' = Transmitted(sent)
  BY DEF BroadcastPost
<1>3. ASSUME NEW q \in Peers \ {p}, ChannelOf[q] = c
      PROVE  MeantFor(posts', q, d)
  <2>1. post \in posts' /\ post.data = d /\ q \in post.to
    BY <1>2, <1>3 DEF Post, Audience
  <2> QED
    BY <2>1 DEF MeantFor
<1>4. DeliveredToAudience'
  <2> SUFFICES ASSUME NEW q \in Peers, NEW e \in Data, delivered'[q][e] > 0
               PROVE  MeantFor(posts', q, e)
    BY DEF DeliveredToAudience, MeantFor
  <2>1. CASE q \in LocalsIn(x, c) \ {p} /\ e = d
    BY <2>1, <1>3 DEF LocalsIn
  <2>2. CASE ~(q \in LocalsIn(x, c) \ {p} /\ e = d)
    <3>1. delivered[q] \in [Data -> Nat]
      BY DEF IInv, TypeOK
    <3>2. delivered'[q][e] = delivered[q][e]
      BY <1>2, <2>2, <3>1
    <3>3. MeantFor(posts, q, e)
      BY <3>2 DEF Delivery, DeliveredToAudience
    <3> QED
      BY <1>2, <3>3, AddressedWider
  <2> QED
    BY <2>1, <2>2
<1>5. \A n \in sent : n.on \in Sockets /\ n.message \in Addressed(posts')
  <2> SUFFICES ASSUME NEW r \in RemotesIn(x, c)
               PROVE  /\ r.socket \in Sockets
                      /\ Broadcast(p, r.id, d) \in Addressed(posts')
    BY DEF BroadcastEntries
  <2>1. /\ r.socket \in Sockets /\ r.id \in Peers
        /\ Home[r.id] # x /\ ChannelOf[r.id] = c
    BY <1>1, EntryFacts DEF RemotesIn
  <2>2. MeantFor(posts', r.id, d)
    BY <1>3, <2>1
  <2> QED
    BY <2>1, <2>2, PayloadsAddressed
<1>6. posts \subseteq posts' /\ InboxesAddressed
  BY <1>2 DEF Delivery
<1> HIDE DEF sent
<1>7. \A s \in Sockets : inbox'[s] \in Seq(SUBSET Addressed(posts'))
  BY <1>2, <1>5, <1>6, SendAddressed
<1> QED
  BY <1>4, <1>7 DEF Delivery, InboxesAddressed, Addressed, MeantFor

\* A direct message is delivered, or sent on, to its addressee only.
LEMMA DirectDelivers ==
  ASSUME IInv, Delivery, NEW p \in Peers, NEW q \in Peers, NEW d \in Data,
         DirectPost(p, q, d)
  PROVE  Delivery'
<1> DEFINE post == Post(p, d, {q})
<1>1. posts' = posts \cup {post}
  BY DEF DirectPost
<1>2. MeantFor(posts', q, d)
  <2>1. post \in posts' /\ post.data = d /\ q \in post.to
    BY <1>1 DEF Post
  <2> QED
    BY <2>1 DEF MeantFor
<1>3. DeliveredToAudience'
  <2> SUFFICES ASSUME NEW r \in Peers, NEW e \in Data, delivered'[r][e] > 0
               PROVE  MeantFor(posts', r, e)
    BY DEF DeliveredToAudience, MeantFor
  <2>1. CASE r = q /\ e = d
    BY <2>1, <1>2
  <2>2. CASE ~(r = q /\ e = d)
    <3>1. delivered \in [Peers -> [Data -> Nat]]
      BY DEF IInv, TypeOK
    <3>2. CASE UNCHANGED delivered
      BY <1>1, <3>2, AddressedWider DEF Delivery, DeliveredToAudience
    <3>3. CASE delivered' = [delivered EXCEPT ![q][d] = @ + 1]
      <4>1. delivered'[r][e] = delivered[r][e]
        BY <2>2, <3>1, <3>3
      <4>2. MeantFor(posts, r, e)
        BY <4>1 DEF Delivery, DeliveredToAudience
      <4> QED
        BY <1>1, <4>2, AddressedWider
    <3> QED
      BY <3>2, <3>3 DEF DirectPost
  <2> QED
    BY <2>1, <2>2
<1>4. posts \subseteq posts' /\ InboxesAddressed
  BY <1>1 DEF Delivery
<1>5. \A s \in Sockets : inbox'[s] \in Seq(SUBSET Addressed(posts'))
  <2>1. CASE UNCHANGED inbox
    BY <1>4, <2>1, AddressedWider, QueueWider DEF InboxesAddressed
  <2>2. ASSUME NEW r \in RemotesNamed(Home[p], q),
               inbox' = Transmitted({[on |-> r.socket,
                                      message |-> Message(p, q, d)]})
        PROVE  <1>5
    <3> DEFINE sent == {[on |-> r.socket, message |-> Message(p, q, d)]}
    <3>1. r.socket \in Sockets
      BY ConstantsAssumption, EntryFacts DEF RemotesNamed
    <3>2. Message(p, q, d) \in Addressed(posts')
      BY <1>2, PayloadsAddressed
    <3>3. \A n \in sent : n.on \in Sockets /\ n.message \in Addressed(posts')
      BY <3>1, <3>2
    <3>4. inbox' = Transmitted(sent)
      BY <2>2
    <3> HIDE DEF sent
    <3> QED
      BY <1>4, <3>3, <3>4, SendAddressed
  <2> QED
    BY <2>1, <2>2 DEF DirectPost
<1> QED
  BY <1>3, <1>5 DEF Delivery, InboxesAddressed, Addressed, MeantFor

\* The router delivers a received payload to the client it is addressed to.
LEMMA ReceiveDelivers ==
  ASSUME IInv, Delivery, NEW s \in Sockets, Receive(s)
  PROVE  Delivery'
<1>1. inbox[s] # <<>> /\ posts' = posts
  BY DEF Receive
<1>2. PICK m \in Head(inbox[s]) :
        ReceiveData(s, m) \/ ReceiveConnect(s, m) \/ ReceiveIgnored(s, m)
  BY DEF Receive
<1>3. /\ inbox \in [Sockets -> Seq(SUBSET Messages)]
      /\ delivered \in [Peers -> [Data -> Nat]]
      /\ \A t \in Sockets : inbox[t] \in Seq(SUBSET Addressed(posts))
  BY DEF IInv, TypeOK, Delivery, InboxesAddressed
<1>4. m \in Addressed(posts)
  BY <1>1, <1>2, <1>3, QueueFacts
<1>5. CASE ReceiveData(s, m)
  <2>1. /\ m.action \in {"broadcast", "message"}
        /\ inbox' = Consumed(inbox, s, m)
        /\ \/ delivered' = [delivered EXCEPT ![m.target][m.data] = @ + 1]
           \/ delivered' = delivered
    BY <1>5 DEF ReceiveData
  <2>2. MeantFor(posts, m.target, m.data)
    BY <1>4, <2>1 DEF Addressed
  <2>3. DeliveredToAudience'
    <3> SUFFICES ASSUME NEW r \in Peers, NEW e \in Data, delivered'[r][e] > 0
                 PROVE  MeantFor(posts, r, e)
      BY <1>1 DEF DeliveredToAudience, MeantFor
    <3>1. CASE r = m.target /\ e = m.data
      BY <2>2, <3>1
    <3>2. CASE ~(r = m.target /\ e = m.data)
      <4>1. delivered'[r][e] = delivered[r][e]
        BY <1>3, <2>1, <3>2
      <4> QED
        BY <4>1 DEF Delivery, DeliveredToAudience
    <3> QED
      BY <3>1, <3>2
  <2>4. \A t \in Sockets : inbox'[t] \in Seq(SUBSET Addressed(posts))
    BY <1>1, <1>3, <2>1, TakeAddressed
  <2> QED
    BY <1>1, <2>3, <2>4 DEF Delivery, InboxesAddressed
<1>6. CASE ReceiveConnect(s, m)
  <2> DEFINE sent == ConnectLocals(m.target, s, {m.source})
             boxes == Transmitted(sent)
  <2>1. /\ m.action = "connect"
        /\ inbox' = Consumed(boxes, s, m)
        /\ delivered' = delivered
    BY <1>6 DEF ReceiveConnect
  <2>2. m.source \in Peers /\ m.target \in Peers
    BY <1>4 DEF Addressed, Messages, MembershipMessages, DataMessages
  <2>3. \A n \in sent : n.on \in Sockets /\ n.message \in Addressed(posts)
    BY <2>2, NoticesAddressed DEF ConnectLocals
  <2>4. boxes[s] # <<>>
    <3>1. inbox[s] \in Seq(SUBSET Messages)
      BY <1>3
    <3>2. \A b : Append(inbox[s], b) # <<>>
      BY <3>1
    <3> QED
      BY <1>1, <3>2 DEF Transmitted
  <2> HIDE DEF sent
  <2>5. /\ boxes = [t \in Sockets |-> boxes[t]]
        /\ \A t \in Sockets : boxes[t] \in Seq(SUBSET Addressed(posts))
    BY <2>3, SendAddressed DEF Delivery
  <2> HIDE DEF boxes
  <2>6. \A t \in Sockets : inbox'[t] \in Seq(SUBSET Addressed(posts))
    BY <2>1, <2>4, <2>5, TakeAddressed
  <2>7. DeliveredToAudience'
    BY <1>1, <2>1 DEF Delivery, DeliveredToAudience, MeantFor
  <2> QED
    BY <1>1, <2>6, <2>7 DEF Delivery, InboxesAddressed
<1>7. CASE ReceiveIgnored(s, m)
  <2>1. inbox' = Consumed(inbox, s, m) /\ delivered' = delivered
    BY <1>7 DEF ReceiveIgnored
  <2>2. \A t \in Sockets : inbox'[t] \in Seq(SUBSET Addressed(posts))
    BY <1>1, <1>3, <2>1, TakeAddressed
  <2>3. DeliveredToAudience'
    BY <1>1, <2>1 DEF Delivery, DeliveredToAudience, MeantFor
  <2> QED
    BY <1>1, <2>2, <2>3 DEF Delivery, InboxesAddressed
<1> QED
  BY <1>2, <1>5, <1>6, <1>7

LEMMA DiscoverDelivers ==
  ASSUME IInv, Delivery, NEW x \in Proxies, NEW p \in Peers,
         NEW n \in 1..Announcements, Discover(x, p, n)
  PROVE  Delivery'
<1>1. UNCHANGED dataVars
  BY DEF Discover, IgnoreAdvert, CacheAdvert, Dial, ReuseProxy
<1>2. CASE UNCHANGED inbox
  BY <1>1, <1>2, EmptyingDelivers
<1>3. CASE ReuseProxy(x, p)
  <2>1. PICK s \in ProxiesAt(x, Addr(Home[p])) : CreateRemotePeer(x, p, s)
    BY <1>3 DEF ReuseProxy
  <2>2. s \in Sockets
    BY <2>1 DEF ProxiesAt, IInv, TypeOK
  <2> QED
    BY <1>1, <2>1, <2>2, CreateRemotePeerDelivers
<1> QED
  BY <1>2, <1>3 DEF Discover, IgnoreAdvert, CacheAdvert, Dial, socketVars

LEMMA OpenSocketDelivers ==
  ASSUME IInv, Delivery, NEW s \in Sockets, OpenSocket(s)
  PROVE  Delivery'
<1>1. UNCHANGED dataVars /\ CreateRemotePeer(Owner(s), s.peer, s)
  BY DEF OpenSocket
<1> QED
  BY <1>1, SocketFacts, CreateRemotePeerDelivers

\* The other actions send nothing; a closed end loses what was under way to it.
LEMMA SilentDelivers ==
  ASSUME IInv, Delivery,
         \/ \E x \in Proxies, p \in Peers, n \in 1..Announcements :
              Goodbye(x, p, n)
         \/ \E s \in Sockets : Accept(s) \/ DialFails(s) \/ CloseSocket(s)
         \/ Timer
         \/ \E x \in Proxies : Crash(x)
         \/ UNCHANGED vars
  PROVE  Delivery'
<1>1. UNCHANGED dataVars
  BY DEF Goodbye, Accept, DialFails, CloseSocket, Timer, SendAdvert,
         SendGoodbye, Crash, vars
<1>2. CASE UNCHANGED inbox
  BY <1>1, <1>2, EmptyingDelivers
<1>3. ASSUME NEW s \in Sockets, CloseSocket(s)
      PROVE  Delivery'
  <2>1. inbox' = [inbox EXCEPT ![s] = <<>>] /\ inbox = [t \in Sockets |-> inbox[t]]
    BY <1>3 DEF CloseSocket, IInv, TypeOK
  <2>2. \A t \in Sockets : inbox'[t] = inbox[t] \/ inbox'[t] = <<>>
    BY <2>1
  <2> QED
    BY <1>1, <2>2, EmptyingDelivers
<1>4. ASSUME NEW x \in Proxies, Crash(x)
      PROVE  Delivery'
  <2>1. \A t \in Sockets : inbox'[t] = inbox[t] \/ inbox'[t] = <<>>
    BY <1>4 DEF Crash
  <2> QED
    BY <1>1, <2>1, EmptyingDelivers
<1> QED
  BY <1>2, <1>3, <1>4 DEF Goodbye, Accept, DialFails, Timer, SendAdvert,
                          SendGoodbye, vars, socketVars

\* One case per action.
LEMMA NextDelivers ==
  IInv /\ Delivery /\ [Next]_vars => Delivery'
<1> SUFFICES ASSUME IInv, Delivery, [Next]_vars PROVE Delivery'
  OBVIOUS
<1>1. CASE ClientStep
  BY <1>1, ClientJoinDelivers, ClientLeaveDelivers, BroadcastDelivers,
     DirectDelivers DEF ClientStep
<1>2. CASE LoopStep
  BY <1>2, DiscoverDelivers, OpenSocketDelivers, ReceiveDelivers,
     SilentDelivers DEF LoopStep
<1>3. CASE Timer \/ Failure \/ UNCHANGED vars
  BY <1>3, SilentDelivers DEF Failure
<1> QED
  BY <1>1, <1>2, <1>3 DEF Next

\* A broadcast reaches only other clients of its sender's channel, and a direct
\* message only the client that it names, of whatever channel, through any
\* sockets, failures and lists of remote peers (Router.handleLocalMessage picks
\* the receivers, handleRemoteMessage goes by the target that the message names).
THEOREM DeliveredToAudienceAlways == Spec => []DeliveredToAudience
<1>1. Init => Delivery
  <2> SUFFICES ASSUME Init PROVE Delivery
    OBVIOUS
  <2>1. DeliveredToAudience
    BY DEF Init, DeliveredToAudience
  <2>2. InboxesAddressed
    BY DEF Init, InboxesAddressed
  <2> QED
    BY <2>1, <2>2 DEF Delivery
<1>2. IInv /\ Delivery /\ [Next]_vars => Delivery'
  BY NextDelivers
<1>3. Delivery => DeliveredToAudience
  BY DEF Delivery
<1> QED
  BY <1>1, <1>2, <1>3, Invariant, PTL DEF Spec
=============================================================================
