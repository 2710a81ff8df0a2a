---------------------- MODULE NamedWebsocketProxyProofs ----------------------
(***************************************************************************)
(* Proofs, for any machines, channels, clients and payloads and any number *)
(* of announcements, that the specification keeps its types and its safety *)
(* invariants.                                                             *)
(***************************************************************************)
EXTENDS ProxyProperties, TLAPS

\* Queues over a set.
LEMMA QueueFacts ==
  ASSUME NEW S, NEW q \in Seq(S)
  PROVE  /\ \A e \in S : Append(q, e) \in Seq(S)
         /\ q # <<>> => Head(q) \in S /\ Tail(q) \in Seq(S)
         /\ \A e \in S : \A r \in Seq(S) : <<e>> \o r \in Seq(S)
  OBVIOUS

LEMMA FarRecord ==
  ASSUME NEW s \in Sockets
  PROVE  Far(s) = [client |-> s.client, peer |-> s.peer, advert |-> s.advert,
                   side |-> IF s.side = "client" THEN "server" ELSE "client"]
  BY DEF Far, Sockets

\* The two sides of a connection.
LEMMA SocketFacts ==
  ASSUME NEW s \in Sockets
  PROVE  /\ Far(s) \in Sockets
         /\ Far(Far(s)) = s
         /\ Far(s) # s
         /\ Far(s).client = s.client
         /\ Far(s).peer = s.peer
         /\ s.client \in Proxies
         /\ s.peer \in Peers
         /\ s.side \in {"client", "server"}
         /\ Owner(s) \in Proxies
         /\ Owner(s) = IF s.side = "client" THEN s.client ELSE Home[s.peer]
         /\ Owner(Far(s)) = IF s.side = "client" THEN Home[s.peer] ELSE s.client
<1>1. /\ s.client \in Proxies /\ s.peer \in Peers
      /\ s.advert \in 1..Announcements /\ s.side \in {"client", "server"}
  BY DEF Sockets
<1> DEFINE other == IF s.side = "client" THEN "server" ELSE "client"
<1>2. s = [client |-> s.client, peer |-> s.peer, advert |-> s.advert,
           side |-> s.side]
  BY DEF Sockets
<1>3. Far(s) = [client |-> s.client, peer |-> s.peer, advert |-> s.advert,
                side |-> other]
  BY <1>2, FarRecord
<1>4. Far(s) \in Sockets
  BY <1>1, <1>3 DEF Sockets
<1>5. Far(s).client = s.client /\ Far(s).peer = s.peer /\ Far(s).side = other
  BY <1>3
<1>6. Far(s) # s
  BY <1>1, <1>5
<1>7. Far(Far(s)) = s
  <2>1. Far(s).advert = s.advert
    BY <1>3
  <2>2. Far(Far(s)) = [client |-> s.client, peer |-> s.peer,
                       advert |-> s.advert, side |-> s.side]
    BY <1>1, <1>4, <1>5, <2>1, FarRecord
  <2> QED
    BY <2>2, <1>2
<1>8. Owner(s) \in Proxies
  BY <1>1, ConstantsAssumption DEF Owner
<1>9. Owner(Far(s)) = IF s.side = "client" THEN Home[s.peer] ELSE s.client
  BY <1>1, <1>5 DEF Owner
<1> QED
  BY <1>1, <1>4, <1>5, <1>6, <1>7, <1>8, <1>9 DEF Owner

\* A proxy entry found by the address of a machine is a connection that this
\* proxy has dialled to that machine: Host headers carry a port.
LEMMA DialledSockets ==
  ASSUME NEW x \in Proxies, NEW s \in Sockets, NEW y \in Proxies,
         Ip(s) = Addr(y)
  PROVE  s.side = "client" /\ Home[s.peer] = y
  BY SocketFacts DEF Ip, Addr, HostHeader

\* Whatever sets of messages the inboxes keep to, sending keeps them to it if
\* each message sent does.
LEMMA TransmittedKeeps ==
  ASSUME NEW G,
         \A s \in Sockets : inbox[s] \in Seq(SUBSET G[s]),
         NEW sent,
         \A n \in sent : n.on \in Sockets /\ n.message \in G[Far(n.on)]
  PROVE  /\ Transmitted(sent) = [s \in Sockets |-> Transmitted(sent)[s]]
         /\ \A s \in Sockets : Transmitted(sent)[s] \in Seq(SUBSET G[s])
<1>1. Transmitted(sent) = [s \in Sockets |-> Transmitted(sent)[s]]
  BY DEF Transmitted
<1>2. ASSUME NEW s \in Sockets
      PROVE  Transmitted(sent)[s] \in Seq(SUBSET G[s])
  <2> DEFINE burst == {m.message : m \in {n \in sent : Far(n.on) = s}}
  <2>1. burst \in SUBSET G[s]
    OBVIOUS
  <2>2. Append(inbox[s], burst) \in Seq(SUBSET G[s])
    BY <2>1, QueueFacts
  <2> QED
    BY <2>2 DEF Transmitted
<1> QED
  BY <1>1, <1>2

\* The same for taking a message out.
LEMMA ConsumedKeeps ==
  ASSUME NEW G, NEW boxes, boxes = [s \in Sockets |-> boxes[s]],
         \A s \in Sockets : boxes[s] \in Seq(SUBSET G[s]),
         NEW t \in Sockets, boxes[t] # <<>>, NEW m
  PROVE  /\ Consumed(boxes, t, m) = [s \in Sockets |-> Consumed(boxes, t, m)[s]]
         /\ \A s \in Sockets : Consumed(boxes, t, m)[s] \in Seq(SUBSET G[s])
<1>1. /\ Head(boxes[t]) \in SUBSET G[t]
      /\ Tail(boxes[t]) \in Seq(SUBSET G[t])
  BY QueueFacts
<1>2. Head(boxes[t]) \ {m} \in SUBSET G[t]
  BY <1>1
<1>3. <<Head(boxes[t]) \ {m}>> \o Tail(boxes[t]) \in Seq(SUBSET G[t])
  BY <1>1, <1>2, QueueFacts
<1>4. Rest(boxes[t], m) \in Seq(SUBSET G[t])
  BY <1>1, <1>3 DEF Rest
<1> QED
  BY <1>4 DEF Consumed
-----------------------------------------------------------------------------
(* Facts of the invariant that several actions use.                        *)

\* Everything the invariant says of a remote entry.
LEMMA EntryFacts ==
  ASSUME IInv, NEW x \in Proxies, NEW r \in remotePeers[x]
  PROVE  /\ r \in RemotePeers
         /\ r.id \in Peers
         /\ r.id \in Joined
         /\ r.socket \in Sockets
         /\ r.channel \in channels[x]
         /\ r.channel = ChannelOf[r.id]
         /\ Owner(r.socket) = x
         /\ status[r.socket] = "open"
         /\ Owner(Far(r.socket)) = Home[r.id]
         /\ Home[r.id] # x
<1>1. r \in RemotePeers
  BY DEF IInv, TypeOK
<1>2. r.id \in Peers /\ r.socket \in Sockets
  BY <1>1 DEF RemotePeers
<1>3. /\ r.id \in Joined
      /\ Owner(r.socket) = x
      /\ status[r.socket] = "open"
      /\ Owner(Far(r.socket)) = Home[r.id]
  BY DEF IInv, RoutesLead
<1>4. r.channel \in channels[x] /\ r.channel = ChannelOf[r.id]
  BY DEF IInv, ChannelsCoverPeers, RemotesFit
<1>5. r.socket.client # Home[r.socket.peer]
  BY <1>2, <1>3 DEF IInv, DialsWanted
<1>6. Home[r.id] # x
  BY <1>2, <1>3, <1>5, SocketFacts
<1> QED
  BY <1>1, <1>2, <1>3, <1>4, <1>6

\* A connect fits the socket at the machine of the peer it is for, when it
\* comes from the machine of the peer it introduces.
LEMMA ConnectFits ==
  ASSUME NEW s \in Sockets, NEW joined \in SUBSET Peers,
         NEW p \in joined, NEW q \in Peers,
         SameChannel(p, q), Home[q] = Owner(s), Home[p] = Owner(Far(s))
  PROVE  Connect(p, q) \in Fitting(s, joined)
  BY DEF Connect, Fitting, Introduces, SameChannel, Messages,
         MembershipMessages

\* Any other message fits anywhere.
LEMMA OthersFit ==
  ASSUME NEW s, NEW joined, NEW p \in Peers, NEW q \in Peers
  PROVE  /\ Disconnect(p, q) \in Fitting(s, joined)
         /\ \A d \in Data : /\ Broadcast(p, q, d) \in Fitting(s, joined)
                            /\ Message(p, q, d) \in Fitting(s, joined)
<1>1. Disconnect(p, q) \in Messages /\ Disconnect(p, q).action = "disconnect"
  BY DEF Disconnect, Messages, MembershipMessages
<1>2. ASSUME NEW d \in Data
      PROVE  /\ Broadcast(p, q, d) \in Messages
             /\ Broadcast(p, q, d).action = "broadcast"
             /\ Message(p, q, d) \in Messages
             /\ Message(p, q, d).action = "message"
  BY DEF Broadcast, Message, Messages, DataMessages
<1> QED
  BY <1>1, <1>2 DEF Fitting

LEMMA QueueWider ==
  ASSUME NEW A, NEW B, A \subseteq B, NEW q \in Seq(SUBSET A)
  PROVE  q \in Seq(SUBSET B)
<1>1. \A i \in 1..Len(q) : q[i] \in SUBSET B
  BY QueueFacts
<1>2. q \in [1..Len(q) -> SUBSET B] /\ Len(q) \in Nat
  BY <1>1
<1> QED
  BY <1>2

\* Inboxes keep fitting when more clients have joined.
LEMMA InboxesWiden ==
  ASSUME IInv, NEW joined, Joined \subseteq joined
  PROVE  \A s \in Sockets : inbox[s] \in Seq(SUBSET Fitting(s, joined))
<1>1. ASSUME NEW s \in Sockets
      PROVE  inbox[s] \in Seq(SUBSET Fitting(s, joined))
  <2>1. inbox[s] \in Seq(SUBSET Fitting(s, Joined))
    BY DEF IInv, InboxesFit
  <2>2. Fitting(s, Joined) \subseteq Fitting(s, joined)
    BY DEF Fitting
  <2> QED
    BY <2>1, <2>2, QueueWider
<1> QED
  BY <1>1

\* Inboxes that fit are well typed.
LEMMA FittingBoxes ==
  ASSUME NEW boxes, NEW joined, boxes = [s \in Sockets |-> boxes[s]],
         \A s \in Sockets : boxes[s] \in Seq(SUBSET Fitting(s, joined))
  PROVE  boxes \in [Sockets -> Seq(SUBSET Messages)]
<1>1. ASSUME NEW s \in Sockets PROVE boxes[s] \in Seq(SUBSET Messages)
  <2>1. Fitting(s, joined) \subseteq Messages
    BY DEF Fitting
  <2> QED
    BY <2>1, QueueWider
<1> QED
  BY <1>1

\* What a handler sends keeps the inboxes fitting if each message fits.
LEMMA SendFits ==
  ASSUME IInv, NEW joined, Joined \subseteq joined, NEW sent,
         \A n \in sent : /\ n.on \in Sockets
                         /\ n.message \in Fitting(Far(n.on), joined)
  PROVE  /\ Transmitted(sent) \in [Sockets -> Seq(SUBSET Messages)]
         /\ Transmitted(sent) = [s \in Sockets |-> Transmitted(sent)[s]]
         /\ \A s \in Sockets :
              Transmitted(sent)[s] \in Seq(SUBSET Fitting(s, joined))
<1> DEFINE G == [s \in Sockets |-> Fitting(s, joined)]
<1>1. \A s \in Sockets : inbox[s] \in Seq(SUBSET G[s])
  BY InboxesWiden
<1>2. \A n \in sent : n.on \in Sockets /\ n.message \in G[Far(n.on)]
  BY SocketFacts
<1> HIDE DEF G
<1>3. /\ Transmitted(sent) = [s \in Sockets |-> Transmitted(sent)[s]]
      /\ \A s \in Sockets : Transmitted(sent)[s] \in Seq(SUBSET G[s])
  BY <1>1, <1>2, TransmittedKeeps
<1>4. \A s \in Sockets :
        Transmitted(sent)[s] \in Seq(SUBSET Fitting(s, joined))
  BY <1>3 DEF G
<1> QED
  BY <1>3, <1>4, FittingBoxes
-----------------------------------------------------------------------------
(* Every action keeps the invariant.                                       *)

LEMMA ClientJoinStep ==
  ASSUME IInv, NEW p \in Peers, ClientJoin(p)
  PROVE  IInv'
<1> DEFINE x == Home[p]
           c == ChannelOf[p]
           remotes == RemotesIn(x, c)
           locals == LocalsIn(x, c)
<1> USE ConstantsAssumption
<1>1. x \in Proxies /\ c \in Channels
  OBVIOUS
<1>2. /\ client[p] = "new"
      /\ client' = [client EXCEPT ![p] = "open"]
      /\ channels' = [channels EXCEPT ![x] = @ \cup {c}]
      /\ localPeers' = [localPeers EXCEPT ![x] = @ \cup {p}]
      /\ told' = [Notified(locals, {p}) EXCEPT ![p] = locals \cup Ids(remotes)]
      /\ inbox' = Transmitted(ConnectEntries(p, remotes))
      /\ UNCHANGED <<timerVars, mdns, remotePeers, proxies, discoveryAdverts,
                     status, dataVars, failures>>
  BY DEF ClientJoin
<1>3. Joined' = Joined \cup {p} /\ Joined' \subseteq Peers
  BY <1>2 DEF Joined, IInv, TypeOK
<1>4. \A r \in remotes : /\ r \in remotePeers[x] /\ r.channel = c
  BY DEF RemotesIn
<1>5. \A q \in locals : /\ q \in localPeers[x] /\ ChannelOf[q] = c
                        /\ q \in Peers /\ Home[q] = x /\ q # p /\ Open(q)
  BY <1>1, <1>2 DEF LocalsIn, IInv, LocalsAreOpen, Open
<1>6. \A n \in ConnectEntries(p, remotes) :
        /\ n.on \in Sockets
        /\ n.message \in Fitting(Far(n.on), Joined')
  <2> SUFFICES ASSUME NEW r \in remotes
               PROVE  /\ r.socket \in Sockets
                      /\ Connect(p, r.id) \in Fitting(Far(r.socket), Joined')
    BY DEF ConnectEntries
  <2>1. /\ r.socket \in Sockets /\ r.id \in Peers
        /\ Home[r.id] = Owner(Far(r.socket)) /\ x = Owner(r.socket)
        /\ SameChannel(p, r.id)
    BY <1>1, <1>4, EntryFacts DEF SameChannel
  <2>2. Far(r.socket) \in Sockets /\ Far(Far(r.socket)) = r.socket
    BY <2>1, SocketFacts
  <2>3. p \in Joined'
    BY <1>3
  <2> QED
    BY <2>1, <2>2, <2>3, <1>3, ConnectFits
<1>7. /\ inbox' \in [Sockets -> Seq(SUBSET Messages)]
      /\ \A s \in Sockets : inbox'[s] \in Seq(SUBSET Fitting(s, Joined'))
  BY <1>2, <1>3, <1>6, SendFits
<1>8. told' \in [Peers -> SUBSET Peers]
      /\ told'[p] = locals \cup Ids(remotes)
      /\ \A q \in Peers \ {p} :
           told'[q] = IF q \in locals THEN told[q] \cup {p} ELSE told[q]
  <2>1. Ids(remotes) \in SUBSET Peers
    BY <1>1, <1>4, EntryFacts DEF Ids
  <2>2. locals \in SUBSET Peers
    BY <1>5
  <2> QED
    BY <1>2, <2>1, <2>2 DEF Notified, IInv, TypeOK
<1>9. TypeOK'
  <2>1. client' \in [Peers -> {"new", "open", "closed", "lost"}]
    BY <1>2 DEF IInv, TypeOK
  <2>2. /\ channels' \in [Proxies -> SUBSET Channels]
        /\ localPeers' \in [Proxies -> SUBSET Peers]
    BY <1>1, <1>2 DEF IInv, TypeOK
  <2> QED
    BY <1>2, <1>7, <1>8, <2>1, <2>2 DEF IInv, TypeOK, timerVars, dataVars
<1>10. LocalsAreOpen'
  BY <1>1, <1>2 DEF IInv, TypeOK, LocalsAreOpen, Open
<1>11. ChannelsCoverPeers'
  BY <1>1, <1>2 DEF IInv, TypeOK, ChannelsCoverPeers
<1>12. ProxiesAreOpen' /\ RemotesFit'
  BY <1>2 DEF IInv, ProxiesAreOpen, RemotesFit
<1>13. RoutesLead'
  BY <1>2, <1>3 DEF IInv, RoutesLead
<1>14. ViewSound'
  <2> SUFFICES ASSUME NEW q \in Peers, NEW o \in told'[q]
               PROVE  /\ SameChannel(q, o)
                      /\ o # q
                      /\ \/ o \in localPeers'[Home[q]]
                         \/ \E r \in RemotesNamed(Home[q], o)' :
                              r.channel = ChannelOf[q]
    BY DEF ViewSound, SameChannel
  <2>1. \A y \in Proxies : localPeers[y] \subseteq localPeers'[y]
    BY <1>1, <1>2 DEF IInv, TypeOK
  <2>2. \A y, id : RemotesNamed(y, id)' = RemotesNamed(y, id)
    BY <1>2 DEF RemotesNamed
  <2>3. CASE q # p /\ o \in told[q]
    BY <2>1, <2>2, <2>3 DEF IInv, ViewSound
  <2>4. CASE q # p /\ o \notin told[q]
    <3>1. q \in locals /\ o = p
      BY <1>8, <2>4
    <3> QED
      BY <1>1, <1>2, <1>5, <3>1 DEF SameChannel, IInv, TypeOK
  <2>5. CASE q = p /\ o \in locals
    BY <1>5, <2>1, <2>5 DEF SameChannel
  <2>6. CASE q = p /\ o \in Ids(remotes)
    <3>1. PICK r \in remotes : o = r.id
      BY <2>6 DEF Ids
    <3>2. Home[o] # x /\ ChannelOf[o] = c
      BY <1>1, <1>4, <3>1, EntryFacts
    <3>3. r \in RemotesNamed(x, o)
      BY <1>4, <3>1 DEF RemotesNamed
    <3> QED
      BY <1>4, <2>2, <2>6, <3>2, <3>3 DEF SameChannel
  <2> QED
    BY <1>8, <2>3, <2>4, <2>5, <2>6
<1>15. InboxesFit'
  BY <1>7 DEF InboxesFit
<1>16. PacketsJoined'
  BY <1>2, <1>3 DEF IInv, PacketsJoined
<1>17. DialsWanted'
  BY <1>1, <1>2, <1>3, SocketFacts DEF IInv, TypeOK, DialsWanted
<1>18. ToldAreOpen'
  BY <1>2, <1>5, <1>8 DEF IInv, TypeOK, ToldAreOpen, Open
<1>19. AdvertsSent' /\ SocketsFresh'
  BY <1>2 DEF IInv, AdvertsSent, SocketsFresh, timerVars
<1> QED
  BY <1>9, <1>10, <1>11, <1>12, <1>13, <1>14, <1>15, <1>16, <1>17, <1>18, <1>19
     DEF IInv

LEMMA ClientLeaveStep ==
  ASSUME IInv, NEW p \in Peers, ClientLeave(p)
  PROVE  IInv'
<1> DEFINE x == Home[p]
           c == ChannelOf[p]
           remotes == RemotesIn(x, c)
<1> USE ConstantsAssumption
<1>1. x \in Proxies /\ c \in Channels
  OBVIOUS
<1>2. /\ client[p] = "open"
      /\ client' = [client EXCEPT ![p] = "closed"]
      /\ localPeers' = [localPeers EXCEPT ![x] = @ \ {p}]
      /\ told' = [q \in Peers |->
                    IF q = p THEN {}
                    ELSE IF q \in LocalsIn(x, c) THEN told[q] \ {p}
                    ELSE told[q]]
      /\ inbox' = Transmitted(DisconnectEntries(p, remotes))
      /\ UNCHANGED <<timerVars, mdns, channels, remotePeers, proxies,
                     discoveryAdverts, status, dataVars, failures>>
  BY DEF ClientLeave
<1>3. Joined' = Joined
  BY <1>2 DEF Joined, IInv, TypeOK
<1>4. \A n \in DisconnectEntries(p, remotes) :
        /\ n.on \in Sockets
        /\ n.message \in Fitting(Far(n.on), Joined)
  <2> SUFFICES ASSUME NEW r \in remotes
               PROVE  /\ r.socket \in Sockets
                      /\ Disconnect(p, r.id) \in Fitting(Far(r.socket), Joined)
    BY DEF DisconnectEntries
  <2>1. r.socket \in Sockets /\ r.id \in Peers
    BY <1>1, EntryFacts DEF RemotesIn
  <2> QED
    BY <2>1, OthersFit
<1>5. /\ inbox' \in [Sockets -> Seq(SUBSET Messages)]
      /\ \A s \in Sockets : inbox'[s] \in Seq(SUBSET Fitting(s, Joined'))
  BY <1>2, <1>3, <1>4, SendFits
<1>6. TypeOK'
  <2>1. /\ client' \in [Peers -> {"new", "open", "closed", "lost"}]
        /\ told' \in [Peers -> SUBSET Peers]
    BY <1>2 DEF IInv, TypeOK
  <2>2. localPeers' \in [Proxies -> SUBSET Peers]
    BY <1>1, <1>2 DEF IInv, TypeOK
  <2> QED
    BY <1>2, <1>5, <2>1, <2>2 DEF IInv, TypeOK, timerVars, dataVars
<1>7. LocalsAreOpen'
  BY <1>1, <1>2 DEF IInv, TypeOK, LocalsAreOpen, Open
<1>8. ToldAreOpen'
  BY <1>2 DEF IInv, TypeOK, ToldAreOpen, Open
<1>9. ChannelsCoverPeers'
  BY <1>1, <1>2 DEF IInv, TypeOK, ChannelsCoverPeers
<1>10. ProxiesAreOpen' /\ RemotesFit'
  BY <1>2 DEF IInv, ProxiesAreOpen, RemotesFit
<1>11. RoutesLead'
  BY <1>2, <1>3 DEF IInv, RoutesLead
<1>12. ViewSound'
  <2> SUFFICES ASSUME NEW q \in Peers, NEW o \in told'[q]
               PROVE  /\ SameChannel(q, o)
                      /\ o # q
                      /\ \/ o \in localPeers'[Home[q]]
                         \/ \E r \in RemotesNamed(Home[q], o)' :
                              r.channel = ChannelOf[q]
    BY DEF ViewSound, SameChannel
  <2>1. o \in told[q] /\ q # p /\ ~(q \in LocalsIn(x, c) /\ o = p)
    BY <1>2 DEF IInv, TypeOK
  <2>2. \A y, id : RemotesNamed(y, id)' = RemotesNamed(y, id)
    BY <1>2 DEF RemotesNamed
  <2>3. Open(q)
    BY <2>1 DEF IInv, ToldAreOpen
  <2>4. SameChannel(q, o) /\ o # q
    BY <2>1 DEF IInv, ViewSound
  <2>5. CASE o \in localPeers[Home[q]]
    <3>1. Home[o] = Home[q]
      BY <2>5 DEF IInv, LocalsAreOpen
    <3>2. o # p
      BY <1>1, <2>1, <2>3, <2>4, <3>1
         DEF IInv, LocalsAreOpen, LocalsIn, SameChannel
    <3> QED
      BY <1>1, <1>2, <2>4, <2>5, <3>2 DEF IInv, TypeOK
  <2>6. CASE \E r \in RemotesNamed(Home[q], o) : r.channel = ChannelOf[q]
    BY <2>2, <2>4, <2>6
  <2> QED
    BY <2>1, <2>5, <2>6 DEF IInv, ViewSound
<1>13. InboxesFit'
  BY <1>5 DEF InboxesFit
<1>14. PacketsJoined'
  BY <1>2, <1>3 DEF IInv, PacketsJoined
<1>15. DialsWanted'
  BY <1>2, <1>3 DEF IInv, DialsWanted
<1>16. AdvertsSent' /\ SocketsFresh'
  BY <1>2 DEF IInv, AdvertsSent, SocketsFresh, timerVars
<1> QED
  BY <1>6, <1>7, <1>8, <1>9, <1>10, <1>11, <1>12, <1>13, <1>14, <1>15, <1>16
     DEF IInv

\* A step that changes neither who is connected nor who has joined keeps all
\* of the invariant that says nothing of types, packets and inboxes.
LEMMA ListsStay ==
  ASSUME IInv, UNCHANGED <<clientVars, channels, localPeers, remotePeers,
                           proxies, status>>
  PROVE  /\ Joined' = Joined
         /\ LocalsAreOpen' /\ ToldAreOpen' /\ ChannelsCoverPeers'
         /\ ProxiesAreOpen' /\ RoutesLead' /\ ViewSound' /\ RemotesFit'
         /\ DialsWanted'
<1>1. Joined' = Joined
  BY DEF Joined, clientVars
<1>2. LocalsAreOpen' /\ ToldAreOpen' /\ ChannelsCoverPeers'
  BY DEF IInv, LocalsAreOpen, ToldAreOpen, ChannelsCoverPeers, Open, clientVars
<1>3. ProxiesAreOpen' /\ RemotesFit'
  BY DEF IInv, ProxiesAreOpen, RemotesFit
<1>4. RoutesLead' /\ DialsWanted'
  BY <1>1 DEF IInv, RoutesLead, DialsWanted
<1>5. ViewSound'
  BY DEF IInv, ViewSound, SameChannel, RemotesNamed, clientVars
<1> QED
  BY <1>1, <1>2, <1>3, <1>4, <1>5

LEMMA BroadcastPostStep ==
  ASSUME IInv, NEW p \in Peers, NEW d \in Data, BroadcastPost(p, d)
  PROVE  IInv'
<1> DEFINE x == Home[p]
           c == ChannelOf[p]
           remotes == RemotesIn(x, c)
<1>1. x \in Proxies
  BY ConstantsAssumption
<1>2. /\ posts' = posts \cup {Post(p, d, Audience(p))}
      /\ delivered' = [q \in Peers |->
                         IF q \in LocalsIn(x, c) \ {p}
                         THEN [delivered[q] EXCEPT ![d] = @ + 1]
                         ELSE delivered[q]]
      /\ inbox' = Transmitted(BroadcastEntries(p, remotes, d))
      /\ UNCHANGED <<clientVars, timerVars, mdns, appVars, status, failures>>
  BY DEF BroadcastPost
<1>3. UNCHANGED <<clientVars, channels, localPeers, remotePeers, proxies, status>>
  BY <1>2 DEF appVars
<1>4. \A n \in BroadcastEntries(p, remotes, d) :
        /\ n.on \in Sockets
        /\ n.message \in Fitting(Far(n.on), Joined)
  <2> SUFFICES ASSUME NEW r \in remotes
               PROVE  /\ r.socket \in Sockets
                      /\ Broadcast(p, r.id, d)
                           \in Fitting(Far(r.socket), Joined)
    BY DEF BroadcastEntries
  <2>1. r.socket \in Sockets /\ r.id \in Peers
    BY <1>1, EntryFacts DEF RemotesIn
  <2> QED
    BY <2>1, OthersFit
<1>5. /\ inbox' \in [Sockets -> Seq(SUBSET Messages)]
      /\ \A s \in Sockets : inbox'[s] \in Seq(SUBSET Fitting(s, Joined))
  BY <1>2, <1>4, SendFits
<1>6. Joined' = Joined
  BY <1>3, ListsStay
<1>7. InboxesFit'
  BY <1>5, <1>6 DEF InboxesFit
<1>8. PacketsJoined' /\ AdvertsSent' /\ SocketsFresh'
  BY <1>2, <1>6
     DEF IInv, PacketsJoined, AdvertsSent, SocketsFresh, timerVars
<1>9. TypeOK'
  <2>1. delivered' \in [Peers -> [Data -> Nat]]
    BY <1>2 DEF IInv, TypeOK
  <2>2. Post(p, d, Audience(p)) \in Posts
    BY DEF IInv, TypeOK, Post, Posts, Audience
  <2>3. posts' \subseteq Posts
    BY <1>2, <2>2 DEF IInv, TypeOK
  <2> QED
    BY <1>2, <1>5, <2>1, <2>3
       DEF IInv, TypeOK, clientVars, timerVars, appVars
<1> QED
  BY <1>3, <1>7, <1>8, <1>9, ListsStay DEF IInv

LEMMA DirectPostStep ==
  ASSUME IInv, NEW p \in Peers, NEW q \in Peers, NEW d \in Data,
         DirectPost(p, q, d)
  PROVE  IInv'
<1> DEFINE x == Home[p]
<1>1. x \in Proxies
  BY ConstantsAssumption
<1>2. /\ posts' = posts \cup {Post(p, d, {q})}
      /\ UNCHANGED <<clientVars, timerVars, mdns, appVars, status, failures>>
  BY DEF DirectPost
<1>3. UNCHANGED <<clientVars, channels, localPeers, remotePeers, proxies, status>>
  BY <1>2 DEF appVars
<1>4. Joined' = Joined
  BY <1>3, ListsStay
<1>5. /\ inbox' \in [Sockets -> Seq(SUBSET Messages)]
      /\ \A s \in Sockets : inbox'[s] \in Seq(SUBSET Fitting(s, Joined))
  <2>1. CASE UNCHANGED inbox
    BY <2>1 DEF IInv, TypeOK, InboxesFit
  <2>2. ASSUME NEW r \in RemotesNamed(x, q),
               inbox' = Transmitted({[on |-> r.socket,
                                      message |-> Message(p, q, d)]})
        PROVE  <1>5!1 /\ <1>5!2
    <3>1. r.socket \in Sockets
      BY <1>1, EntryFacts DEF RemotesNamed
    <3>2. Message(p, q, d) \in Fitting(Far(r.socket), Joined)
      BY OthersFit
    <3> DEFINE sent == {[on |-> r.socket, message |-> Message(p, q, d)]}
    <3>3. \A n \in sent : /\ n.on \in Sockets
                          /\ n.message \in Fitting(Far(n.on), Joined)
      BY <3>1, <3>2
    <3>4. inbox' = Transmitted(sent)
      BY <2>2
    <3> HIDE DEF sent
    <3> QED
      BY <3>3, <3>4, SendFits
  <2> QED
    BY <2>1, <2>2 DEF DirectPost
<1>6. InboxesFit'
  BY <1>4, <1>5 DEF InboxesFit
<1>7. PacketsJoined' /\ AdvertsSent' /\ SocketsFresh'
  BY <1>2, <1>4
     DEF IInv, PacketsJoined, AdvertsSent, SocketsFresh, timerVars
<1>8. delivered' \in [Peers -> [Data -> Nat]]
  <2>1. CASE delivered' = [delivered EXCEPT ![q][d] = @ + 1]
    BY <2>1 DEF IInv, TypeOK
  <2>2. CASE UNCHANGED delivered
    BY <2>2 DEF IInv, TypeOK
  <2> QED
    BY <2>1, <2>2 DEF DirectPost
<1>9. TypeOK'
  <2>1. Post(p, d, {q}) \in Posts
    BY DEF IInv, TypeOK, Post, Posts
  <2>2. posts' \subseteq Posts
    BY <1>2, <2>1 DEF IInv, TypeOK
  <2> QED
    BY <1>2, <1>5, <1>8, <2>2 DEF IInv, TypeOK, clientVars, timerVars, appVars
<1> QED
  BY <1>3, <1>6, <1>7, <1>9, ListsStay DEF IInv

LEMMA SendAdvertStep ==
  ASSUME IInv, NEW p \in Peers, SendAdvert(p)
  PROVE  IInv'
<1> DEFINE sent == [kind : {"advert"}, peer : {p}, number : {advSent[p] + 1},
                    to : Hearers(p)]
<1>1. /\ client[p] \in {"open", "closed"}
      /\ advSent[p] < Announcements
      /\ advSent' = [advSent EXCEPT ![p] = @ + 1]
      /\ mdns' = mdns \cup sent
      /\ UNCHANGED <<clientVars, byeSent, appVars, socketVars, dataVars, failures>>
  BY DEF SendAdvert
<1>2. UNCHANGED <<clientVars, channels, localPeers, remotePeers, proxies, status>>
  BY <1>1 DEF appVars, socketVars
<1>3. Joined' = Joined
  BY <1>2, ListsStay
<1>4. advSent[p] \in 0..Announcements /\ advSent[p] + 1 \in 1..Announcements
  BY <1>1, ConstantsAssumption DEF IInv, TypeOK
<1>5. TypeOK'
  <2>1. advSent' \in [Peers -> 0..Announcements]
    BY <1>1, <1>4, ConstantsAssumption DEF IInv, TypeOK
  <2>2. sent \subseteq Packets
    BY <1>4 DEF Packets, Hearers
  <2>3. mdns' \subseteq Packets
    BY <1>1, <2>2 DEF IInv, TypeOK
  <2> QED
    BY <1>1, <2>1, <2>3
       DEF IInv, TypeOK, clientVars, appVars, socketVars, dataVars
<1>6. PacketsJoined'
  <2>1. p \in Joined
    BY <1>1 DEF Joined
  <2>2. \A k \in sent : k.peer = p
    OBVIOUS
  <2> QED
    BY <1>1, <1>3, <2>1, <2>2 DEF IInv, PacketsJoined
<1>7. InboxesFit'
  BY <1>1, <1>3 DEF IInv, InboxesFit, socketVars
<1>8. AdvertsSent' /\ SocketsFresh'
  <2>1. \A q \in Peers : advSent[q] \in Nat /\ advSent'[q] =
          IF q = p THEN advSent[p] + 1 ELSE advSent[q]
    BY <1>1, ConstantsAssumption DEF IInv, TypeOK
  <2>2. \A k \in mdns : k.peer \in Peers /\ k.number \in Nat
    BY ConstantsAssumption DEF IInv, TypeOK, Packets
  <2>3. \A k \in sent : k.peer = p /\ k.number = advSent[p] + 1
    OBVIOUS
  <2>4. AdvertsSent'
    BY <1>1, <2>1, <2>2, <2>3 DEF IInv, AdvertsSent
  <2>5. ASSUME NEW s \in Sockets,
               advSent'[s.peer] < s.advert \/ Advert(s) \in mdns'
        PROVE  status'[s] = "none"
    <3>1. s.peer \in Peers /\ s.advert \in Nat
      BY ConstantsAssumption DEF Sockets
    <3>2. Advert(s) \in sent => advSent[s.peer] < s.advert
      BY <2>1, <2>3, <3>1 DEF Advert
    <3>3. advSent'[s.peer] < s.advert => advSent[s.peer] < s.advert
      BY <2>1, <3>1
    <3> QED
      BY <1>1, <2>5, <3>2, <3>3 DEF IInv, SocketsFresh, socketVars
  <2> QED
    BY <2>4, <2>5 DEF SocketsFresh, Advert
<1> QED
  BY <1>2, <1>5, <1>6, <1>7, <1>8, ListsStay DEF IInv

LEMMA SendGoodbyeStep ==
  ASSUME IInv, NEW p \in Peers, SendGoodbye(p)
  PROVE  IInv'
<1> DEFINE sent == [kind : {"goodbye"}, peer : {p}, number : {byeSent[p] + 1},
                    to : Hearers(p)]
<1>1. /\ client[p] = "closed"
      /\ byeSent[p] < advSent[p]
      /\ byeSent' = [byeSent EXCEPT ![p] = @ + 1]
      /\ mdns' = mdns \cup sent
      /\ UNCHANGED <<clientVars, advSent, appVars, socketVars, dataVars, failures>>
  BY DEF SendGoodbye
<1>2. UNCHANGED <<clientVars, channels, localPeers, remotePeers, proxies, status>>
  BY <1>1 DEF appVars, socketVars
<1>3. Joined' = Joined
  BY <1>2, ListsStay
<1>4. byeSent[p] \in 0..Announcements /\ byeSent[p] + 1 \in 1..Announcements
  BY <1>1, ConstantsAssumption DEF IInv, TypeOK
<1>5. TypeOK'
  <2>1. byeSent' \in [Peers -> 0..Announcements]
    BY <1>1, <1>4, ConstantsAssumption DEF IInv, TypeOK
  <2>2. sent \subseteq Packets
    BY <1>4 DEF Packets, Hearers
  <2>3. mdns' \subseteq Packets
    BY <1>1, <2>2 DEF IInv, TypeOK
  <2> QED
    BY <1>1, <2>1, <2>3
       DEF IInv, TypeOK, clientVars, appVars, socketVars, dataVars
<1>6. PacketsJoined'
  <2>1. p \in Joined
    BY <1>1 DEF Joined
  <2>2. \A k \in sent : k.peer = p
    OBVIOUS
  <2> QED
    BY <1>1, <1>3, <2>1, <2>2 DEF IInv, PacketsJoined
<1>7. InboxesFit'
  BY <1>1, <1>3 DEF IInv, InboxesFit, socketVars
<1>8. AdvertsSent' /\ SocketsFresh'
  <2>1. \A k \in sent : k.kind = "goodbye"
    OBVIOUS
  <2>2. AdvertsSent'
    BY <1>1, <2>1 DEF IInv, AdvertsSent
  <2>3. \A s \in Sockets : Advert(s) \in mdns' => Advert(s) \in mdns
    BY <1>1, <2>1 DEF Advert
  <2> QED
    BY <1>1, <2>2, <2>3 DEF IInv, SocketsFresh, socketVars, Advert
<1> QED
  BY <1>2, <1>5, <1>6, <1>7, <1>8, ListsStay DEF IInv
-----------------------------------------------------------------------------
\* Listing one more peer, and telling some of the clients of its channel, is
\* safe on a socket that is open and leads to the peer's machine.
LEMMA ListingKeeps ==
  ASSUME IInv, NEW x \in Proxies, NEW p \in Joined, Home[p] # x,
         ChannelOf[p] \in channels[x],
         NEW s \in Sockets, Owner(s) = x, Owner(Far(s)) = Home[p],
         status'[s] = "open",
         \A t \in Sockets : status[t] = "open" => status'[t] = "open",
         NEW receivers \in SUBSET LocalsIn(x, ChannelOf[p]),
         remotePeers' = [remotePeers EXCEPT
                           ![x] = @ \cup {[id |-> p, channel |-> ChannelOf[p],
                                           socket |-> s]}],
         told' = Notified(receivers, {p}),
         UNCHANGED <<client, channels, localPeers>>
  PROVE  /\ Joined' = Joined
         /\ remotePeers' \in [Proxies -> SUBSET RemotePeers]
         /\ told' \in [Peers -> SUBSET Peers]
         /\ LocalsAreOpen' /\ ToldAreOpen' /\ ChannelsCoverPeers'
         /\ RoutesLead' /\ ViewSound' /\ RemotesFit'
<1> DEFINE new == [id |-> p, channel |-> ChannelOf[p], socket |-> s]
<1> USE ConstantsAssumption
<1>1. Joined' = Joined /\ p \in Peers
  BY DEF Joined
<1>2. new \in RemotePeers
  BY <1>1 DEF RemotePeers
<1>3. \A y \in Proxies :
        remotePeers'[y] = IF y = x THEN remotePeers[x] \cup {new} ELSE remotePeers[y]
  BY DEF IInv, TypeOK
<1>4. remotePeers' \in [Proxies -> SUBSET RemotePeers]
  BY <1>2 DEF IInv, TypeOK
<1>5. \A q \in receivers : /\ q \in Peers /\ q \in localPeers[x] /\ Home[q] = x
                           /\ Open(q) /\ ChannelOf[q] = ChannelOf[p]
  BY DEF LocalsIn, IInv, LocalsAreOpen
<1>6. \A q \in Peers :
        told'[q] = IF q \in receivers THEN told[q] \cup {p} ELSE told[q]
  BY DEF Notified
<1>7. told' \in [Peers -> SUBSET Peers]
  BY <1>1 DEF Notified, IInv, TypeOK
<1>8. LocalsAreOpen'
  BY DEF IInv, LocalsAreOpen, Open
<1>9. ToldAreOpen'
  BY <1>5, <1>6 DEF IInv, ToldAreOpen, Open
<1>10. ChannelsCoverPeers'
  BY <1>3 DEF IInv, ChannelsCoverPeers
<1>11. RemotesFit'
  BY <1>3 DEF IInv, RemotesFit
<1>12. RoutesLead'
  <2> SUFFICES ASSUME NEW y \in Proxies, NEW r \in remotePeers'[y]
               PROVE  /\ Owner(r.socket) = y
                      /\ status'[r.socket] = "open"
                      /\ Owner(Far(r.socket)) = Home[r.id]
                      /\ r.id \in Joined
    BY <1>1 DEF RoutesLead
  <2>1. CASE r \in remotePeers[y]
    BY <2>1, EntryFacts
  <2>2. CASE r = new /\ y = x
    BY <2>2
  <2> QED
    BY <1>3, <2>1, <2>2
<1>13. ViewSound'
  <2> SUFFICES ASSUME NEW q \in Peers, NEW o \in told'[q]
               PROVE  /\ SameChannel(q, o)
                      /\ o # q
                      /\ \/ o \in localPeers[Home[q]]
                         \/ \E r \in RemotesNamed(Home[q], o)' :
                              r.channel = ChannelOf[q]
    BY DEF ViewSound, SameChannel
  <2>1. CASE o \in told[q]
    <3>1. \A y \in Proxies : \A id :
            RemotesNamed(y, id) \subseteq RemotesNamed(y, id)'
      BY <1>3 DEF RemotesNamed
    <3> QED
      BY <2>1, <3>1 DEF IInv, ViewSound
  <2>2. CASE q \in receivers /\ o = p
    <3>1. new \in RemotesNamed(x, p)'
      BY <1>3 DEF RemotesNamed
    <3> QED
      BY <1>5, <2>2, <3>1 DEF SameChannel
  <2> QED
    BY <1>6, <2>1, <2>2
<1> QED
  BY <1>1, <1>4, <1>7, <1>8, <1>9, <1>10, <1>11, <1>12, <1>13

\* Dropping every entry that has the id of one of a set of entries, and telling
\* the clients of their channels, is safe when the sockets that close with it
\* are used by entries of the set only.
LEMMA DroppingKeeps ==
  ASSUME IInv, NEW x \in Proxies, NEW entries \in SUBSET remotePeers[x],
         remotePeers' = [remotePeers EXCEPT ![x] = WithoutIds(x, entries)],
         told' = Dismissed(x, entries),
         UNCHANGED <<client, channels, localPeers>>,
         \A t \in Sockets : status[t] = "open" /\ status'[t] # "open" =>
           /\ Owner(t) = x
           /\ \A r \in remotePeers[x] : r.socket = t => r \in entries
  PROVE  /\ Joined' = Joined
         /\ remotePeers' \in [Proxies -> SUBSET RemotePeers]
         /\ told' \in [Peers -> SUBSET Peers]
         /\ LocalsAreOpen' /\ ToldAreOpen' /\ ChannelsCoverPeers'
         /\ RoutesLead' /\ ViewSound' /\ RemotesFit'
<1> USE ConstantsAssumption
<1>1. Joined' = Joined
  BY DEF Joined
<1>2. \A y \in Proxies :
        remotePeers'[y] = IF y = x THEN WithoutIds(x, entries) ELSE remotePeers[y]
  BY DEF IInv, TypeOK
<1>3. \A y \in Proxies : remotePeers'[y] \subseteq remotePeers[y]
  BY <1>2 DEF WithoutIds
<1>4. remotePeers' \in [Proxies -> SUBSET RemotePeers]
  BY <1>3 DEF IInv, TypeOK
<1>5. \A q \in Peers : told'[q] =
        IF q \in localPeers[x]
        THEN told[q] \ Ids({r \in entries : r.channel = ChannelOf[q]})
        ELSE told[q]
  BY DEF Dismissed
<1>6. told' \in [Peers -> SUBSET Peers]
  BY DEF Dismissed, IInv, TypeOK
<1>7. LocalsAreOpen'
  BY DEF IInv, LocalsAreOpen, Open
<1>8. ToldAreOpen'
  BY <1>5 DEF IInv, ToldAreOpen, Open
<1>9. ChannelsCoverPeers' /\ RemotesFit'
  BY <1>3 DEF IInv, ChannelsCoverPeers, RemotesFit
<1>10. RoutesLead'
  <2> SUFFICES ASSUME NEW y \in Proxies, NEW r \in remotePeers'[y]
               PROVE  /\ Owner(r.socket) = y
                      /\ status'[r.socket] = "open"
                      /\ Owner(Far(r.socket)) = Home[r.id]
                      /\ r.id \in Joined
    BY <1>1 DEF RoutesLead
  <2>1. r \in remotePeers[y]
    BY <1>3
  <2>2. y = x => r \notin entries
    <3>1. r \in entries => r.id \in Ids(entries)
      BY DEF Ids
    <3>2. ASSUME y = x PROVE r.id \notin Ids(entries)
      <4>1. r \in WithoutIds(x, entries)
        BY <1>2, <3>2
      <4> QED
        BY <4>1 DEF WithoutIds
    <3> QED
      BY <3>1, <3>2
  <2> QED
    BY <2>1, <2>2, EntryFacts
<1>11. ViewSound'
  <2> SUFFICES ASSUME NEW q \in Peers, NEW o \in told'[q]
               PROVE  /\ SameChannel(q, o)
                      /\ o # q
                      /\ \/ o \in localPeers[Home[q]]
                         \/ \E r \in RemotesNamed(Home[q], o)' :
                              r.channel = ChannelOf[q]
    BY DEF ViewSound, SameChannel
  <2>1. o \in told[q]
    BY <1>5
  <2>2. SameChannel(q, o) /\ o # q
    BY <2>1 DEF IInv, ViewSound
  <2>3. CASE o \in localPeers[Home[q]]
    BY <2>2, <2>3
  <2>4. ASSUME NEW r \in RemotesNamed(Home[q], o), r.channel = ChannelOf[q]
        PROVE  r \in RemotesNamed(Home[q], o)'
    <3>1. r \in remotePeers[Home[q]] /\ r.id = o
      BY DEF RemotesNamed
    <3>2. CASE Home[q] # x
      BY <1>2, <3>1, <3>2 DEF RemotesNamed
    <3>3. CASE Home[q] = x
      <4>1. q \in localPeers[x]
        BY <2>1, <3>3 DEF IInv, ToldAreOpen, LocalsAreOpen
      <4>2. \A e \in entries : e.id = o => e.channel = ChannelOf[q]
        BY <2>2, EntryFacts DEF SameChannel
      <4>3. o \notin Ids(entries)
        <5> DEFINE same == {e \in entries : e.channel = ChannelOf[q]}
        <5>1. o \notin Ids(same)
          BY <1>5, <4>1
        <5>2. \A e \in same : e.id # o
          BY <5>1 DEF Ids
        <5>3. \A e \in entries : e.id # o
          BY <4>2, <5>2
        <5> QED
          BY <5>3 DEF Ids
      <4> QED
        BY <1>2, <3>1, <3>3, <4>3 DEF RemotesNamed, WithoutIds
    <3> QED
      BY <3>2, <3>3
  <2> QED
    BY <2>1, <2>2, <2>3, <2>4 DEF IInv, ViewSound
<1> QED
  BY <1>1, <1>4, <1>6, <1>7, <1>8, <1>9, <1>10, <1>11
-----------------------------------------------------------------------------
\* createRemotePeer keeps the inboxes fitting.
LEMMA CreateRemotePeerFits ==
  ASSUME IInv, NEW x \in Proxies, NEW p \in Joined,
         NEW s \in Sockets, Owner(s) = x, Owner(Far(s)) = Home[p],
         CreateRemotePeer(x, p, s), Joined' = Joined
  PROVE  inbox' \in [Sockets -> Seq(SUBSET Messages)] /\ InboxesFit'
<1> DEFINE sent == ConnectLocals(p, s, LocalsIn(x, ChannelOf[p]))
<1>1. inbox' = Transmitted(sent)
  BY DEF CreateRemotePeer
<1>2. p \in Peers /\ Joined \in SUBSET Peers
  BY DEF Joined
<1>3. \A n \in sent : n.on \in Sockets /\ n.message \in Fitting(Far(n.on), Joined)
  <2> SUFFICES ASSUME NEW q \in LocalsIn(x, ChannelOf[p])
               PROVE  Connect(q, p) \in Fitting(Far(s), Joined)
    BY DEF ConnectLocals
  <2>1. /\ q \in Peers /\ Home[q] = x /\ q \in Joined /\ SameChannel(q, p)
    BY DEF LocalsIn, SameChannel, IInv, LocalsAreOpen, Open, Joined
  <2>2. Far(s) \in Sockets /\ Far(Far(s)) = s
    BY SocketFacts
  <2> QED
    BY <1>2, <2>1, <2>2, ConnectFits
<1> HIDE DEF sent
<1>4. /\ inbox' \in [Sockets -> Seq(SUBSET Messages)]
      /\ \A t \in Sockets : inbox'[t] \in Seq(SUBSET Fitting(t, Joined))
  BY <1>1, <1>3, SendFits
<1> QED
  BY <1>4 DEF InboxesFit

LEMMA DiscoverStep ==
  ASSUME IInv, NEW x \in Proxies, NEW p \in Peers, NEW n \in 1..Announcements,
         Discover(x, p, n)
  PROVE  IInv'
<1> DEFINE packet == [kind |-> "advert", peer |-> p, number |-> n, to |-> x]
<1>1. packet \in mdns /\ mdns' = mdns \ {packet}
  BY DEF Discover
<1>2. p \in Joined /\ n <= advSent[p]
  BY <1>1 DEF IInv, PacketsJoined, AdvertsSent
<1>3. mdns' \subseteq Packets /\ mdns' \subseteq mdns
  BY <1>1 DEF IInv, TypeOK
<1>4. /\ Joined' = Joined => PacketsJoined'
      /\ UNCHANGED timerVars => AdvertsSent'
      /\ UNCHANGED <<timerVars, status>> => SocketsFresh'
  BY <1>3 DEF IInv, PacketsJoined, AdvertsSent, SocketsFresh, timerVars, Advert
<1>5. CASE IgnoreAdvert(x, p) \/ CacheAdvert(x, p)
  <2>1. UNCHANGED <<client, told, timerVars, channels, localPeers, remotePeers,
                    proxies, status, inbox, dataVars, failures>>
    BY <1>5 DEF IgnoreAdvert, CacheAdvert, appVars, socketVars
  <2>2. UNCHANGED <<clientVars, channels, localPeers, remotePeers, proxies, status>>
    BY <2>1 DEF clientVars
  <2>3. discoveryAdverts' \in [Proxies -> SUBSET Peers]
    <3>1. CASE IgnoreAdvert(x, p)
      BY <3>1 DEF IgnoreAdvert, appVars, IInv, TypeOK
    <3>2. CASE CacheAdvert(x, p)
      BY <3>2 DEF CacheAdvert, IInv, TypeOK
    <3> QED
      BY <1>5, <3>1, <3>2
  <2>4. TypeOK'
    BY <1>3, <2>1, <2>3 DEF IInv, TypeOK, timerVars, dataVars
  <2>5. Joined' = Joined
    BY <2>2, ListsStay
  <2>6. InboxesFit'
    BY <2>1, <2>5 DEF IInv, InboxesFit
  <2> QED
    BY <1>4, <2>1, <2>2, <2>4, <2>5, <2>6, ListsStay DEF IInv
<1>6. CASE Dial(x, p, n)
  <2> DEFINE s == [client |-> x, peer |-> p, advert |-> n, side |-> "client"]
  <2>1. /\ Home[p] # x /\ ChannelOf[p] \in channels[x]
        /\ status' = [status EXCEPT
                        ![s] = "connecting",
                        ![Far(s)] = IF client[p] = "lost" THEN "refused" ELSE @]
        /\ UNCHANGED <<client, told, timerVars, appVars, inbox, dataVars, failures>>
    BY <1>6 DEF Dial, WantsPeer
  <2>2. s \in Sockets
    BY DEF Sockets
  <2>3. /\ Far(s) \in Sockets /\ Far(s) # s
        /\ Far(s) = [client |-> x, peer |-> p, advert |-> n, side |-> "server"]
    BY <2>2, SocketFacts, FarRecord
  <2>4. Advert(s) = packet /\ Advert(Far(s)) = packet
    BY <2>3 DEF Advert
  <2>5. status[s] = "none" /\ status[Far(s)] = "none"
    BY <1>1, <2>2, <2>3, <2>4 DEF IInv, SocketsFresh
  <2>6. s.client = x /\ s.peer = p /\ s.side = "client" /\ s.advert = n
    OBVIOUS
  <2>7. Far(s).client = x /\ Far(s).peer = p /\ Far(s).advert = n
    BY <2>3
  <2> HIDE DEF s
  <2>8. /\ status'[s] = "connecting"
        /\ status'[Far(s)] \in {"none", "refused"}
        /\ \A t \in Sockets \ {s, Far(s)} : status'[t] = status[t]
        /\ status' \in [Sockets -> {"none", "connecting", "open", "closed", "refused"}]
    BY <2>1, <2>2, <2>3, <2>5 DEF IInv, TypeOK
  <2>9. \A t \in Sockets : status[t] = "open" <=> status'[t] = "open"
    BY <2>2, <2>3, <2>5, <2>8
  <2>10. Joined' = Joined
    BY <2>1 DEF Joined
  <2>11. UNCHANGED <<client, told, channels, localPeers, remotePeers, proxies,
                     discoveryAdverts, advSent, byeSent, posts, delivered>>
    BY <2>1 DEF appVars, timerVars, dataVars
  <2>12. TypeOK'
    BY <1>3, <2>1, <2>8, <2>11 DEF IInv, TypeOK
  <2>13. LocalsAreOpen' /\ ToldAreOpen' /\ ChannelsCoverPeers' /\ RemotesFit'
    BY <2>11
       DEF IInv, LocalsAreOpen, ToldAreOpen, ChannelsCoverPeers, RemotesFit, Open
  <2>14. ViewSound'
    BY <2>11 DEF IInv, ViewSound, SameChannel, RemotesNamed
  <2>15. ProxiesAreOpen' /\ RoutesLead'
    <3>1. \A y \in Proxies : proxies[y] \subseteq Sockets
      BY DEF IInv, TypeOK
    <3>2. \A y \in Proxies : \A r \in remotePeers[y] : r.socket \in Sockets
      BY EntryFacts
    <3> QED
      BY <2>9, <2>10, <2>11, <3>1, <3>2 DEF IInv, ProxiesAreOpen, RoutesLead
  <2>16. InboxesFit'
    BY <2>1, <2>10 DEF IInv, InboxesFit
  <2>17. SocketsFresh'
    <3> SUFFICES ASSUME NEW t \in Sockets,
                        advSent[t.peer] < t.advert \/ Advert(t) \in mdns'
                 PROVE  status'[t] = "none"
      BY <2>11 DEF SocketsFresh, Advert
    <3>1. advSent[p] \in Nat /\ n \in Nat
      BY ConstantsAssumption DEF IInv, TypeOK
    <3>2. t # s /\ t # Far(s)
      BY <1>1, <1>2, <2>4, <2>6, <2>7, <3>1
    <3>3. status[t] = "none"
      BY <1>3 DEF IInv, SocketsFresh
    <3> QED
      BY <2>8, <3>2, <3>3
  <2>18. DialsWanted'
    <3> SUFFICES ASSUME NEW t \in Sockets
                 PROVE  /\ status'[t] # "none" => t.client # Home[t.peer]
                        /\ status'[t] = "connecting" =>
                             /\ t.side = "client"
                             /\ t.peer \in Joined
                             /\ ChannelOf[t.peer] \in channels[t.client]
      BY <2>10, <2>11 DEF DialsWanted
    <3>1. CASE t = s \/ t = Far(s)
      BY <1>2, <2>1, <2>6, <2>7, <2>8, <3>1
    <3>2. CASE t # s /\ t # Far(s)
      BY <2>8, <3>2 DEF IInv, DialsWanted
    <3> QED
      BY <3>1, <3>2
  <2> QED
    BY <1>4, <2>10, <2>11, <2>12, <2>13, <2>14, <2>15, <2>16, <2>17, <2>18
       DEF IInv, timerVars
<1>7. CASE ReuseProxy(x, p)
  <2>1. /\ Home[p] # x /\ ChannelOf[p] \in channels[x]
        /\ UNCHANGED <<client, timerVars, channels, localPeers, proxies,
                       discoveryAdverts, status, dataVars, failures>>
    BY <1>7 DEF ReuseProxy, WantsPeer
  <2>2. PICK s \in ProxiesAt(x, Addr(Home[p])) : CreateRemotePeer(x, p, s)
    BY <1>7 DEF ReuseProxy
  <2>3. s \in Sockets /\ Owner(s) = x /\ status[s] = "open" /\ Ip(s) = Addr(Home[p])
    BY DEF ProxiesAt, IInv, TypeOK, ProxiesAreOpen
  <2>4. Owner(Far(s)) = Home[p]
    BY <2>3, DialledSockets, SocketFacts, ConstantsAssumption
  <2>5. /\ remotePeers' = [remotePeers EXCEPT
                             ![x] = @ \cup {[id |-> p, channel |-> ChannelOf[p],
                                             socket |-> s]}]
        /\ told' = Notified(LocalsIn(x, ChannelOf[p]), {p})
    BY <2>2 DEF CreateRemotePeer
  <2>6. /\ Joined' = Joined
        /\ remotePeers' \in [Proxies -> SUBSET RemotePeers]
        /\ told' \in [Peers -> SUBSET Peers]
        /\ LocalsAreOpen' /\ ToldAreOpen' /\ ChannelsCoverPeers'
        /\ RoutesLead' /\ ViewSound' /\ RemotesFit'
    BY <1>2, <2>1, <2>3, <2>4, <2>5, ListingKeeps
  <2>7. inbox' \in [Sockets -> Seq(SUBSET Messages)] /\ InboxesFit'
    BY <1>2, <2>2, <2>3, <2>4, <2>6, CreateRemotePeerFits
  <2>8. TypeOK'
    BY <1>3, <2>1, <2>6, <2>7 DEF IInv, TypeOK, timerVars, dataVars
  <2>9. ProxiesAreOpen' /\ DialsWanted'
    BY <2>1, <2>6 DEF IInv, ProxiesAreOpen, DialsWanted
  <2> QED
    BY <1>4, <2>1, <2>6, <2>7, <2>8, <2>9 DEF IInv
<1> QED
  BY <1>5, <1>6, <1>7 DEF Discover

LEMMA GoodbyeStep ==
  ASSUME IInv, NEW x \in Proxies, NEW p \in Peers, NEW n \in 1..Announcements,
         Goodbye(x, p, n)
  PROVE  IInv'
<1> DEFINE packet == [kind |-> "goodbye", peer |-> p, number |-> n, to |-> x]
           gone == IF ChannelOf[p] \in channels[x] THEN RemotesNamed(x, p) ELSE {}
<1>1. /\ mdns' = mdns \ {packet}
      /\ told' = Dismissed(x, gone)
      /\ remotePeers' = [remotePeers EXCEPT ![x] = WithoutIds(x, gone)]
      /\ UNCHANGED <<client, timerVars, channels, localPeers, proxies,
                     discoveryAdverts, socketVars, dataVars, failures>>
  BY DEF Goodbye
<1>2. gone \in SUBSET remotePeers[x]
  BY DEF RemotesNamed
<1>3. UNCHANGED <<status, inbox>>
  BY <1>1 DEF socketVars
<1> HIDE DEF gone
<1>4. /\ Joined' = Joined
      /\ remotePeers' \in [Proxies -> SUBSET RemotePeers]
      /\ told' \in [Peers -> SUBSET Peers]
      /\ LocalsAreOpen' /\ ToldAreOpen' /\ ChannelsCoverPeers'
      /\ RoutesLead' /\ ViewSound' /\ RemotesFit'
  BY <1>1, <1>2, <1>3, DroppingKeeps
<1>5. mdns' \subseteq Packets /\ mdns' \subseteq mdns
  BY <1>1 DEF IInv, TypeOK
<1>6. TypeOK'
  BY <1>1, <1>3, <1>4, <1>5 DEF IInv, TypeOK, timerVars, dataVars
<1>7. ProxiesAreOpen' /\ DialsWanted' /\ InboxesFit'
  BY <1>1, <1>3, <1>4 DEF IInv, ProxiesAreOpen, DialsWanted, InboxesFit
<1>8. PacketsJoined' /\ AdvertsSent' /\ SocketsFresh'
  BY <1>1, <1>3, <1>4, <1>5
     DEF IInv, PacketsJoined, AdvertsSent, SocketsFresh, Advert, timerVars
<1> QED
  BY <1>4, <1>6, <1>7, <1>8 DEF IInv
-----------------------------------------------------------------------------
\* An entry of proxies made for a socket that opens is one of an open socket.
LEMMA ProxyOpens ==
  ASSUME IInv, NEW s \in Sockets,
         \A t \in Sockets : status'[t] = IF t = s THEN "open" ELSE status[t],
         \A y \in Proxies :
           proxies'[y] = IF y = Owner(s) THEN proxies[y] \cup {s} ELSE proxies[y]
  PROVE  ProxiesAreOpen'
<1> SUFFICES ASSUME NEW y \in Proxies, NEW t \in proxies'[y]
             PROVE  Owner(t) = y /\ status'[t] = "open"
  BY DEF ProxiesAreOpen
<1>1. CASE t \in proxies[y]
  <2>1. t \in Sockets /\ Owner(t) = y /\ status[t] = "open"
    BY <1>1 DEF IInv, TypeOK, ProxiesAreOpen
  <2> QED
    BY <2>1
<1>2. CASE t = s /\ y = Owner(s)
  BY <1>2
<1> QED
  BY <1>1, <1>2

LEMMA AcceptStep ==
  ASSUME IInv, NEW s \in Sockets, Accept(s)
  PROVE  IInv'
<1>1. /\ status[Far(s)] = "connecting"
      /\ status[s] = "none"
      /\ status' = [status EXCEPT ![s] = "open"]
      /\ proxies' = [proxies EXCEPT ![Owner(s)] = @ \cup {s}]
      /\ UNCHANGED <<clientVars, timerVars, mdns, channels, localPeers,
                     remotePeers, discoveryAdverts, inbox, dataVars, failures>>
  BY DEF Accept
<1>2. /\ Far(s) \in Sockets /\ Far(s).client = s.client /\ Far(s).peer = s.peer
      /\ Owner(s) \in Proxies
  BY SocketFacts
<1>3. /\ status' \in [Sockets -> {"none", "connecting", "open", "closed", "refused"}]
      /\ \A t \in Sockets : status'[t] = IF t = s THEN "open" ELSE status[t]
  BY <1>1 DEF IInv, TypeOK
<1>4. \A y \in Proxies :
        proxies'[y] = IF y = Owner(s) THEN proxies[y] \cup {s} ELSE proxies[y]
  BY <1>1, <1>2 DEF IInv, TypeOK
<1>5. Joined' = Joined
  BY <1>1 DEF Joined, clientVars
<1>6. TypeOK'
  <2>1. proxies' \in [Proxies -> SUBSET Sockets]
    BY <1>1, <1>2 DEF IInv, TypeOK
  <2> QED
    BY <1>1, <1>3, <2>1 DEF IInv, TypeOK, clientVars, timerVars, dataVars
<1>7. LocalsAreOpen' /\ ToldAreOpen' /\ ChannelsCoverPeers' /\ RemotesFit'
  BY <1>1 DEF IInv, LocalsAreOpen, ToldAreOpen, ChannelsCoverPeers, RemotesFit,
              Open, clientVars
<1>8. ViewSound'
  BY <1>1 DEF IInv, ViewSound, SameChannel, RemotesNamed, clientVars
<1>9. ProxiesAreOpen'
  BY <1>3, <1>4, ProxyOpens
<1>10. RoutesLead'
  <2>1. \A y \in Proxies : \A r \in remotePeers[y] : r.socket \in Sockets
    BY EntryFacts
  <2> QED
    BY <1>1, <1>3, <1>5, <2>1 DEF IInv, RoutesLead
<1>11. InboxesFit' /\ PacketsJoined' /\ AdvertsSent'
  BY <1>1, <1>5 DEF IInv, InboxesFit, PacketsJoined, AdvertsSent, timerVars
<1>12. SocketsFresh'
  <2>1. Advert(Far(s)) = Advert(s) /\ Far(s).advert = s.advert
    BY <1>2, FarRecord DEF Advert
  <2>2. ~(advSent[s.peer] < s.advert \/ Advert(s) \in mdns)
    BY <1>1, <1>2, <2>1 DEF IInv, SocketsFresh
  <2> QED
    BY <1>1, <1>3, <2>2 DEF IInv, SocketsFresh, Advert, timerVars
<1>13. DialsWanted'
  <2>1. s.client # Home[s.peer]
    BY <1>1, <1>2 DEF IInv, DialsWanted
  <2> QED
    BY <1>1, <1>3, <1>5, <2>1 DEF IInv, DialsWanted
<1> QED
  BY <1>6, <1>7, <1>8, <1>9, <1>10, <1>11, <1>12, <1>13 DEF IInv

LEMMA OpenSocketStep ==
  ASSUME IInv, NEW s \in Sockets, OpenSocket(s)
  PROVE  IInv'
<1> DEFINE x == Owner(s)
           p == s.peer
<1>1. /\ s.side = "client"
      /\ status[s] = "connecting"
      /\ status' = [status EXCEPT ![s] = "open"]
      /\ proxies' = [proxies EXCEPT ![x] = @ \cup {s}]
      /\ CreateRemotePeer(x, p, s)
      /\ UNCHANGED <<client, timerVars, mdns, channels, localPeers,
                     discoveryAdverts, dataVars, failures>>
  BY DEF OpenSocket
<1>2. x \in Proxies /\ x = s.client /\ p \in Peers /\ Owner(Far(s)) = Home[p]
  BY <1>1, SocketFacts
<1>3. p \in Joined /\ ChannelOf[p] \in channels[x] /\ Home[p] # x
  BY <1>1, <1>2 DEF IInv, DialsWanted
<1>4. /\ status' \in [Sockets -> {"none", "connecting", "open", "closed", "refused"}]
      /\ \A t \in Sockets : status'[t] = IF t = s THEN "open" ELSE status[t]
  BY <1>1 DEF IInv, TypeOK
<1>5. /\ remotePeers' = [remotePeers EXCEPT
                           ![x] = @ \cup {[id |-> p, channel |-> ChannelOf[p],
                                           socket |-> s]}]
      /\ told' = Notified(LocalsIn(x, ChannelOf[p]), {p})
  BY <1>1 DEF CreateRemotePeer
<1>6. \A y \in Proxies :
        proxies'[y] = IF y = x THEN proxies[y] \cup {s} ELSE proxies[y]
  BY <1>1, <1>2 DEF IInv, TypeOK
<1> HIDE DEF x, p
<1>7. /\ Joined' = Joined
      /\ remotePeers' \in [Proxies -> SUBSET RemotePeers]
      /\ told' \in [Peers -> SUBSET Peers]
      /\ LocalsAreOpen' /\ ToldAreOpen' /\ ChannelsCoverPeers'
      /\ RoutesLead' /\ ViewSound' /\ RemotesFit'
  <2>1. Owner(s) = x
    BY DEF x
  <2>2. status'[s] = "open"
        /\ \A t \in Sockets : status[t] = "open" => status'[t] = "open"
    BY <1>4
  <2> QED
    BY <1>1, <1>2, <1>3, <1>5, <2>1, <2>2, ListingKeeps
<1>8. inbox' \in [Sockets -> Seq(SUBSET Messages)] /\ InboxesFit'
  <2>1. Owner(s) = x
    BY DEF x
  <2> QED
    BY <1>1, <1>2, <1>3, <1>7, <2>1, CreateRemotePeerFits
<1>9. TypeOK'
  <2>1. proxies' \in [Proxies -> SUBSET Sockets]
    BY <1>1, <1>2 DEF IInv, TypeOK
  <2> QED
    BY <1>1, <1>4, <1>7, <1>8, <2>1 DEF IInv, TypeOK, timerVars, dataVars
<1>10. ProxiesAreOpen'
  BY <1>4, <1>6, ProxyOpens DEF x
<1>11. PacketsJoined' /\ AdvertsSent'
  BY <1>1, <1>7 DEF IInv, PacketsJoined, AdvertsSent, timerVars
<1>12. SocketsFresh'
  <2>1. ~(advSent[s.peer] < s.advert \/ Advert(s) \in mdns)
    BY <1>1 DEF IInv, SocketsFresh
  <2> QED
    BY <1>1, <1>4, <2>1 DEF IInv, SocketsFresh, Advert, timerVars
<1>13. DialsWanted'
  <2>1. s.client # Home[s.peer]
    BY <1>1 DEF IInv, DialsWanted
  <2> QED
    BY <1>1, <1>4, <1>7, <2>1 DEF IInv, DialsWanted
<1> QED
  BY <1>7, <1>8, <1>9, <1>10, <1>11, <1>12, <1>13 DEF IInv

LEMMA DialFailsStep ==
  ASSUME IInv, NEW s \in Sockets, DialFails(s)
  PROVE  IInv'
<1>1. /\ status[s] = "connecting"
      /\ failures' = failures \/ failures' = failures + 1
      /\ status' = [status EXCEPT ![s] = "closed",
                                  ![Far(s)] = IF @ = "none" THEN "refused" ELSE @]
      /\ UNCHANGED <<clientVars, timerVars, mdns, appVars, inbox, dataVars>>
  BY DEF DialFails, Fail
<1>2. /\ Far(s) \in Sockets /\ Far(s) # s
      /\ Far(s).client = s.client /\ Far(s).peer = s.peer
  BY SocketFacts
<1>3. /\ status' \in [Sockets -> {"none", "connecting", "open", "closed", "refused"}]
      /\ status'[s] = "closed"
      /\ status'[Far(s)] =
           IF status[Far(s)] = "none" THEN "refused" ELSE status[Far(s)]
      /\ \A t \in Sockets \ {s, Far(s)} : status'[t] = status[t]
  BY <1>1, <1>2 DEF IInv, TypeOK
<1>4. \A t \in Sockets : status[t] = "open" <=> status'[t] = "open"
  BY <1>1, <1>2, <1>3
<1>5. Joined' = Joined
  BY <1>1 DEF Joined, clientVars
<1>6. UNCHANGED <<client, told, channels, localPeers, remotePeers, proxies,
                  discoveryAdverts, advSent, byeSent, posts, delivered>>
  BY <1>1 DEF clientVars, appVars, timerVars, dataVars
<1>7. TypeOK'
  <2>1. failures' \in Nat
    BY <1>1 DEF IInv, TypeOK
  <2> QED
    BY <1>1, <1>3, <1>6, <2>1 DEF IInv, TypeOK
<1>8. LocalsAreOpen' /\ ToldAreOpen' /\ ChannelsCoverPeers' /\ RemotesFit'
  BY <1>6
     DEF IInv, LocalsAreOpen, ToldAreOpen, ChannelsCoverPeers, RemotesFit, Open
<1>9. ViewSound'
  BY <1>6 DEF IInv, ViewSound, SameChannel, RemotesNamed
<1>10. ProxiesAreOpen' /\ RoutesLead'
  <2>1. \A y \in Proxies : proxies[y] \subseteq Sockets
    BY DEF IInv, TypeOK
  <2>2. \A y \in Proxies : \A r \in remotePeers[y] : r.socket \in Sockets
    BY EntryFacts
  <2> QED
    BY <1>4, <1>5, <1>6, <2>1, <2>2 DEF IInv, ProxiesAreOpen, RoutesLead
<1>11. InboxesFit' /\ PacketsJoined' /\ AdvertsSent'
  BY <1>1, <1>5, <1>6 DEF IInv, InboxesFit, PacketsJoined, AdvertsSent
<1>12. SocketsFresh'
  <2>1. Advert(Far(s)) = Advert(s) /\ Far(s).advert = s.advert
    BY <1>2, FarRecord DEF Advert
  <2>2. ~(advSent[s.peer] < s.advert \/ Advert(s) \in mdns)
    BY <1>1 DEF IInv, SocketsFresh
  <2>3. ASSUME NEW t \in Sockets,
               advSent[t.peer] < t.advert \/ Advert(t) \in mdns
        PROVE  status'[t] = "none"
    <3>1. t # s /\ t # Far(s)
      BY <1>2, <2>1, <2>2, <2>3
    <3> QED
      BY <1>3, <2>3, <3>1 DEF IInv, SocketsFresh
  <2> QED
    BY <1>1, <1>6, <2>3 DEF SocketsFresh, Advert
<1>13. DialsWanted'
  <2>1. s.client # Home[s.peer]
    BY <1>1 DEF IInv, DialsWanted
  <2>2. \A t \in Sockets : status'[t] = "connecting" => status[t] = "connecting"
    BY <1>2, <1>3
  <2>3. \A t \in Sockets : status'[t] # "none" =>
          status[t] # "none" \/ t = s \/ t = Far(s)
    BY <1>3
  <2> QED
    BY <1>2, <1>5, <1>6, <2>1, <2>2, <2>3 DEF IInv, DialsWanted
<1> QED
  BY <1>7, <1>8, <1>9, <1>10, <1>11, <1>12, <1>13 DEF IInv
\* Proxy.close: the entries of proxies that go are those of the socket's ip.
LEMMA CloseSocketStep ==
  ASSUME IInv, NEW s \in Sockets, CloseSocket(s)
  PROVE  IInv'
<1> DEFINE x == Owner(s)
           remotes == {r \in remotePeers[x] : Ip(r.socket) = Ip(s)}
<1>1. /\ status[s] = "open"
      /\ failures' = failures \/ failures' = failures + 1
      /\ status' = [status EXCEPT ![s] = "closed"]
      /\ inbox' = [inbox EXCEPT ![s] = <<>>]
      /\ told' = Dismissed(x, remotes)
      /\ remotePeers' = [remotePeers EXCEPT ![x] = WithoutIds(x, remotes)]
      /\ proxies' = [proxies EXCEPT ![x] = @ \ ProxiesAt(x, Ip(s))]
      /\ UNCHANGED <<client, timerVars, mdns, channels, localPeers,
                     discoveryAdverts, dataVars>>
  BY DEF CloseSocket, Fail
<1>2. x \in Proxies
  BY SocketFacts
<1>3. /\ status' \in [Sockets -> {"none", "connecting", "open", "closed", "refused"}]
      /\ \A t \in Sockets : status'[t] = IF t = s THEN "closed" ELSE status[t]
  BY <1>1 DEF IInv, TypeOK
<1>4. \A y \in Proxies : proxies'[y] =
        IF y = x THEN proxies[x] \ ProxiesAt(x, Ip(s)) ELSE proxies[y]
  BY <1>1, <1>2 DEF IInv, TypeOK
<1>5. remotes \in SUBSET remotePeers[x]
      /\ \A r \in remotePeers[x] : r.socket = s => r \in remotes
  OBVIOUS
<1>6. \A t \in Sockets : status[t] = "open" /\ status'[t] # "open" =>
        /\ Owner(t) = x
        /\ \A r \in remotePeers[x] : r.socket = t => r \in remotes
  BY <1>3, <1>5
<1> HIDE DEF remotes
<1>7. /\ Joined' = Joined
      /\ remotePeers' \in [Proxies -> SUBSET RemotePeers]
      /\ told' \in [Peers -> SUBSET Peers]
      /\ LocalsAreOpen' /\ ToldAreOpen' /\ ChannelsCoverPeers'
      /\ RoutesLead' /\ ViewSound' /\ RemotesFit'
  BY <1>1, <1>2, <1>5, <1>6, DroppingKeeps
<1>8. /\ \A t \in Sockets : inbox'[t] = IF t = s THEN <<>> ELSE inbox[t]
      /\ inbox' \in [Sockets -> Seq(SUBSET Messages)]
  BY <1>1 DEF IInv, TypeOK
<1>9. InboxesFit'
  <2>1. ASSUME NEW t \in Sockets
        PROVE  inbox'[t] \in Seq(SUBSET Fitting(t, Joined))
    <3>1. inbox[t] \in Seq(SUBSET Fitting(t, Joined))
      BY DEF IInv, InboxesFit
    <3>2. <<>> \in Seq(SUBSET Fitting(t, Joined))
      OBVIOUS
    <3> QED
      BY <1>8, <3>1, <3>2
  <2> QED
    BY <1>7, <2>1 DEF InboxesFit
<1>10. TypeOK'
  <2>1. proxies' \in [Proxies -> SUBSET Sockets]
    BY <1>1, <1>2 DEF IInv, TypeOK
  <2>2. failures' \in Nat
    BY <1>1 DEF IInv, TypeOK
  <2> QED
    BY <1>1, <1>3, <1>7, <1>8, <2>1, <2>2 DEF IInv, TypeOK, timerVars, dataVars
<1>11. ProxiesAreOpen'
  <2> SUFFICES ASSUME NEW y \in Proxies, NEW t \in proxies'[y]
               PROVE  Owner(t) = y /\ status'[t] = "open"
    BY DEF ProxiesAreOpen
  <2>1. t \in proxies[y]
    BY <1>4
  <2>2. t \in Sockets /\ Owner(t) = y /\ status[t] = "open"
    BY <2>1 DEF IInv, TypeOK, ProxiesAreOpen
  <2>3. t # s
    <3>1. ASSUME t = s PROVE FALSE
      <4>1. y = x /\ s \in proxies[x]
        BY <2>1, <2>2, <3>1
      <4>2. s \in ProxiesAt(x, Ip(s))
        BY <4>1 DEF ProxiesAt
      <4> QED
        BY <1>4, <3>1, <4>1, <4>2
    <3> QED
      BY <3>1
  <2> QED
    BY <1>3, <2>2, <2>3
<1>12. PacketsJoined' /\ AdvertsSent'
  BY <1>1, <1>7 DEF IInv, PacketsJoined, AdvertsSent, timerVars
<1>13. SocketsFresh'
  <2>1. ~(advSent[s.peer] < s.advert \/ Advert(s) \in mdns)
    BY <1>1 DEF IInv, SocketsFresh
  <2> QED
    BY <1>1, <1>3, <2>1 DEF IInv, SocketsFresh, Advert, timerVars
<1>14. DialsWanted'
  <2>1. s.client # Home[s.peer]
    BY <1>1 DEF IInv, DialsWanted
  <2> QED
    BY <1>1, <1>3, <1>7, <2>1 DEF IInv, DialsWanted
<1> QED
  BY <1>7, <1>9, <1>10, <1>11, <1>12, <1>13, <1>14 DEF IInv
-----------------------------------------------------------------------------
\* Taking a message out of an inbox leaves the inboxes fitting.
LEMMA ReceiveFits ==
  ASSUME NEW boxes, NEW joined, boxes = [t \in Sockets |-> boxes[t]],
         \A t \in Sockets : boxes[t] \in Seq(SUBSET Fitting(t, joined)),
         NEW s \in Sockets, boxes[s] # <<>>, NEW m
  PROVE  /\ Consumed(boxes, s, m) \in [Sockets -> Seq(SUBSET Messages)]
         /\ \A t \in Sockets :
              Consumed(boxes, s, m)[t] \in Seq(SUBSET Fitting(t, joined))
<1> DEFINE G == [t \in Sockets |-> Fitting(t, joined)]
           left == Consumed(boxes, s, m)
<1>1. \A t \in Sockets : boxes[t] \in Seq(SUBSET G[t])
  OBVIOUS
<1> HIDE DEF G
<1>2. left = [t \in Sockets |-> left[t]]
      /\ \A t \in Sockets : left[t] \in Seq(SUBSET G[t])
  BY <1>1, ConsumedKeeps
<1>3. \A t \in Sockets : left[t] \in Seq(SUBSET Fitting(t, joined))
  BY <1>2 DEF G
<1> HIDE DEF left
<1>4. left \in [Sockets -> Seq(SUBSET Messages)]
  BY <1>2, <1>3, FittingBoxes
<1> QED
  BY <1>3, <1>4 DEF left

\* What one message does to the lists, the notices and the inboxes.
LEMMA ReceiveChanges ==
  ASSUME IInv, NEW s \in Sockets, status[s] = "open", inbox[s] # <<>>,
         NEW m \in Head(inbox[s]),
         ReceiveData(s, m) \/ ReceiveConnect(s, m) \/ ReceiveIgnored(s, m),
         UNCHANGED <<channels, localPeers, proxies, status>>
  PROVE  /\ Joined' = Joined
         /\ client' = client
         /\ remotePeers' \in [Proxies -> SUBSET RemotePeers]
         /\ told' \in [Peers -> SUBSET Peers]
         /\ inbox' \in [Sockets -> Seq(SUBSET Messages)]
         /\ delivered' \in [Peers -> [Data -> Nat]]
         /\ LocalsAreOpen' /\ ToldAreOpen' /\ ChannelsCoverPeers'
         /\ RoutesLead' /\ ViewSound' /\ RemotesFit' /\ InboxesFit'
<1>1. m \in Fitting(s, Joined)
  <2>1. inbox[s] \in Seq(SUBSET Fitting(s, Joined))
    BY DEF IInv, InboxesFit
  <2>2. Head(inbox[s]) \in SUBSET Fitting(s, Joined)
    BY <2>1, QueueFacts
  <2> QED
    BY <2>2
<1>2. /\ inbox = [t \in Sockets |-> inbox[t]]
      /\ \A t \in Sockets : inbox[t] \in Seq(SUBSET Fitting(t, Joined))
  BY DEF IInv, TypeOK, InboxesFit
<1>3. CASE ReceiveData(s, m) \/ ReceiveIgnored(s, m)
  <2>1. UNCHANGED <<clientVars, remotePeers>> /\ inbox' = Consumed(inbox, s, m)
    BY <1>3 DEF ReceiveData, ReceiveIgnored
  <2>2. UNCHANGED <<client, told>>
    BY <2>1 DEF clientVars
  <2>3. delivered' \in [Peers -> [Data -> Nat]]
    <3>1. CASE ReceiveIgnored(s, m)
      BY <3>1 DEF ReceiveIgnored, IInv, TypeOK
    <3>2. CASE ReceiveData(s, m)
      <4>1. m \in DataMessages
        BY <1>1, <3>2 DEF ReceiveData, Fitting, Messages, MembershipMessages
      <4>2. m.target \in Peers /\ m.data \in Data
        BY <4>1 DEF DataMessages
      <4> QED
        BY <3>2, <4>2 DEF ReceiveData, IInv, TypeOK
    <3> QED
      BY <1>3, <3>1, <3>2
  <2>4. /\ inbox' \in [Sockets -> Seq(SUBSET Messages)]
        /\ \A t \in Sockets : inbox'[t] \in Seq(SUBSET Fitting(t, Joined))
    BY <1>2, <2>1, ReceiveFits
  <2>5. /\ Joined' = Joined
        /\ LocalsAreOpen' /\ ToldAreOpen' /\ ChannelsCoverPeers'
        /\ RoutesLead' /\ ViewSound' /\ RemotesFit'
    BY <2>1, ListsStay
  <2>6. InboxesFit'
    BY <2>4, <2>5 DEF InboxesFit
  <2> QED
    BY <2>1, <2>2, <2>3, <2>4, <2>5, <2>6 DEF IInv, TypeOK
<1>4. CASE ReceiveConnect(s, m)
  <2> DEFINE x == Owner(s)
             p == m.target
             q == m.source
             sent == ConnectLocals(p, s, {q})
  <2>1. /\ m.action = "connect"
        /\ q \in localPeers[x]
        /\ remotePeers' =
             [remotePeers EXCEPT
                ![x] = @ \cup {[id |-> p, channel |-> ChannelOf[q], socket |-> s]}]
        /\ told' = Notified({q}, {p})
        /\ inbox' = Consumed(Transmitted(sent), s, m)
        /\ UNCHANGED <<client, delivered>>
    BY <1>4 DEF ReceiveConnect
  <2>2. x \in Proxies /\ Far(s) \in Sockets /\ Far(Far(s)) = s
    BY SocketFacts
  <2>3. /\ p \in Joined /\ p \in Peers /\ q \in Peers
        /\ ChannelOf[q] = ChannelOf[p]
        /\ Home[q] = x
        /\ Home[p] = Owner(Far(s))
    <3>1. Introduces(s, m) /\ p \in Joined
      BY <1>1, <2>1 DEF Fitting
    <3>2. q \in Peers
      BY <2>1, <2>2 DEF IInv, TypeOK
    <3> QED
      BY <3>1, <3>2 DEF Introduces, SameChannel, Joined
  <2>4. Home[p] # x
    <3>1. s.client # Home[s.peer]
      BY DEF IInv, DialsWanted
    <3> QED
      BY <2>3, <3>1, SocketFacts
  <2>5. ChannelOf[p] \in channels[x]
    BY <2>1, <2>2, <2>3 DEF IInv, ChannelsCoverPeers
  <2>6. {q} \in SUBSET LocalsIn(x, ChannelOf[p])
    BY <2>1, <2>3 DEF LocalsIn
  <2>7. q \in Joined
    BY <2>1, <2>2, <2>3 DEF IInv, LocalsAreOpen, Open, Joined
  <2>8. \A n \in sent : n.on \in Sockets /\ n.message \in Fitting(Far(n.on), Joined)
    <3>1. SameChannel(q, p) /\ Joined \in SUBSET Peers
      BY <2>3 DEF SameChannel, Joined
    <3>2. Connect(q, p) \in Fitting(Far(s), Joined)
      BY <2>2, <2>3, <2>7, <3>1, ConnectFits
    <3> QED
      BY <3>2 DEF ConnectLocals
  <2> HIDE DEF x, p, q, sent
  <2>9. /\ Transmitted(sent) = [t \in Sockets |-> Transmitted(sent)[t]]
        /\ \A t \in Sockets :
             Transmitted(sent)[t] \in Seq(SUBSET Fitting(t, Joined))
    BY <2>8, SendFits
  <2>10. Transmitted(sent)[s] # <<>>
    <3>1. inbox[s] \in Seq(SUBSET Messages)
      BY DEF IInv, TypeOK
    <3>2. \A e \in SUBSET Messages : Append(inbox[s], e) # <<>>
      BY <3>1
    <3> DEFINE burst == {n.message : n \in {k \in sent : Far(k.on) = s}}
    <3>3. burst \in SUBSET Messages
      BY <2>8 DEF Fitting
    <3>4. Transmitted(sent)[s] = IF burst # {} /\ status[s] = "open"
                                 THEN Append(inbox[s], burst) ELSE inbox[s]
      BY DEF Transmitted
    <3> HIDE DEF burst
    <3> QED
      BY <3>2, <3>3, <3>4
  <2>11. /\ inbox' \in [Sockets -> Seq(SUBSET Messages)]
         /\ \A t \in Sockets : inbox'[t] \in Seq(SUBSET Fitting(t, Joined))
    BY <2>1, <2>9, <2>10, ReceiveFits
  <2>12. /\ Joined' = Joined
         /\ remotePeers' \in [Proxies -> SUBSET RemotePeers]
         /\ told' \in [Peers -> SUBSET Peers]
         /\ LocalsAreOpen' /\ ToldAreOpen' /\ ChannelsCoverPeers'
         /\ RoutesLead' /\ ViewSound' /\ RemotesFit'
    <3>1. Owner(s) = x
      BY DEF x
    <3>2. status'[s] = "open"
      OBVIOUS
    <3>3. remotePeers' =
            [remotePeers EXCEPT
               ![x] = @ \cup {[id |-> p, channel |-> ChannelOf[p], socket |-> s]}]
      BY <2>1, <2>3
    <3> QED
      BY <2>1, <2>2, <2>3, <2>4, <2>5, <2>6, <3>1, <3>2, <3>3, ListingKeeps
  <2>13. InboxesFit'
    BY <2>11, <2>12 DEF InboxesFit
  <2> QED
    BY <2>1, <2>11, <2>12, <2>13 DEF IInv, TypeOK
<1> QED
  BY <1>3, <1>4

LEMMA ReceiveStep ==
  ASSUME IInv, NEW s \in Sockets, Receive(s)
  PROVE  IInv'
<1>1. UNCHANGED <<timerVars, mdns, channels, localPeers, proxies,
                  discoveryAdverts, status, posts, failures>>
  BY DEF Receive
<1>2. /\ Joined' = Joined
      /\ client' = client
      /\ remotePeers' \in [Proxies -> SUBSET RemotePeers]
      /\ told' \in [Peers -> SUBSET Peers]
      /\ inbox' \in [Sockets -> Seq(SUBSET Messages)]
      /\ delivered' \in [Peers -> [Data -> Nat]]
      /\ LocalsAreOpen' /\ ToldAreOpen' /\ ChannelsCoverPeers'
      /\ RoutesLead' /\ ViewSound' /\ RemotesFit' /\ InboxesFit'
  <2>1. /\ status[s] = "open" /\ inbox[s] # <<>>
        /\ \E m \in Head(inbox[s]) :
             ReceiveData(s, m) \/ ReceiveConnect(s, m) \/ ReceiveIgnored(s, m)
    BY DEF Receive
  <2> QED
    BY <1>1, <2>1, ReceiveChanges
<1>3. TypeOK'
  BY <1>1, <1>2 DEF IInv, TypeOK, timerVars
<1>4. ProxiesAreOpen' /\ DialsWanted'
  BY <1>1, <1>2 DEF IInv, ProxiesAreOpen, DialsWanted
<1>5. PacketsJoined' /\ AdvertsSent' /\ SocketsFresh'
  BY <1>1, <1>2
     DEF IInv, PacketsJoined, AdvertsSent, SocketsFresh, Advert, timerVars
<1> QED
  BY <1>2, <1>3, <1>4, <1>5 DEF IInv-----------------------------------------------------------------------------
\* A crash empties the lists of one proxy and closes its ends of connections:
\* nothing of other machines refers to them.
LEMMA CrashStep ==
  ASSUME IInv, NEW x \in Proxies, Crash(x)
  PROVE  IInv'
<1> USE ConstantsAssumption
<1>1. /\ failures' = failures + 1
      /\ client' = [p \in Peers |->
                      IF Home[p] = x /\ client[p] # "new" THEN "lost" ELSE client[p]]
      /\ told' = [p \in Peers |-> IF Home[p] = x THEN {} ELSE told[p]]
      /\ mdns' = {k \in mdns : k.to # x}
      /\ channels' = [channels EXCEPT ![x] = {}]
      /\ localPeers' = [localPeers EXCEPT ![x] = {}]
      /\ remotePeers' = [remotePeers EXCEPT ![x] = {}]
      /\ proxies' = [proxies EXCEPT ![x] = {}]
      /\ discoveryAdverts' = [discoveryAdverts EXCEPT ![x] = {}]
      /\ status' = [s \in Sockets |->
                      IF Owner(s) = x /\ status[s] \in {"connecting", "open"}
                      THEN "closed"
                      ELSE IF Owner(s) = x /\ status[s] = "none"
                                           /\ status[Far(s)] # "none"
                      THEN "refused"
                      ELSE status[s]]
      /\ inbox' = [s \in Sockets |-> IF Owner(s) = x THEN <<>> ELSE inbox[s]]
      /\ UNCHANGED <<timerVars, dataVars>>
  BY DEF Crash, Fail
<1>2. Joined' = Joined
  BY <1>1 DEF Joined
<1>3. \A y \in Proxies :
        /\ channels'[y] = IF y = x THEN {} ELSE channels[y]
        /\ localPeers'[y] = IF y = x THEN {} ELSE localPeers[y]
        /\ remotePeers'[y] = IF y = x THEN {} ELSE remotePeers[y]
        /\ proxies'[y] = IF y = x THEN {} ELSE proxies[y]
  BY <1>1 DEF IInv, TypeOK
<1>4. \A p \in Peers : client'[p] =
        IF Home[p] = x /\ client[p] # "new" THEN "lost" ELSE client[p]
  BY <1>1
<1>5. \A s \in Sockets : Owner(s) # x => status'[s] = status[s]
  BY <1>1
<1>6. TypeOK'
  <2>1. /\ client' \in [Peers -> {"new", "open", "closed", "lost"}]
        /\ told' \in [Peers -> SUBSET Peers]
    BY <1>1 DEF IInv, TypeOK
  <2>2. status' \in [Sockets -> {"none", "connecting", "open", "closed", "refused"}]
    BY <1>1 DEF IInv, TypeOK
  <2>3. inbox' \in [Sockets -> Seq(SUBSET Messages)]
    BY <1>1 DEF IInv, TypeOK
  <2>4. mdns' \subseteq Packets /\ failures' \in Nat
    BY <1>1 DEF IInv, TypeOK
  <2>5. /\ channels' \in [Proxies -> SUBSET Channels]
        /\ localPeers' \in [Proxies -> SUBSET Peers]
        /\ remotePeers' \in [Proxies -> SUBSET RemotePeers]
        /\ proxies' \in [Proxies -> SUBSET Sockets]
        /\ discoveryAdverts' \in [Proxies -> SUBSET Peers]
    BY <1>1 DEF IInv, TypeOK
  <2> QED
    BY <1>1, <2>1, <2>2, <2>3, <2>4, <2>5 DEF IInv, TypeOK, timerVars, dataVars
<1>7. LocalsAreOpen'
  <2> SUFFICES ASSUME NEW y \in Proxies
               PROVE  localPeers'[y] =
                        {p \in Peers : client'[p] = "open" /\ Home[p] = y}
    BY DEF LocalsAreOpen, Open
  <2>1. CASE y = x
    BY <1>3, <1>4, <2>1
  <2>2. CASE y # x
    BY <1>3, <1>4, <2>2 DEF IInv, LocalsAreOpen, Open
  <2> QED
    BY <2>1, <2>2
<1>8. \A p \in Peers : told'[p] = IF Home[p] = x THEN {} ELSE told[p]
  BY <1>1
<1>9. ToldAreOpen'
  BY <1>4, <1>8 DEF IInv, ToldAreOpen, Open
<1>10. ChannelsCoverPeers' /\ RemotesFit'
  BY <1>3 DEF IInv, ChannelsCoverPeers, RemotesFit
<1>11. ProxiesAreOpen'
  <2> SUFFICES ASSUME NEW y \in Proxies, NEW t \in proxies'[y]
               PROVE  Owner(t) = y /\ status'[t] = "open"
    BY DEF ProxiesAreOpen
  <2>1. y # x /\ t \in proxies[y]
    BY <1>3
  <2>2. t \in Sockets /\ Owner(t) = y /\ status[t] = "open"
    BY <2>1 DEF IInv, TypeOK, ProxiesAreOpen
  <2> QED
    BY <1>5, <2>1, <2>2
<1>12. RoutesLead'
  <2> SUFFICES ASSUME NEW y \in Proxies, NEW r \in remotePeers'[y]
               PROVE  /\ Owner(r.socket) = y
                      /\ status'[r.socket] = "open"
                      /\ Owner(Far(r.socket)) = Home[r.id]
                      /\ r.id \in Joined
    BY <1>2 DEF RoutesLead
  <2>1. y # x /\ r \in remotePeers[y]
    BY <1>3
  <2> QED
    BY <1>5, <2>1, EntryFacts
<1>13. ViewSound'
  <2> SUFFICES ASSUME NEW q \in Peers, NEW o \in told'[q]
               PROVE  /\ SameChannel(q, o)
                      /\ o # q
                      /\ \/ o \in localPeers'[Home[q]]
                         \/ \E r \in RemotesNamed(Home[q], o)' :
                              r.channel = ChannelOf[q]
    BY DEF ViewSound, SameChannel
  <2>1. Home[q] # x /\ o \in told[q]
    BY <1>8
  <2>2. localPeers'[Home[q]] = localPeers[Home[q]]
        /\ RemotesNamed(Home[q], o)' = RemotesNamed(Home[q], o)
    BY <1>3, <2>1 DEF RemotesNamed
  <2> QED
    BY <2>1, <2>2 DEF IInv, ViewSound
<1>14. InboxesFit'
  <2>1. ASSUME NEW t \in Sockets
        PROVE  inbox'[t] \in Seq(SUBSET Fitting(t, Joined))
    <3>1. inbox[t] \in Seq(SUBSET Fitting(t, Joined))
      BY DEF IInv, InboxesFit
    <3>2. <<>> \in Seq(SUBSET Fitting(t, Joined))
      OBVIOUS
    <3> QED
      BY <1>1, <3>1, <3>2
  <2> QED
    BY <1>2, <2>1 DEF InboxesFit
<1>15. PacketsJoined' /\ AdvertsSent'
  BY <1>1, <1>2 DEF IInv, PacketsJoined, AdvertsSent, timerVars
<1>16. SocketsFresh'
  <2> SUFFICES ASSUME NEW t \in Sockets,
                      advSent[t.peer] < t.advert \/ Advert(t) \in mdns'
               PROVE  status'[t] = "none"
    BY <1>1 DEF SocketsFresh, Advert, timerVars
  <2>1. Far(t) \in Sockets /\ Far(t).peer = t.peer /\ Far(t).advert = t.advert
        /\ Advert(Far(t)) = Advert(t)
    BY SocketFacts, FarRecord DEF Advert
  <2>2. status[t] = "none" /\ status[Far(t)] = "none"
    BY <1>1, <2>1 DEF IInv, SocketsFresh
  <2> QED
    BY <1>1, <2>2
<1>17. DialsWanted'
  <2> SUFFICES ASSUME NEW t \in Sockets
               PROVE  /\ status'[t] # "none" => t.client # Home[t.peer]
                      /\ status'[t] = "connecting" =>
                           /\ t.side = "client"
                           /\ t.peer \in Joined
                           /\ ChannelOf[t.peer] \in channels'[t.client]
    BY <1>2 DEF DialsWanted
  <2>1. Far(t) \in Sockets /\ Far(t).client = t.client /\ Far(t).peer = t.peer
        /\ t.client \in Proxies
    BY SocketFacts
  <2>2. status'[t] # "none" => status[t] # "none" \/ status[Far(t)] # "none"
    BY <1>1
  <2>3. status'[t] # "none" => t.client # Home[t.peer]
    BY <2>1, <2>2 DEF IInv, DialsWanted
  <2>4. ASSUME status'[t] = "connecting"
        PROVE  /\ t.side = "client"
               /\ t.peer \in Joined
               /\ ChannelOf[t.peer] \in channels'[t.client]
    <3>1. status[t] = "connecting"
          /\ (Owner(t) = x => status[t] = "none")
      BY <1>1, <2>4
    <3>2. /\ t.side = "client"
          /\ t.peer \in Joined
          /\ ChannelOf[t.peer] \in channels[t.client]
      BY <3>1 DEF IInv, DialsWanted
    <3>3. t.client # x
      BY <3>1, <3>2, SocketFacts
    <3> QED
      BY <1>3, <2>1, <3>2, <3>3
  <2> QED
    BY <2>3, <2>4
<1> QED
  BY <1>6, <1>7, <1>9, <1>10, <1>11, <1>12, <1>13, <1>14, <1>15, <1>16, <1>17
     DEF IInv
-----------------------------------------------------------------------------
(* The invariant holds in every reachable state.                           *)

\* A proxy that has just started serves nobody and knows nobody.
LEMMA InitKeeps ==
  Init => IInv
<1> SUFFICES ASSUME Init PROVE IInv
  OBVIOUS
<1> USE ConstantsAssumption
<1>1. TypeOK
  <2>1. /\ advSent \in [Peers -> 0..Announcements]
        /\ byeSent \in [Peers -> 0..Announcements]
    BY DEF Init
  <2>2. inbox \in [Sockets -> Seq(SUBSET Messages)]
    <3>1. <<>> \in Seq(SUBSET Messages)
      OBVIOUS
    <3> QED
      BY <3>1 DEF Init
  <2>3. delivered \in [Peers -> [Data -> Nat]] /\ failures \in Nat
    BY DEF Init
  <2>4. /\ client \in [Peers -> {"new", "open", "closed", "lost"}]
        /\ status \in [Sockets -> {"none", "connecting", "open", "closed", "refused"}]
        /\ told \in [Peers -> SUBSET Peers]
        /\ mdns \subseteq Packets /\ posts \subseteq Posts
    BY DEF Init
  <2>5. /\ channels \in [Proxies -> SUBSET Channels]
        /\ localPeers \in [Proxies -> SUBSET Peers]
        /\ remotePeers \in [Proxies -> SUBSET RemotePeers]
        /\ proxies \in [Proxies -> SUBSET Sockets]
        /\ discoveryAdverts \in [Proxies -> SUBSET Peers]
    BY DEF Init
  <2> QED
    BY <2>1, <2>2, <2>3, <2>4, <2>5 DEF TypeOK
<1>2. LocalsAreOpen /\ ToldAreOpen /\ ChannelsCoverPeers /\ RemotesFit
  BY DEF Init, LocalsAreOpen, ToldAreOpen, ChannelsCoverPeers, RemotesFit, Open
<1>3. ProxiesAreOpen /\ RoutesLead /\ ViewSound
  BY DEF Init, ProxiesAreOpen, RoutesLead, ViewSound
<1>4. InboxesFit
  <2>1. \A s \in Sockets : <<>> \in Seq(SUBSET Fitting(s, Joined))
    OBVIOUS
  <2> QED
    BY <2>1 DEF Init, InboxesFit
<1>5. PacketsJoined /\ AdvertsSent /\ SocketsFresh /\ DialsWanted
  BY DEF Init, PacketsJoined, AdvertsSent, SocketsFresh, DialsWanted
<1> QED
  BY <1>1, <1>2, <1>3, <1>4, <1>5 DEF IInv

\* A stuttering step.
LEMMA StutterKeeps ==
  ASSUME IInv, UNCHANGED vars
  PROVE  IInv'
<1>1. UNCHANGED <<clientVars, channels, localPeers, remotePeers, proxies, status>>
  BY DEF vars, appVars, socketVars
<1>2. TypeOK'
  BY DEF IInv, TypeOK, vars, clientVars, timerVars, appVars, socketVars, dataVars
<1>3. Joined' = Joined
  BY <1>1, ListsStay
<1>4. InboxesFit' /\ PacketsJoined' /\ AdvertsSent' /\ SocketsFresh'
  BY <1>1, <1>3 DEF IInv, InboxesFit, PacketsJoined, AdvertsSent, SocketsFresh,
                    Advert, vars, timerVars, socketVars
<1> QED
  BY <1>1, <1>2, <1>4, ListsStay DEF IInv

\* One case per action.
LEMMA NextKeeps ==
  IInv /\ [Next]_vars => IInv'
<1> SUFFICES ASSUME IInv, [Next]_vars PROVE IInv'
  OBVIOUS
<1>1. CASE ClientStep
  BY <1>1, ClientJoinStep, ClientLeaveStep, BroadcastPostStep, DirectPostStep
     DEF ClientStep
<1>2. CASE LoopStep
  BY <1>2, DiscoverStep, GoodbyeStep, AcceptStep, OpenSocketStep, ReceiveStep
     DEF LoopStep
<1>3. CASE Timer
  BY <1>3, SendAdvertStep, SendGoodbyeStep DEF Timer
<1>4. CASE Failure
  BY <1>4, DialFailsStep, CloseSocketStep, CrashStep DEF Failure
<1>5. CASE UNCHANGED vars
  BY <1>5, StutterKeeps
<1> QED
  BY <1>1, <1>2, <1>3, <1>4, <1>5 DEF Next

\* The inductive invariant holds throughout every behaviour.
THEOREM Invariant == Spec => []IInv
<1>1. Init => IInv
  BY InitKeeps
<1>2. IInv /\ [Next]_vars => IInv'
  BY NextKeeps
<1> QED
  BY <1>1, <1>2, PTL DEF Spec
-----------------------------------------------------------------------------
(* The properties that the invariant carries.                              *)

\* Every variable of every proxy keeps its type.
THEOREM TypeCorrect == Spec => []TypeOK
<1>1. IInv => TypeOK
  BY DEF IInv
<1> QED
  BY <1>1, Invariant, PTL

\* A channel is listed for as long as a local or a remote peer is on it
\* (App.channels against App.localPeers and App.remotePeers), however late a
\* dialled socket opens or a connect arrives.
THEOREM ChannelsCoverPeersAlways == Spec => []ChannelsCoverPeers
<1>1. IInv => ChannelsCoverPeers
  BY DEF IInv
<1> QED
  BY <1>1, Invariant, PTL

\* What the router sends for a remote peer goes out on an open socket that leads
\* to that peer's machine, through any failures (Proxy.close, Peer.remove).
THEOREM RoutesLeadAlways == Spec => []RoutesLead
<1>1. IInv => RoutesLead
  BY DEF IInv
<1> QED
  BY <1>1, Invariant, PTL

\* A client is never left believing in a peer that its proxy has dropped
\* (Channel.connectPeers and disconnectPeers keep clients in step with the lists).
THEOREM ViewSoundAlways == Spec => []ViewSound
<1>1. IInv => ViewSound
  BY DEF IInv
<1> QED
  BY <1>1, Invariant, PTL

\* Neither an entry nor a connect under way crosses channels, although the
\* receiver of a connect takes the channel from its own local peer.
THEOREM ChannelIsolationAlways == Spec => []ChannelIsolation
<1>1. IInv => ChannelIsolation
  <2> SUFFICES ASSUME IInv PROVE ChannelIsolation
    OBVIOUS
  <2>1. \A x \in Proxies : \A r \in remotePeers[x] : r.channel = ChannelOf[r.id]
    BY DEF IInv, RemotesFit
  <2>2. ASSUME NEW s \in Sockets, NEW i \in DOMAIN inbox[s], NEW m \in inbox[s][i],
               m.action = "connect"
        PROVE  Introduces(s, m)
    <3>1. inbox[s] \in Seq(SUBSET Fitting(s, Joined))
      BY DEF IInv, InboxesFit
    <3>2. inbox[s][i] \in SUBSET Fitting(s, Joined)
      BY <3>1
    <3>3. m \in Fitting(s, Joined)
      BY <3>2
    <3> QED
      BY <2>2, <3>3 DEF Fitting
  <2> QED
    BY <2>1, <2>2 DEF ChannelIsolation
<1> QED
  BY <1>1, Invariant, PTL

\* A proxy lists no peer of its own as remote, even when multicast loops back
\* (PeerDiscovery.handleResponse compares the advert's address with its own).
THEOREM NoSelfRemoteAlways == Spec => []NoSelfRemote
<1>1. IInv => NoSelfRemote
  BY EntryFacts DEF NoSelfRemote
<1> QED
  BY <1>1, Invariant, PTL
=============================================================================
