------------------------- MODULE LocalMembershipProofs -------------------------
(***************************************************************************)
(* Proofs of what clients are told: that a disconnect notice is true when  *)
(* it is sent, and that the proxies implement LocalMembership, whatever    *)
(* other machines and the network do.                                      *)
(***************************************************************************)
EXTENDS NamedWebsocketProxyProofs

\* A connect that is taken by a local peer introduces a peer of another machine.
LEMMA ConnectAbroad ==
  ASSUME IInv, NEW s \in Sockets, status[s] = "open", inbox[s] # <<>>,
         NEW m \in Head(inbox[s]), m.action = "connect"
  PROVE  Home[m.target] # Owner(s)
<1>1. inbox[s] \in Seq(SUBSET Fitting(s, Joined))
  BY DEF IInv, InboxesFit
<1>2. Head(inbox[s]) \in SUBSET Fitting(s, Joined)
  BY <1>1, QueueFacts
<1>3. Home[m.target] = Owner(Far(s))
  BY <1>2 DEF Fitting, Introduces
<1>4. s.client # Home[s.peer]
  BY DEF IInv, DialsWanted
<1> QED
  BY <1>3, <1>4, SocketFacts

(* What a step does to the notices, but for the three in which clients come *)
(* and go.                                                                  *)

Announces(x, id) ==
  /\ UNCHANGED <<client, localPeers>>
  /\ Home[id] # x
  /\ \E receivers \in SUBSET localPeers[x] : told' = Notified(receivers, {id})

Dismisses(x, entries) ==
  /\ UNCHANGED <<client, localPeers>>
  /\ told' = Dismissed(x, entries)
  /\ remotePeers' = [remotePeers EXCEPT ![x] = WithoutIds(x, entries)]

\* Every step announces one peer of another machine, dismisses entries of one
\* proxy, is a client's coming or going or a crash, or tells nobody anything.
LEMMA NoticeKinds ==
  ASSUME IInv, [Next]_vars
  PROVE  \/ UNCHANGED <<client, told, localPeers>>
         \/ \E x \in Proxies, id \in Peers : Announces(x, id)
         \/ \E x \in Proxies : \E entries \in SUBSET remotePeers[x] :
              Dismisses(x, entries)
         \/ \E p \in Peers : ClientJoin(p) \/ ClientLeave(p)
         \/ \E x \in Proxies : Crash(x)
<1>1. CASE ClientStep
  <2>1. ASSUME NEW p \in Peers, NEW d \in Data,
               BroadcastPost(p, d) \/ \E q \in Peers : DirectPost(p, q, d)
        PROVE  UNCHANGED <<client, told, localPeers>>
    <3>1. UNCHANGED <<clientVars, appVars>>
      BY <2>1 DEF BroadcastPost, DirectPost
    <3> QED
      BY <3>1 DEF clientVars, appVars
  <2> QED
    BY <1>1, <2>1 DEF ClientStep
<1>2. CASE Timer
  BY <1>2 DEF Timer, SendAdvert, SendGoodbye, clientVars, appVars
<1>3. CASE UNCHANGED vars
  BY <1>3 DEF vars, clientVars, appVars
<1>4. ASSUME NEW x \in Proxies, NEW p \in Peers, NEW n \in 1..Announcements,
             Discover(x, p, n)
      PROVE  UNCHANGED <<client, told, localPeers>> \/ Announces(x, p)
  <2>1. CASE IgnoreAdvert(x, p) \/ CacheAdvert(x, p) \/ Dial(x, p, n)
    BY <2>1 DEF IgnoreAdvert, CacheAdvert, Dial, appVars
  <2>2. CASE ReuseProxy(x, p)
    <3>1. LocalsIn(x, ChannelOf[p]) \in SUBSET localPeers[x]
      BY DEF LocalsIn
    <3> QED
      BY <2>2, <3>1 DEF ReuseProxy, WantsPeer, CreateRemotePeer, Announces
  <2> QED
    BY <1>4, <2>1, <2>2 DEF Discover
<1>5. ASSUME NEW x \in Proxies, NEW p \in Peers, NEW n \in 1..Announcements,
             Goodbye(x, p, n)
      PROVE  \E entries \in SUBSET remotePeers[x] : Dismisses(x, entries)
  <2> DEFINE gone == IF ChannelOf[p] \in channels[x] THEN RemotesNamed(x, p) ELSE {}
  <2>1. gone \in SUBSET remotePeers[x]
    BY DEF RemotesNamed
  <2>2. Dismisses(x, gone)
    BY <1>5 DEF Goodbye, Dismisses
  <2> QED
    BY <2>1, <2>2
<1>6. ASSUME NEW s \in Sockets, Accept(s) \/ DialFails(s)
      PROVE  UNCHANGED <<client, told, localPeers>>
  BY <1>6 DEF Accept, DialFails, clientVars, appVars
<1>7. ASSUME NEW s \in Sockets, OpenSocket(s)
      PROVE  \E x \in Proxies, id \in Peers : Announces(x, id)
  <2> DEFINE x == Owner(s)
             p == s.peer
  <2>1. x \in Proxies /\ p \in Peers /\ x = s.client
    BY <1>7, SocketFacts DEF OpenSocket
  <2>2. Home[p] # x
    BY <1>7, <2>1 DEF OpenSocket, IInv, DialsWanted
  <2>3. LocalsIn(x, ChannelOf[p]) \in SUBSET localPeers[x]
    BY DEF LocalsIn
  <2>4. Announces(x, p)
    BY <1>7, <2>2, <2>3 DEF OpenSocket, CreateRemotePeer, Announces
  <2> QED
    BY <2>1, <2>4
<1>8. ASSUME NEW s \in Sockets, CloseSocket(s)
      PROVE  \E x \in Proxies : \E entries \in SUBSET remotePeers[x] :
               Dismisses(x, entries)
  <2> DEFINE x == Owner(s)
             remotes == {r \in remotePeers[x] : Ip(r.socket) = Ip(s)}
  <2>1. x \in Proxies /\ remotes \in SUBSET remotePeers[x]
    BY SocketFacts
  <2>2. Dismisses(x, remotes)
    BY <1>8 DEF CloseSocket, Dismisses
  <2> QED
    BY <2>1, <2>2
<1>9. ASSUME NEW s \in Sockets, Receive(s)
      PROVE  \/ UNCHANGED <<client, told, localPeers>>
             \/ \E x \in Proxies, id \in Peers : Announces(x, id)
  <2>1. PICK m \in Head(inbox[s]) :
          ReceiveData(s, m) \/ ReceiveConnect(s, m) \/ ReceiveIgnored(s, m)
    BY <1>9 DEF Receive
  <2>2. status[s] = "open" /\ inbox[s] # <<>> /\ localPeers' = localPeers
    BY <1>9 DEF Receive
  <2>3. CASE ReceiveData(s, m) \/ ReceiveIgnored(s, m)
    BY <2>2, <2>3 DEF ReceiveData, ReceiveIgnored, clientVars
  <2>4. CASE ReceiveConnect(s, m)
    <3>1. /\ m.action = "connect"
          /\ m.source \in localPeers[Owner(s)]
          /\ told' = Notified({m.source}, {m.target})
          /\ client' = client
      BY <2>4 DEF ReceiveConnect
    <3>2. Owner(s) \in Proxies /\ Home[m.target] # Owner(s)
      BY <2>2, <3>1, ConnectAbroad, SocketFacts
    <3>3. m.target \in Peers
      <4>1. inbox[s] \in Seq(SUBSET Messages)
        BY DEF IInv, TypeOK
      <4>2. m \in Messages
        BY <2>2, <4>1, QueueFacts
      <4> QED
        BY <4>2 DEF Messages, MembershipMessages, DataMessages
    <3>4. Announces(Owner(s), m.target)
      BY <2>2, <3>1, <3>2 DEF Announces
    <3> QED
      BY <3>2, <3>3, <3>4
  <2> QED
    BY <2>1, <2>3, <2>4
<1>10. CASE LoopStep
  BY <1>4, <1>5, <1>6, <1>7, <1>9, <1>10 DEF LoopStep
<1>11. CASE Failure
  BY <1>6, <1>8, <1>11 DEF Failure
<1> QED
  BY <1>1, <1>2, <1>3, <1>10, <1>11 DEF Next
-----------------------------------------------------------------------------
\* A disconnect notice is true when it is sent.
LEMMA DisconnectStep ==
  ASSUME IInv, [Next]_vars
  PROVE  DisconnectOnlyGone
<1> SUFFICES ASSUME NEW p \in Peers, NEW q \in Peers,
                    q \in told[p], q \notin told'[p], client'[p] = "open"
             PROVE  /\ q \notin localPeers'[Home[p]]
                    /\ q \notin Ids(remotePeers'[Home[p]])
  BY DEF DisconnectOnlyGone
<1> USE ConstantsAssumption
<1>1. Open(p) /\ Home[p] \in Proxies /\ p \in localPeers[Home[p]]
  BY DEF IInv, ToldAreOpen, LocalsAreOpen
<1>2. \A y \in Proxies : q \in Ids(remotePeers[y]) => Home[q] # y
  BY EntryFacts DEF Ids
<1>3. CASE UNCHANGED <<client, told, localPeers>>
  BY <1>3
<1>4. ASSUME NEW x \in Proxies, NEW id \in Peers, Announces(x, id) PROVE FALSE
  BY <1>4 DEF Announces, Notified
<1>5. ASSUME NEW x \in Proxies, NEW entries \in SUBSET remotePeers[x],
             Dismisses(x, entries)
      PROVE  /\ q \notin localPeers'[Home[p]]
             /\ q \notin Ids(remotePeers'[Home[p]])
  <2>1. /\ p \in localPeers[x]
        /\ q \in Ids({r \in entries : r.channel = ChannelOf[p]})
    BY <1>5 DEF Dismisses, Dismissed
  <2>2. Home[p] = x
    BY <2>1 DEF IInv, LocalsAreOpen
  <2>3. q \in Ids(entries) /\ q \in Ids(remotePeers[x])
    BY <2>1 DEF Ids
  <2>4. q \notin localPeers'[x]
    BY <1>2, <1>5, <2>3 DEF Dismisses, IInv, LocalsAreOpen
  <2>5. remotePeers'[x] = WithoutIds(x, entries)
    BY <1>5 DEF Dismisses, IInv, TypeOK
  <2>6. q \notin Ids(remotePeers'[x])
    BY <2>3, <2>5 DEF WithoutIds, Ids
  <2> QED
    BY <2>2, <2>4, <2>6
<1>6. ASSUME NEW o \in Peers, ClientJoin(o) PROVE FALSE
  <2>1. o # p
    BY <1>1, <1>6 DEF ClientJoin, Open
  <2> QED
    BY <1>6, <2>1 DEF ClientJoin, Notified
<1>7. ASSUME NEW o \in Peers, ClientLeave(o)
      PROVE  /\ q \notin localPeers'[Home[p]]
             /\ q \notin Ids(remotePeers'[Home[p]])
  <2>1. /\ client' = [client EXCEPT ![o] = "closed"]
        /\ localPeers' = [localPeers EXCEPT ![Home[o]] = @ \ {o}]
        /\ remotePeers' = remotePeers
        /\ told'[p] = IF p = o THEN {}
                      ELSE IF p \in LocalsIn(Home[o], ChannelOf[o])
                      THEN told[p] \ {o} ELSE told[p]
    BY <1>7 DEF ClientLeave
  <2>2. p # o
    BY <2>1 DEF IInv, TypeOK
  <2>3. q = o /\ p \in localPeers[Home[o]]
    BY <2>1, <2>2 DEF LocalsIn
  <2>4. Home[p] = Home[o]
    BY <2>3 DEF IInv, LocalsAreOpen
  <2> QED
    BY <1>1, <1>2, <2>1, <2>3, <2>4 DEF IInv, TypeOK
<1>8. ASSUME NEW x \in Proxies, Crash(x) PROVE FALSE
  BY <1>1, <1>8 DEF Crash, Open
<1> QED
  BY <1>3, <1>4, <1>5, <1>6, <1>7, <1>8, NoticeKinds

\* A client is told of a disconnection only once its proxy lists that peer
\* neither as local nor as remote: Proxy.close and Router.handleRemoteDisconnection
\* leave no second entry of the same id behind.
THEOREM DisconnectMeansGoneAlways == Spec => DisconnectMeansGone
<1>1. IInv /\ [Next]_vars => [DisconnectOnlyGone]_vars
  BY DisconnectStep
<1> QED
  BY <1>1, Invariant, PTL DEF Spec, DisconnectMeansGone
-----------------------------------------------------------------------------
(* The proxies implement LocalMembership.                                  *)

\* Whatever is announced or dismissed is about another machine.
LEMMA ViewsElsewhere ==
  ASSUME IInv, LocalViewExact, client' = client,
         \A p, q \in Peers :
           Home[p] = Home[q] => (q \in told'[p] <=> q \in told[p])
  PROVE  LocalViewExact'
  BY DEF LocalViewExact, Open, SameChannel

LEMMA ViewStep ==
  ASSUME IInv, LocalViewExact, [Next]_vars
  PROVE  LocalViewExact'
<1> USE ConstantsAssumption
<1>1. CASE UNCHANGED <<client, told, localPeers>>
  BY <1>1, ViewsElsewhere
<1>2. ASSUME NEW x \in Proxies, NEW id \in Peers, Announces(x, id)
      PROVE  LocalViewExact'
  <2>1. PICK receivers \in SUBSET localPeers[x] : told' = Notified(receivers, {id})
    BY <1>2 DEF Announces
  <2>2. \A p \in receivers : Home[p] # Home[id]
    BY <1>2 DEF Announces, IInv, LocalsAreOpen
  <2>3. \A p \in Peers :
          told'[p] = IF p \in receivers THEN told[p] \cup {id} ELSE told[p]
    BY <2>1 DEF Notified
  <2>4. \A p, q \in Peers :
          Home[p] = Home[q] => (q \in told'[p] <=> q \in told[p])
    BY <2>2, <2>3
  <2> QED
    BY <1>2, <2>4, ViewsElsewhere DEF Announces
<1>3. ASSUME NEW x \in Proxies, NEW entries \in SUBSET remotePeers[x],
             Dismisses(x, entries)
      PROVE  LocalViewExact'
  <2>1. \A p \in Peers : told'[p] =
          IF p \in localPeers[x]
          THEN told[p] \ Ids({r \in entries : r.channel = ChannelOf[p]})
          ELSE told[p]
    BY <1>3 DEF Dismisses, Dismissed
  <2>2. \A p \in localPeers[x] : Home[p] = x
    BY DEF IInv, LocalsAreOpen
  <2>3. \A c : \A q \in Ids({r \in entries : r.channel = c}) : Home[q] # x
    BY EntryFacts DEF Ids
  <2>4. ASSUME NEW p \in Peers, NEW q \in Peers, Home[p] = Home[q]
        PROVE  q \in told'[p] <=> q \in told[p]
    <3> DEFINE lost == Ids({r \in entries : r.channel = ChannelOf[p]})
    <3>1. told'[p] = IF p \in localPeers[x] THEN told[p] \ lost ELSE told[p]
      BY <2>1
    <3>2. q \in lost => Home[q] # x
      BY <2>3
    <3> HIDE DEF lost
    <3> QED
      BY <2>2, <2>4, <3>1, <3>2
  <2> QED
    BY <1>3, <2>4, ViewsElsewhere DEF Dismisses
<1>4. ASSUME NEW o \in Peers, ClientJoin(o)
      PROVE  LocalViewExact'
  <2> DEFINE x == Home[o]
             c == ChannelOf[o]
             locals == LocalsIn(x, c)
             remotes == RemotesIn(x, c)
  <2>1. /\ client[o] = "new"
        /\ client' = [client EXCEPT ![o] = "open"]
        /\ told' = [Notified(locals, {o}) EXCEPT ![o] = locals \cup Ids(remotes)]
    BY <1>4 DEF ClientJoin
  <2>2. \A q \in Peers : q \in locals <=> /\ Open(q) /\ Home[q] = x
                                          /\ ChannelOf[q] = c
    BY DEF LocalsIn, IInv, LocalsAreOpen
  <2>3. \A q \in Ids(remotes) : Home[q] # x
    BY EntryFacts DEF Ids, RemotesIn
  <2>4. \A p \in Peers :
          told'[p] = IF p = o THEN locals \cup Ids(remotes)
                     ELSE IF p \in locals THEN told[p] \cup {o} ELSE told[p]
    BY <2>1 DEF Notified
  <2>5. \A p \in Peers : client'[p] = IF p = o THEN "open" ELSE client[p]
    BY <2>1 DEF IInv, TypeOK
  <2> HIDE DEF locals, remotes
  <2>6. ASSUME NEW p \in Peers, NEW q \in Peers, Home[p] = Home[q]
        PROVE  q \in told'[p] <=>
                 /\ client'[p] = "open" /\ client'[q] = "open"
                 /\ q # p /\ ChannelOf[p] = ChannelOf[q]
    <3>1. q \in told[p] <=> /\ Open(p) /\ Open(q)
                            /\ q # p /\ ChannelOf[p] = ChannelOf[q]
      BY <2>6 DEF LocalViewExact, SameChannel
    <3>2. CASE p = o
      <4>1. told'[p] = locals \cup Ids(remotes) /\ q \notin Ids(remotes)
        BY <2>3, <2>4, <2>6, <3>2
      <4>2. q \in told'[p] <=> Open(q) /\ ChannelOf[q] = c
        BY <2>2, <2>6, <3>2, <4>1
      <4>3. CASE q = o
        BY <2>1, <3>2, <4>2, <4>3 DEF Open
      <4>4. CASE q # o
        BY <2>5, <3>2, <4>2, <4>4 DEF Open
      <4> QED
        BY <4>3, <4>4
    <3>3. CASE p # o /\ q = o
      <4>1. q \notin told[p]
        BY <2>1, <3>1, <3>3 DEF Open
      <4>2. q \in told'[p] <=> p \in locals
        BY <2>4, <3>3, <4>1
      <4>3. p \in locals <=> Open(p) /\ ChannelOf[p] = c
        BY <2>2, <2>6, <3>3
      <4>4. client'[q] = "open" /\ client'[p] = client[p]
        BY <2>5, <3>3
      <4> QED
        BY <3>3, <4>2, <4>3, <4>4 DEF Open
    <3>4. CASE p # o /\ q # o
      BY <2>4, <2>5, <3>1, <3>4 DEF Open
    <3> QED
      BY <3>2, <3>3, <3>4
  <2> QED
    BY <2>6 DEF LocalViewExact, Open, SameChannel
<1>5. ASSUME NEW o \in Peers, ClientLeave(o)
      PROVE  LocalViewExact'
  <2> DEFINE locals == LocalsIn(Home[o], ChannelOf[o])
  <2>1. /\ client' = [client EXCEPT ![o] = "closed"]
        /\ \A p \in Peers : told'[p] = IF p = o THEN {}
                                       ELSE IF p \in locals THEN told[p] \ {o}
                                       ELSE told[p]
    BY <1>5 DEF ClientLeave
  <2>2. \A q \in Peers : q \in locals <=> /\ Open(q) /\ Home[q] = Home[o]
                                          /\ ChannelOf[q] = ChannelOf[o]
    BY DEF LocalsIn, IInv, LocalsAreOpen
  <2>3. \A p \in Peers : client'[p] = IF p = o THEN "closed" ELSE client[p]
    BY <2>1 DEF IInv, TypeOK
  <2>5. client[o] = "open"
    BY <1>5 DEF ClientLeave
  <2> HIDE DEF locals
  <2>4. ASSUME NEW p \in Peers, NEW q \in Peers, Home[p] = Home[q]
        PROVE  q \in told'[p] <=>
                 /\ client'[p] = "open" /\ client'[q] = "open"
                 /\ q # p /\ ChannelOf[p] = ChannelOf[q]
    <3>1. q \in told[p] <=> /\ Open(p) /\ Open(q)
                            /\ q # p /\ ChannelOf[p] = ChannelOf[q]
      BY <2>4 DEF LocalViewExact, SameChannel
    <3>2. CASE p = o
      <4>1. told'[p] = {} /\ client'[p] = "closed"
        BY <2>1, <2>3, <3>2
      <4> QED
        BY <4>1
    <3>3. CASE p # o /\ q = o
      <4>1. client'[q] = "closed"
        BY <2>3, <3>3
      <4>2. q \notin told'[p]
        <5>1. CASE p \in locals
          BY <2>1, <3>3, <5>1
        <5>2. CASE p \notin locals
          <6>1. told'[p] = told[p]
            BY <2>1, <3>3, <5>2
          <6>2. ~(Open(p) /\ ChannelOf[p] = ChannelOf[q])
            BY <2>2, <2>4, <3>3, <5>2
          <6> QED
            BY <3>1, <6>1, <6>2
        <5> QED
          BY <5>1, <5>2
      <4> QED
        BY <4>1, <4>2
    <3>4. CASE p # o /\ q # o
      <4>1. q \in told'[p] <=> q \in told[p]
        BY <2>1, <3>4
      <4>2. client'[p] = client[p] /\ client'[q] = client[q]
        BY <2>3, <3>4
      <4> QED
        BY <3>1, <4>1, <4>2 DEF Open
    <3> QED
      BY <3>2, <3>3, <3>4
  <2> QED
    BY <2>4 DEF LocalViewExact, Open, SameChannel
<1>6. ASSUME NEW x \in Proxies, Crash(x)
      PROVE  LocalViewExact'
  <2>1. /\ \A p \in Peers : client'[p] =
             IF Home[p] = x /\ client[p] # "new" THEN "lost" ELSE client[p]
        /\ \A p \in Peers : told'[p] = IF Home[p] = x THEN {} ELSE told[p]
    BY <1>6 DEF Crash
  <2> QED
    BY <2>1 DEF LocalViewExact, Open, SameChannel
<1> QED
  BY <1>1, <1>2, <1>3, <1>4, <1>5, <1>6, NoticeKinds

\* The refinement mapping: who is joined, who has left, and who sees whom.
Members == {p \in Peers : p \in localPeers[Home[p]]}
Gone == {p \in Peers : client[p] \in {"closed", "lost"}}
View == [p \in Peers |-> {q \in told[p] : Home[q] = Home[p]}]

\* A client that is joined has an open socket.
LEMMA MembersAreOpen ==
  IInv => Members = {p \in Peers : client[p] = "open"}
BY ConstantsAssumption DEF IInv, LocalsAreOpen, Open, Members

\* What clients see is exact.
LEMMA ViewIsExact ==
  IInv /\ LocalViewExact => View = Local!ExactView(Members)
<1> SUFFICES ASSUME IInv, LocalViewExact PROVE View = Local!ExactView(Members)
  OBVIOUS
<1>1. Members = {p \in Peers : Open(p)}
  BY MembersAreOpen DEF Open
<1>2. ASSUME NEW p \in Peers
      PROVE  {q \in told[p] : Home[q] = Home[p]} =
               IF p \in Members THEN Local!Companions(p, Members) ELSE {}
  <2>1. told[p] \subseteq Peers
    BY DEF IInv, TypeOK
  <2>2. \A q \in Peers : Home[p] = Home[q] =>
          (q \in told[p] <=> Open(p) /\ Open(q) /\ q # p
                               /\ ChannelOf[p] = ChannelOf[q])
    BY DEF LocalViewExact, SameChannel
  <2>3. Local!Companions(p, Members) =
          {q \in Members : q # p /\ <<Home[q], ChannelOf[q]>> =
                                      <<Home[p], ChannelOf[p]>>}
    BY <1>1 DEF Local!Companions
  <2> QED
    BY <1>1, <2>1, <2>2, <2>3
<1> QED
  BY <1>2 DEF View, Local!ExactView

\* Initially nobody is there.
LEMMA LocalInit ==
  Init /\ IInv /\ LocalViewExact => Local!Init
<1> SUFFICES ASSUME Init, IInv, LocalViewExact PROVE Local!Init
  OBVIOUS
<1>1. Members = {}
  BY ConstantsAssumption DEF Init, Members
<1>2. Gone = {}
  BY DEF Init, Gone
<1> QED
  BY <1>1, <1>2, ViewIsExact DEF Local!Init, Members, Gone, View

\* Joining, leaving and crashing are its steps; nothing else shows.
LEMMA LocalStep ==
  ASSUME IInv, LocalViewExact, [Next]_vars, IInv', LocalViewExact'
  PROVE  [Local!Next]_(Local!vars)
<1> USE ConstantsAssumption
<1>1. Members = {p \in Peers : client[p] = "open"}
  BY MembersAreOpen
<1>2. Members' = {p \in Peers : client'[p] = "open"}
  <2>1. (Members = {p \in Peers : client[p] = "open"})'
    BY MembersAreOpen, PTL
  <2> QED
    BY <2>1
<1>3. Gone' = {p \in Peers : client'[p] \in {"closed", "lost"}}
  BY DEF Gone
<1>4. View = Local!ExactView(Members)
  BY ViewIsExact
<1>5. View' = Local!ExactView(Members')
  <2>1. (View = Local!ExactView(Members))'
    BY ViewIsExact, PTL
  <2> QED
    BY <2>1 DEF Local!ExactView, Local!Companions
<1>6. CASE UNCHANGED client
  <2>1. Members' = Members /\ Gone' = Gone
    BY <1>1, <1>2, <1>3, <1>6 DEF Gone
  <2>2. View' = View
    BY <1>4, <1>5, <2>1
  <2> QED
    BY <2>1, <2>2 DEF Local!vars, Members, Gone, View
<1>7. ASSUME NEW p \in Peers, ClientJoin(p)
      PROVE  Local!Next
  <2>1. client[p] = "new" /\ client' = [client EXCEPT ![p] = "open"]
    BY <1>7 DEF ClientJoin
  <2>2. \A q \in Peers : client'[q] = IF q = p THEN "open" ELSE client[q]
    BY <2>1 DEF IInv, TypeOK
  <2>3. p \notin Members \cup Gone
    BY <1>1, <2>1 DEF Gone
  <2>4. Members' = Members \cup {p} /\ Gone' = Gone
    BY <1>1, <1>2, <1>3, <2>1, <2>2 DEF Gone
  <2>5. Local!Join(p)
    BY <1>5, <2>3, <2>4 DEF Local!Join, Members, Gone, View
  <2> QED
    BY <2>5 DEF Local!Next
<1>8. ASSUME NEW set \in SUBSET Members,
             Members' = Members \ set, Gone' = Gone \cup set
      PROVE  Local!Next
  <2>1. Local!Leave(set)
    BY <1>5, <1>8 DEF Local!Leave, Members, Gone, View
  <2> QED
    BY <2>1 DEF Local!Next, Members
<1>9. ASSUME NEW p \in Peers, ClientLeave(p)
      PROVE  Local!Next
  <2>1. client[p] = "open" /\ client' = [client EXCEPT ![p] = "closed"]
    BY <1>9 DEF ClientLeave
  <2>2. \A q \in Peers : client'[q] = IF q = p THEN "closed" ELSE client[q]
    BY <2>1 DEF IInv, TypeOK
  <2>3. {p} \in SUBSET Members /\ Members' = Members \ {p} /\ Gone' = Gone \cup {p}
    BY <1>1, <1>2, <1>3, <2>1, <2>2 DEF Gone
  <2> QED
    BY <1>8, <2>3
<1>10. ASSUME NEW x \in Proxies, Crash(x)
       PROVE  Local!Next
  <2> DEFINE set == {p \in Members : Home[p] = x}
  <2>1. \A p \in Peers : client'[p] =
          IF Home[p] = x /\ client[p] # "new" THEN "lost" ELSE client[p]
    BY <1>10 DEF Crash
  <2>2. Members' = Members \ set
    BY <1>1, <1>2, <2>1
  <2>3. Gone' = Gone \cup set
    BY <1>1, <1>3, <2>1 DEF Gone, IInv, TypeOK
  <2> QED
    BY <1>8, <2>2, <2>3
<1> QED
  BY <1>6, <1>7, <1>9, <1>10, NoticeKinds DEF Announces, Dismisses

\* What a client has been told of its own machine is exact, always.
THEOREM LocalViewExactAlways == Spec => []LocalViewExact
<1>1. Init => LocalViewExact
  BY DEF Init, LocalViewExact, Open
<1>2. IInv /\ LocalViewExact /\ [Next]_vars => LocalViewExact'
  BY ViewStep
<1> QED
  BY <1>1, <1>2, Invariant, PTL DEF Spec

\* The proxies implement the membership service that LocalMembership specifies:
\* the 'connection' and 'close' handlers of the local server keep every client
\* of one machine exactly informed of the others, whatever else happens.
THEOREM LocalMembershipImplemented == Spec => LocalMembership
<1>1. Init /\ IInv /\ LocalViewExact => Local!Init
  BY LocalInit
<1>2. /\ IInv /\ LocalViewExact /\ [Next]_vars
      /\ IInv' /\ LocalViewExact'
      => [Local!Next]_(Local!vars)
  BY LocalStep
<1> QED
  BY <1>1, <1>2, Invariant, LocalViewExactAlways, PTL
     DEF Spec, LocalMembership, Local!Spec
=============================================================================
