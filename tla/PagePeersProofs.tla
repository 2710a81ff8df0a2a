--------------------------- MODULE PagePeersProofs ---------------------------
(***************************************************************************)
(* Proofs about the lists of peers in the pages: the proxies with their    *)
(* pages do what the proxies do without them, and what a page lists agrees *)
(* with what its client has been told, for any number of machines, clients *)
(* and announcements.                                                      *)
(***************************************************************************)
EXTENDS PagePeers, LocalMembershipProofs, FiniteSetTheorems

PageTyped == page \in [Peers -> [Peers -> Nat]]

\* The entries of each proxy can be counted.
EntriesFinite == \A x \in Proxies : IsFiniteSet(remotePeers[x])

PageInv == PageTyped /\ EntriesFinite /\ PagesAgree

\* What the proxies do and know, before and after a step.
ProxiesStep ==
  /\ IInv /\ LocalViewExact
  /\ [Next]_vars
  /\ IInv' /\ LocalViewExact'

(***************************************************************************)
(* The proxies with their pages implement the proxies.                     *)
(***************************************************************************)

LEMMA PageNextIsNext ==
  ASSUME [PageNext]_<<vars, page>>
  PROVE  [Next]_vars
<1>1. ASSUME NEW p \in Peers, JoinPage(p) \/ LeavePage(p) PROVE Next
  BY <1>1 DEF JoinPage, LeavePage, Next, ClientStep
<1>2. ASSUME NEW x \in Proxies, NEW p \in Peers, NEW n \in 1..Announcements,
             DiscoverPage(x, p, n) \/ GoodbyePage(x, p, n)
      PROVE  Next
  BY <1>2 DEF DiscoverPage, GoodbyePage, Next, LoopStep
<1>3. ASSUME NEW s \in Sockets, OpenPage(s) \/ ClosePage(s) \/ ReceivePage(s)
      PROVE  Next
  BY <1>3 DEF OpenPage, ClosePage, ReceivePage, Next, LoopStep, Failure
<1>4. ASSUME NEW x \in Proxies, CrashPage(x) PROVE Next
  BY <1>4 DEF CrashPage, Next, Failure
<1>5. CASE Unnoticed
  BY <1>5 DEF Unnoticed, Next, LoopStep, Failure
<1> QED
  BY <1>1, <1>2, <1>3, <1>4, <1>5 DEF PageNext

\* Every step has a step of the proxies in it: what holds of them holds here.
LEMMA PagesAreProxies == PageSpec => Spec
<1>1. PageInit => Init
  BY DEF PageInit
<1>2. [PageNext]_<<vars, page>> => [Next]_vars
  BY PageNextIsNext
<1> QED
  BY <1>1, <1>2, PTL DEF PageSpec, Spec

(***************************************************************************)
(* The entries are finitely many.                                          *)
(***************************************************************************)

\* No step lists more than one more.
LEMMA FewEntries ==
  ASSUME ProxiesStep, NEW x \in Proxies
  PROVE  \/ remotePeers'[x] \subseteq remotePeers[x]
         \/ \E r : remotePeers'[x] = remotePeers[x] \cup {r}
<1>1. remotePeers \in [Proxies -> SUBSET RemotePeers]
  BY DEF ProxiesStep, IInv, TypeOK
<1>2. CASE UNCHANGED remotePeers
  BY <1>2
<1>3. ASSUME NEW y \in Proxies, NEW p, NEW socket, CreateRemotePeer(y, p, socket)
      PROVE  \/ remotePeers'[x] \subseteq remotePeers[x]
             \/ \E r : remotePeers'[x] = remotePeers[x] \cup {r}
  BY <1>1, <1>3 DEF CreateRemotePeer
<1>4. ASSUME NEW y \in Proxies, NEW p \in Peers, NEW n, Discover(y, p, n)
      PROVE  \/ UNCHANGED remotePeers
             \/ \E socket : CreateRemotePeer(y, p, socket)
  BY <1>4 DEF Discover, IgnoreAdvert, CacheAdvert, Dial, ReuseProxy, appVars
<1>5. ASSUME NEW y \in Proxies, NEW entries,
             remotePeers' = [remotePeers EXCEPT ![y] = WithoutIds(y, entries)]
      PROVE  remotePeers'[x] \subseteq remotePeers[x]
  BY <1>1, <1>5 DEF WithoutIds
<1>6. ASSUME NEW s \in Sockets, OpenSocket(s)
      PROVE  Owner(s) \in Proxies /\ CreateRemotePeer(Owner(s), s.peer, s)
  BY <1>6, SocketFacts DEF OpenSocket
<1>7. ASSUME NEW s \in Sockets, CloseSocket(s)
      PROVE  /\ Owner(s) \in Proxies
             /\ \E entries :
                  remotePeers' = [remotePeers EXCEPT
                                    ![Owner(s)] = WithoutIds(Owner(s), entries)]
  BY <1>7, SocketFacts DEF CloseSocket
<1>8. ASSUME NEW s \in Sockets, Receive(s)
      PROVE  \/ remotePeers'[x] \subseteq remotePeers[x]
             \/ \E r : remotePeers'[x] = remotePeers[x] \cup {r}
  <2>1. PICK m : ReceiveData(s, m) \/ ReceiveConnect(s, m) \/ ReceiveIgnored(s, m)
    BY <1>8 DEF Receive
  <2>2. CASE ReceiveConnect(s, m)
    BY <1>1, <2>2, SocketFacts DEF ReceiveConnect
  <2> QED
    BY <2>1, <2>2 DEF ReceiveData, ReceiveIgnored
<1>9. ASSUME NEW y \in Proxies, Crash(y)
      PROVE  remotePeers'[x] \subseteq remotePeers[x]
  BY <1>1, <1>9 DEF Crash
<1>10. CASE ClientStep \/ Timer
  <2>1. ASSUME NEW p \in Peers, ClientJoin(p) \/ ClientLeave(p)
        PROVE  UNCHANGED remotePeers
    BY <2>1 DEF ClientJoin, ClientLeave, appVars
  <2>2. ASSUME NEW p \in Peers, NEW d \in Data,
               BroadcastPost(p, d) \/ \E q \in Peers : DirectPost(p, q, d)
        PROVE  UNCHANGED remotePeers
    BY <2>2 DEF BroadcastPost, DirectPost, appVars
  <2>3. CASE Timer
    BY <2>3 DEF Timer, SendAdvert, SendGoodbye, appVars
  <2> QED
    BY <1>10, <2>1, <2>2, <2>3 DEF ClientStep
<1>11. CASE LoopStep
  <2>1. ASSUME NEW y \in Proxies, NEW p \in Peers, NEW n \in 1..Announcements,
               Goodbye(y, p, n)
        PROVE  remotePeers'[x] \subseteq remotePeers[x]
    BY <1>5, <2>1 DEF Goodbye
  <2>2. ASSUME NEW s \in Sockets, Accept(s) PROVE UNCHANGED remotePeers
    BY <2>2 DEF Accept
  <2>3. ASSUME NEW s \in Sockets, OpenSocket(s)
        PROVE  \/ remotePeers'[x] \subseteq remotePeers[x]
               \/ \E r : remotePeers'[x] = remotePeers[x] \cup {r}
    BY <1>3, <1>6, <2>3
  <2>4. ASSUME NEW y \in Proxies, NEW p \in Peers, NEW n \in 1..Announcements,
               Discover(y, p, n)
        PROVE  \/ remotePeers'[x] \subseteq remotePeers[x]
               \/ \E r : remotePeers'[x] = remotePeers[x] \cup {r}
    BY <1>3, <1>4, <2>4
  <2> QED
    BY <1>8, <1>11, <2>1, <2>2, <2>3, <2>4 DEF LoopStep
<1>12. CASE Failure
  <2>1. ASSUME NEW s \in Sockets, DialFails(s) PROVE UNCHANGED remotePeers
    BY <2>1 DEF DialFails, appVars
  <2>2. ASSUME NEW s \in Sockets, CloseSocket(s)
        PROVE  remotePeers'[x] \subseteq remotePeers[x]
    BY <1>5, <1>7, <2>2
  <2> QED
    BY <1>9, <1>12, <2>1, <2>2 DEF Failure
<1>13. CASE UNCHANGED vars
  BY <1>13 DEF vars, appVars
<1> QED
  BY <1>10, <1>11, <1>12, <1>13 DEF ProxiesStep, Next

LEMMA EntriesStayFinite ==
  ASSUME ProxiesStep, EntriesFinite
  PROVE  EntriesFinite'
<1> SUFFICES ASSUME NEW x \in Proxies PROVE IsFiniteSet(remotePeers'[x])
  BY DEF EntriesFinite
<1>1. IsFiniteSet(remotePeers[x])
  BY DEF EntriesFinite
<1>2. CASE remotePeers'[x] \subseteq remotePeers[x]
  BY <1>1, <1>2, FS_Subset
<1>3. ASSUME NEW r, remotePeers'[x] = remotePeers[x] \cup {r}
      PROVE  IsFiniteSet(remotePeers'[x])
  BY <1>1, <1>3, FS_AddElement
<1> QED
  BY <1>2, <1>3, FewEntries

\* How often a peer is among them.
LEMMA EntriesCounted ==
  ASSUME EntriesFinite, NEW x \in Proxies, NEW set \in SUBSET remotePeers[x], NEW q \in Peers
  PROVE  /\ Entries(set)[q] \in Nat
         /\ Entries(set)[q] > 0 <=> q \in Ids(set)
<1> DEFINE named == {r \in set : r.id = q}
<1>1. IsFiniteSet(named) /\ Cardinality(named) \in Nat
  <2>1. IsFiniteSet(remotePeers[x]) /\ named \in SUBSET remotePeers[x]
    BY DEF EntriesFinite
  <2> HIDE DEF named
  <2>2. IsFiniteSet(named)
    BY <2>1, FS_Subset
  <2> QED
    BY <2>2, FS_CardinalityType
<1>2. Entries(set)[q] = Cardinality(named)
  BY DEF Entries
<1>3. named = {} <=> q \notin Ids(set)
  BY DEF Ids
<1> HIDE DEF named
<1>4. Cardinality(named) = 0 <=> named = {}
  BY <1>1, FS_EmptySet
<1> QED
  BY <1>1, <1>2, <1>3, <1>4

(***************************************************************************)
(* Steps of the pages.                                                     *)
(***************************************************************************)

\* The right number of objects for peer q of the same machine.
Agrees(p, q) ==
  /\ q \in told[p] => page[p][q] > 0
  /\ Home[p] = Home[q] => page[p][q] = IF q \in told[p] THEN 1 ELSE 0

LEMMA AgreeingPairs == PagesAgree <=> \A p, q \in Peers : Agrees(p, q)
  BY DEF PagesAgree, Agrees

\* What clients know of their own machine changes only with its clients.
LEMMA SameLocally ==
  ASSUME ProxiesStep, client' = client, NEW p \in Peers, NEW q \in Peers,
         Home[p] = Home[q]
  PROVE  q \in told'[p] <=> q \in told[p]
  BY DEF ProxiesStep, LocalViewExact, Open, SameChannel

\* Steps that no page notices, though its client may be told that peers of
\* other machines have gone.
LEMMA NothingSeen ==
  ASSUME ProxiesStep, PageTyped, PagesAgree, page' = page, client' = client,
         \A p \in Peers : told'[p] \subseteq told[p]
  PROVE  PageTyped' /\ PagesAgree'
<1>1. ASSUME NEW p \in Peers, NEW q \in Peers PROVE Agrees(p, q)'
  BY <1>1, AgreeingPairs, SameLocally DEF Agrees
<1>2. (PagesAgree <=> \A p, q \in Peers : Agrees(p, q))'
  BY AgreeingPairs, PTL
<1> QED
  BY <1>1, <1>2 DEF PageTyped

\* A peer of another machine is announced to some clients.
LEMMA AnnouncedToPages ==
  ASSUME ProxiesStep, PageTyped, PagesAgree, client' = client,
         NEW receivers \in SUBSET Peers, NEW id \in Peers,
         \A p \in receivers : Home[p] # Home[id],
         told' = Notified(receivers, {id}),
         page' = Connected(receivers, Once(id))
  PROVE  PageTyped' /\ PagesAgree'
<1>1. ASSUME NEW p \in Peers, NEW q \in Peers
      PROVE  /\ page[p][q] \in Nat
             /\ page'[p][q] =
                  IF p \in receivers /\ q = id THEN page[p][q] + 1 ELSE page[p][q]
  BY <1>1 DEF PageTyped, Connected, Once
<1>2. PageTyped'
  BY <1>1 DEF PageTyped, Connected
<1>3. \A p \in Peers :
        told'[p] = IF p \in receivers THEN told[p] \cup {id} ELSE told[p]
  BY DEF Notified
<1>4. ASSUME NEW p \in Peers, NEW q \in Peers PROVE Agrees(p, q)'
  <2>1. q \in told[p] => page[p][q] > 0
    BY AgreeingPairs DEF Agrees
  <2>2. q \in told'[p] => page'[p][q] > 0
    <3>1. /\ page[p][q] \in Nat
          /\ page'[p][q] =
               IF p \in receivers /\ q = id THEN page[p][q] + 1 ELSE page[p][q]
      BY <1>1
    <3>2. q \in told'[p] => q \in told[p] \/ (p \in receivers /\ q = id)
      BY <1>3
    <3> QED
      BY <2>1, <3>1, <3>2
  <2>3. Home[p] = Home[q] => page'[p][q] = page[p][q]
    BY <1>1
  <2>4. Home[p] = Home[q] => (q \in told'[p] <=> q \in told[p])
    BY SameLocally
  <2>5. Agrees(p, q)
    BY AgreeingPairs
  <2> QED
    BY <2>2, <2>3, <2>4, <2>5 DEF Agrees
<1>5. (PagesAgree <=> \A p, q \in Peers : Agrees(p, q))'
  BY AgreeingPairs, PTL
<1> QED
  BY <1>2, <1>4, <1>5

\* Peers of other machines are dismissed; whom a client still counts as
\* connected, its page goes on listing.
LEMMA DismissedFromPages ==
  ASSUME ProxiesStep, PageTyped, PagesAgree, client' = client, PageTyped',
         \A p, q \in Peers :
           /\ q \in told'[p] => q \in told[p] /\ page'[p][q] = page[p][q]
           /\ Home[p] = Home[q] => page'[p][q] = page[p][q]
  PROVE  PagesAgree'
<1>1. ASSUME NEW p \in Peers, NEW q \in Peers PROVE Agrees(p, q)'
  <2>1. Agrees(p, q)
    BY AgreeingPairs
  <2>2. Home[p] = Home[q] => (q \in told'[p] <=> q \in told[p])
    BY SameLocally
  <2> QED
    BY <2>1, <2>2 DEF Agrees
<1>2. (PagesAgree <=> \A p, q \in Peers : Agrees(p, q))'
  BY AgreeingPairs, PTL
<1> QED
  BY <1>1, <1>2

\* What a disconnect does to the lists.
LEMMA DisconnectedFacts ==
  ASSUME PageTyped, NEW receivers, NEW count, NEW p \in Peers, NEW q \in Peers,
         p \in receivers => count[q] \in Nat
  PROVE  /\ Disconnected(receivers, count)[p][q] \in Nat
         /\ p \notin receivers \/ count[q] = 0 =>
              Disconnected(receivers, count)[p][q] = page[p][q]
         /\ page[p][q] = 1 /\ p \in receivers /\ count[q] = 1 =>
              Disconnected(receivers, count)[p][q] = 0
<1>1. page[p][q] \in Nat
  BY DEF PageTyped
<1>2. Disconnected(receivers, count)[p][q] =
        IF p \in receivers
        THEN IF page[p][q] > count[q] THEN page[p][q] - count[q] ELSE 0
        ELSE page[p][q]
  BY DEF Disconnected
<1> QED
  BY <1>1, <1>2

\* The local clients of x.
LEMMA LocalsAre ==
  ASSUME IInv, NEW x \in Proxies
  PROVE  /\ \A p \in localPeers[x] : p \in Peers /\ Home[p] = x /\ Open(p)
         /\ \A c : \A p \in LocalsIn(x, c) :
              p \in Peers /\ Home[p] = x /\ Open(p) /\ ChannelOf[p] = c
  BY DEF IInv, LocalsAreOpen, LocalsIn

LEMMA DiscoverAtPages ==
  ASSUME ProxiesStep, PageTyped, PagesAgree,
         NEW x \in Proxies, NEW p \in Peers, NEW n \in 1..Announcements,
         DiscoverPage(x, p, n)
  PROVE  PageTyped' /\ PagesAgree'
<1> DEFINE locals == LocalsIn(x, ChannelOf[p])
<1>1. IInv /\ remotePeers \in [Proxies -> SUBSET RemotePeers]
  BY DEF ProxiesStep, IInv, TypeOK
<1>2. CASE remotePeers' = remotePeers
  <2>1. ~\E s : ReuseProxy(x, p) /\ CreateRemotePeer(x, p, s)
    <3>1. ASSUME NEW s, WantsPeer(x, p), CreateRemotePeer(x, p, s)
          PROVE  FALSE
      <4> DEFINE r == [id |-> p, channel |-> ChannelOf[p], socket |-> s]
      <4>1. r.id = p
        OBVIOUS
      <4>2. remotePeers'[x] = remotePeers[x] \cup {r}
        BY <1>1, <3>1 DEF CreateRemotePeer
      <4> HIDE DEF r
      <4>3. r \in remotePeers[x]
        BY <1>2, <4>2
      <4> QED
        BY <3>1, <4>1, <4>3 DEF WantsPeer, RemotesNamed
    <3> QED
      BY <3>1 DEF ReuseProxy
  <2>2. client' = client /\ told' = told
    BY <2>1 DEF DiscoverPage, Discover, IgnoreAdvert, CacheAdvert, Dial, ReuseProxy
  <2>3. page' = page
    BY <1>2 DEF DiscoverPage
  <2> QED
    BY <2>2, <2>3, NothingSeen
<1>3. CASE remotePeers' # remotePeers
  <2>1. ReuseProxy(x, p)
    BY <1>3 DEF DiscoverPage, Discover, IgnoreAdvert, CacheAdvert, Dial, appVars
  <2>2. client' = client /\ told' = Notified(locals, {p}) /\ Home[p] # x
    BY <2>1 DEF ReuseProxy, CreateRemotePeer, WantsPeer
  <2>3. page' = Connected(locals, Once(p))
    BY <1>3 DEF DiscoverPage
  <2>4. locals \in SUBSET Peers /\ \A a \in locals : Home[a] # Home[p]
    BY <1>1, <2>2, LocalsAre
  <2> HIDE DEF locals
  <2> QED
    BY <2>2, <2>3, <2>4, AnnouncedToPages
<1> QED
  BY <1>2, <1>3

LEMMA OpenAtPages ==
  ASSUME ProxiesStep, PageTyped, PagesAgree, NEW s \in Sockets, OpenPage(s)
  PROVE  PageTyped' /\ PagesAgree'
<1> DEFINE x == Owner(s)
           locals == LocalsIn(x, ChannelOf[s.peer])
<1>1. /\ x \in Proxies /\ s.peer \in Peers /\ s.side = "client" /\ x = s.client
      /\ status[s] = "connecting"
  BY SocketFacts DEF OpenPage, OpenSocket
<1>2. Home[s.peer] # x /\ IInv
  BY <1>1 DEF ProxiesStep, IInv, DialsWanted
<1>3. client' = client /\ told' = Notified(locals, {s.peer})
  BY DEF OpenPage, OpenSocket, CreateRemotePeer
<1>4. page' = Connected(locals, Once(s.peer))
  BY DEF OpenPage
<1>5. locals \in SUBSET Peers /\ \A a \in locals : Home[a] # Home[s.peer]
  BY <1>1, <1>2, LocalsAre
<1> HIDE DEF locals
<1> QED
  BY <1>1, <1>3, <1>4, <1>5, AnnouncedToPages

LEMMA GoodbyeAtPages ==
  ASSUME ProxiesStep, PageTyped, PagesAgree,
         NEW x \in Proxies, NEW p \in Peers, NEW n \in 1..Announcements,
         GoodbyePage(x, p, n)
  PROVE  PageTyped' /\ PagesAgree'
<1> DEFINE locals == LocalsIn(x, ChannelOf[p])
           gone == IF ChannelOf[p] \in channels[x] THEN RemotesNamed(x, p) ELSE {}
<1>1. IInv /\ remotePeers \in [Proxies -> SUBSET RemotePeers]
  BY DEF ProxiesStep, IInv, TypeOK
<1>2. /\ client' = client /\ told' = Dismissed(x, gone)
      /\ remotePeers' = [remotePeers EXCEPT ![x] = WithoutIds(x, gone)]
  BY DEF GoodbyePage, Goodbye
<1>3. gone \subseteq remotePeers[x] /\ \A r \in gone : r.id = p
  BY DEF RemotesNamed
<1> HIDE DEF gone
<1>4. \A a \in Peers : told'[a] =
        IF a \in localPeers[x] THEN told[a] \ Ids({r \in gone : r.channel = ChannelOf[a]})
        ELSE told[a]
  BY <1>2 DEF Dismissed
<1>5. CASE remotePeers' = remotePeers
  <2>1. page' = page
    BY <1>5 DEF GoodbyePage
  <2>2. \A a \in Peers : told'[a] \subseteq told[a]
    BY <1>4
  <2> QED
    BY <1>2, <2>1, <2>2, NothingSeen
<1>6. CASE remotePeers' # remotePeers
  <2>1. page' = Disconnected(locals, Once(p))
    BY <1>6 DEF GoodbyePage
  <2>2. gone # {}
    BY <1>1, <1>2, <1>6 DEF WithoutIds, Ids
  <2>3. PICK r \in gone : r \in remotePeers[x] /\ r.id = p
    BY <1>3, <2>2
  <2>4. r.channel = ChannelOf[p] /\ Home[p] # x
    BY <1>1, <2>3, EntryFacts
  <2>5. ASSUME NEW a \in locals PROVE p \notin told'[a]
    <3>1. a \in Peers /\ a \in localPeers[x] /\ ChannelOf[a] = ChannelOf[p]
      BY <1>1, LocalsAre DEF LocalsIn
    <3>2. p \in Ids({e \in gone : e.channel = ChannelOf[a]})
      BY <2>3, <2>4, <3>1 DEF Ids
    <3> QED
      BY <1>4, <3>1, <3>2
  <2>6. \A a \in locals : Home[a] # Home[p]
    BY <1>1, <2>4, LocalsAre
  <2>7. \A q \in Peers : Once(p)[q] = IF q = p THEN 1 ELSE 0
    BY DEF Once
  <2> HIDE DEF locals
  <2>8. ASSUME NEW a \in Peers, NEW q \in Peers
        PROVE  /\ page'[a][q] \in Nat
               /\ a \notin locals \/ q # p => page'[a][q] = page[a][q]
    BY <2>1, <2>7, DisconnectedFacts
  <2>9. PageTyped'
    BY <2>1, <2>8 DEF PageTyped, Disconnected
  <2>10. ASSUME NEW a \in Peers, NEW q \in Peers
         PROVE  /\ q \in told'[a] => q \in told[a] /\ page'[a][q] = page[a][q]
                /\ Home[a] = Home[q] => page'[a][q] = page[a][q]
    BY <1>4, <2>5, <2>6, <2>8
  <2> QED
    BY <1>2, <2>9, <2>10, DismissedFromPages
<1> QED
  BY <1>5, <1>6

LEMMA CloseAtPages ==
  ASSUME ProxiesStep, PageInv, NEW s \in Sockets, ClosePage(s)
  PROVE  PageTyped' /\ PagesAgree'
<1> DEFINE x == Owner(s)
           remotes == {r \in remotePeers[x] : Ip(r.socket) = Ip(s)}
           lost(a) == {r \in RemotesIn(x, ChannelOf[a]) : Ip(r.socket) = Ip(s)}
           count(a) == Entries(lost(a))
<1>1. IInv /\ x \in Proxies /\ PageTyped /\ EntriesFinite /\ PagesAgree
  BY SocketFacts DEF ProxiesStep, PageInv
<1>2. client' = client /\ told' = Dismissed(x, remotes)
  BY DEF ClosePage, CloseSocket
<1>3. page' = [a \in Peers |-> Disconnected(LocalsIn(x, ChannelOf[a]), count(a))[a]]
  BY DEF ClosePage
<1>4. ASSUME NEW a \in Peers, NEW q \in Peers
      PROVE  /\ count(a)[q] \in Nat
             /\ count(a)[q] > 0 <=> q \in Ids(lost(a))
  <2> HIDE DEF x
  <2>1. lost(a) \in SUBSET remotePeers[x]
    BY DEF RemotesIn
  <2> HIDE DEF lost
  <2> QED
    BY <1>1, <2>1, EntriesCounted
<1>5. ASSUME NEW a \in Peers
      PROVE  told'[a] = IF a \in localPeers[x] THEN told[a] \ Ids(lost(a)) ELSE told[a]
  <2>1. lost(a) = {r \in remotes : r.channel = ChannelOf[a]}
    BY DEF RemotesIn
  <2> QED
    BY <1>2, <2>1 DEF Dismissed
<1>6. ASSUME NEW a \in Peers, NEW q \in Ids(lost(a)) PROVE Home[q] # x
  <2>1. PICK r \in lost(a) : r.id = q
    BY DEF Ids
  <2>2. r \in remotePeers[x]
    BY <2>1 DEF RemotesIn
  <2> QED
    BY <1>1, <2>1, <2>2, EntryFacts
<1>7. \A a \in Peers : a \in LocalsIn(x, ChannelOf[a]) <=> a \in localPeers[x]
  BY DEF LocalsIn
<1>8. \A a \in localPeers[x] : Home[a] = x
  BY <1>1, LocalsAre
<1> HIDE DEF x, remotes, lost, count
<1>9. ASSUME NEW a \in Peers, NEW q \in Peers
      PROVE  /\ page'[a][q] \in Nat
             /\ a \notin localPeers[x] \/ q \notin Ids(lost(a)) =>
                  page'[a][q] = page[a][q]
  <2> DEFINE receivers == LocalsIn(x, ChannelOf[a])
  <2>1. page'[a][q] = Disconnected(receivers, count(a))[a][q]
    BY <1>3
  <2>2. a \notin localPeers[x] \/ q \notin Ids(lost(a)) =>
          a \notin receivers \/ count(a)[q] = 0
    BY <1>4, <1>7
  <2> HIDE DEF receivers
  <2> QED
    BY <1>1, <1>4, <2>1, <2>2, DisconnectedFacts
<1>10. PageTyped'
  <2>1. ASSUME NEW a \in Peers
        PROVE  Disconnected(LocalsIn(x, ChannelOf[a]), count(a))[a]
                 = [q \in Peers |-> page'[a][q]]
    BY <1>3 DEF Disconnected
  <2>2. page' = [a \in Peers |-> [q \in Peers |-> page'[a][q]]]
    BY <1>3, <2>1
  <2> QED
    BY <1>9, <2>2 DEF PageTyped
<1>11. ASSUME NEW a \in Peers, NEW q \in Peers
       PROVE  /\ q \in told'[a] => q \in told[a] /\ page'[a][q] = page[a][q]
              /\ Home[a] = Home[q] => page'[a][q] = page[a][q]
  BY <1>5, <1>6, <1>8, <1>9
<1> QED
  BY <1>1, <1>2, <1>10, <1>11, DismissedFromPages

\* Notices from other proxies.
LEMMA ReceiveAtPages ==
  ASSUME ProxiesStep, PageTyped, PagesAgree, NEW s \in Sockets, ReceivePage(s)
  PROVE  PageTyped' /\ PagesAgree'
<1>1. client' = client /\ \A p \in Peers : told[p] \subseteq told'[p]
  <2>1. PICK m : ReceiveData(s, m) \/ ReceiveConnect(s, m) \/ ReceiveIgnored(s, m)
    BY DEF ReceivePage, Receive
  <2>2. CASE ReceiveConnect(s, m)
    BY <2>2 DEF ReceiveConnect, Notified
  <2> QED
    BY <2>1, <2>2 DEF ReceiveData, ReceiveIgnored, clientVars
<1>2. ASSUME NEW p \in Peers, NEW q \in Peers
      PROVE  /\ page[p][q] \in Nat
             /\ page'[p][q] = page[p][q] + IF q \in told'[p] \ told[p] THEN 1 ELSE 0
  BY DEF PageTyped, ReceivePage
<1>3. PageTyped'
  BY <1>2 DEF PageTyped, ReceivePage
<1>4. ASSUME NEW p \in Peers, NEW q \in Peers PROVE Agrees(p, q)'
  <2>1. /\ q \in told[p] => page[p][q] > 0
        /\ Home[p] = Home[q] => page[p][q] = IF q \in told[p] THEN 1 ELSE 0
    BY AgreeingPairs DEF Agrees
  <2>2. /\ page[p][q] \in Nat
        /\ page'[p][q] = page[p][q] + IF q \in told'[p] \ told[p] THEN 1 ELSE 0
    BY <1>2
  <2>3. Home[p] = Home[q] => (q \in told'[p] <=> q \in told[p])
    BY <1>1, SameLocally
  <2>4. q \in told[p] => q \in told'[p]
    BY <1>1
  <2>5. q \in told'[p] => page'[p][q] > 0
    BY <2>1, <2>2
  <2>6. Home[p] = Home[q] => page'[p][q] = page[p][q]
    BY <2>2, <2>3
  <2> QED
    BY <2>1, <2>3, <2>5, <2>6 DEF Agrees
<1>5. (PagesAgree <=> \A p, q \in Peers : Agrees(p, q))'
  BY AgreeingPairs, PTL
<1> QED
  BY <1>3, <1>4, <1>5

\* A client joins: its page lists its companions and the remote entries.
LEMMA JoinAtPages ==
  ASSUME ProxiesStep, PageInv, NEW o \in Peers, JoinPage(o)
  PROVE  PageTyped' /\ PagesAgree'
<1> DEFINE x == Home[o]
           c == ChannelOf[o]
           receivers == LocalsIn(x, c)
           remotes == RemotesIn(x, c)
           first == [q \in Peers |-> (IF q \in receivers THEN 1 ELSE 0) + Entries(remotes)[q]]
<1>1. IInv /\ x \in Proxies /\ PageTyped /\ EntriesFinite /\ PagesAgree
  BY ConstantsAssumption DEF ProxiesStep, PageInv
<1>2. /\ client[o] = "new"
      /\ told' = [Notified(receivers, {o}) EXCEPT ![o] = receivers \cup Ids(remotes)]
  BY DEF JoinPage, ClientJoin
<1>3. page' = [Connected(receivers, Once(o)) EXCEPT ![o] = first]
  BY DEF JoinPage
<1>4. /\ \A a \in receivers : a \in Peers /\ Home[a] = x /\ Open(a) /\ a # o
      /\ o \notin receivers
  BY <1>1, <1>2, LocalsAre DEF Open
<1>5. ASSUME NEW q \in Peers
      PROVE  /\ Entries(remotes)[q] \in Nat
             /\ Entries(remotes)[q] > 0 <=> q \in Ids(remotes)
  <2>1. remotes \in SUBSET remotePeers[x]
    BY DEF RemotesIn
  <2> HIDE DEF remotes, x
  <2> QED
    BY <1>1, <2>1, EntriesCounted
<1>6. ASSUME NEW q \in Ids(remotes) PROVE Home[q] # x
  <2>1. PICK r \in remotes : r.id = q
    BY DEF Ids
  <2>2. r \in remotePeers[x]
    BY <2>1 DEF RemotesIn
  <2> QED
    BY <1>1, <2>1, <2>2, EntryFacts
<1> HIDE DEF receivers, remotes
<1>7. ASSUME NEW q \in Peers
      PROVE  /\ page'[o][q] = (IF q \in receivers THEN 1 ELSE 0) + Entries(remotes)[q]
             /\ page'[o][q] \in Nat
             /\ q \in told'[o] <=> q \in receivers \/ q \in Ids(remotes)
  <2>1. page'[o][q] = first[q]
    BY <1>3 DEF Connected
  <2>2. told'[o] = receivers \cup Ids(remotes)
    BY <1>2 DEF Notified
  <2> QED
    BY <1>5, <2>1, <2>2
<1>8. ASSUME NEW a \in Peers, a # o, NEW q \in Peers
      PROVE  /\ page[a][q] \in Nat
             /\ page'[a][q] =
                  IF a \in receivers /\ q = o THEN page[a][q] + 1 ELSE page[a][q]
             /\ q \in told'[a] <=> q \in told[a] \/ (a \in receivers /\ q = o)
  <2>1. page[a][q] \in Nat
    BY <1>1 DEF PageTyped
  <2>2. page'[a][q] = page[a][q] + IF a \in receivers THEN Once(o)[q] ELSE 0
    BY <1>3, <1>8 DEF Connected
  <2>3. Once(o)[q] = IF q = o THEN 1 ELSE 0
    BY DEF Once
  <2>4. told'[a] = IF a \in receivers THEN told[a] \cup {o} ELSE told[a]
    BY <1>2, <1>8 DEF Notified
  <2> QED
    BY <2>1, <2>2, <2>3, <2>4
<1>9. PageTyped'
  <2>1. \A a \in Peers : page'[a] = [q \in Peers |-> page'[a][q]]
    BY <1>3 DEF Connected
  <2>2. page' = [a \in Peers |-> page'[a]]
    BY <1>3 DEF Connected
  <2>3. \A a, q \in Peers : page'[a][q] \in Nat
    BY <1>7, <1>8
  <2> QED
    BY <2>1, <2>2, <2>3 DEF PageTyped
<1>10. ASSUME NEW q \in Peers PROVE Agrees(o, q)'
  <2>1. q \in receivers => ~(q \in Ids(remotes))
    BY <1>4, <1>6
  <2>2. q \in Ids(remotes) => Home[q] # Home[o]
    BY <1>6
  <2>3. /\ Entries(remotes)[q] \in Nat
        /\ Entries(remotes)[q] > 0 <=> q \in Ids(remotes)
    BY <1>5
  <2>4. /\ page'[o][q] = (IF q \in receivers THEN 1 ELSE 0) + Entries(remotes)[q]
        /\ q \in told'[o] <=> q \in receivers \/ q \in Ids(remotes)
    BY <1>7
  <2> QED
    BY <2>1, <2>2, <2>3, <2>4 DEF Agrees
<1>11. ASSUME NEW a \in Peers, a # o, NEW q \in Peers PROVE Agrees(a, q)'
  <2>1. /\ q \in told[a] => page[a][q] > 0
        /\ Home[a] = Home[q] => page[a][q] = IF q \in told[a] THEN 1 ELSE 0
    BY <1>1, AgreeingPairs DEF Agrees
  <2>2. /\ page[a][q] \in Nat
        /\ page'[a][q] =
             IF a \in receivers /\ q = o THEN page[a][q] + 1 ELSE page[a][q]
        /\ q \in told'[a] <=> q \in told[a] \/ (a \in receivers /\ q = o)
    BY <1>8, <1>11
  <2>3. q = o /\ Home[a] = Home[q] => q \notin told[a]
    BY <1>2 DEF ProxiesStep, LocalViewExact, Open
  <2> QED
    BY <2>1, <2>2, <2>3 DEF Agrees
<1>12. (PagesAgree <=> \A p, q \in Peers : Agrees(p, q))'
  BY AgreeingPairs, PTL
<1> QED
  BY <1>9, <1>10, <1>11, <1>12

\* A client leaves: its own page is cleared, and its companions unlist it.
LEMMA LeaveAtPages ==
  ASSUME ProxiesStep, PageTyped, PagesAgree, NEW o \in Peers, LeavePage(o)
  PROVE  PageTyped' /\ PagesAgree'
<1> DEFINE x == Home[o]
           c == ChannelOf[o]
           receivers == LocalsIn(x, c)
<1>1. IInv /\ x \in Proxies
  BY ConstantsAssumption DEF ProxiesStep
<1>2. \A a \in Peers :
        told'[a] = IF a = o THEN {} ELSE IF a \in receivers THEN told[a] \ {o} ELSE told[a]
  BY DEF LeavePage, ClientLeave
<1>3. page' = [Disconnected(receivers, Once(o)) EXCEPT ![o] = [q \in Peers |-> 0]]
  BY DEF LeavePage, Cleared
<1>4. client[o] = "open"
  BY DEF LeavePage, ClientLeave
<1>5. \A a \in Peers : a \in receivers <=> Open(a) /\ Home[a] = x /\ ChannelOf[a] = c
  BY <1>1 DEF IInv, LocalsAreOpen, LocalsIn
<1> HIDE DEF receivers
<1>6. \A q \in Peers : page'[o][q] = 0
  BY <1>3 DEF Disconnected
<1>7. ASSUME NEW a \in Peers, a # o, NEW q \in Peers
      PROVE  /\ page'[a][q] \in Nat
             /\ a \notin receivers \/ q # o => page'[a][q] = page[a][q]
             /\ page[a][q] = 1 /\ a \in receivers /\ q = o => page'[a][q] = 0
  <2>1. page'[a][q] = Disconnected(receivers, Once(o))[a][q]
    BY <1>3, <1>7 DEF Disconnected
  <2>2. Once(o)[q] = IF q = o THEN 1 ELSE 0
    BY DEF Once
  <2> QED
    BY <2>1, <2>2, DisconnectedFacts
<1>8. PageTyped'
  <2>1. \A a \in Peers : page'[a] = [q \in Peers |-> page'[a][q]]
    BY <1>3 DEF Disconnected
  <2>2. page' = [a \in Peers |-> page'[a]]
    BY <1>3 DEF Disconnected
  <2>3. \A a, q \in Peers : page'[a][q] \in Nat
    BY <1>6, <1>7
  <2> QED
    BY <2>1, <2>2, <2>3 DEF PageTyped
<1>9. ASSUME NEW q \in Peers PROVE Agrees(o, q)'
  BY <1>2, <1>6 DEF Agrees
<1>10. ASSUME NEW a \in Peers, a # o, NEW q \in Peers PROVE Agrees(a, q)'
  <2>1. /\ q \in told[a] => page[a][q] > 0
        /\ Home[a] = Home[q] => page[a][q] = IF q \in told[a] THEN 1 ELSE 0
    BY AgreeingPairs DEF Agrees
  <2>2. q \in told'[a] <=> q \in told[a] /\ ~(a \in receivers /\ q = o)
    BY <1>2, <1>10
  <2>3. CASE a \notin receivers \/ q # o
    BY <1>7, <1>10, <2>1, <2>2, <2>3 DEF Agrees
  <2>4. CASE a \in receivers /\ q = o
    <3>1. q \in told[a] /\ Home[a] = Home[q]
      BY <1>4, <1>5, <1>10, <2>4 DEF ProxiesStep, LocalViewExact, Open, SameChannel
    <3>2. page'[a][q] = 0
      BY <1>7, <1>10, <2>1, <2>4, <3>1
    <3> QED
      BY <2>2, <2>4, <3>2 DEF Agrees
  <2> QED
    BY <2>3, <2>4
<1>11. (PagesAgree <=> \A p, q \in Peers : Agrees(p, q))'
  BY AgreeingPairs, PTL
<1> QED
  BY <1>8, <1>9, <1>10, <1>11

\* A proxy crashes: the pages of its machine are cleared.
LEMMA CrashAtPages ==
  ASSUME ProxiesStep, PageTyped, PagesAgree, NEW x \in Proxies, CrashPage(x)
  PROVE  PageTyped' /\ PagesAgree'
<1>1. ASSUME NEW p \in Peers, NEW q \in Peers
      PROVE  /\ page'[p][q] = IF Home[p] = x THEN 0 ELSE page[p][q]
             /\ q \in told'[p] <=> Home[p] # x /\ q \in told[p]
  BY DEF CrashPage, Crash
<1>2. PageTyped'
  BY DEF PageTyped, CrashPage
<1>3. ASSUME NEW p \in Peers, NEW q \in Peers PROVE Agrees(p, q)'
  <2>1. Agrees(p, q)
    BY AgreeingPairs
  <2> QED
    BY <1>1, <2>1 DEF Agrees
<1>4. (PagesAgree <=> \A p, q \in Peers : Agrees(p, q))'
  BY AgreeingPairs, PTL
<1> QED
  BY <1>2, <1>3, <1>4

LEMMA UnnoticedAtPages ==
  ASSUME ProxiesStep, PageTyped, PagesAgree,
         Unnoticed \/ UNCHANGED <<vars, page>>
  PROVE  PageTyped' /\ PagesAgree'
<1>1. page' = page /\ client' = client /\ told' = told
  BY DEF Unnoticed, Timer, SendAdvert, SendGoodbye, Accept, DialFails, vars, clientVars
<1> QED
  BY <1>1, NothingSeen

(***************************************************************************)
(* The theorems.                                                           *)
(***************************************************************************)

LEMMA PageStep ==
  ASSUME ProxiesStep, PageInv, [PageNext]_<<vars, page>>
  PROVE  PageInv'
<1>1. PageTyped /\ EntriesFinite /\ PagesAgree /\ EntriesFinite'
  BY EntriesStayFinite DEF PageInv
<1>2. ASSUME NEW p \in Peers, JoinPage(p) \/ LeavePage(p)
      PROVE  PageTyped' /\ PagesAgree'
  BY <1>1, <1>2, JoinAtPages, LeaveAtPages
<1>3. ASSUME NEW x \in Proxies, NEW p \in Peers, NEW n \in 1..Announcements,
             DiscoverPage(x, p, n) \/ GoodbyePage(x, p, n)
      PROVE  PageTyped' /\ PagesAgree'
  BY <1>1, <1>3, DiscoverAtPages, GoodbyeAtPages
<1>4. ASSUME NEW s \in Sockets, OpenPage(s) \/ ClosePage(s) \/ ReceivePage(s)
      PROVE  PageTyped' /\ PagesAgree'
  BY <1>1, <1>4, OpenAtPages, CloseAtPages, ReceiveAtPages
<1>5. ASSUME NEW x \in Proxies, CrashPage(x)
      PROVE  PageTyped' /\ PagesAgree'
  BY <1>1, <1>5, CrashAtPages
<1>6. ASSUME Unnoticed \/ UNCHANGED <<vars, page>>
      PROVE  PageTyped' /\ PagesAgree'
  BY <1>1, <1>6, UnnoticedAtPages
<1> QED
  BY <1>1, <1>2, <1>3, <1>4, <1>5, <1>6 DEF PageNext, PageInv

\* A page has an object for every peer it has been told of, and for those of its
\* own machine exactly one.
THEOREM PagesAlwaysAgree == PageSpec => []PagesAgree
<1>1. PageInit => PageInv
  BY FS_EmptySet DEF PageInit, Init, PageInv, PageTyped, EntriesFinite, PagesAgree
<1>2. /\ PageInv /\ [PageNext]_<<vars, page>>
      /\ IInv /\ LocalViewExact /\ IInv' /\ LocalViewExact'
      => PageInv'
  BY PageNextIsNext, PageStep DEF ProxiesStep
<1>3. PageInv => PagesAgree
  BY DEF PageInv
<1> QED
  BY <1>1, <1>2, <1>3, PagesAreProxies, Invariant, LocalViewExactAlways, PTL
     DEF PageSpec
=============================================================================
