----------------------------- MODULE PagePeers -----------------------------
(***************************************************************************)
(* The proxies together with the lists that ui/shim.js keeps in the pages. *)
(* A page adds a peer object for every connect and takes one away for      *)
(* every disconnect, where told only knows the last notice of each peer.   *)
(*                                                                         *)
(* A page is taken to handle a notice at once: its list depends on the     *)
(* notices and their order alone.  Payloads, which do not touch it, are    *)
(* left out.                                                               *)
(***************************************************************************)
EXTENDS ProxyProperties

VARIABLE page   \* page[p][q]: objects for peer q in networkWebSocket.peers of p

Connected(receivers, count) ==
  [p \in Peers |-> [q \in Peers |->
     page[p][q] + IF p \in receivers THEN count[q] ELSE 0]]

\* Deviation: a disconnect clears the list, as webSocket.onclose does.
DisconnectedFromAll(receivers, count) ==
  [p \in Peers |-> IF p \in receivers THEN [q \in Peers |-> 0] ELSE page[p]]

\* A disconnect unlists the first object of that peer, if there is one.
Disconnected(receivers, count) ==
  [p \in Peers |-> [q \in Peers |->
     IF p \in receivers
     THEN IF page[p][q] > count[q] THEN page[p][q] - count[q] ELSE 0
     ELSE page[p][q]]]

Once(q) == [r \in Peers |-> IF r = q THEN 1 ELSE 0]

Entries(entries) == [q \in Peers |-> Cardinality({r \in entries : r.id = q})]

\* webSocket.onclose
Cleared(p, pages) == [pages EXCEPT ![p] = [q \in Peers |-> 0]]

JoinPage(p) ==
  LET x == Home[p]
      c == ChannelOf[p]
      locals == [q \in Peers |-> IF q \in LocalsIn(x, c) THEN 1 ELSE 0]
      remotes == Entries(RemotesIn(x, c))
  IN  /\ ClientJoin(p)
      /\ page' = [Connected(LocalsIn(x, c), Once(p))
                    EXCEPT ![p] = [q \in Peers |-> locals[q] + remotes[q]]]

LeavePage(p) ==
  /\ ClientLeave(p)
  /\ page' = Cleared(p, Disconnected(LocalsIn(Home[p], ChannelOf[p]), Once(p)))

\* createRemotePeer, if the handler gets that far.
DiscoverPage(x, p, n) ==
  /\ Discover(x, p, n)
  /\ page' = IF remotePeers' = remotePeers THEN page
             ELSE Connected(LocalsIn(x, ChannelOf[p]), Once(p))

OpenPage(s) ==
  /\ OpenSocket(s)
  /\ page' = Connected(LocalsIn(Owner(s), ChannelOf[s.peer]), Once(s.peer))

\* One disconnect, however many entries of that peer are removed.
GoodbyePage(x, p, n) ==
  /\ Goodbye(x, p, n)
  /\ page' = IF remotePeers' = remotePeers THEN page
             ELSE Disconnected(LocalsIn(x, ChannelOf[p]), Once(p))

\* One disconnect for each entry of that ip.
ClosePage(s) ==
  LET x == Owner(s)
  IN  /\ CloseSocket(s)
      /\ page' = [p \in Peers |->
                    Disconnected(LocalsIn(x, ChannelOf[p]),
                      Entries({r \in RemotesIn(x, ChannelOf[p]) :
                                 Ip(r.socket) = Ip(s)}))[p]]

\* Only the client that a connect is for learns of the new peer.
ReceivePage(s) ==
  /\ Receive(s)
  /\ page' = [p \in Peers |-> [q \in Peers |->
                page[p][q] + IF q \in told'[p] \ told[p] THEN 1 ELSE 0]]

CrashPage(x) ==
  /\ Crash(x)
  /\ page' = [p \in Peers |->
                IF Home[p] = x THEN [q \in Peers |-> 0] ELSE page[p]]

\* What no page notices.
Unnoticed ==
  /\ \/ Timer
     \/ \E s \in Sockets : Accept(s) \/ DialFails(s)
  /\ UNCHANGED page

PageInit == Init /\ page = [p \in Peers |-> [q \in Peers |-> 0]]

PageNext ==
  \/ \E p \in Peers : JoinPage(p) \/ LeavePage(p)
  \/ \E x \in Proxies, p \in Peers, n \in 1..Announcements :
       DiscoverPage(x, p, n) \/ GoodbyePage(x, p, n)
  \/ \E s \in Sockets : OpenPage(s) \/ ClosePage(s) \/ ReceivePage(s)
  \/ \E x \in Proxies : CrashPage(x)
  \/ Unnoticed

PageSpec == PageInit /\ [][PageNext]_<<vars, page>>
-----------------------------------------------------------------------------
\* A page has an object for every peer it has been told of, and for those of
\* its own machine exactly one, through every repeated connect and disconnect.
PagesAgree ==
  \A p, q \in Peers :
    /\ q \in told[p] => page[p][q] > 0
    /\ Home[p] = Home[q] => page[p][q] = IF q \in told[p] THEN 1 ELSE 0

\* "Remove p2p websocket from root network web socket peers list"
\* (ui/shim.js:141): a page does not go on listing a peer that it has been
\* told has gone.
PagesForget ==
  \A p, q \in Peers : page[p][q] > 0 => q \in told[p]
=============================================================================
