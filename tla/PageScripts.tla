----------------------------- MODULE PageScripts -----------------------------
(***************************************************************************)
(* The pages that come with the proxy, on top of their NetworkWebSocket:   *)
(*   "console": ui/console.html, advanced-console.js;                      *)
(*   "tracker": ui/vis.html, peer-tracker.js with vis.js and app.js;       *)
(*   "any":     a page that may do whatever the NetworkWebSocket allows.   *)
(* Each step of Shim is taken together with what the page's listeners do.  *)
(* What the console and the tracker do with payloads is to show them, and  *)
(* left out.  A page has one NetworkWebSocket: when it has closed, the     *)
(* console may connect again and begin anew.                               *)
(***************************************************************************)
EXTENDS Shim

CONSTANTS
  Scripts,      \* which of the pages
  Limit         \* bound, for TLC: Limit[s], the peer objects of page s

ASSUME ScriptsAssumption == Scripts \subseteq {"any", "console", "tracker"}

VARIABLES
  script,       \* the page
  ids,          \* ids[k]: the id field of object k
  list,         \* console: the ids of the radio buttons under "Send direct to"
  count,        \* console: the peer count shown: None or <<n>>
  target,       \* console: the button that is checked, or "unchecked"
  sent,         \* console, history: what was checked and what was sent last
  tracked,      \* tracker: channel.peers, as objects
  drawn         \* tracker: the ids of the bubbles on the screen

consoleVars == <<list, count, target, sent>>
trackerVars == <<tracked, drawn>>
scriptVars == <<script, ids, consoleVars, trackerVars>>
pagesVars == <<vars, scriptVars>>

None == <<>>

Console == script = "console"
Tracker == script = "tracker"

InitPages ==
  /\ Init
  /\ script \in Scripts
  /\ ids = [k \in PeerObjects |-> "none"]
  /\ list = <<>> /\ count = None /\ target = "*" /\ sent = {}
  /\ tracked = {} /\ drawn = {}
-----------------------------------------------------------------------------
(* The listeners of the console.                                           *)

Listed == [n \in DOMAIN peers |-> peers[n].id]

\* Deviation: the list is only extended.
RefreshLonger == list' = IF Len(Listed) > Len(list) THEN Listed ELSE list

\* The buttons are made anew, none of them checked.
Refresh == list' = Listed

\* refreshPeerList: the button for everybody is not among those replaced.
RefreshPeerList ==
  /\ Refresh
  /\ target' = IF target = "*" THEN "*" ELSE "unchecked"

ConsoleHears(event) ==
  LET onRoot == event.on = Root
  IN  \/ /\ onRoot /\ event.type = "open"
         /\ count' = <<Len(peers)>>
         /\ UNCHANGED <<list, target>>
      \/ /\ onRoot /\ event.type \in {"connect", "disconnect"}
         /\ RefreshPeerList
         /\ count' = <<Len(peers)>>
      \/ /\ onRoot /\ event.type = "close"
         /\ RefreshPeerList
         /\ count' = None
      \/ /\ ~onRoot \/ event.type \in {"closing", "message"}
         /\ UNCHANGED <<list, count, target>>
-----------------------------------------------------------------------------
(* The listeners of the tracker.                                           *)

\* Deviation: the target of the event is removed, not that of its detail.
WithoutTarget(objects, k) == objects \ {Root}

\* _.remove(channel.peers, {id: ...}): every object of that peer.
WithoutPeer(objects, k) == {j \in objects : ids[j] # ids[k]}

TrackerHears(event) ==
  LET k == event.detail
  IN  tracked' =
        CASE event.on = Root /\ event.type = "connect" -> tracked \cup {k}
          [] event.on = Root /\ event.type = "disconnect" -> WithoutPeer(tracked, k)
          [] OTHER -> tracked

\* The listeners are called with an event that is dispatched.
DispatchToPage ==
  LET event == Head(timers).event
  IN  /\ Dispatch
      /\ IF Console THEN ConsoleHears(event) ELSE UNCHANGED <<list, count, target>>
      /\ IF Tracker THEN TrackerHears(event) ELSE UNCHANGED tracked
      /\ UNCHANGED <<script, ids, sent, drawn>>
-----------------------------------------------------------------------------
(* What the pages do by themselves.                                        *)

\* The user checks a button of the console.
Choose(choice) ==
  /\ Console
  /\ choice \in ToSet(list) \cup {"*"}
  /\ target' = choice
  /\ UNCHANGED <<vars, script, ids, list, count, sent, trackerVars>>

\* The buttons are enabled between the open and the close event of the root.
Enabled ==
  /\ Console
  /\ Simple(Root, "open") \in fired
  /\ Simple(Root, "close") \notin fired

Sends(to) ==
  /\ sent' = {[checked |-> target, to |-> to]}
  /\ UNCHANGED <<vars, script, ids, list, count, target, trackerVars>>

\* send(): with no button checked getCheckedRadioValue gives '*'.
SendToAll ==
  /\ Enabled
  /\ target \in {"*", "unchecked"}
  /\ readyState[Root] = "open"
  /\ Sends("*")

\* send() to the first object of the peer that is checked; one that is not
\* open throws.
SendToPeer ==
  /\ Enabled
  /\ \E n \in DOMAIN peers :
       /\ IsPeerById(n, target)
       /\ readyState[peers[n].object] = "open"
  /\ Sends(target)

\* disconnect() of the console: the objects of peers are forgotten, not closed.
Disconnect ==
  /\ Enabled
  /\ ws \in {"open", "closing"} /\ readyState[Root] = "open"
  /\ peers' = <<>>
  /\ ws' = "closing"
  /\ UNCHANGED <<readyState, timers, fired, arrived, asked, scriptVars>>

\* classes: a bubble for each id.  Without peers the layout takes the root for a
\* leaf, which has none.
Nameless == "undefined"

Bubbles == IF tracked = {} THEN {Nameless} ELSE {ids[k] : k \in tracked}

\* vis.render, once a second.  Colouring a new bubble without an id throws, before
\* those that have left are removed.
Render ==
  /\ Tracker
  /\ drawn' = IF Nameless \in Bubbles \ drawn THEN drawn \cup Bubbles
              ELSE Bubbles
  /\ UNCHANGED <<vars, script, ids, consoleVars, tracked>>
-----------------------------------------------------------------------------
ReceiveConnectAtPage(i) ==
  /\ Cardinality(Created) < Limit[script]
  /\ ReceiveConnect(i)
  /\ ids' = [ids EXCEPT ![1 + Cardinality(Created)] = i]
  /\ UNCHANGED <<script, consoleVars, trackerVars>>

ReceiveDataAtPage(d) ==
  /\ script = "any"
  /\ ReceiveBroadcast(d) \/ \E i \in PeerIds : ReceiveMessage(i, d)

\* The steps of the NetworkWebSocket that no listener sees.
Unseen ==
  /\ \/ SocketOpens
     \/ SocketCloses
     \/ \E i \in PeerIds : ReceiveDisconnect(i)
     \/ \E d \in Payloads : ReceiveDataAtPage(d)
     \/ script = "any" /\ Page
  /\ UNCHANGED scriptVars

TimersOfPage == DispatchToPage \/ ((Handle \/ OpenPeer) /\ UNCHANGED scriptVars)

\* Bound, for TLC: only at page "any" are timers late.
ElapseAtPage ==
  /\ timers # <<>>
  /\ script = "any" \/ Head(timers).wait > 0
  /\ Elapse
  /\ UNCHANGED scriptVars

NextPages ==
  \/ \E i \in PeerIds : ReceiveConnectAtPage(i)
  \/ Unseen
  \/ TimersOfPage
  \/ ElapseAtPage
  \/ \E choice \in PeerIds \cup {"*"} : Choose(choice)
  \/ SendToAll
  \/ SendToPeer
  \/ Disconnect
  \/ Render

PagesSpec ==
  /\ InitPages /\ [][NextPages]_pagesVars
  /\ WF_pagesVars(ElapseAtPage) /\ WF_pagesVars(TimersOfPage)
  /\ WF_pagesVars(Render)
-----------------------------------------------------------------------------
(* Properties.                                                             *)

\* Whenever no timer is pending, the console shows the peers that the root
\* object lists, and no count once it has closed, though it reads the list
\* milliseconds after each change and at events that overtake each other.  The
\* list that disconnect() empties is shown when the socket has closed.
ConsoleFollows ==
  (Console /\ timers = <<>> /\ ws # "closing") =>
    /\ list = Listed
    /\ count = IF ws = "open" THEN <<Len(peers)>> ELSE None

\* Every peer that is not listed any more vanishes from the bubbles of vis.html,
\* unless it comes back: its object's chain of timers ends with the event that
\* makes the tracker forget it.
GoneAreErased ==
  \A i \in PeerIds :
    (Tracker /\ i \notin ToSet(Listed)) ~> (i \notin drawn \/ i \in ToSet(Listed))

\* Every peer object that is not listed any more has its 'disconnect' fired, at
\* the end of the chain of timers that __doClose starts, except at the console,
\* which forgets the objects of its peers when it closes the root.
UnlistedAreDisconnected ==
  \A k \in PeerObjects :
    (k \in Created /\ ~Console /\ \A n \in DOMAIN peers : peers[n].object # k) ~>
      Event(Root, "disconnect", k) \in fired

\* "Broadcast to all connected peers" (ui/console.html) is a button of its own:
\* a text is sent to all only if that button is checked.
BroadcastsAreChosen == \A s \in sent : s.to = "*" => s.checked = "*"
=============================================================================
