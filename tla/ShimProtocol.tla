---------------------------- MODULE ShimProtocol ----------------------------
(***************************************************************************)
(* The JSON messages of background/src/shim-protocol.js, which travel      *)
(* between a proxy and its clients and between two proxies.                *)
(*                                                                         *)
(* connect and disconnect name the peer the message is ABOUT in "target"   *)
(* and the peer it is FOR in "source"; broadcast and message name the      *)
(* sender in "source" and the addressee in "target".  The "channel" field  *)
(* of a connect and the empty "payload" are left out: no receiver in       *)
(* background/src or ui/shim.js reads them.                                *)
(***************************************************************************)
CONSTANTS
  Peers,      \* the uuids that Peer.id() draws
  Data        \* the payloads of clients' messages

\* Deviations: a connect that names nobody, or whose ends are not exchanged.
ConnectNobody(sourcePeer, targetPeer) ==
  [action |-> "connect", source |-> targetPeer]
ConnectStraight(sourcePeer, targetPeer) ==
  [action |-> "connect", source |-> sourcePeer, target |-> targetPeer]

\* Channel.connect(newPeer, p) sends p the message connect(newPeer, p).
Connect(sourcePeer, targetPeer) ==
  [action |-> "connect", source |-> targetPeer, target |-> sourcePeer]

Disconnect(sourcePeer, targetPeer) ==
  [action |-> "disconnect", source |-> targetPeer, target |-> sourcePeer]

Broadcast(sourcePeer, targetPeer, message) ==
  [action |-> "broadcast", source |-> sourcePeer, target |-> targetPeer,
   data |-> message]

\* Deviation: the ends exchanged, as in connect.
MessageExchanged(sourcePeer, targetPeer, message) ==
  [action |-> "message", source |-> targetPeer, target |-> sourcePeer,
   data |-> message]

Message(sourcePeer, targetPeer, message) ==
  [action |-> "message", source |-> sourcePeer, target |-> targetPeer,
   data |-> message]

MembershipMessages ==
  [action : {"connect", "disconnect"}, source : Peers, target : Peers]

DataMessages ==
  [action : {"broadcast", "message"}, source : Peers, target : Peers,
   data : Data]

Messages == MembershipMessages \cup DataMessages
=============================================================================
