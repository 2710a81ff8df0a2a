--------------------------- MODULE LocalMembership ---------------------------
(***************************************************************************)
(* What a proxy promises to the clients of its own machine: a client on a  *)
(* channel sees exactly the other clients that this proxy serves on the    *)
(* same channel, from the instant it joins and until it leaves, whatever   *)
(* the network and the other proxies do.  Clients come and go; a proxy     *)
(* that dies takes all of its clients with it.                             *)
(***************************************************************************)
CONSTANTS
  Peers,      \* identities; each is used by one client once
  Group       \* the proxy and the channel a client belongs to

VARIABLES
  members,    \* the clients that are joined
  gone,       \* the clients that have left
  view        \* view[p]: the clients of its group that p has been shown

vars == <<members, gone, view>>

Companions(p, set) == {q \in set : q # p /\ Group[q] = Group[p]}

ExactView(set) ==
  [p \in Peers |-> IF p \in set THEN Companions(p, set) ELSE {}]

Init ==
  /\ members = {}
  /\ gone = {}
  /\ view = ExactView({})

Join(p) ==
  /\ p \notin members \cup gone
  /\ members' = members \cup {p}
  /\ view' = ExactView(members')
  /\ UNCHANGED gone

\* One client, or all the clients of one machine, leave in one step.
Leave(set) ==
  /\ members' = members \ set
  /\ gone' = gone \cup set
  /\ view' = ExactView(members')

Next ==
  \/ \E p \in Peers : Join(p)
  \/ \E set \in SUBSET members : Leave(set)

Spec == Init /\ [][Next]_vars
=============================================================================
