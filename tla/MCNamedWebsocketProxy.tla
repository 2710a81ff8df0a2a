----------------------- MODULE MCNamedWebsocketProxy -----------------------
(***************************************************************************)
(* Small networks for TLC.                                                 *)
(***************************************************************************)
EXTENDS ProxyProperties, TLC
CONSTANTS x1, x2, x3, p1, p2, p3, c1, c2, d1

\* One peer at home, two abroad.
OneTwoHome == p1 :> x1 @@ p2 :> x2 @@ p3 :> x2
\* Each peer on a machine of its own.
ThreeHomes == p1 :> x1 @@ p2 :> x2 @@ p3 :> x3
\* One peer on each of two machines.
TwoHomes == p1 :> x1 @@ p2 :> x2

OneChannel == [p \in Peers |-> c1]
\* The two peers on one machine use different channels.
TwoChannels == p1 :> c1 @@ p2 :> c1 @@ p3 :> c2
=============================================================================
