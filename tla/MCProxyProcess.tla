---------------------------- MODULE MCProxyProcess ----------------------------
(***************************************************************************)
(* One machine for TLC: two addresses; clients whose channel has the signs *)
(* that end an instance name, one that replacing spoils, and none; and two *)
(* announced peers, one in each such channel, one of them at the machine's *)
(* own address.                                                            *)
(***************************************************************************)
EXTENDS ProxyProcess, TLC

CONSTANTS p1, p2, p3, q1, q2, mdnsName

Interface(family, internal, address) ==
  [family |-> family, internal |-> internal, address |-> address]

SomeInterfaces ==
  {Interface("IPv4", FALSE, "ip1"), Interface("IPv4", FALSE, "ip2"),
   Interface("IPv4", TRUE, "127.0.0.1"), Interface("IPv6", FALSE, "ip6")}

Odd == <<"a", "[", "b", Suffix>>

Spoiled == <<"$&", "a", "{peerId}">>

SomePaths == (p1 :> Odd) @@ (p2 :> Spoiled) @@ (p3 :> <<>>)

Announced(name, id, ip) ==
  [channelName |-> name, peerId |-> <<id>>, url |-> "/nourl",
   hostname |-> mdnsName, ip |-> ip, port |-> 7]

SomeForeign == {Announced(Spoiled, q1, "ip9"), Announced(Odd, q2, "ip1")}
=============================================================================
