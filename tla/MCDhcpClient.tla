---------------------------- MODULE MCDhcpClient ----------------------------
(* Two hosts and two servers: s1 announces a gateway and name servers, s2  *)
(* only a gateway.                                                         *)
EXTENDS DhcpClient, TLC

CONSTANTS c1, c2, s1, s2, x, y, g1, g2, n1

MCPool == s1 :> {x} @@ s2 :> {y}
MCRouter == s1 :> g1 @@ s2 :> g2
MCResolver == s1 :> n1 @@ s2 :> Nobody
=============================================================================
