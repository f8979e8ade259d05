------------------------------ MODULE MCPeers -------------------------------
(***************************************************************************)
(* Instances of PeerTable: peers p and q that listen, q higher than us, a  *)
(* host d that is down, and our own address, which is first in the book.   *)
(* A peer tells us of d and q.                                             *)
(***************************************************************************)
EXTENDS PeerTable

At(ip)   == <<ip, 1>>
MCHeight == [p |-> 1, q |-> 2, d |-> 0, self |-> 1]
MCOrder  == <<At("self"), At("p"), At("d"), At("q")>>

TwoPeers  == {At("p"), At("self")}
Rumours   == {At("d"), At("q")}
=============================================================================
