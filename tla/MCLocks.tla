------------------------------ MODULE MCLocks -------------------------------
(***************************************************************************)
(* Thread sets for PeerLocks: a node without the discovery thread, one     *)
(* whose peers advertise no listen port, and one with both.                *)
(***************************************************************************)
EXTENDS PeerLocks

AllThreads  == {"reader1", "reader2", "hidden", "accept", "dialer", "miner"}
NoDialer    == {"reader1", "reader2", "accept", "miner"}
NoListeners == {"hidden", "accept", "dialer", "miner"}

Restricted  == {NoDialer, NoListeners}
Discovery   == {{"reader1", "dialer"}}

MCRole == [t \in Threads |-> CASE t = "reader1" -> Inbound
                               [] t = "reader2" -> Reader
                               [] t = "hidden"  -> Hidden
                               [] t = "accept"  -> Accept
                               [] t = "dialer"  -> Discoverer
                               [] t = "miner"   -> Miner \cup Bridge]
=============================================================================
