---------------------------- MODULE FrameChannel ----------------------------
(***************************************************************************)
(* What the encrypted transport promises the message layer: in each        *)
(* direction the frames that were sent arrive unaltered, in order and at   *)
(* most once; a connection that ends may lose the last ones.  PeerSync and *)
(* TxRelay build on this.                                                  *)
(***************************************************************************)
EXTENDS Naturals, Sequences

CONSTANTS Sides, Bodies

VARIABLES
    sent,   \* side -> what it has sent
    got     \* side -> what the other side has received from it

vars == <<sent, got>>

Init == sent = [s \in Sides |-> <<>>] /\ got = [s \in Sides |-> <<>>]

Send(s, b) ==
    /\ sent' = [sent EXCEPT ![s] = Append(@, b)]
    /\ UNCHANGED got

Deliver(s) ==
    /\ Len(got[s]) < Len(sent[s])
    /\ got' = [got EXCEPT ![s] = Append(@, sent[s][Len(@) + 1])]
    /\ UNCHANGED sent

Next == \E s \in Sides : Deliver(s) \/ \E b \in Bodies : Send(s, b)

Spec == Init /\ [][Next]_vars
=============================================================================
