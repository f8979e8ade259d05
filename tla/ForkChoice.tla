----------------------------- MODULE ForkChoice -----------------------------
(***************************************************************************)
(* What a chain state promises the rest of the node, whatever happens to   *)
(* transactions, UTXOs and reorganisations inside it: a set of known       *)
(* blocks that only grows, parents first, and a tip that moves to a new    *)
(* block exactly when that block has more cumulative work.                 *)
(***************************************************************************)
EXTENDS BlockTree

VARIABLES known, tip

Init == known = {Genesis} /\ tip = Genesis

Heavier(b, t) == CumWork[b] > CumWork[t]

Accept(b) ==
    /\ b \notin known
    /\ PREV[b] \in known
    /\ known' = known \cup {b}
    /\ tip' = IF Heavier(b, tip) THEN b ELSE tip

Next == \E b \in Blocks : Accept(b)

Spec == Init /\ [][Next]_<<known, tip>>
=============================================================================
