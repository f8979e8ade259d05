-------------------------- MODULE ChainRefinement ---------------------------
(***************************************************************************)
(* ChainState implements ForkChoice: `all` is the set of known blocks, the *)
(* last element of `active` the tip.                                       *)
(***************************************************************************)
EXTENDS ChainState

FC == INSTANCE ForkChoice WITH
          PREV       <- [b \in Blocks |-> BLOCK[b].prev],
          BLOCK_WORK <- [b \in Blocks |-> WORK(BLOCK[b].bits)],
          known      <- all,
          tip        <- Tip

\* The parents of a block hash to it, so there is no cycle among blocks, and
\* the recursion of CumWork along a branch ends at genesis.
ASSUME WorkAssumption ==
    /\ FC!CumWork[Genesis] = WORK(BLOCK[Genesis].bits)
    /\ \A b \in Blocks \ {Genesis} :
          BLOCK[b].prev \in Blocks =>
             FC!CumWork[b] = FC!CumWork[BLOCK[b].prev] + WORK(BLOCK[b].bits)

\* Every add_block call, fast path, side block, reorganisation, failed
\* reorganisation or rejection, is a step of the abstract fork choice or
\* changes nothing it can see.
ImplementsForkChoice == FC!Spec
=============================================================================
