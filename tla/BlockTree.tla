----------------------------- MODULE BlockTree ------------------------------
(***************************************************************************)
(* The tree of all blocks that exist, as their headers describe it, with   *)
(* the cumulative work and the path from genesis of each block.            *)
(***************************************************************************)
EXTENDS Integers, Sequences

CONSTANTS
    Blocks,      \* block hashes
    Genesis,     \* the genesis hash
    PREV,        \* hash -> hash of the parent
    BLOCK_WORK   \* hash -> work_from_target of the block's bits

ASSUME BlockTreeAssumption ==
    /\ Genesis \in Blocks
    /\ \A b \in Blocks : BLOCK_WORK[b] \in Nat \ {0}

CumWork[b \in Blocks] ==
    IF b = Genesis THEN BLOCK_WORK[b] ELSE CumWork[PREV[b]] + BLOCK_WORK[b]

PathTo[b \in Blocks] ==
    IF b = Genesis THEN <<b>> ELSE Append(PathTo[PREV[b]], b)
=============================================================================
