CONSTANTS
    Genesis = "g"
    PREV <- MCPREV
    BLOCK_WORK <- MCWork
    Blocks <- MCBlocks
    Nodes <- Triple
    Topology <- Triangle
    Setups <- SameSetup
    BLOCKS_PER_ROUND = 2
    LOCATOR_DENSE = 10
    SAVE_INTERVAL = 2
    Txs = {"t", "u", "v"}
    COIN <- MCCoin
    CONFIRMS <- MCConfirms
SPECIFICATION Spec
INVARIANTS
    HonestNeverBanned
CHECK_DEADLOCK FALSE
