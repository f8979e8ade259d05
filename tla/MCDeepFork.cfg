CONSTANTS
    Genesis = "g"
    PREV <- MCPREV
    BLOCK_WORK <- MCWork
    Blocks <- MCBlocks
    Nodes <- Triple
    Topology <- Hub
    Setups <- LongSetups
    BLOCKS_PER_ROUND = 2
    LOCATOR_DENSE = 10
    SAVE_INTERVAL = 2
    Txs = {"t", "u", "v"}
    COIN <- MCCoin
    CONFIRMS <- MCConfirms
SPECIFICATION Spec
INVARIANTS
    QuietMeansSynced
CHECK_DEADLOCK FALSE
