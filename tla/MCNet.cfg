CONSTANTS
    Genesis = "g"
    PREV <- MCPREV
    BLOCK_WORK <- MCWork
    Blocks <- MCBlocks
    Nodes <- Triple
    Topology <- Hub
    Setups <- MCSetups
    BLOCKS_PER_ROUND = 2
    LOCATOR_DENSE = 1
    SAVE_INTERVAL = 2
    Txs = {"t", "u", "v"}
    COIN <- MCCoin
    CONFIRMS <- MCConfirms
SPECIFICATION Spec
INVARIANTS
    RequestsAreInFlight
    QuietMeansSynced
    OfferedIsShared
PROPERTIES
    Converges
    GossipEnds
CHECK_DEADLOCK FALSE
