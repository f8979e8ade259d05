CONSTANTS
    MAX_U64 = 60
    COINBASE_MATURITY = 1
    MAX_HEIGHT = 3
    BLOCK_REWARD <- MCReward
    TxIds <- MCTxIds
    Keys = {"zero", "me", "peer"}
    Txs <- MCTxs
    Blocks <- MCBlocks
    Genesis <- MCGenesis
    BLOCK <- MCBLOCK
    NEXT_BITS <- MCNextBits
    WORK <- MCWork
    MTP_WINDOW = 3
    MAX_BLOCK_SIZE = 3
    Zero <- MCZero
    TX_SIZE <- MCTxSize
    MIN_RELAY_FEE = 1
    MIN_FEE_PER_BYTE = 1
    MAX_MEMPOOL_BYTES = 3
    TEMPLATE_SLACK = 1
    SAVE_INTERVAL = 2
    Clock = {0}
    Setups <- Lone
SPECIFICATION NodeSpec
INVARIANTS
    QueuedNotLost
