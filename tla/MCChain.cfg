CONSTANTS
    MAX_U64 = 40
    COINBASE_MATURITY = 2
    MAX_HEIGHT = 4
    BLOCK_REWARD <- MCReward
    TxIds <- MCTxIds
    Keys = {"zero", "A", "B"}
    Txs <- MCTxs
    Blocks <- MCBlocks
    Genesis = "g"
    BLOCK <- MCBLOCK
    NEXT_BITS <- MCNextBits
    WORK <- MCWork
    MTP_WINDOW = 3
    MAX_BLOCK_SIZE = 4
    Zero = "zero"
SPECIFICATION Spec
INVARIANTS
    TypeOK
    TipHasMostWork
    LedgerIsReplay
    UtxosAreTheUnspent
    SupplyWithinSchedule
    SpendsRespectLocks
    RejectedOnlyIfInvalid
PROPERTIES
    TipOnlyGains
    ImplementsForkChoice
