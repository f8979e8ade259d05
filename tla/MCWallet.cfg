CONSTANTS
    MAX_U64 = 40
    COINBASE_MATURITY = 2
    MAX_HEIGHT = 3
    BLOCK_REWARD <- MCReward
    TxIds <- NoTxs
    Keys = {"me", "vault", "you"}
    Txs <- NoTxs
    Sessions = {"s1", "s2"}
    VIA <- Mixed
    Payments <- MCPays
    OwnedKeys <- MCOwned
    ChangeKey = "me"
    Miners = {"me", "you"}
    START <- Plain
    INPUT_SIZE = 1
    MIN_RELAY_FEE = 1
    MIN_FEE_PER_BYTE = 1
    SAVE_INTERVAL = 2
SPECIFICATION Spec
INVARIANTS
    BuiltIsValid
    BalanceIsPayable
    HoldingsExact
CHECK_DEADLOCK FALSE
