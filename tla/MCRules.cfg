CONSTANTS
    BYTE_BITS = 2
    WORD = 6
    FRAC = 16
    POLY <- Cubic
    POLY_ONE = 4096
    POW_LIMIT = 1023
    BLOCK_INTERVAL = 9
    ASERT_TAU = 4
    MTP_WINDOW = 3
    MAX_BLOCKS = 4
    Times <- Clock
    SUPPLY_CAP = 2000
    DECAY_M = 20
    ONE = 32768
    MAX_HEIGHT = 500
    TxIds = {"t1", "t2", "t3"}
    WitnessIds = {"w1", "w2"}
    MAX_TXS = 4
    Tokens = {0, 1, 2, 3, 9, 13}
    MAX_TX_IO = 2
    MAX_FIELD_LEN = 20
    MAX_BLOCK_TXS = 1
    MAX_INV = 2
    MAX_LOCATOR = 2
    MAX_ADDRS = 2
    Transfers <- MCTransfers
    Signed <- MCSigned
    MAX_EDITS = 2
    EPOCH_LENGTH = 2
    CHUNK = 2
    NONCES = 5
    TOP = 3
    Threads <- AllThreads
    ROLE <- MCRole
    Deployments <- Restricted
SPECIFICATION Spec
INVARIANTS
    BitsAreExact
    Steers
    WithinCap
    OnlyHonestConnects
    OneEncoding
    ForwardCompatible
    SighashBinds
    MinedIsWork
    NoDeadlock
CHECK_DEADLOCK FALSE
