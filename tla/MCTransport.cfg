CONSTANTS
    Versions = {1, 2}
    Networks = {0, 1}
    Bodies = {"full", "over"}
    SIZE <- MCSize
    MAX_FRAME = 2
    TAG_LEN = 16
    MAX_SENT = 2
    MAX_ALTERED = 2
SPECIFICATION TransportSpec
INVARIANTS
    NonceUsedOnce
    RefusesOnlyDamage
    DeliversOnlyAgreed
PROPERTIES
    ImplementsChannel
    HandshakeEnds
CHECK_DEADLOCK FALSE
