CONSTANTS
    Conns = {c1, c2}
    BOOK_ORDER <- MCOrder
    Seeds <- TwoPeers
    Callers = {"self", "q"}
    Gossip <- Rumours
    SelfIp = "self"
    DeadIps = {"d"}
    PEER_HEIGHT <- MCHeight
    LISTENS = {"p", "q"}
    START_HEIGHT = 1
    TARGET_PEERS = 1
    MAX_INBOUND = 2
    MAX_PER_IP = 1
SPECIFICATION Spec
INVARIANTS
    InboundExact
    
PROPERTIES
    MinesWhenCaughtUp
    ReachableIsDialed
