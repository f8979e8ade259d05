CONSTANTS
    Threads <- AllThreads
    ROLE <- MCRole
    Deployments <- Discovery
SPECIFICATION LocksSpec
INVARIANTS
    NoDeadlock
