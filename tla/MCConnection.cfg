CONSTANTS
    u1 = u1
    u2 = u2
    Users <- MCUsers
    Restorer = restorer
    None = None
SPECIFICATION FairSpec
INVARIANTS SerialOpensGetOwnQueue NilOnlyInShutdown
PROPERTIES NoReconnect NeverCreatesExchange EndsWithConnection OpensFinish
CHECK_DEADLOCK FALSE
