CONSTANTS
    w1 = w1
    w2 = w2
    q1 = q1
    q2 = q2
    p1 = p1
    p2 = p2
    None = none
    Workers <- MCWorkers
    Connections <- MCConnections
    Names <- MCNames
    Keys <- MCKeys
    Queues <- MCQueues
    Setups <- MCSetups
    Publications <- MCPublications
    MaxCrashes <- MCMaxCrashes
SPECIFICATION FairSpec
INVARIANTS OnlyMatesRun
PROPERTIES RetryComesBack ServedByMates
CHECK_DEADLOCK FALSE
