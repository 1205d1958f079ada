CONSTANTS
    i1 = i1
    i2 = i2
    i3 = i3
    r = r
    t = t
    w1 = w1
    w2 = w2
    None = none
    Instances <- MCInstances
    Names <- MCNames
    Identifiers <- MCIds
    AutoId <- MCAutoId
    Hosts <- MCHosts
    Setups <- MCSetups
    MaxSignals = 2
    Busy = i1
    Retries <- MCRetries
    Timeouts <- MCTimeouts
    Writes <- MCWrites
    NilWrites <- MCNilWrites
    Tries = 1
SPECIFICATION FairSpec
INVARIANTS CatalogFollowsRun
PROPERTIES SignalEnds TasksSettle
CHECK_DEADLOCK FALSE
