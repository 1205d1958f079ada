CONSTANTS
    d1 = d1
    d2 = d2
    d3 = d3
    None = None
    Deliveries <- MCDeliveries
    Undecodable <- MCUndecodable
    MaxRestarts = 1
SPECIFICATION FairSpec
PROPERTY TerminatesWithContext
CHECK_DEADLOCK FALSE
