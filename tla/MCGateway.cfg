CONSTANTS
    p1 = p1
    p2 = p2
    d1 = d1
    d2 = d2
    None = none
    Calls <- MCCalls
    Direct <- MCDirect
    Proxied <- MCProxied
    Numbers <- MCNumbers
    MaxInt = 7
    DefaultLimit = 3
    MaxTokens = 2
    Wishes <- MCWishes
    Plans <- MCPlans
SPECIFICATION FairSpec
INVARIANTS TypeOK OwnAnswerUnlessOverlapped BareErrorsStayErrors OnlyVerifiedAreServed OffsetServedIsUsable NewClientsAreClean
PROPERTIES CallsReturn
CHECK_DEADLOCK FALSE
