CONSTANTS
    p = p
    q = q
    n1 = n1
    n2 = n2
    u1 = u1
    u2 = u2
    u3 = u3
    None = none
    Callers <- MCCallers
    Usernames <- MCUsernames
    Uids <- MCUids
    PerSecond = 2
    AccessTicks = 3
    RefreshTicks = 4
    Leeway = 4
    MaxTime = 5
    MaxCalls = 3
SPECIFICATION Spec
SYMMETRY MCSymmetry
INVARIANTS NameLeadsToUser NotLongerThanConfigured
PROPERTIES DisabledRunsOut
CHECK_DEADLOCK FALSE
