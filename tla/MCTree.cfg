CONSTANTS
    a = a
    b = b
    c = c
    d = d
    Ids <- MCIds
    Anchor = anchor
    Nil = nil
    MaxCalls = 3
SPECIFICATION Spec
SYMMETRY MCSymmetry
INVARIANTS TypeOK RemovedLeavesParent LevelsFollowChildren
PROPERTIES RemovesChildren
CHECK_DEADLOCK FALSE
