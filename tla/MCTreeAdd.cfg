CONSTANTS
    a = a
    b = b
    c = c
    d = d
    Ids <- MCIds
    Anchor = anchor
    Nil = nil
    MaxCalls = 2
SPECIFICATION Spec
SYMMETRY MCSymmetry
INVARIANT NewDataCanBeAdded
CHECK_DEADLOCK FALSE
