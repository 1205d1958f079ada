CONSTANTS
    f = f
    g = g
    h = h
    Nil = nil
    Fields <- MCFields
    OneWord <- MCOneWord
    Conditions <- MCConditions
    Nesting = 2
    Height <- MCHeight
    Requests <- MCRequests
    MaxWheres = 2
SPECIFICATION Spec
INVARIANT NodesKeepTheirJoin
CHECK_DEADLOCK FALSE
