SPECIFICATION Spec
CONSTANTS
    M = M
    P = P
    Q = Q
    None = None
    Func <- MCFunc
    Main = M
    Calls <- MCCalls
    Cond = {c1}
    Deletable <- MCDeletable
    MaxEvents = 7
    Conditional <- MCConditional
    Where <- MCWhere
    MaxUser = 2
    MaxDepth = 3
    LateConds = FALSE
    StaleCurfunc = FALSE
INVARIANT NothingFreedIsUsed
CHECK_DEADLOCK FALSE
