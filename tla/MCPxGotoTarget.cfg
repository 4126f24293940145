SPECIFICATION Spec
CONSTANTS
    Main = Main
    A = A
    P = P
    Q = Q
    R = R
    Routine <- MCRoutine
    Nest <- DeepNest
    Tests <- AllTests
    TakesFormal = {P}
    HasFile = {}
    HasLabel = {Q}
    DSPLYSZ = 4
    MaxDepth = 6
    StackAboveC = TRUE
    GotoOutOfFormals = TRUE
INVARIANTS
    GotoFindsTarget
CHECK_DEADLOCK FALSE
