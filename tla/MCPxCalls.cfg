SPECIFICATION FairSpec
CONSTANTS
    Main = Main
    A = A
    P = P
    Q = Q
    R = R
    Routine <- MCRoutine
    Nest <- WideNest
    Tests <- AllTests
    TakesFormal = {P}
    HasFile = {A, P}
    HasLabel = {A, P}
    DSPLYSZ = 4
    MaxDepth = 5
    StackAboveC = TRUE
    GotoOutOfFormals = FALSE
INVARIANTS
    TypeOK
    DisplayIsStaticNest
    OpenFilesInActiveFrames
    CurfileActive
    GotoFindsTarget
    BacktraceOutsideFormals
PROPERTIES
    GotoEnds
    ImplementsActivations
CHECK_DEADLOCK FALSE
