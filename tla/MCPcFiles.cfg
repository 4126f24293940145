SPECIFICATION Spec
CONSTANTS
    Stack <- OneStack
    MaxDepth = 3
    Statics <- StaticFile
    Record <- Records
    CFrame = 20
    GLVL = 100
    MAXFILES = 6
    Compiled = TRUE
INVARIANTS
    ChainMatchesTable
    OnlyLiveFiles
    ChainSorted
    NoStreamLost
    FlushesOpenStreamsInRun
    TempsOfActiveFiles
PROPERTIES
    OverflowOnlyWhenFull
    ImplementsActiveFiles
CHECK_DEADLOCK FALSE
