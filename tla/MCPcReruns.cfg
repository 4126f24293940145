SPECIFICATION RerunSpec
CONSTANTS
    Stack <- TwoStacks
    MaxDepth = 3
    Statics <- NoStatics
    Record <- NoRecords
    CFrame = 20
    GLVL = 100
    MAXFILES = 5
    Compiled = FALSE
PROPERTIES
    StaysActive
CHECK_DEADLOCK FALSE
