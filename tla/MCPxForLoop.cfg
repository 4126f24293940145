SPECIFICATION FairForSpec
CONSTANTS
    Widths = {2, 4}
    Long = 4
PROPERTIES
    ImplementsForStatement
    LoopEnds
CHECK_DEADLOCK FALSE
