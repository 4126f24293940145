SPECIFICATION Spec
CONSTANTS
    Char = {" ", "nl", "1", "a"}
    MaxLen = 3
    TellAnywhere = FALSE
    ResetAnywhere = FALSE
INVARIANTS
    FlagsAtEof
PROPERTIES
    NoReadAhead
    ReadlnEnds
    TellsCurrentLocation
    ImplementsTextFile
CHECK_DEADLOCK FALSE
