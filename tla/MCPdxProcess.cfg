SPECIFICATION Spec
CONSTANTS
    N = 4
    Succ <- MCSucc
    Halts <- MCHalts
    Errs <- MCErrs
    Base = {b1, b2}
    b1 = b1
    b2 = b2
    Lines = {"x", "y"}
    cachehash <- MCcachehash
    None = None
    Failure = Failure
    MaxEvents = 1
    MaxRuns = 3
    RerunHalted = FALSE
INVARIANTS
    TakesTurns
    CodeClean
    CacheCoherent
    BreakpointsInPlace
    PcAgrees
PROPERTIES
    PromptComes
