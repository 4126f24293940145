SPECIFICATION Spec
CONSTANTS
    Label = {l1, l2}
    MaxLevel = 3
    MaxStatements = 4
    MaxGotos = 2
    OneLabelPart = TRUE
SYMMETRY LabelSymmetry
INVARIANTS
    GotosAreLegal
    LegalGotosPass
CHECK_DEADLOCK FALSE
