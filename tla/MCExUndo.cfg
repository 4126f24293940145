SPECIFICATION Spec
CONSTANTS
    Line = {x, y}
    MaxLines = 4
    MaxNew = 2
INVARIANT UndoIsOffered
PROPERTY ImplementsBuffer
SYMMETRY LineSymmetry
