SPECIFICATION Spec
CONSTANTS
    Objects = 3
    Ref = {main, topic}
    Scenarios <- Committing
SYMMETRY Symmetry
INVARIANT CopyIsWhole
