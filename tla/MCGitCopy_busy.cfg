SPECIFICATION Spec
CONSTANTS
    Objects = 3
    Ref = {main, topic}
    Scenarios <- OneOfTwo
SYMMETRY Symmetry
INVARIANT TypeOK
INVARIANT ObjectsKept
INVARIANT RefsCurrent
INVARIANT RefsResolve
