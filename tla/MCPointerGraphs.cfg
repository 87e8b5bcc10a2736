CONSTANTS
    a1 = a1
    a2 = a2
    NoLocal = NoLocal
    Activations = {a1, a2}
    Locals = {1, 2}
    Results = {1}
    Sizes <- OneSize
    Starts <- SomeStarts
    StaticAt = 3
    NullOffsets <- Within
    MaxEvents = 5
SYMMETRY Symmetry
SPECIFICATION Spec
INVARIANTS
    TypeOK
    GraphPerObject
    FreeIsTheEnd
    NullsApart
    SourceIsInput
\* The log is full.
CHECK_DEADLOCK FALSE
