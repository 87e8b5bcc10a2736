CONSTANTS
    Align = 2
    Reserve = 8
    Base = 5
    Word = 32
    MaxFrames = 2
    Sizes <- SomeSizes
    Counts <- SomeCounts
    Pointers <- SomePointers
SPECIFICATION Spec
INVARIANTS
    TypeOK
    BlocksInOrder
    FreeListExact
    LocalsHeld
PROPERTIES
    ImplementsCHeap
\* A program that panicked has stopped.
CHECK_DEADLOCK FALSE
