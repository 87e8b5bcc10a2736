CONSTANTS
    Unit = 2
    StaticEnd = 4
    StackTop = 8
    Limit = 16
    IntHalf = 32
    Word = 128
    Data <- SomeData
    Sizes <- OneSize
    Counts <- OneSize
    FrameSizes <- SomeFrames
    MaxFrames = 2
SPECIFICATION Spec
INVARIANTS
    FramesKept
PROPERTIES
    StaticKept
    \* A panic stops the program.
CHECK_DEADLOCK FALSE
