CONSTANTS
    Unit = 2
    StaticEnd = 2
    StackTop = 2
    Limit = 16
    IntHalf = 32
    Word = 128
    Data <- OneDatum
    Sizes <- SomeSizes
    Counts <- SomeCounts
    FrameSizes <- NoFrames
    MaxFrames = 0
SPECIFICATION FairSpec
INVARIANTS
    TypeOK
    BlocksApart
    ChainLinked
PROPERTIES
    CallsReturn
    ImplementsCHeap
