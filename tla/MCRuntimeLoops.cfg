CONSTANTS
    Size = 5
    Bytes <- TwoBytes
    Chunk = 2
    IntHalf = 4
    Align = 1
    Reserve = 16
    Base = 1
    Word = 64
    TestsMax = 2
    SpanPerCase = 2
    IntModulus = 32
    LongModulus = 64
    NextId = 1
    MaxCases = 6
SPECIFICATION LoopsSpec
INVARIANTS
    TypeOK
    SetFills
    CopiesOriginal
    StopsAtFirst
    FindsRecord
    TakesBestFit
    GoesToItsArm
\* A call returns and a dispatch ends at its arm.
CHECK_DEADLOCK FALSE
