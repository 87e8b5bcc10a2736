SPECIFICATION Spec
CONSTANTS
    TestsMax = 1
    SpanPerCase = 2
    IntModulus = 256
    LongModulus = 512
    NestingMax = 4
    ChainMax = 2
    Names = {0, 1}
    Outcomes = {0, 1, 4}
    Functions <- SmallFunctions
INVARIANTS TypeOK Total
PROPERTIES ImplementsC
\* A function ends.
CHECK_DEADLOCK FALSE
