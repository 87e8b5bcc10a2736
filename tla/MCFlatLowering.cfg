SPECIFICATION Spec
CONSTANTS
    TestsMax = 1
    SpanPerCase = 2
    IntModulus = 16
    LongModulus = 32
    Outcomes = {0, 1, 4}
    Families <- SmallFunctions
INVARIANTS TypeOK Total
PROPERTIES ImplementsGraph
\* A function ends.
CHECK_DEADLOCK FALSE
