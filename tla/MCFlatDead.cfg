SPECIFICATION Spec
CONSTANTS
    TestsMax = 1
    SpanPerCase = 2
    IntModulus = 16
    LongModulus = 32
    Outcomes = {0, 1}
    Families <- DeadExit
INVARIANT Total
\* A function ends.
CHECK_DEADLOCK FALSE
