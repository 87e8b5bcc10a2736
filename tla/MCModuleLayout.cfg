CONSTANTS
    Programs <- SomePrograms
    RuntimeName <- Runtime
SPECIFICATION Spec
INVARIANTS
    TypeOK
    Linked
    DependenciesFirst
    Loads
\* A program is refused or written.
CHECK_DEADLOCK FALSE
