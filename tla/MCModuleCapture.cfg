CONSTANTS
    Programs <- LinkPrograms
    RuntimeName <- Runtime
SPECIFICATION Spec
INVARIANTS
    ResolvesThere
CHECK_DEADLOCK FALSE
