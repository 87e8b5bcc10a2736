CONSTANTS
    Main = main
    Worker = worker
    Handler = handler
    Backend = backend
    Nobody = nobody
    Done = done
    Threads <- TwoThreads
    Finalizers <- TwoThreads
    Targets <- AnyThread
    Capacity = 2
    MaxEvents = 2
SPECIFICATION FairSpec
INVARIANTS
    TypeOK
    LogInOrder
    CompleteWhenFinalized
PROPERTIES
    LogSealed
    FinalizeReturns
    SendsReturn
\* The process ends.
CHECK_DEADLOCK FALSE
