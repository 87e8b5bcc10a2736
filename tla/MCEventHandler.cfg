CONSTANTS
    Main = main
    Worker = worker
    Handler = handler
    Backend = backend
    Nobody = nobody
    Done = done
    Threads <- TwoThreads
    Finalizers <- MainOnly
    Targets <- AnyThread
    Capacity = 1
    MaxEvents = 1
SPECIFICATION FairSpec
PROPERTY HandlerSafe
CHECK_DEADLOCK FALSE
