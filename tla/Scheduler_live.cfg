\* Starvation freedom: no high priority tasks.
SPECIFICATION FairSpec
CONSTANTS
    main = main
    server = server
    worker = worker
    Tasks <- MCTasks
    Main <- main
    Server <- server
    None = None
    Handles <- MCHandles
    WhenEmpty = TRUE
    HighPriority = FALSE
    EarlyReturn = FALSE
    AbortUnseen = FALSE
PROPERTIES
    AbortCompletes
    ImplementsExecutor
