\* A yield_cpu future as one branch of a select.
SPECIFICATION Spec
CONSTANTS
    main = main
    server = server
    worker = worker
    Tasks <- MCTasks
    Main <- main
    Server <- server
    None = None
    Handles <- MCHandles
    WhenEmpty = TRUE
    HighPriority = TRUE
    EarlyReturn = TRUE
    AbortUnseen = FALSE
INVARIANTS
    NeverRepolled
