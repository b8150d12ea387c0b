\* Three tasks, every call, high priority included; yields return at once.
SPECIFICATION Spec
CONSTANTS
    main = main
    server = server
    worker = worker
    Tasks <- MCTasks
    Main <- main
    Server <- server
    None = None
    Handles <- MCHandles
    WhenEmpty = TRUE
    HighPriority = TRUE
    EarlyReturn = FALSE
    AbortUnseen = FALSE
INVARIANTS
    TypeOK
    ListsAgree
    QueuedOnce
    NeverRepolled
    BlocksOnlyIdle
    NoJoinerLeftBehind
