\* Tasks may finish while a ready list or a request still refers to them.
SPECIFICATION Spec
CONSTANTS
    Tasks = {main, worker}
    Main = main
    WhenEmpty = TRUE
    StrayRefs = TRUE
    ForeignWakers = FALSE
    CallbackDrops = FALSE
INVARIANT SingleBorrow
CHECK_DEADLOCK FALSE
