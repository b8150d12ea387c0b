SPECIFICATION Spec
CONSTANTS
    t1 = t1
    t2 = t2
    t3 = t3
    t4 = t4
    t5 = t5
    m1 = m1
    m2 = m2
INVARIANTS
    TypeOK
    NobodyForgotten WaitListSound
    Exclusion EventsMatch FreeIsOffered OneOwner TokensConserved
PROPERTIES
    PassesNotification WaitsEnd
CHECK_DEADLOCK FALSE
