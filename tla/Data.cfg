SPECIFICATION Spec
CONSTANTS
    None = None
    t1 = t1
    t2 = t2
    t3 = t3
    t4 = t4
    t5 = t5
    b1 = b1
    b2 = b2
    b3 = b3
    s1 = s1
    s2 = s2
    r1 = r1
    r2 = r2
INVARIANTS
    TypeOK FreeListExact GrammarExact DecodesUtf16 ReportsSchema BufferHolds OwnedOnce
SYMMETRY TaskSymmetry
CHECK_DEADLOCK FALSE
