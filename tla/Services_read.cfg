SPECIFICATION Spec
CONSTANTS
    None = None
    MaxClocks = 1
    FlightSizes = {2}
    f1 = f1
    f2 = f2
    t1 = t1
    t2 = t2
    r1 = r1
    c1 = c1
    c2 = c2
    v1 = v1
    v2 = v2
    l1 = l1
    l2 = l2
    l3 = l3
PROPERTY ReadEnds
CHECK_DEADLOCK FALSE
