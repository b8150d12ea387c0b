SPECIFICATION Spec
CONSTANTS
    f1 = f1
    f2 = f2
    Futures = {f1, f2}
    Slots = {s1, s2}
    Scopes = {c1}
    Kinds <- MCKinds
    MaxPool = 1
    MaxQueue = 0
    None = None
PROPERTY ScopeCompletesAll
