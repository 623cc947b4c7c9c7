SPECIFICATION Spec
CONSTANTS
    Threads = {t1}
    StoreIds = {a, b, c}
    Items = {x1, x2, x3, x4}
    InitialCapacity = 1
    GenerationMax = 3
    IdentityMax = 2
    None = None
SYMMETRY Symmetry
INVARIANTS LookupExact TableConsistent ItemsOnce
CHECK_DEADLOCK FALSE
