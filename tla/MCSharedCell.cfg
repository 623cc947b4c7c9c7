SPECIFICATION Spec
CONSTANTS
    Threads = {t1, t2, t3}
    SharedIds = {h1, h2, h3, h4}
    WeakIds = {w1, w2, w3, w4}
    CountMax = 4
    None = None
SYMMETRY Symmetry
INVARIANTS CountsAgree ValueOutlivesOwners BlockOutlivesHandles Reclaimed
CHECK_DEADLOCK FALSE
