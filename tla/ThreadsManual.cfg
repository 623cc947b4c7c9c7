\* The manual's promise that nothing is destroyed twice.
SPECIFICATION Spec
CONSTANTS
    Main = Main
    Kids = {k1, k2}
    None = None
INVARIANT NoDoubleDestruction
CHECK_DEADLOCK FALSE
