SPECIFICATION Spec
CONSTANTS
    Main = Main
    Kids = {k1, k2}
    MaxScopes <- MCMaxScopes
    Modulus = 2
    None = None
SYMMETRY Symmetry
INVARIANTS ScopeSound CellsExact BlockedByGuards
CHECK_DEADLOCK FALSE
