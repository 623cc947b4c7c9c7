\* Main and two more threads: enough for a grandchild that is created during
\* the shutdown, for a join that races it and for a circle of joins.
SPECIFICATION FairSpec
CONSTANTS
    Main = Main
    Kids = {k1, k2}
    None = None
INVARIANTS ExitConsistent SafeUntilShutdown
PROPERTIES ResultTakenOnce ShutdownEnds
CHECK_DEADLOCK FALSE
