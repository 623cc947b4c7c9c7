CONSTANTS MaxAsked = 3
Environments <- MCEnvironments
SPECIFICATION Spec
INVARIANTS OwnershipExact PlanComplete
CHECK_DEADLOCK FALSE
