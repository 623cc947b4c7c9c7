CONSTANT
    Programs <- MCPrograms
SPECIFICATION Spec
INVARIANTS ImportsDenote ReferencesExact Encapsulated
CHECK_DEADLOCK FALSE
