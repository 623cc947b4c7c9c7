CONSTANTS
    Names = {a, b}
    Keys <- MCKeys
    Indices <- MCIndices
    Literals = {0, 2}
    Equals <- Equal
    HashOf <- Hash
    OrderOf <- Order
    MeaningOf <- Meaning
    ItemValue <- Number
    Absent = Absent
    None = None
    NaN = NaN
    FirstCapacity = 1
    MaxWord = 3
    MaxEntries = 3
SPECIFICATION Spec
INVARIANTS OwnedOnce
PROPERTY ImplementsCollections
CHECK_DEADLOCK FALSE
SYMMETRY Symmetry
