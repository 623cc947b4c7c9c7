SPECIFICATION Spec
CONSTANTS
    Binding <- MCBinding
    Shape <- MCShape
    Parameters <- MCParameters
    Programs <- SoundPrograms
    Signature <- MCSignature
    Loans <- MCLoans
    MaxIterations = 2
INVARIANTS AccessSound DestroyedOnce DefersRunOnce BorrowsValid
