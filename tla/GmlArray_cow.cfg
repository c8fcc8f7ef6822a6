SPECIFICATION Spec
CONSTANTS
    g1 = g1
    g2 = g2
    Shapes <- MCShapes
    Globals = {g1, g2}
    Local = l
    Arg = p
    Tokens = {t1}
    NoOwner = none
    Zero = zero
    One = one
    MaxArrays = 3
    MaxLength = 2
    Indices = {2}
    MaxStack = 3
    MaxSteps = 7
INVARIANTS
    TypeOK
    CountsOwners
    ChainsAreForked
PROPERTY OthersKeepWhatTheySee
SYMMETRY MCSymmetry
CHECK_DEADLOCK FALSE
