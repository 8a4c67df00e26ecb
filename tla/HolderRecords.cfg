SPECIFICATION Spec
CONSTANTS
    Callers = {c1}
    Keys = {k1, k2}
    MaxGen = 2
    MaxSerial = 2
    None = none
INVARIANTS
    LockedOutOnlyWhenTorn
    BoundaryIsWhole
PROPERTIES
    WaitFailsClosed
SYMMETRY KeySymmetry
CHECK_DEADLOCK FALSE
