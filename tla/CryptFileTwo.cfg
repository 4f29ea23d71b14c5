CONSTANTS
    Secure = {s1, s2}
    Normal = {}
SYMMETRY MCSymmetry
SPECIFICATION Spec
INVARIANTS
    LockReleased
CHECK_DEADLOCK FALSE
