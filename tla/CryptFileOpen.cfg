CONSTANTS
    Secure = {s1, s2}
    Normal = {n1, n2}
SYMMETRY MCSymmetry
SPECIFICATION Spec
INVARIANTS
    TypeOK
    ListedExcludesNormal
    ViewIsForm
    CacheIsForm
    ListedIsUsed
\* Nothing need be opened, and with the lock kept nothing can be.
CHECK_DEADLOCK FALSE
