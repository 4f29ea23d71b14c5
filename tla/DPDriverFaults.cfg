CONSTANTS
    Irps = {r1, r2}
    Sectors = {a, b}
    Ranges <- MCAllRanges
    Faults = {"pool", "file", "lower", "online"}
    MaxRestarts = 1
    MaxOnline = 1
    MayRemove = TRUE
    Orig = Orig
    Hole = Hole
    NULL = NULL
SPECIFICATION Spec
SYMMETRY MCSymmetry
INVARIANTS
    TypeOK
    NoLostWakeup
    DiskProtected
    BitmapHasData
    ReadsAreCurrent
    ClearMeansDisk
PROPERTY ImplementsVolume
\* The machine may be shut down, or the device removed, at any point.
CHECK_DEADLOCK FALSE
