CONSTANTS
    Irps = {r1, r2}
    Sectors = {a, b}
    Ranges <- MCNonEmpty
    Faults = {"pool", "file", "map", "lower", "online"}
    MaxRestarts = 1
    MaxOnline = 1
    MayRemove = FALSE
    Orig = Orig
    Hole = Hole
    NULL = NULL
SPECIFICATION FairSpec
PROPERTY RequestsEnd
\* The machine may be shut down, or the device removed, at any point.
CHECK_DEADLOCK FALSE
