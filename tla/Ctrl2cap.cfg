CONSTANTS
    Keyboards = {k1, k2}
    Reads = {r1, r2}
    Wrap = 4
    Faults = {"open", "create", "attach"}
    NULL = NULL
SPECIFICATION FairSpec
INVARIANTS
    TypeOK
    CountIsInFlight
    CodeIsLoaded
    StacksAreLive
PROPERTY UnloadEnds
\* The driver may stay loaded, and the machine may stop.
CHECK_DEADLOCK FALSE
