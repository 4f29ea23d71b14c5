CONSTANTS
    Keyboards = {k1, k2}
    Reads = {r1, r2}
    Wrap = 4
    Faults = {"create"}
    NULL = NULL
SPECIFICATION Spec
INVARIANT DriverOutlivesDevices
\* The driver may stay loaded, and the machine may stop.
CHECK_DEADLOCK FALSE
