CONSTANTS
    Programs = {s1, s2, r}
    Receivers = {r}
    NoOne = NoOne
    StrLenMax = 2
    Lengths <- MCLengths
    OutLens <- MCOutLens
    MaxList = 2
    MaxLoads = 2
SPECIFICATION FairSpec
INVARIANTS
    TypeOK
    WakeupOnItsWay
PROPERTY StringsArrive
\* Programs may stop sending while another waits for a string.
CHECK_DEADLOCK FALSE
