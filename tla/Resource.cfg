CONSTANTS
    Threads = {t1, t2, t3}
    Nobody = Nobody
    Granted = Granted
    Calls = {"plain", "late"}
    MaxDepth = 2
SPECIFICATION FairSpec
INVARIANTS TypeOK CountsAreTrue
PROPERTIES WaitersServed ImplementsLock
