CONSTANTS
    Threads = {t1, t2, t3}
    Refs = {r1, r2}
    Number = 2
    Kinds = {"plain", "aware"}
    MaxCount = 2
    Again = {"plain"}
    Quiet = TRUE
SPECIFICATION FairSpec
INVARIANTS TypeOK NobodyLeft BlockIsAlive
PROPERTIES WaitEnds ImplementsProtection
