CONSTANTS
    Threads = {c, u, v}
    Clearers = {c, u}
    Nobody = Nobody
    Granted = Granted
    Calls = {"plain", "starve"}
    MaxDepth = 2
    MaxUses = 2
SPECIFICATION CacheFairSpec
CHECK_DEADLOCK FALSE
INVARIANT NobodyElse
PROPERTIES ReleasesWhatItTook ClearEnds
