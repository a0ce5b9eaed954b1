CONSTANTS
    Candidates = {c1}
    None = None
    CacheEnabled = FALSE
    MaxAccount = 0

SPECIFICATION FairSpec

PROPERTIES
    KeepsTrying
    ShutdownTerminates

\* A daemon that has ended stops.
CHECK_DEADLOCK FALSE
