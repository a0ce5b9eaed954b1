\* A provider that closes shortly before the stop.
CONSTANTS
    Candidates = {c1}
    None = None
    CacheEnabled = FALSE
    MaxAccount = 0

SPECIFICATION Spec

INVARIANTS
    SessionRemoved

\* A daemon that has ended stops.
CHECK_DEADLOCK FALSE
