\* Two candidates: one may be given up while the next one starts.
CONSTANTS
    Candidates = {c1, c2}
    None = None
    CacheEnabled = FALSE
    MaxAccount = 0

SPECIFICATION Spec

INVARIANTS
    Supervised
    OneProviderAtWork
    RecordTellsWhatIsShown
    ShutdownComplete

PROPERTIES
    OnlyRecoveryRevives

\* A daemon that has ended stops.
CHECK_DEADLOCK FALSE
