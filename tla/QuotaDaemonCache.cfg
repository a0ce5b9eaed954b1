\* The restart cache, and two changes of the account.
CONSTANTS
    Candidates = {c1}
    None = None
    CacheEnabled = TRUE
    MaxAccount = 2

SPECIFICATION Spec

INVARIANTS
    CacheOfItsAccount
    CachedForCurrentAccount

PROPERTIES
    CachedComesFirst

\* A daemon that has ended stops.
CHECK_DEADLOCK FALSE
